CONSTANTS
    Natives = {}
    Ollamas = {o1}
    Proposers = {}
    Embeds = {e1}
    Loaders = {l1, l2}
    EmbedLoaders = {m1}
    Tuners = {t1}
    Closers = {x1, x2}
    Runners = {r1, r2}
    MaxRequests = 2
    Baseline = Baseline
    Trial = Trial
    None = None
SPECIFICATION Spec
SYMMETRY Symmetry
CHECK_DEADLOCK FALSE
INVARIANTS CloseReleases TuningBelongsToModel CallbackNamesServedModel NothingLeaked
PROPERTIES TuningFixedDuringChat ImplementsModelSlots
