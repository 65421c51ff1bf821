CONSTANTS
    Natives = {n1}
    Ollamas = {}
    Proposers = {p1}
    Embeds = {}
    Loaders = {l1}
    EmbedLoaders = {}
    Tuners = {t1}
    Closers = {x1}
    Runners = {r1, r2}
    MaxRequests = 2
    Baseline = Baseline
    Trial = Trial
    None = None
SPECIFICATION LiveSpec
CHECK_DEADLOCK FALSE
PROPERTY LockTurns
