CONSTANTS
    Generators = {g1, g2}
    Counters = {c1}
    Loaders = {l1}
    Releasers = {x1}
    Models = {m1, m2}
    None = None
SPECIFICATION LiveSpec
INVARIANT CancelTargetsRunning
PROPERTIES ImplementsModelSlot CallsReturn
