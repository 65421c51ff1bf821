CONSTANTS
    Callers = {c1, c2}
    Tuners = {t1}
    Controllers = {k1}
    Planners = {v1}
    Closers = {x1}
    MaxPending = 1
    None = None
SPECIFICATION LiveSpec
INVARIANTS NoUseAfterClose OneWorkspaceUser AdmissionExact
PROPERTIES TowerHeld ImplementsModelLease CallsReturn
