CONSTANTS
    Dispatchers = {d1, d2}
    PoolSizes = {2, 3}
    Units = {2}
    RowCounts = {7}
    Batching = {TRUE, FALSE}
    Pools = {p1, p2}
    Objects = {o1, o2}
    Over = 2
    None = None
SPECIFICATION LiveSpec
PROPERTY ReplacementEnds
