CONSTANTS
    Requests = {q1, q2}
    StaticPrefixes = {1, 2, 3}
    Length <- MCLength
    Formats = {1, 2}
    Limits = {3}
    MaxEntries = 2
    MaxEpoch = 3
    Tabs = {t1, t2}
    Edits = {e1, e2}
    Torn = Torn
    Writers = {w1, w2}
    Docs = {d1, d2}
    DirDocs = {d2}
    Texts = {x1}
    Clients = {a1, a2}
    Sessions = {s1, s2}
    Models = {m1, m2, m3}
    Paths = {p1, p2}
    MaxConcurrent = 2
    None = None
    Tok = {1, 2}
    Prompts <- MCPrompts
    MaxTokensSet = {1, 5}
    MaxSeqLen = 7
    MaxDraft = 3
    PenaltyWindow = 2
    Choice <- MCChoice
SPECIFICATION SpecOne
SYMMETRY Symmetry
INVARIANTS
    PrefixCacheExact
    HistoryWhole
    SnapshotCurrent
    SessionsTracked
    ModelOwned
    CommittedStateMatches
PROPERTIES
    FenceHolds
    EditsKept
    SpeculationIsLossless
