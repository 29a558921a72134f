SPECIFICATION Spec
CONSTANTS
    Nil = Nil
    NKeys = 1
    NStages = 2
    Paid = {1}
    Handoff = {2}
    CallCost = 1
    MaxCost = 3
    Runs = {r1, r2}
    MaxGeneration = 3
    MaxRunFaults = 2
    NoRow = NoRow
    NoOrg = NoOrg
    Nobody = Nobody
    Requests = {q1, q2}
    Orgs = {o1, o2}
    Quota = 1
    Matches = 1
    Months = 2
    MaxRebinds = 2
    Sentences = {f1, f2}
    Generators = {g1, g2, g3}
    BatchLimit = 2
    MaxRetirements = 2
    LastDate = 3
    PerDay = 2
    MaxNotices = 3
    Overlap = 1
    Lookback = 1
    PageSize = 1
SYMMETRY Symmetry
CONSTRAINT AbandonedOrFaulty
INVARIANTS
    CallsCovered
    FencedCalls
    CheckpointExact
    NoTerminalRestart
    ResultsBelong
    OneLateCall
    SpentWithinQuota
    NothingSkipped
PROPERTIES
    BoughtOnce
    
\* Generations, months, days and changes are bounded: the parts stop when they are
\* used up.
CHECK_DEADLOCK FALSE
