SPECIFICATION FairSpec
CONSTANTS
    Nil = Nil
    Requests = {r1}
    Handlers = {h1}
    Plans = {p1}
    MaxAttempts = 2
    MaxChanges = 1
    MaxSeconds = 4
    MaxFaults = 1

    
PROPERTIES
    
    PaidLeadsToAccess
\* Attempt ids, changes and faults are bounded: the system stops when they
\* are used up.
CHECK_DEADLOCK FALSE
