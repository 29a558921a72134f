SPECIFICATION FairSpec
CONSTANTS
    Nil = Nil
    Requests = {r1, r2}
    Targets = {t1, t2}
    Workers = {w1}
    Emails = {t1, t2}
    EmailOf <- OwnMailbox
    Cap = 1
    MaxVersion = 3
    MaxFaults = 1
INVARIANTS
    CapKept
PROPERTIES
    SendSettles
\* Edits and faults are bounded: the system stops when they are used up.
CHECK_DEADLOCK FALSE
