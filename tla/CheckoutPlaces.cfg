SPECIFICATION Spec
CONSTANTS
    Nil = Nil
    Requests = {r1, r2}
    Handlers = {h1}
    Plans = {p1}
    MaxAttempts = 3
    MaxChanges = 0
    MaxSeconds = 2
    MaxFaults = 1
SYMMETRY Symmetry
INVARIANTS
    TypeOK
    OnePayableSession
\* Attempt ids, changes and faults are bounded: the system stops when they
\* are used up.
CHECK_DEADLOCK FALSE
