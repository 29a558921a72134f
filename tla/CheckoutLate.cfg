SPECIFICATION Spec
CONSTANTS
    Nil = Nil
    Requests = {r1}
    Handlers = {h1}
    Plans = {p1}
    MaxAttempts = 2
    MaxChanges = 0
    MaxSeconds = 2
    MaxFaults = 0
SYMMETRY Symmetry
INVARIANTS
    NoSecondBill
\* Attempt ids, changes and faults are bounded: the system stops when they
\* are used up.
CHECK_DEADLOCK FALSE
