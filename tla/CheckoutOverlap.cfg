SPECIFICATION Spec
CONSTANTS
    Nil = Nil
    Requests = {r1}
    Handlers = {h1, h2}
    Plans = {p1}
    MaxAttempts = 1
    MaxChanges = 1
    MaxSeconds = 4
    MaxFaults = 0
SYMMETRY Symmetry
PROPERTIES
    NeverAnOlderEvent
\* Attempt ids, changes and faults are bounded: the system stops when they
\* are used up.
CHECK_DEADLOCK FALSE
