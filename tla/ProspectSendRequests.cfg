SPECIFICATION Spec
CONSTANTS
    Nil = Nil
    Requests = {r1, r2}
    Targets = {t1}
    Workers = {w1, w2}
    Emails = {t1}
    EmailOf <- OwnMailbox
    Cap = 2
    MaxVersion = 4
    MaxFaults = 1
SYMMETRY ActorSymmetry
INVARIANTS
    ReservationHeld
    MailedOnce
\* Edits and faults are bounded: the system stops when they are used up.
CHECK_DEADLOCK FALSE
