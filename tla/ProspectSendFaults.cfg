SPECIFICATION Spec
CONSTANTS
    Nil = Nil
    Requests = {r1}
    Targets = {t1, t2}
    Workers = {w1, w2}
    Emails = {t1, t2}
    EmailOf <- OwnMailbox
    Cap = 2
    MaxVersion = 3
    MaxFaults = 2
SYMMETRY ActorSymmetry
CONSTRAINT EditsOrFaults
INVARIANTS
    TypeOK
    NoDuplicateAtProvider
    NoStrandedItem
    
    ActiveOnlyResolved
    
PROPERTIES
    
    OutcomesAreFinal
\* Edits and faults are bounded: the system stops when they are used up.
CHECK_DEADLOCK FALSE
