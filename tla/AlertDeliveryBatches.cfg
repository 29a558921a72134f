SPECIFICATION FairSpec
CONSTANTS
    Nil = Nil
    NAccounts = 1
    Signals = {s1, s2}
    Cycles = {c1, c2}
    Contexts = {x1, x2}
    MaxSignals = 2
    MaxAttempts = 2
    MaxChanges = 1
    MaxFaults = 2
    MaxDisturbances = 2
INVARIANTS
    TypeOK
    NoPoisonBatch
    MailedUnderItsContext
PROPERTIES
    KeepsPromise
    AlertSettles
