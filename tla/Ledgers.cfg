SPECIFICATION Spec
CONSTANTS
    None = None
    Members = {m1}
    Capacity = 2
    MaxAttempts = 2
    MaxChanges = 1
    MaxFailures = 1
    NoJob = NoJob
    Clients = {c1, c2}
    EventKinds = {"EMAIL_SENT", "REPLY_RECEIVED", "AUTO_REPLY_RECEIVED", "LEAD_UNSUBSCRIBED"}
    MaxTime = 3
    MaxEvents = 2
    Replies = {e1, e2}
    Evaluators = {v1, v2}
    ResolutionLimit = 2
    MaxEvaluations = 3
    NoVerdict = NoVerdict
    NoOpportunity = NoOpportunity
    NoAppend = NoAppend
    Writers = {w1, w2}
    Outcomes = {"SENT", "CHURNED"}
    Repeats = 1
    MaxEventsInStream = 6
    Calls = {k1, k2}
    DailyBudget = 3
    MaxEstimate = 2
    LastDay = 2
CONSTRAINT ChangedOrClosed
INVARIANTS
    
    
    
    EffectsMatchVerdict
    StreamSound
    
PROPERTIES
    ConfirmationsTrue
    OutcomesStand
\* Time, changes, failures and events are bounded: the parts stop when they
\* are used up.
CHECK_DEADLOCK FALSE
