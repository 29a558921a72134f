SPECIFICATION ResponseSpec
CONSTANTS
    Replies = {e1}
    Evaluators = {v1}
    ResolutionLimit = 3
    MaxEvaluations = 4
    NoVerdict = NoVerdict
INVARIANTS ExhaustedIsFinal
CHECK_DEADLOCK FALSE
