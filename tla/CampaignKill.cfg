SPECIFICATION CampaignSpec
CONSTANTS
    None = None
    Members = {m1}
    Capacity = 2
    MaxAttempts = 2
    MaxChanges = 1
    MaxFailures = 1
INVARIANT KillReachesProvider
CHECK_DEADLOCK FALSE
