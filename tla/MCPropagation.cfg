SPECIFICATION Spec
CONSTANTS
    Entry <- MCEntry
    Key <- MCKey
    Value = {"1", "2"}
    Lower <- MCLower
    KeyLen <- MCKeyLen
    AppID = "apmplus.app_id"
    Origin = "apmplus.origin"
    Weight = {1, 5}
    MinInt32 <- MCMinInt32
    MaxProcess = 3
    MaxSets = 2
INVARIANTS Connected SameDecision BaggageKept
CHECK_DEADLOCK FALSE
