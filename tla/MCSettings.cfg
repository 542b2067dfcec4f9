SPECIFICATION FairSpec
CONSTANTS
    Second = 4
    MaxDuration = 6
    AgentSettings <- MCAgentSettings
    Now0 = 7
    MaxNow = 9
    MaxCalls = 4
INVARIANTS IndInv WeightsAccount RateBound PanicsOutOfRange
PROPERTIES FailureKeepsSampling Converges
CHECK_DEADLOCK FALSE
