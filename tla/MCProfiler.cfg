SPECIFICATION FairSpec
CONSTANTS
    Profile <- MCProfile
    RecordType <- MCRecordType
    StartTime <- MCStartTime
    Reply <- MCReply
    Here <- MCHere
    WithTypes <- MCProfile
    TaskChanSize = 1
    OutChanSize = 1
    RetryCount = 1
    Hour = 1
    ExecutionLimit = 2
    MaxNow = 2
INVARIANTS TimedOnce LimitAcrossWindows CleanStop
PROPERTIES StopReturns
CHECK_DEADLOCK FALSE
