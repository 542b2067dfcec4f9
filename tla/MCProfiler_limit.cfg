SPECIFICATION Spec
CONSTANTS
    Profile <- LimitProfile
    RecordType <- LimitRecordType
    StartTime <- LimitStartTime
    Reply <- LimitReply
    Here <- LimitProfile
    WithTypes <- LimitProfile
    TaskChanSize = 5
    OutChanSize = 1
    RetryCount = 0
    Hour = 2
    ExecutionLimit = 3
    MaxNow = 3
INVARIANT LimitPerHour
CHECK_DEADLOCK FALSE
