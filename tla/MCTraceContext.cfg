SPECIFICATION FairSpec
CONSTANTS
    Trace = {t1}
    Span = {s1, s2, s3}
    Goroutine = {g1, g2}
    Annotator = {}
    Types = {"server"}
    Statuses = {0}
    Panics = {FALSE}
    ChanSize = 1
    HasMetrics = TRUE
    ControlEnable = FALSE
    NoTrace = NoTrace
    NoSpan = NoSpan
INVARIANTS IndInv NoSpanStranded ExportedOnce
PROPERTIES FinishReturns FinishedTraceOffered ImplementsExport
CHECK_DEADLOCK FALSE
