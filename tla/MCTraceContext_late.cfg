SPECIFICATION Spec
CONSTANTS
    Trace = {t1}
    Span = {s1, s2}
    Goroutine = {g1, g2}
    Annotator = {}
    Types = {"server"}
    Statuses = {0}
    Panics = {FALSE}
    ChanSize = 1
    HasMetrics = FALSE
    ControlEnable = FALSE
    NoTrace = NoTrace
    NoSpan = NoSpan
INVARIANT EmittedSpansFinished
CHECK_DEADLOCK FALSE
