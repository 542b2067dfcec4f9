SPECIFICATION Spec
CONSTANTS
    Trace = {t1, t2}
    Span = {s1, s2}
    Goroutine = {g1, g2}
    Annotator = {a1}
    Types = {"client"}
    Statuses = {0, 1}
    Panics = {FALSE, TRUE}
    ChanSize = 1
    HasMetrics = TRUE
    ControlEnable = TRUE
    NoTrace = NoTrace
    NoSpan = NoSpan
SYMMETRY Symmetric
INVARIANTS CompleteUnlessLate
CHECK_DEADLOCK FALSE
