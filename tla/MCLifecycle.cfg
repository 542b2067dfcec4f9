SPECIFICATION FairSpec
CONSTANTS
    Tracer = {t1, t2}
    Profiler = {p1}
    BatchTicks = 2
INVARIANTS RegisteredOnce NoCallAfterStop
PROPERTY RegisterStops
CHECK_DEADLOCK FALSE
