SPECIFICATION FairSpec
CONSTANTS
    Tracer = {t1}
    Profiler = {}
    BatchTicks = 2
PROPERTY TracerStopReturns
CHECK_DEADLOCK FALSE
