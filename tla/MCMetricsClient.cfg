SPECIFICATION MCSpec
CONSTANTS
    Worker = {w1, w2}
    Emitter = {e1, e2}
    Buffer = {b1, b2, b3}
    NoBuffer = NoBuffer
    BatchSize = 2
    MaxPacketSize = 4
    ChanSize = 1
    Sizes = {0, 2, 3, 5}
    MaxItems = 3
INVARIANTS InOnePlace BufferOwned PacketBound NoSendOnClosed CleanClose
PROPERTIES FlushedEventually CloseReturns
CHECK_DEADLOCK FALSE
