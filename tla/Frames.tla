-------------------------------- MODULE Frames --------------------------------
(***************************************************************************)
(* The frames in which traces and logs travel to the agent: a prefix with  *)
(* the sender's header (sendworker/encoder.go), and messages one after     *)
(* another, each behind its size. The agent is external: its reading is    *)
(* the layout documented at Encode.                                        *)
(***************************************************************************)
EXTENDS Integers, Sequences

\* binary.LittleEndian.PutUint32, and its inverse.
LE32(n) == <<n % 256, (n \div 256) % 256, (n \div 65536) % 256, (n \div 16777216) % 256>>
UInt32(d, i) == d[i] + 256 * d[i + 1] + 65536 * d[i + 2] + 16777216 * d[i + 3]

CommonPrefixLen == 6
Version1DataPrefixLen == 13
GetPrefixLen(header) == CommonPrefixLen + Version1DataPrefixLen + Len(header)

\* The payload begins with room for the prefix.
EncodePreAllocated(payload, header) ==
    LET bodyOffset == Version1DataPrefixLen + Len(header)
        bodyLen == Len(payload) - GetPrefixLen(header)
        prefix == <<99, 124>> \o LE32(Len(payload) - CommonPrefixLen) \o <<1>>
                      \o LE32(bodyOffset) \o LE32(bodyLen) \o LE32(Len(header)) \o header
    IN IF bodyLen < 0 THEN payload
       ELSE prefix \o SubSeq(payload, GetPrefixLen(header) + 1, Len(payload))

\* sendLoop puts marshalled messages into a batch, one append after another.
SizePrefixed(p) == LE32(Len(p)) \o p
Batch(parts) ==
    LET b[k \in 0..Len(parts)] == IF k = 0 THEN <<>> ELSE b[k - 1] \o SizePrefixed(parts[k])
    IN b[Len(parts)]
-----------------------------------------------------------------------------
\* The agent: the body of a frame, and the messages in a body; start[k] is where
\* the one after the first k begins.
FrameBody(d) == SubSeq(d, CommonPrefixLen + UInt32(d, 8) + 1,
                       CommonPrefixLen + UInt32(d, 8) + UInt32(d, 12))
Split(body) ==
    LET start[k \in 0..Len(body)] ==
            IF k = 0 THEN 1
            ELSE LET i == start[k - 1]
                 IN IF i > Len(body) THEN i ELSE i + 4 + UInt32(body, i)
        n == CHOOSE k \in 0..Len(body) :
                 start[k] > Len(body) /\ \A j \in 0..(k - 1) : start[j] <= Len(body)
    IN [k \in 1..n |-> SubSeq(body, start[k - 1] + 4, start[k] - 1)]
=============================================================================
