-------------------------------- MODULE Varint --------------------------------
(***************************************************************************)
(* Numbers and lengths as the generated code of every message writes and   *)
(* reads them. A wire is a sequence of bytes. Positions are those of the   *)
(* wire d; a reading is what was read with the position after it, and an   *)
(* error is at position 0.                                                 *)
(***************************************************************************)
EXTENDS Integers, Sequences, FiniteSetsExt

\* v >>= 7, again and again, where v is x as a uint64: \div rounds down, which
\* is the shift of the two's complement of a negative number. Of the 64 bits of
\* such a number the sign is left after nine shifts.
Shifted(x) == LET v[k \in 0..9] == IF k = 0 THEN x ELSE v[k - 1] \div 128 IN v

\* sovSettings: how many shifts it takes until nothing is left.
Sov(x) == IF x < 0 THEN 10 ELSE Min({n \in 1..9 : Shifted(x)[n] = 0})

\* encodeVarintSettings: how often its loop runs, and what it writes.
Loops(x) == IF x < 0 THEN 9 ELSE Min({k \in 0..8 : Shifted(x)[k] < 128})
EncodeVarint(x) ==
    LET n == Loops(x)
    IN [i \in 1..(n + 1) |-> IF i <= n THEN 128 + (Shifted(x)[i - 1] % 128)
                             ELSE IF x < 0 THEN 1 ELSE Shifted(x)[n]]
-----------------------------------------------------------------------------
Read(v, next) == [v |-> v, next |-> next]
Bad == Read(0, 0)
IsBad(r) == r.next = 0

\* The loop over shift: at most ten bytes, the last of them below 128; of the
\* tenth one bit finds place, the sign.
ReadVarint(d, i) ==
    LET ends == {j \in i..(i + 9) : j <= Len(d) /\ d[j] < 128}
        e == Min(ends)
        value[j \in i..e] == IF j = i + 9 THEN 0 - (d[j] % 2)
                             ELSE (d[j] % 128) + (IF j = e THEN 0 ELSE 128 * value[j + 1])
    IN IF ends = {} THEN Bad ELSE Read(value[i], e + 1)

\* The bytes after a length n, which must be there. The sum is a Go int, which
\* overflows for a length near 2^63, where the slice expression would panic; no
\* message, whole or cut, has such a length. (Fault: those that are there.)
BytesAfter_Short(d, n) ==
    IF IsBad(n) \/ n.v < 0 THEN Bad
    ELSE Read(SubSeq(d, n.next, IF n.next + n.v - 1 > Len(d) THEN Len(d)
                                ELSE n.next + n.v - 1), n.next + n.v)
BytesAfter(d, n) ==
    IF IsBad(n) \/ n.v < 0 \/ n.next + n.v - 1 > Len(d) THEN Bad
    ELSE Read(SubSeq(d, n.next, n.next + n.v - 1), n.next + n.v)
ReadBytes(d, i) == BytesAfter(d, ReadVarint(d, i))
=============================================================================
