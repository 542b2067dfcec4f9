------------------------------- MODULE Protobuf -------------------------------
(***************************************************************************)
(* The generated Size, Marshal and Unmarshal functions of every message of *)
(* the SDK: one interpreter of the tables of fields the functions differ   *)
(* in, over the numbers and lengths of Varint. A result that may be an     *)
(* error is a sequence of at most one value.                               *)
(*                                                                         *)
(* TLC's integers have 32 bits: its runs read numbers below 2^28, which    *)
(* take at most four bytes, and negative ones, which take ten.             *)
(***************************************************************************)
EXTENDS ProtoFields, Varint, SequencesExt

CONSTANTS Sizes, Marshals, Unmarshals  \* message name -> rows

Collects(kind) == kind.k \in {"opt", "rep", "map"}
Elements(kind, v) == IF Collects(kind) THEN v ELSE <<v>>
ElementKind(kind) == IF Collects(kind) THEN kind.of ELSE kind

Total(Op(_), s) == FoldLeft(LAMBDA a, x : a + Op(x), 0, s)
Concat(Op(_), s) == FoldLeft(LAMBDA a, x : a \o Op(x), <<>>, s)
-----------------------------------------------------------------------------
WireType(kind) ==
    CASE kind.k \in {"varint", "bool"} -> 0
      [] kind.k = "fixed" -> 1
      [] OTHER -> 2

Key(num, kind) == EncodeVarint(8 * num + WireType(ElementKind(kind)))

\* M.Size
RECURSIVE SizeOf(_, _), BodySize(_, _)
Prefixed(n) == Sov(n) + n
BodySize(kind, v) ==
    CASE kind.k = "varint" -> Sov(v)
      [] kind.k = "bool"   -> 1
      [] kind.k = "fixed"  -> 8
      [] kind.k = "bytes"  -> Prefixed(Len(v))
      [] kind.k = "msg"    -> Prefixed(SizeOf(kind.of, v))
      [] kind.k = "entry"  -> Prefixed(1 + BodySize(Bytes, v[1]) + 1 + BodySize(kind.of, v[2]))
SizeOf(name, m) ==
    LET FieldSize(r) == Total(LAMBDA e : r.key + BodySize(ElementKind(r.kind), e),
                              Elements(r.kind, m[r.num]))
    IN Total(FieldSize, Sizes[name])

\* M.MarshalTo returns an error at a required pointer that is nil.
RECURSIVE Missing(_, _)
Missing(name, m) ==
    \E i \in DOMAIN Marshals[name] :
        LET r == Marshals[name][i] IN
        \/ r.req /\ m[r.num] = <<>>
        \/ /\ ElementKind(r.kind).k = "msg"
           /\ \E j \in DOMAIN m[r.num] : Missing(ElementKind(r.kind).of, m[r.num][j])

\* What M.MarshalTo writes: the length in front of a message is its Size.
RECURSIVE Written(_, _), Body(_, _)
Body(kind, v) ==
    CASE kind.k = "varint" -> EncodeVarint(v)
      [] kind.k = "bool"   -> <<IF v THEN 1 ELSE 0>>
      [] kind.k = "fixed"  -> v
      [] kind.k = "bytes"  -> EncodeVarint(Len(v)) \o v
      [] kind.k = "msg"    -> EncodeVarint(SizeOf(kind.of, v)) \o Written(kind.of, v)
      [] kind.k = "entry"  ->
             EncodeVarint(1 + BodySize(Bytes, v[1]) + 1 + BodySize(kind.of, v[2]))
                 \o Key(1, Bytes) \o Body(Bytes, v[1]) \o Key(2, kind.of) \o Body(kind.of, v[2])
WrittenField(r, v) == Concat(LAMBDA e : Key(r.num, r.kind) \o Body(ElementKind(r.kind), e),
                             Elements(r.kind, v))
Written(name, m) == Concat(LAMBDA r : WrittenField(r, m[r.num]), Marshals[name])

\* M.Marshal
Marshal(name, m) == IF Missing(name, m) THEN <<>> ELSE <<Written(name, m)>>
-----------------------------------------------------------------------------
\* skipSettings: the position after the field with the key t, which may lie
\* beyond d, and after the fields from that key to the end of their group.
PastLength(n) == IF IsBad(n) \/ n.v < 0 THEN 0 ELSE n.next + n.v
RECURSIVE Skip(_, _), SkipGroup(_, _)
SkipGroup(d, t) ==
    IF IsBad(t) THEN 0
    ELSE IF t.v % 8 = 4 THEN t.next
    ELSE LET n == Skip(d, t) IN IF n = 0 THEN 0 ELSE SkipGroup(d, ReadVarint(d, n))
Skip(d, t) ==
    IF IsBad(t) THEN 0
    ELSE CASE t.v % 8 = 0 -> ReadVarint(d, t.next).next
           [] t.v % 8 = 1 -> t.next + 8
           [] t.v % 8 = 2 -> PastLength(ReadVarint(d, t.next))
           [] t.v % 8 = 3 -> SkipGroup(d, ReadVarint(d, t.next))
           [] t.v % 8 = 4 -> t.next
           [] t.v % 8 = 5 -> t.next + 4
           [] OTHER  -> 0
Within(n, last) == IF n - 1 > last THEN 0 ELSE n

\* &M{}
Zero(kind) ==
    CASE kind.k = "varint" -> 0
      [] kind.k = "bool"   -> FALSE
      [] kind.k = "fixed"  -> [i \in 1..8 |-> 0]
      [] kind.k = "msg"    -> [n \in {r.num : r \in ToSet(Unmarshals[kind.of])} |->
             LET f == (CHOOSE r \in ToSet(Unmarshals[kind.of]) : r.num = n).kind
             IN CASE f.k = "varint" -> 0
                  [] f.k = "bool"   -> FALSE
                  [] f.k = "fixed"  -> [i \in 1..8 |-> 0]
                  [] OTHER -> <<>>]
      [] OTHER -> <<>>

\* A message that was read, or nothing, for the field that ends before next.
Whole(m, next) == IF m = <<>> THEN Bad ELSE Read(m[1], next)

\* A map entry: its own loop, which looks at neither the wire types nor, for
\* the key and the value, the end of the entry. (Two values in one entry, which
\* the code would join bit by bit, do not occur here.)
RECURSIVE Fields(_, _, _, _, _), ReadBody(_, _, _, _), ReadEntry(_, _, _, _, _)
EntryField(d, t, last, kind, e) ==
    LET num == t.v \div 8
        r == ReadBody(d, t.next, IF num = 1 THEN Bytes ELSE kind, Zero(kind))
    IN IF IsBad(t) THEN <<>>
       ELSE IF num \in {1, 2} THEN ReadEntry(d, r.next, last, kind, [e EXCEPT ![num] = r.v])
       ELSE ReadEntry(d, Within(Skip(d, t), last), last, kind, e)
ReadEntry(d, i, last, kind, e) ==
    IF i = 0 THEN <<>>
    ELSE IF i > last THEN <<e>>
    ELSE EntryField(d, ReadVarint(d, i), last, kind, e)

\* The value at i; a message is read into old.
ReadMessage(name, old, b) ==
    IF IsBad(b) THEN Bad ELSE Whole(Fields(name, old, {}, b.v, 1), b.next)
ReadPair(d, kind, b) ==
    IF IsBad(b) THEN Bad
    ELSE Whole(ReadEntry(d, b.next - Len(b.v), b.next - 1, kind, <<<<>>, Zero(kind)>>), b.next)
AsBool(n) == Read(n.v # 0, n.next)
ReadBody(d, i, kind, old) ==
    CASE kind.k = "varint" -> ReadVarint(d, i)
      [] kind.k = "bool"   -> AsBool(ReadVarint(d, i))
      [] kind.k = "fixed"  -> IF i + 7 > Len(d) THEN Bad ELSE Read(SubSeq(d, i, i + 7), i + 8)
      [] kind.k = "bytes"  -> ReadBytes(d, i)
      [] kind.k = "msg"    -> ReadMessage(kind.of, old, ReadBytes(d, i))
      [] kind.k = "entry"  -> ReadPair(d, kind.of, ReadBytes(d, i))

\* A repeated number may come packed into one field (BusinessError).
RECURSIVE Packed(_, _, _, _)
Packed(d, i, last, old) ==
    LET n == ReadVarint(d, i)
    IN IF i = 0 THEN Bad
       ELSE IF i > last THEN Read(old, i)
       ELSE Packed(d, n.next, last, Append(old, n.v))
ReadPacked(d, b, old) ==
    IF IsBad(b) THEN Bad ELSE Packed(d, b.next - Len(b.v), b.next - 1, old)

Put(pairs, e) ==
    LET same == {i \in DOMAIN pairs : pairs[i][1] = e[1]}
    IN IF same = {} THEN Append(pairs, e)
       ELSE [i \in DOMAIN pairs |-> IF i \in same THEN e ELSE pairs[i]]

\* One case of the switch in M.Unmarshal: the new value of the field.
Store(kind, old, r) ==
    IF IsBad(r) THEN Bad
    ELSE Read(CASE kind.k = "rep" -> Append(old, r.v)
                [] kind.k = "opt" -> <<r.v>>
                [] kind.k = "map" -> Put(old, r.v)
                [] OTHER -> r.v, r.next)
ReadField(d, i, kind, wt, old) ==
    LET ek == ElementKind(kind)
        into == IF kind.k = "opt" /\ old # <<>> THEN old[1] ELSE Zero(ek)
    IN IF kind.k = "rep" /\ ek.k = "varint" /\ wt = 2 THEN ReadPacked(d, ReadBytes(d, i), old)
       ELSE IF wt # WireType(ek) THEN Bad
       ELSE Store(kind, old, ReadBody(d, i, ek, into))

\* The loop of M.Unmarshal, with the required fields it has seen.
Field(name, m, seen, d, t) ==
    LET num == t.v \div 8
        known == {r \in ToSet(Unmarshals[name]) : r.num = num}
        f == ReadField(d, t.next, (CHOOSE r \in known : TRUE).kind, t.v % 8, m[num])
    IN IF IsBad(t) \/ t.v % 8 = 4 \/ num <= 0 THEN <<>>
       ELSE IF known = {} THEN Fields(name, m, seen, d, Within(Skip(d, t), Len(d)))
       ELSE Fields(name, [m EXCEPT ![num] = f.v], seen \cup {num}, d, f.next)
Fields(name, m, seen, d, i) ==
    IF i = 0 THEN <<>>
    ELSE IF i <= Len(d) THEN Field(name, m, seen, d, ReadVarint(d, i))
    ELSE IF \A r \in ToSet(Unmarshals[name]) : r.req => r.num \in seen THEN <<m>>
    ELSE <<>>

\* M.Unmarshal into a new message.
Unmarshal(name, d) == Fields(name, Zero(Msg(name)), {}, d, 1)
=============================================================================
