----------------------------- MODULE ProtoFields -----------------------------
(***************************************************************************)
(* What the generated protobuf code knows of a message: which fields       *)
(* Size counts, which MarshalTo writes and in which order, and which       *)
(* Unmarshal takes. The three are generated as separate functions, and     *)
(* are three tables here: rows [num, kind, key], [num, kind, req] and      *)
(* [num, kind, req]. The value of a message is a function from its field   *)
(* numbers.                                                                *)
(*                                                                         *)
(* Opt is a pointer or a []byte, which may be nil: a sequence of at most   *)
(* one value. A map is a sequence of pairs in the order Go ranges over it. *)
(***************************************************************************)
EXTENDS Integers, Sequences

Plain(k)  == [k |-> k, of |-> ""]
Varint    == Plain("varint")     \* int32, int64, an enum
Bool      == Plain("bool")
Fixed     == Plain("fixed")      \* float64: eight bytes
Bytes     == Plain("bytes")      \* string, and []byte inside a list
Msg(name) == [k |-> "msg", of |-> name]
Opt(kind) == [k |-> "opt", of |-> kind]
Rep(kind) == [k |-> "rep", of |-> kind]
MapOf(kind) == [k |-> "map", of |-> [k |-> "entry", of |-> kind]]
Ptr(name) == Opt(Msg(name))
Data      == Opt(Bytes)

\* The fields a, ..., b, all of one kind.
Each(a, b, kind) == [i \in 1..(b - a + 1) |-> [num |-> a + i - 1, kind |-> kind]]
One(n, kind) == Each(n, n, kind)

\* Rows of Size: the fields whose key takes n bytes.
KeyOf(n, fields) == [i \in DOMAIN fields |->
    [num |-> fields[i].num, kind |-> fields[i].kind, key |-> n]]

\* Rows of MarshalTo and Unmarshal. MarshalTo returns an error if a required
\* field is nil, Unmarshal if it has not met one.
Rows(fields, r) == [i \in DOMAIN fields |->
    [num |-> fields[i].num, kind |-> fields[i].kind, req |-> r]]
Need(fields) == Rows(fields, TRUE)
May(fields)  == Rows(fields, FALSE)
=============================================================================
