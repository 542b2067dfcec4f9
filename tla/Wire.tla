--------------------------------- MODULE Wire ---------------------------------
(***************************************************************************)
(* What travels between a process and the agent. A message is marshalled;  *)
(* a trace or a log then goes into a batch and the batch into a frame      *)
(* (Frames), which the agent takes apart; the other messages are the body  *)
(* of an HTTP request or reply. The other side may know fields that this   *)
(* one does not, may pack a list of numbers, and may end a body too early. *)
(* The agent itself is external and unmarshals with the same generated     *)
(* code.                                                                   *)
(***************************************************************************)
EXTENDS Protobuf, Frames

CONSTANTS Messages,    \* name -> the values a message of that name takes here
          Base,        \* name -> the value that is cut and extended
          NewFields,   \* encodings of fields no message has
          Framed,      \* the names of the messages the senders put into frames
          Tags         \* the instance ID: a sequence of pairs <<key, value>>

VARIABLES pc,      \* "marshal", "carried", "packed", "split", "taken", "refused", "panicked"
          name, sent,
          wire,    \* the bytes on their way
          how,     \* what happened to them: "whole", "cut", "newer", "packed"
          at,      \* where they were cut
          got      \* what Unmarshal returned: at most one message

vars == <<pc, name, sent, wire, how, at, got>>

Zeros(n) == [i \in 1..n |-> 0]

\* FormatMap: pairs with an empty key or value are left out.
FormatMap(pairs) ==
    Concat(LAMBDA p : LE32(Len(p[1])) \o p[1] \o LE32(Len(p[2])) \o p[2],
           SelectSeq(pairs, LAMBDA p : p[1] # <<>> /\ p[2] # <<>>))

\* sendLoop lets MarshalTo write into a buffer of Size bytes.
Marshalled(n, m) == Written(n, m) \o Zeros(SizeOf(n, m) - Len(Written(n, m)))
Overruns(n, m) == Len(Written(n, m)) > SizeOf(n, m)
-----------------------------------------------------------------------------
Init ==
    /\ pc = "marshal"
    /\ name \in DOMAIN Messages
    /\ sent \in Messages[name]
    /\ wire = <<>>
    /\ how = "whole"
    /\ at = 0
    /\ got = <<>>

\* Marshal allocates Size bytes and lets MarshalTo write into them.
Encode ==
    /\ pc = "marshal"
    /\ IF Missing(name, sent) THEN pc' = "refused" /\ UNCHANGED wire
       ELSE IF Overruns(name, sent) THEN pc' = "panicked" /\ UNCHANGED wire
       ELSE /\ wire' = Marshal(name, sent)[1]
            /\ pc' = "carried"
    /\ UNCHANGED <<name, sent, how, at, got>>

\* A trace or log that was marshalled is sent behind another one in a frame.
PutInFrame ==
    /\ pc = "carried" /\ how = "whole"
    /\ name \in Framed
    /\ LET batch == Zeros(GetPrefixLen(FormatMap(Tags)))
                        \o Batch(<<Marshalled(name, Base[name]), Marshalled(name, sent)>>)
       IN wire' = EncodePreAllocated(batch, FormatMap(Tags))
    /\ pc' = "packed"
    /\ UNCHANGED <<name, sent, how, at, got>>

AgentSplits ==
    /\ pc = "packed"
    /\ LET parts == Split(FrameBody(wire)) IN wire' = IF Len(parts) = 2 THEN parts[2] ELSE <<>>
    /\ pc' = "split"
    /\ UNCHANGED <<name, sent, how, at, got>>

\* Where one field ends and the next begins.
Boundaries ==
    {Len(Concat(LAMBDA r : WrittenField(r, sent[r.num]), SubSeq(Marshals[name], 1, k))) :
        k \in 0..Len(Marshals[name])}
    \cup UNION {LET r == Marshals[name][k]
                    before == Len(Concat(LAMBDA x : WrittenField(x, sent[x.num]),
                                         SubSeq(Marshals[name], 1, k - 1)))
                IN {before + Len(WrittenField(r, SubSeq(sent[r.num], 1, e))) :
                        e \in IF Collects(r.kind) THEN DOMAIN sent[r.num] ELSE {}} :
                k \in DOMAIN Marshals[name]}

\* The writer is a newer version.
AddField ==
    /\ pc = "carried" /\ how = "whole" /\ sent = Base[name]
    /\ \E n \in Boundaries, f \in NewFields :
           wire' = SubSeq(wire, 1, n) \o f \o SubSeq(wire, n + 1, Len(wire))
    /\ how' = "newer"
    /\ UNCHANGED <<pc, name, sent, at, got>>

\* The writer packs a list of numbers, as proto3 does.
Pack ==
    /\ pc = "carried" /\ how = "whole"
    /\ \E i \in DOMAIN Marshals[name] :
           LET r == Marshals[name][i]
               packed == Concat(EncodeVarint, sent[r.num])
           IN /\ i = 1 /\ r.kind.k = "rep" /\ r.kind.of.k = "varint"
              /\ sent[r.num] # <<>>
              /\ wire' = EncodeVarint(8 * r.num + 2) \o EncodeVarint(Len(packed)) \o packed
                             \o SubSeq(wire, Len(WrittenField(r, sent[r.num])) + 1, Len(wire))
    /\ how' = "packed"
    /\ UNCHANGED <<pc, name, sent, at, got>>

\* A body ends too early.
CutShort ==
    /\ pc = "carried" /\ how = "whole" /\ sent = Base[name]
    /\ at' \in 0..(Len(wire) - 1)
    /\ wire' = SubSeq(wire, 1, at')
    /\ how' = "cut"
    /\ UNCHANGED <<pc, name, sent, got>>

Decode ==
    /\ pc \in {"carried", "split"}
    /\ got' = Unmarshal(name, wire)
    /\ pc' = "taken"
    /\ UNCHANGED <<name, sent, wire, how, at>>

Next == Encode \/ PutInFrame \/ AgentSplits \/ AddField \/ Pack \/ CutShort \/ Decode

Spec == Init /\ [][Next]_vars
-----------------------------------------------------------------------------
\* MarshalTo takes nil for a []byte that Unmarshal requires (log.pb.go,
\* profile.pb.go).
RECURSIVE Acceptable(_, _)
Acceptable(n, m) ==
    \A r \in ToSet(Unmarshals[n]) :
        /\ r.req /\ r.kind.k = "opt" => m[r.num] # <<>>
        /\ ElementKind(r.kind).k = "msg" =>
               \A e \in ToSet(m[r.num]) : Acceptable(ElementKind(r.kind).of, e)

\* What was marshalled arrives as it was: the size computed beforehand is the
\* size written, so that frames can be taken apart; every field has its type
\* and place; a field of a newer version, of any wire type, is passed over.
Delivered ==
    /\ pc # "panicked"
    /\ pc = "taken" /\ how # "cut" =>
           got = IF Acceptable(name, sent) THEN <<sent>> ELSE <<>>

\* A body that ends inside a field, or inside a message in a field, is an
\* error: only a cut between two fields can pass.
CutNoticed == pc = "taken" /\ how = "cut" /\ got # <<>> => at \in Boundaries

\* refreshSettings compares encodings, and takes no encoding for an error:
\* even so it finds two settings it can hold, fetched or empty, the same only
\* if they are equal.
EncodingOf(m) == IF Missing("Settings", m) THEN <<>> ELSE Marshal("Settings", m)[1]
ComparisonExact == pc = "taken" /\ name = "Settings" /\ how = "whole" /\ got # <<>> =>
    \A m \in {x \in Messages["Settings"] : ~Missing("Settings", x)}
                 \cup {Zero(Msg("Settings"))} :
        EncodingOf(m) = EncodingOf(got[1]) => m = got[1]
=============================================================================
