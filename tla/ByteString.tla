----------------------------- MODULE ByteString -----------------------------
(***************************************************************************)
(* What the packet calls promise about the data of a packet, whatever its  *)
(* buffer, segments, headroom and tailroom are: a sequence of bytes that   *)
(* grows, shrinks and is written at an offset, as the call says.           *)
(***************************************************************************)
EXTENDS Naturals, Sequences

CONSTANTS Bytes, MaxLen

VARIABLES
  data,          \* the bytes, from the start of the packet
  call           \* the last call: what it does, where, and with how many bytes

Kinds == {"renew", "grow", "shrink", "write", "keep"}
Calls == [kind : Kinds, at : 0 .. MaxLen, n : 0 .. MaxLen, byte : Bytes]

Front(n) == SubSeq(data, 1, n)
Back(n) == SubSeq(data, n + 1, Len(data))
Copies(b, n) == [i \in 1 .. n |-> b]

Init == data = <<>> /\ call.kind = "keep"

(* c is made: n unknown bytes instead of the data, n unknown bytes more,    *)
(* n bytes less, n bytes written, or nothing at all.                       *)
Effect(c) ==
  \/ c.kind = "renew" /\ Len(data') = c.n
  \/ /\ c.kind = "grow" /\ c.at <= Len(data)
     /\ Len(data') = Len(data) + c.n
     /\ SubSeq(data', 1, c.at) = Front(c.at)
     /\ SubSeq(data', c.at + c.n + 1, Len(data')) = Back(c.at)
  \/ /\ c.kind = "shrink" /\ c.at + c.n <= Len(data)
     /\ data' = Front(c.at) \o Back(c.at + c.n)
  \/ /\ c.kind = "write" /\ c.at + c.n <= Len(data)
     /\ data' = Front(c.at) \o Copies(c.byte, c.n) \o Back(c.at + c.n)
  \/ c.kind = "keep" /\ data' = data

Next == call' \in Calls /\ Effect(call')

Spec == Init /\ [][Next]_<<data, call>>
=============================================================================
