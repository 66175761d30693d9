---------------------------- MODULE BoundedFifo -----------------------------
(***************************************************************************)
(* What a ring promises: a first-in first-out queue of at most Capacity    *)
(* objects, filled and emptied by bursts of at most MaxBurst.              *)
(***************************************************************************)
EXTENDS Naturals, Sequences

CONSTANTS Values, Capacity, MaxBurst

VARIABLE queue

Init == queue = <<>>

Put ==
  /\ Len(queue') \in Len(queue) + 1 .. Len(queue) + MaxBurst
  /\ Len(queue') <= Capacity
  /\ SubSeq(queue', 1, Len(queue)) = queue
  /\ \A i \in DOMAIN queue' : queue'[i] \in Values

Get ==
  LET n == Len(queue) - Len(queue')
  IN /\ n \in 1 .. MaxBurst
     /\ queue' = SubSeq(queue, n + 1, Len(queue))

Spec == Init /\ [][Put \/ Get]_queue
=============================================================================
