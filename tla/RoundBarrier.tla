---------------------------- MODULE RoundBarrier ----------------------------
(***************************************************************************)
(* What a reusable barrier promises: round after round, nobody leaves      *)
(* before everybody has arrived.                                           *)
(***************************************************************************)
CONSTANT Threads

VARIABLES
  arrived,   \* threads waiting for the round to be complete
  leaving    \* threads a complete round lets go and that have not left yet

vars == <<arrived, leaving>>

Init == arrived = {} /\ leaving = {}

Arrive(t) ==
  /\ t \notin arrived \cup leaving
  /\ IF arrived \cup {t} = Threads
       THEN arrived' = {} /\ leaving' = Threads
       ELSE arrived' = arrived \cup {t} /\ UNCHANGED leaving

Leave(t) ==
  /\ t \in leaving
  /\ leaving' = leaving \ {t}
  /\ UNCHANGED arrived

Next == \E t \in Threads : Arrive(t) \/ Leave(t)

Safety == Init /\ [][Next]_vars
=============================================================================
