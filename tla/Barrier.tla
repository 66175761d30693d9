------------------------------- MODULE Barrier ------------------------------
(***************************************************************************)
(* platform/linux-generic/odp_barrier.c: a reusable barrier in one word    *)
(* that counts arrivals through two rounds, the halves of its cycle.       *)
(***************************************************************************)
EXTENDS SyncParams

VARIABLES
  bar,        \* barrier->bar
  pc,
  wasless     \* the half of the cycle the thread arrived in

vars == <<bar, pc, wasless>>

count == Cardinality(Threads)

(* odp_barrier_init                                                        *)
Init ==
  /\ bar = 0
  /\ pc = [t \in Threads |-> "idle"]
  /\ wasless = [t \in Threads |-> FALSE]

(* The atomic fetch and increment; the last arrival of a cycle will wrap   *)
(* the word, the others wait.                                              *)
Arrive(t) ==
  /\ pc[t] = "idle"
  /\ bar' = bar + 1
  /\ wasless' = [wasless EXCEPT ![t] = bar < count]
  /\ pc' = [pc EXCEPT ![t] = IF bar = 2 * count - 1 THEN "wrap" ELSE "spin"]

Wrap(t) ==
  /\ pc[t] = "wrap"
  /\ bar' = bar - 2 * count
  /\ pc' = [pc EXCEPT ![t] = "done"]
  /\ UNCHANGED wasless

(* A load that sees the other half of the cycle ends the spin.             *)
SpinMutant(t) ==
  /\ pc[t] = "spin"
  /\ wasless[t] => bar >= count
  /\ pc' = [pc EXCEPT ![t] = "done"]
  /\ UNCHANGED <<bar, wasless>>

Spin(t) ==
  /\ pc[t] = "spin"
  /\ (bar < count) # wasless[t]
  /\ pc' = [pc EXCEPT ![t] = "done"]
  /\ UNCHANGED <<bar, wasless>>

(* odp_barrier_wait returns.                                               *)
Return(t) ==
  /\ pc[t] = "done"
  /\ pc' = [pc EXCEPT ![t] = "idle"]
  /\ wasless' = [wasless EXCEPT ![t] = FALSE]
  /\ UNCHANGED bar

(* A thread inside odp_barrier_wait keeps running.                         *)
Continue(t) == Wrap(t) \/ Spin(t) \/ Return(t)

Next == \E t \in Threads : Arrive(t) \/ Wrap(t) \/ Spin(t) \/ Return(t)

Spec == Init /\ [][Next]_vars

-----------------------------------------------------------------------------
TypeOK ==
  /\ bar \in 0 .. 2 * count
  /\ pc \in [Threads -> {"idle", "spin", "wrap", "done"}]
  /\ wasless \in [Threads -> BOOLEAN]

Arrived == {t \in Threads : pc[t] = "spin" /\ wasless[t] = (bar < count)}
Leaving == {t \in Threads : pc[t] = "spin" /\ wasless[t] # (bar < count)}
             \cup {t \in Threads : pc[t] = "done"}

(* The word counts the threads that wait in the current half; it stands at *)
(* 2 * count only while the thread that must wrap it is about to.          *)
BarCounts ==
  LET w == Cardinality(Arrived)
  IN \/ bar < count /\ w = bar /\ \A t \in Threads : pc[t] # "wrap"
     \/ bar \in count .. 2 * count - 1 /\ w = bar - count
          /\ \A t \in Threads : pc[t] # "wrap"
     \/ /\ bar = 2 * count
        /\ \E t \in Threads : pc[t] = "wrap" /\ Arrived = Threads \ {t}

Rounds == INSTANCE RoundBarrier WITH arrived <- Arrived, leaving <- Leaving

(* Nobody leaves a round before all have arrived, whatever threads do that *)
(* return early and call odp_barrier_wait again at once, while others have *)
(* not noticed yet that the last round is over.                            *)
RoundsInStep == Rounds!Safety

(* When all have arrived, all leave: no thread that was slow to notice is  *)
(* trapped by the others' next round.                                      *)
EverybodyLeaves == \A t \in Threads : t \in Leaving ~> t \notin Leaving
=============================================================================
