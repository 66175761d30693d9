----------------------------- MODULE SyncParams -----------------------------
(***************************************************************************)
(* The parameters of the locks and the barrier: the threads that use them  *)
(* and the range of the words they count in.                               *)
(***************************************************************************)
EXTENDS Integers, FiniteSets

CONSTANTS
  Threads,
  W,          \* the ticket words hold 0..W-1 (2^32 in the code)
  CntW        \* the word of a reader/writer lock holds 0..CntW-1 (2^32)

ASSUME ThreadsAssumption == IsFiniteSet(Threads) /\ Threads # {}
ASSUME TicketsAssumption == W \in Nat /\ Cardinality(Threads) < W
ASSUME CntAssumption == CntW \in Nat /\ 2 * (Cardinality(Threads) + 1) < CntW
=============================================================================
