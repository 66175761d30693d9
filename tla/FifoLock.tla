------------------------------ MODULE FifoLock ------------------------------
(***************************************************************************)
(* What a ticket lock promises its users: an owner at a time, and owners   *)
(* in the order in which the threads asked.  `queue' holds the threads     *)
(* that asked and have not released yet, the owner (when `held') first.    *)
(***************************************************************************)
EXTENDS Naturals, Sequences

CONSTANT Threads

VARIABLES queue, held

vars == <<queue, held>>

Init == queue = <<>> /\ held = FALSE

Waiting(t) == \E i \in DOMAIN queue : queue[i] = t

(* lock(): the thread takes its place behind everybody who asked before.   *)
Ask(t) ==
  /\ ~Waiting(t)
  /\ queue' = Append(queue, t)
  /\ UNCHANGED held

(* lock() returns: only to the thread that has waited longest.             *)
Enter ==
  /\ queue # <<>> /\ ~held
  /\ held' = TRUE
  /\ UNCHANGED queue

(* trylock() succeeds: only when nobody owns the lock or waits for it.     *)
TryEnter(t) ==
  /\ queue = <<>>
  /\ queue' = <<t>>
  /\ held' = TRUE

Release ==
  /\ held
  /\ held' = FALSE
  /\ queue' = Tail(queue)

Next ==
  \/ \E t \in Threads : Ask(t) \/ TryEnter(t)
  \/ Enter
  \/ Release

(* A free lock is eventually given to the thread at the head.              *)
Spec == Init /\ [][Next]_vars /\ WF_vars(Enter)
=============================================================================
