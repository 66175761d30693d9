------------------------------ MODULE Spinlock ------------------------------
(***************************************************************************)
(* platform/linux-generic/odp_spinlock.c: a flag taken with test-and-set;  *)
(* a thread that finds it taken spins reading it and then tries again.     *)
(***************************************************************************)
EXTENDS SyncParams

VARIABLES flag, pc

vars == <<flag, pc>>

Init == flag = FALSE /\ pc = [t \in Threads |-> "idle"]

Goto(t, from, to) == pc[t] = from /\ pc' = [pc EXCEPT ![t] = to]

(* odp_spinlock_lock: the outer loop, the call's first test-and-set        *)
(* included.                                                               *)
Tas(t, from, taken) ==
  /\ Goto(t, from, IF flag THEN taken ELSE "cs")
  /\ flag' = TRUE

Lock(t) == Tas(t, "idle", "spin")

Retry(t) == Tas(t, "retry", "spin")

(* The inner loop ends when a read finds the flag clear.                   *)
Spin(t) == ~flag /\ Goto(t, "spin", "retry") /\ UNCHANGED flag

Trylock(t) == Tas(t, "idle", "idle")

Unlock(t) == Goto(t, "cs", "idle") /\ flag' = FALSE

Continue(t) == Retry(t) \/ Spin(t) \/ Unlock(t)

Next == \E t \in Threads : Lock(t) \/ Trylock(t) \/ Continue(t)

Spec == Init /\ [][Next]_vars

-----------------------------------------------------------------------------

TypeOK ==
  flag \in BOOLEAN /\ pc \in [Threads -> {"idle", "spin", "retry", "cs"}]

(* One thread owns the spinlock, and its flag is set then and only then    *)
(* (odp_spinlock_lock, trylock and unlock).                                *)
Exclusion ==
  /\ \A s, t \in Threads : pc[s] = "cs" /\ pc[t] = "cs" => s = t
  /\ flag <=> \E t \in Threads : pc[t] = "cs"

Spinning(t) == pc[t] \in {"spin", "retry"}

NoStall ==
  \A t \in Threads : Spinning(t) ~> \E s \in Threads : pc[s] = "cs"
=============================================================================
