----------------------------- MODULE Ticketlock -----------------------------
(***************************************************************************)
(* platform/linux-generic/odp_ticketlock.c, one step per access to the     *)
(* shared words next_ticket and cur_ticket.  Both are uint32_t in the code *)
(* and wrap; here they count modulo W, so that wrapping is reached.        *)
(*                                                                         *)
(* odp_ticketlock_trylock loads the two words with relaxed loads, which    *)
(* the hardware may perform in either order: both orders are steps here.   *)
(***************************************************************************)
EXTENDS SyncParams

VARIABLES
  next_ticket, cur_ticket,   \* odp_ticketlock_t
  pc,                        \* where each thread is
  ticket,                    \* lock(): `ticket'; trylock(): the ticket taken
  tnext, tcur,               \* trylock(): `next', `cur'
  ucur                       \* unlock(): `cur'

shared == <<next_ticket, cur_ticket>>
vars == <<next_ticket, cur_ticket, pc, ticket, tnext, tcur, ucur>>

Ticket == 0 .. W - 1

PC == {"idle", "spin", "try_n", "try_c", "try_nc", "cs", "unlock"}

(* The uint32_t increment.                                                 *)
Inc(x) == IF x = W - 1 THEN 0 ELSE x + 1

Goto(t, from, to) == pc[t] \in from /\ pc' = [pc EXCEPT ![t] = to]

(* Locals die with the call: they are reset so that they make no states.   *)
ForgetTry(t) ==
  /\ tnext' = [tnext EXCEPT ![t] = 0]
  /\ tcur' = [tcur EXCEPT ![t] = 0]

Init ==
  /\ next_ticket = 0
  /\ cur_ticket = 0
  /\ pc = [t \in Threads |-> "idle"]
  /\ ticket = [t \in Threads |-> 0]
  /\ tnext = [t \in Threads |-> 0]
  /\ tcur = [t \in Threads |-> 0]
  /\ ucur = [t \in Threads |-> 0]

(***************************************************************************)
(* Named bound: between a trylock's load of cur_ticket and the end of that *)
(* trylock, next_ticket does not come round to the loaded value again (in  *)
(* the code, 2^32 acquisitions would have to fit into one trylock).        *)
(***************************************************************************)
NoLapDuringTrylock(t) ==
  \A s \in Threads \ {t} :
    pc[s] \in {"try_c", "try_nc"} => Inc(next_ticket) # tcur[s]

(* odp_ticketlock_lock: take a ticket (fetch_inc)...                       *)
Lock(t) ==
  /\ NoLapDuringTrylock(t)
  /\ Goto(t, {"idle"}, "spin")
  /\ ticket' = [ticket EXCEPT ![t] = next_ticket]
  /\ next_ticket' = Inc(next_ticket)
  /\ UNCHANGED <<cur_ticket, tnext, tcur, ucur>>

(* ... and spin until it is served.                                        *)
SpinMutant(t) ==
  /\ ticket[t] \in {cur_ticket, Inc(cur_ticket)}
  /\ Goto(t, {"spin"}, "cs")
  /\ UNCHANGED <<shared, ticket, tnext, tcur, ucur>>

Spin(t) ==
  /\ ticket[t] = cur_ticket
  /\ Goto(t, {"spin"}, "cs")
  /\ UNCHANGED <<shared, ticket, tnext, tcur, ucur>>

TryLoadNext(t) ==
  /\ \/ Goto(t, {"idle"}, "try_n")
     \/ Goto(t, {"try_c"}, "try_nc")
  /\ tnext' = [tnext EXCEPT ![t] = next_ticket]
  /\ UNCHANGED <<shared, ticket, tcur, ucur>>

TryLoadCur(t) ==
  /\ \/ Goto(t, {"idle"}, "try_c")
     \/ Goto(t, {"try_n"}, "try_nc")
  /\ tcur' = [tcur EXCEPT ![t] = cur_ticket]
  /\ UNCHANGED <<shared, ticket, tnext, ucur>>

(* next == cur and the compare-and-exchange of next_ticket succeeds.       *)
TryTakeMutant(t) ==
  /\ next_ticket = tnext[t]
  /\ NoLapDuringTrylock(t)
  /\ Goto(t, {"try_nc"}, "cs")
  /\ ticket' = [ticket EXCEPT ![t] = next_ticket]
  /\ next_ticket' = Inc(next_ticket)
  /\ ForgetTry(t)
  /\ UNCHANGED <<cur_ticket, ucur>>

TryTake(t) ==
  /\ tnext[t] = tcur[t]
  /\ next_ticket = tnext[t]
  /\ NoLapDuringTrylock(t)
  /\ Goto(t, {"try_nc"}, "cs")
  /\ ticket' = [ticket EXCEPT ![t] = next_ticket]
  /\ next_ticket' = Inc(next_ticket)
  /\ ForgetTry(t)
  /\ UNCHANGED <<cur_ticket, ucur>>

(* The lock looked busy, or another thread took a ticket first: return 0.  *)
TryFail(t) ==
  /\ tnext[t] # tcur[t] \/ next_ticket # tnext[t]
  /\ Goto(t, {"try_nc"}, "idle")
  /\ ForgetTry(t)
  /\ UNCHANGED <<shared, ticket, ucur>>

(* odp_ticketlock_unlock is a load and a store, not a read-modify-write.   *)
UnlockLoad(t) ==
  /\ Goto(t, {"cs"}, "unlock")
  /\ ucur' = [ucur EXCEPT ![t] = cur_ticket]
  /\ UNCHANGED <<shared, ticket, tnext, tcur>>

UnlockStore(t) ==
  /\ Goto(t, {"unlock"}, "idle")
  /\ cur_ticket' = Inc(ucur[t])
  /\ ticket' = [ticket EXCEPT ![t] = 0]
  /\ ucur' = [ucur EXCEPT ![t] = 0]
  /\ UNCHANGED <<next_ticket, tnext, tcur>>

(* The steps of a call the thread has started: a running thread takes them.*)
Continue(t) ==
  \/ Spin(t) \/ TryTake(t) \/ TryFail(t) \/ UnlockLoad(t) \/ UnlockStore(t)
  \/ pc[t] # "idle" /\ (TryLoadNext(t) \/ TryLoadCur(t))

Next ==
  \E t \in Threads :
    \/ Lock(t) \/ Spin(t)
    \/ TryLoadNext(t) \/ TryLoadCur(t) \/ TryTake(t) \/ TryFail(t)
    \/ UnlockLoad(t) \/ UnlockStore(t)

Spec == Init /\ [][Next]_vars

-----------------------------------------------------------------------------

TypeOK ==
  /\ next_ticket \in Ticket /\ cur_ticket \in Ticket
  /\ pc \in [Threads -> PC]
  /\ ticket \in [Threads -> Ticket]
  /\ tnext \in [Threads -> Ticket] /\ tcur \in [Threads -> Ticket]
  /\ ucur \in [Threads -> Ticket]

InCS(t) == pc[t] \in {"cs", "unlock"}
HasTicket(t) == pc[t] \in {"spin", "cs", "unlock"}
Holders == {t \in Threads : HasTicket(t)}

(* How far ticket x is behind the one being served, counting modulo W.     *)
Ahead(x) == IF x >= cur_ticket THEN x - cur_ticket ELSE x - cur_ticket + W

(* Whatever mix of lock and trylock the threads use, across the wrap of    *)
(* both words, at most one of them owns the lock (odp_ticketlock_lock,     *)
(* odp_ticketlock_trylock, odp_ticketlock_unlock).                         *)
MutualExclusion ==
  \A s, t \in Threads : InCS(s) /\ InCS(t) => s = t

(* Why it is so: the tickets out are exactly those from cur_ticket up to   *)
(* next_ticket, one per thread that asked; an owner has the ticket being   *)
(* served and its unlock will advance cur_ticket by one; a trylock whose   *)
(* compare-and-exchange can still succeed sees a lock that is free.        *)
TicketInv ==
  /\ Cardinality(Holders) = Ahead(next_ticket)
  /\ \A t \in Holders : Ahead(ticket[t]) < Ahead(next_ticket)
  /\ \A s, t \in Holders : ticket[s] = ticket[t] => s = t
  /\ \A t \in Threads : InCS(t) => ticket[t] = cur_ticket
  /\ \A t \in Threads : pc[t] = "unlock" => ucur[t] = cur_ticket
  /\ \A t \in Threads :
       pc[t] \in {"try_c", "try_nc"} /\ next_ticket = tcur[t]
         => cur_ticket = next_ticket

(* The threads that have a ticket, in the order they will be served.       *)
ServiceOrder ==
  [i \in 1 .. Cardinality(Holders) |->
     CHOOSE t \in Holders :
       Cardinality({s \in Holders : Ahead(ticket[s]) < Ahead(ticket[t])}) = i - 1]

Fifo == INSTANCE FifoLock
          WITH queue <- ServiceOrder, held <- \E t \in Threads : InCS(t)

(* The ticket lock is a first-come first-served lock: threads own it in    *)
(* the order of their fetch_inc, a trylock never overtakes a waiter, and a *)
(* free lock is always handed to the thread that waited longest.           *)
ServedInOrder == Fifo!Spec

(* Every lock() returns, if owners unlock and threads are scheduled.       *)
LockReturns == \A t \in Threads : pc[t] = "spin" ~> pc[t] = "cs"
=============================================================================
