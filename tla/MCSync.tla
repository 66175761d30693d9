------------------------------- MODULE MCSync -------------------------------
(***************************************************************************)
(* The ticket lock, the spin lock, the reader/writer lock and the barrier, *)
(* which share no state, explored one after the other: `part' names the    *)
(* one whose threads run in a behaviour.                                   *)
(***************************************************************************)
EXTENDS SyncParams

VARIABLES
  part,
  next_ticket, cur_ticket, tpc, ticket, tnext, tcur, ucur,   \* Ticketlock
  flag, spc,                                                 \* Spinlock
  cnt, rpc, seen,                                            \* Rwlock
  bar, bpc, wasless                                          \* Barrier

T == INSTANCE Ticketlock WITH pc <- tpc
S == INSTANCE Spinlock WITH pc <- spc
R == INSTANCE Rwlock WITH pc <- rpc
B == INSTANCE Barrier WITH pc <- bpc

tvars == <<next_ticket, cur_ticket, tpc, ticket, tnext, tcur, ucur>>
svars == <<flag, spc>>
rvars == <<cnt, rpc, seen>>
bvars == <<bar, bpc, wasless>>
vars == <<part, tvars, svars, rvars, bvars>>

Init ==
  /\ part \in {"ticketlock", "spinlock", "rwlock", "barrier"}
  /\ T!Init /\ S!Init /\ R!Init /\ B!Init

OnlyT == part = "ticketlock" /\ UNCHANGED <<part, svars, rvars, bvars>>
OnlyS == part = "spinlock" /\ UNCHANGED <<part, tvars, rvars, bvars>>
OnlyR == part = "rwlock" /\ UNCHANGED <<part, tvars, svars, bvars>>
OnlyB == part = "barrier" /\ UNCHANGED <<part, tvars, svars, rvars>>

Next ==
  \/ OnlyT /\ T!Next
  \/ OnlyS /\ S!Next
  \/ OnlyR /\ R!Next
  \/ OnlyB /\ B!Next

Continue(t) ==
  \/ OnlyT /\ T!Continue(t)
  \/ OnlyS /\ S!Continue(t)
  \/ OnlyR /\ R!Continue(t)
  \/ OnlyB /\ B!Continue(t)

(* A thread inside a call is eventually scheduled; nobody must make one.   *)
FairSpec == Init /\ [][Next]_vars /\ \A t \in Threads : WF_vars(Continue(t))

-----------------------------------------------------------------------------

TypeOK == T!TypeOK /\ S!TypeOK /\ R!TypeOK /\ B!TypeOK

(* Whoever is inside is alone there (several readers count as one), and    *)
(* the lock's word says who is: the ticket lock's tickets out are those    *)
(* between its two words, also across their wrap, the spinlock's flag is   *)
(* set while one thread owns it, the reader/writer lock's word counts the  *)
(* readers or says -1 for the one writer, and the barrier's word counts    *)
(* the arrivals of the half cycle.                                         *)
Exclusion ==
  /\ TypeOK
  /\ T!MutualExclusion /\ T!TicketInv
  /\ S!Exclusion
  /\ R!ReadersXorWriter /\ R!CntInv
  /\ B!BarCounts

(* The ticket lock serves its callers in the order their fetch-and-add of  *)
(* next_ticket arrived: it implements the abstract FIFO lock.              *)
ServedInOrder == T!ServedInOrder

(* odp_barrier_wait implements the abstract round barrier: nobody leaves a *)
(* round before everybody has arrived in it.                               *)
RoundsInStep == B!RoundsInStep

(* Nobody is left spinning for nothing: every odp_ticketlock_lock()        *)
(* returns; while threads spin for the spinlock, or wait for the           *)
(* reader/writer lock, somebody keeps getting in (who, the code leaves     *)
(* open); and everybody who arrived at a full barrier leaves it.           *)
NobodyStuck == T!LockReturns /\ S!NoStall /\ R!SomebodyGetsIn /\ B!EverybodyLeaves
=============================================================================
