---------------------------- MODULE TimerCalls ------------------------------
(***************************************************************************)
(* The inductive invariant of a timer pool: what each thread in a call and *)
(* each notification can rely on, where the events are, what the queue     *)
(* fields hold, and why a step of a call or of the notifier keeps each of  *)
(* these.                                                                  *)
(***************************************************************************)
EXTENDS Timer, TLAPS

(* Zenon proves what does not name SMT.                                    *)
USE Zenon

-----------------------------------------------------------------------------
(* The inductive invariant.                                                *)

Freeing(u) == pc[u] \in {"fini", "link"}
Scanning(n) == pc[n] \in {"scan", "expire", "enq"}

(* What a thread inside a call relies on: a timer that is being set is not *)
(* freed, one that is being allocated or freed is nobody else's.           *)
UserInv ==
  \A u \in Users :
    /\ pc[u] \in {"idle", "hwm", "fini", "link", "set", "del"}
    /\ pc[u] = "hwm" => /\ i[u] \in Timers \ handles /\ exp[i[u]] = TMO_INACTIVE
                        /\ \A v \in Users : pc[v] = "hwm" => v = u
    /\ pc[u] = "set" => i[u] \in handles /\ tick[u] \in Ticks
    /\ Freeing(u) => /\ i[u] \in Timers \ handles /\ i[u] < high_wm
                     /\ exp[i[u]] = TMO_UNUSED
                     /\ \A v \in Users : Freeing(v) /\ i[v] = i[u] => v = u
    /\ pc[u] = "del" => running = u

(* A notifier works for a tick that has passed, and one at a time scans.   *)
NotifierInv ==
  /\ \A n \in Notifiers :
       /\ pc[n] \in {"idle", "try", "scan", "expire", "enq"}
       /\ pc[n] # "idle" => tick[n] \in Int /\ tick[n] < cur_tick
       /\ Scanning(n) => running = n /\ i[n] \in 0 .. top[n]
       /\ pc[n] \in {"expire", "enq"} => i[n] < top[n]
       /\ pc[n] = "enq" <=> hand[n] # None
  /\ ~exists => running \in Users

(* Where an event is, it is alone.                                         *)
InTimer(e) == \E k \in Timers : tmo_buf[k] = e
InHand(e) == \E n \in Notifiers : hand[n] = e
InQueue(e) == \E q \in Queues : e \in inq[q]

PlaceInv ==
  /\ \A e \in Events : e \in app \/ InTimer(e) \/ InHand(e) \/ InQueue(e)
  /\ \A e \in app : ~InTimer(e) /\ ~InHand(e) /\ ~InQueue(e)
  /\ \A e \in Events : ~(InTimer(e) /\ InHand(e)) /\ ~(InTimer(e) /\ InQueue(e))
                       /\ ~(InHand(e) /\ InQueue(e))
  /\ \A j, k \in Timers : tmo_buf[j] = tmo_buf[k] /\ tmo_buf[j] # None => j = k
  /\ \A m, n \in Notifiers : hand[m] = hand[n] /\ hand[m] # None => m = n
  /\ \A p, q \in Queues : inq[p] \cap inq[q] # {} => p = q

(* A timer in use has its queue; one with an event is in use; so is one    *)
(* whose event was just grabbed, or the event is late.                     *)
QueueInv ==
  /\ \A k \in Timers : active[k] <=> tmo_buf[k] # None
  /\ \A k \in Timers : tmo_buf[k] # None =>
       k \in handles /\ hdr[tmo_buf[k]].user_ptr = user_ptr[k]
  /\ \A k \in handles : queue[k] = user_ptr[k] /\ queue[k] \in Queues
  /\ \A u \in Users : pc[u] = "hwm" => queue[i[u]] = user_ptr[i[u]] /\ queue[i[u]] \in Queues
  /\ \A n \in Notifiers : pc[n] = "enq" /\ hand[n] \notin late => i[n] \in handles
  /\ OwnQueue

(* The free list is a stack: below the high water mark any free timers,    *)
(* above it those never used, in order.                                    *)
Free0 == N - num_alloc
FreeList(chain) ==
  /\ chain[0] = first_free /\ chain[Free0] = N
  /\ \A d \in 0 .. Free0 - 1 :
       /\ chain[d] \in Timers \ handles /\ exp[chain[d]] = TMO_UNUSED
       /\ queue[chain[d]] = chain[d + 1]
       /\ IF num_alloc + d >= high_wm THEN chain[d] = num_alloc + d ELSE chain[d] < high_wm
       /\ \A u \in Users : Freeing(u) => i[u] # chain[d]
  /\ \A d, e \in 0 .. Free0 : chain[d] = chain[e] => d = e

(* high_wm lags behind while an allocation is about to raise it.           *)
WaterInv ==
  /\ num_alloc <= high_wm + 1
  /\ (\A u \in Users : pc[u] # "hwm") => num_alloc <= high_wm
  /\ \A u \in Users : pc[u] = "hwm" => i[u] < high_wm \/ i[u] < num_alloc

FreeInv ==
  /\ WaterInv /\ HighWmCovers
  /\ \E chain \in [0 .. Free0 -> 0 .. N] : FreeList(chain)

EarlyInv ==
  \A e \in Events :
    InQueue(e) \/ InHand(e) => hdr[e].expiration \in Int /\ hdr[e].expiration < cur_tick

IndInv ==
  TypeOK /\ UserInv /\ NotifierInv /\ PlaceInv /\ QueueInv /\ FreeInv /\ EarlyInv /\ FaultsKnown

-----------------------------------------------------------------------------
(* A pool and its application, which never change.                         *)
LEMMA Setup ==
  ASSUME setup \in Setups
  PROVE  /\ N \in Nat /\ N > 0 /\ Timers = 0 .. N - 1
         /\ Users \cap Notifiers = {} /\ None \notin Users /\ None \notin Events
         /\ None \notin Queues /\ None \notin Notifiers
BY TimerAssumption, SMT DEF N, Users, Events, Timers

LEMMA Fixed ==
  ASSUME setup' = setup
  PROVE  /\ N' = N /\ Timers' = Timers /\ Users' = Users /\ Events' = Events
         /\ Threads' = Threads /\ Headers' = Headers
         /\ \A u \in Users : u \in Threads
         /\ \A n \in Notifiers : n \in Threads
BY DEF N, Timers, Users, Events, Threads, Headers

LEMMA Bounds == MaxTick \in Nat /\ MaxRel \in Nat /\ MinRel \in Nat
BY TimerAssumption

(* The timer a call works on.                                              *)
LEMMA Indices ==
  ASSUME IndInv
  PROVE  /\ \A u \in Users : pc[u] = "set" => i[u] \in Timers /\ tick[u] \in Ticks
         /\ \A u \in Users : pc[u] = "hwm" => i[u] \in Timers
         /\ \A u \in Users : Freeing(u) => i[u] \in Timers
         /\ \A n \in Notifiers : Scanning(n) /\ i[n] < top[n] =>
              i[n] \in Timers /\ i[n] + 1 \in 0 .. top[n] /\ i[n] + 1 \in 0 .. N
         /\ \A n \in Notifiers : pc[n] \in {"expire", "enq"} => i[n] \in Timers
<1>1. \A n \in Notifiers : top[n] \in 0 .. N
  BY DEF IndInv, TypeOK
<1>2. \A n \in Notifiers : Scanning(n) /\ i[n] < top[n] =>
        i[n] \in Timers /\ i[n] + 1 \in 0 .. top[n] /\ i[n] + 1 \in 0 .. N
  BY <1>1, Setup, SMT DEF IndInv, TypeOK, NotifierInv
<1> QED
  BY <1>2 DEF IndInv, TypeOK, UserInv, NotifierInv, Freeing, Scanning

(* Where timers are left there is a first free one.                        *)
LEMMA FirstFree ==
  ASSUME IndInv, num_alloc < N
  PROVE  /\ first_free \in Timers \ handles /\ queue[first_free] \in 0 .. N
         /\ \A u \in Users : Freeing(u) => i[u] # first_free
         /\ exp[first_free] = TMO_UNUSED
<1>1. PICK chain \in [0 .. Free0 -> 0 .. N] : FreeList(chain)
  BY DEF IndInv, FreeInv
<1>2. 0 \in 0 .. Free0 - 1 /\ 0 + 1 \in 0 .. Free0
  BY Setup, SMT DEF IndInv, TypeOK, Free0
<1> QED
  BY <1>1, <1>2 DEF FreeList

(* A timer that is being freed counts as allocated.                        *)
Linkable == \A u \in Users : Freeing(u) => num_alloc > 0

(* The fields of a timeout header that a call writes.                      *)
LEMMA HeaderSet ==
  ASSUME NEW r \in Headers, NEW k \in Timers, NEW p \in Queues \cup {None}
  PROVE  LET s == [r EXCEPT !.timer = k, !.user_ptr = p]
         IN s \in Headers /\ s.user_ptr = p /\ s.expiration = r.expiration
BY DEF Headers

LEMMA HeaderStamp ==
  ASSUME NEW r \in Headers, NEW t \in Ticks
  PROVE  LET s == [r EXCEPT !.expiration = t]
         IN s \in Headers /\ s.user_ptr = r.user_ptr /\ s.expiration = t
BY DEF Headers

-----------------------------------------------------------------------------
LEMMA TypeStep ==
  ASSUME IndInv, Linkable, Next
  PROVE  TypeOK'
<1>1. setup' = setup /\ setup \in Setups
  BY DEF Next, IndInv, TypeOK
<1> USE Fixed, Bounds, <1>1
<1>2. ASSUME NEW u \in Users, Del(u) PROVE TypeOK'
  BY <1>2 DEF IndInv, TypeOK, Del, Goto, timers, table, events, ghost
<1>3. ASSUME NEW u \in Users, DelFree(u) PROVE TypeOK'
  BY <1>3 DEF IndInv, TypeOK, DelFree, Goto, timers, table, events, ghost
<1>4. ASSUME NEW u \in Users, NEW q \in Queues, Alloc(u, q) PROVE TypeOK'
  <2>1. first_free \in Timers /\ queue[first_free] \in 0 .. N
    BY <1>4, FirstFree DEF Alloc
  <2>2. num_alloc' \in 0 .. N /\ first_free' \in 0 .. N /\ first_free \in 0 .. N
    BY <1>4, <2>1, Setup, SMT DEF Alloc, IndInv, TypeOK
  <2>3. TMO_INACTIVE \in Ticks
    BY SMT DEF TMO_INACTIVE, Ticks
  <2> QED
    BY <1>4, <2>1, <2>2, <2>3 DEF IndInv, TypeOK, Alloc, Goto, events, ghost
<1>5. ASSUME NEW u \in Users, NEW k \in Timers, Cancel(u, k) PROVE TypeOK'
  BY <1>5, SMT DEF IndInv, TypeOK, Cancel, TimerCancel, locals, table, ghost, TMO_INACTIVE, Ticks
<1>6. ASSUME NEW u \in Users, NEW k \in Timers, Free(u, k) PROVE TypeOK'
  <2>1. k \in 0 .. N
    BY Setup, SMT
  <2>2. late' \subseteq Events
    BY <1>6, SMT DEF Free, IndInv, TypeOK, NotifierInv
  <2> QED
    BY <1>6, <2>1, <2>2 DEF IndInv, TypeOK, Free, TimerCancel, locals, table
<1>7. ASSUME NEW u \in Users, Fini(u) PROVE TypeOK'
  BY <1>7 DEF IndInv, TypeOK, Fini, Goto, timers, events, ghost
<1>8. ASSUME NEW u \in Users, Link(u) PROVE TypeOK'
  <2>1. Freeing(u)
    BY <1>8 DEF Link, Goto, Freeing
  <2>2. i[u] \in 0 .. N /\ num_alloc' \in 0 .. N
    <3>1. i[u] \in Timers /\ num_alloc > 0
      BY <2>1, Indices DEF Linkable
    <3>2. num_alloc \in 0 .. N /\ num_alloc' = num_alloc - 1
      BY <1>8 DEF Link, IndInv, TypeOK
    <3> QED
      BY <3>1, <3>2, Setup, SMT
  <2> QED
    BY <1>8, <2>2 DEF IndInv, TypeOK, Link, Goto, timers, events, ghost
<1>9. ASSUME NEW u \in Users, NEW k \in Timers, NEW t \in Ticks, SetCheck(u, k, t) PROVE TypeOK'
  <2>1. k \in 0 .. N /\ t \in -1 .. MaxTick + MaxRel
    BY Setup, SMT DEF Ticks
  <2> QED
    BY <1>9, <2>1 DEF IndInv, TypeOK, SetCheck, Goto, timers, table, events, ghost
<1>10. ASSUME NEW u \in Users, SetOld(u) \/ \E e \in Events : SetNew(u, e) PROVE TypeOK'
  <2>1. pc[u] = "set" /\ i[u] \in Timers /\ tick[u] \in Ticks /\ SetDone(u)
    BY <1>10, Indices DEF SetOld, SetNew, SetDone, Goto
  <2>2. exp' \in [Timers -> Ticks \cup {TMO_UNUSED}] /\ active' \in [Timers -> BOOLEAN]
    BY <1>10, <2>1 DEF SetOld, SetNew, Arm, IndInv, TypeOK
  <2>3. /\ tmo_buf' \in [Timers -> Events \cup {None}] /\ app' \subseteq Events
        /\ hdr' \in [Events -> Headers]
    <3>1. CASE SetOld(u)
      BY <3>1 DEF SetOld, IndInv, TypeOK
    <3>2. ASSUME NEW e \in Events, SetNew(u, e)
          PROVE  /\ tmo_buf' \in [Timers -> Events \cup {None}] /\ app' \subseteq Events
                 /\ hdr' \in [Events -> Headers]
      <4> DEFINE r == [hdr[e] EXCEPT !.timer = i[u], !.user_ptr = user_ptr[i[u]]]
      <4>0. hdr[e] \in Headers /\ user_ptr[i[u]] \in Queues \cup {None}
        BY <2>1 DEF IndInv, TypeOK
      <4>1. r \in Headers
        BY <2>1, <4>0, HeaderSet
      <4>2. hdr' = [hdr EXCEPT ![e] = r]
        BY <3>2 DEF SetNew
      <4> HIDE DEF r
      <4>3. hdr' \in [Events -> Headers]
        BY <4>1, <4>2 DEF IndInv, TypeOK
      <4>4. tmo_buf' \in [Timers -> Events \cup {None}] /\ app' \subseteq Events
        BY <2>1, <3>2 DEF SetNew, IndInv, TypeOK
      <4> QED
        BY <4>3, <4>4
    <3> QED
      BY <1>10, <3>1, <3>2
  <2> QED
    BY <2>1, <2>2, <2>3 DEF IndInv, TypeOK, SetDone, Goto, table, ghost
<1>11. ASSUME NEW e \in Events, Receive(e) PROVE TypeOK'
  BY <1>11 DEF IndInv, TypeOK, Receive, timers, table, locals
<1>12. ASSUME NEW n \in Notifiers, Tick(n) PROVE TypeOK'
  <2>1. cur_tick' \in 0 .. MaxTick /\ cur_tick' - 1 \in -1 .. MaxTick + MaxRel
    BY <1>12, SMT DEF Tick, IndInv, TypeOK
  <2> QED
    BY <1>12, <2>1 DEF IndInv, TypeOK, Tick, Goto, timers, table, events, ghost
<1>13. ASSUME NEW n \in Notifiers, TryLock(n) \/ ScanEnd(n) PROVE TypeOK'
  <2>1. 0 \in 0 .. N
    BY Setup, SMT
  <2>2. /\ pc' \in [Threads -> {"idle", "hwm", "fini", "link", "set", "del", "try", "scan", "expire", "enq"}]
        /\ i' \in [Threads -> 0 .. N \cup {None}] /\ running' \in Threads \cup {None}
        /\ tick' \in [Threads -> -1 .. MaxTick + MaxRel \cup {None}]
        /\ top' \in [Notifiers -> 0 .. N]
    BY <1>13, <2>1, SMT DEF IndInv, TypeOK, TryLock, ScanEnd, Leave, Goto
  <2> QED
    BY <1>13, <2>2 DEF IndInv, TypeOK, TryLock, ScanEnd, timers, table, events, ghost
<1>14. ASSUME NEW n \in Notifiers, Scan(n) PROVE TypeOK'
  <2>1. i[n] + 1 \in 0 .. N
    BY <1>14, Indices DEF Scan, Scanning
  <2> QED
    BY <1>14, <2>1 DEF IndInv, TypeOK, Scan, ScanOn, Goto, timers, table, events, ghost
<1>15. ASSUME NEW n \in Notifiers, Expire(n) PROVE TypeOK'
  <2>1. pc[n] = "expire" /\ i[n] + 1 \in 0 .. N /\ i[n] \in Timers
    BY <1>15, Indices DEF Expire, Scanning, IndInv, NotifierInv
  <2>2. CASE Due(i[n], tick[n]) /\ tmo_buf[i[n]] # None
    <3>1. exp[i[n]] \in Ticks
      BY <2>1, <2>2, SMT DEF Due, IndInv, TypeOK, NotifierInv, Ticks, TMO_UNUSED
    <3>2. hdr' \in [Events -> Headers]
      <4> DEFINE e == tmo_buf[i[n]]
                 r == [hdr[e] EXCEPT !.expiration = exp[i[n]]]
      <4>1. e \in Events /\ hdr[e] \in Headers
        BY <2>1, <2>2 DEF IndInv, TypeOK
      <4>2. r \in Headers
        BY <3>1, <4>1, HeaderStamp
      <4>3. hdr' = [hdr EXCEPT ![e] = r]
        BY <1>15, <2>2 DEF Expire
      <4> HIDE DEF e, r
      <4> QED
        BY <4>1, <4>2, <4>3 DEF IndInv, TypeOK
    <3> QED
      BY <1>15, <2>1, <2>2, <3>2, ZenonT(30) DEF IndInv, TypeOK, Expire, Goto, table, ghost
  <2>3. CASE ~(Due(i[n], tick[n]) /\ tmo_buf[i[n]] # None)
    BY <1>15, <2>1, <2>3, SMT DEF IndInv, TypeOK, Expire, ScanOn, Goto, table, ghost
  <2> QED
    BY <2>2, <2>3
<1>16. ASSUME NEW n \in Notifiers, Enq(n) PROVE TypeOK'
  <2>1. i[n] + 1 \in 0 .. N /\ hand[n] \in Events
    BY <1>16, Indices DEF Enq, Scanning, IndInv, TypeOK, NotifierInv
  <2> QED
    BY <1>16, <2>1, SMT DEF IndInv, TypeOK, Enq, ScanOn, timers, table, ghost
<1>17. ASSUME NEW u \in Users, AllocDone(u) PROVE TypeOK'
  <2>1. i[u] \in Timers
    BY <1>17, Indices DEF AllocDone, Goto
  <2>2. high_wm' \in 0 .. N
    BY <1>17, SMT DEF AllocDone, IndInv, TypeOK
  <2> QED
    BY <1>17, <2>1, <2>2 DEF IndInv, TypeOK, AllocDone, Goto, timers, events, ghost
<1>18. ASSUME NEW n \in Notifiers, TryLate(n) \/ EnqFails(n) PROVE TypeOK'
  BY <1>18 DEF IndInv, TypeOK, TryLate, EnqFails, timers, table, events, locals
<1> QED
  BY <1>2, <1>3, <1>4, <1>5, <1>6, <1>7, <1>8, <1>9, <1>10, <1>11, <1>12, <1>13, <1>14, <1>15, <1>16,
     <1>17, <1>18 DEF Next, User, Notify

-----------------------------------------------------------------------------
(* What the steps of one thread leave to the others.                       *)
LEMMA UserLeaves ==
  ASSUME IndInv, NEW u \in Users, User(u)
  PROVE  /\ \A t \in Threads : t # u => UNCHANGED <<pc[t], i[t], tick[t]>>
         /\ UNCHANGED <<top, hand, cur_tick, inq, fault>> /\ late \subseteq late'
<1> USE DEF IndInv, TypeOK, Goto, table, events, locals, ghost
<1>1. CASE Del(u) \/ DelFree(u)
  BY <1>1 DEF Del, DelFree
<1>2. ASSUME NEW q \in Queues, Alloc(u, q)
      PROVE  /\ \A t \in Threads : t # u => UNCHANGED <<pc[t], i[t], tick[t]>>
             /\ UNCHANGED <<top, hand, cur_tick, inq, fault>> /\ late \subseteq late'
  BY <1>2 DEF Alloc
<1>3. ASSUME NEW k \in Timers, Cancel(u, k) \/ Free(u, k) \/ \E t \in Ticks : SetCheck(u, k, t)
      PROVE  /\ \A t \in Threads : t # u => UNCHANGED <<pc[t], i[t], tick[t]>>
             /\ UNCHANGED <<top, hand, cur_tick, inq, fault>> /\ late \subseteq late'
  BY <1>3 DEF Cancel, Free, SetCheck
<1>4. CASE Fini(u) \/ Link(u) \/ AllocDone(u)
  BY <1>4 DEF Fini, Link, AllocDone
<1>5. CASE SetDone(u)
  BY <1>5 DEF SetDone
<1> QED
  BY <1>1, <1>2, <1>3, <1>4, <1>5 DEF User, SetOld, SetNew

LEMMA NotifierLeaves ==
  ASSUME IndInv, NEW n \in Notifiers, Notify(n)
  PROVE  /\ \A t \in Threads : t # n => UNCHANGED <<pc[t], i[t], tick[t]>>
         /\ \A m \in Notifiers : m # n => UNCHANGED <<top[m], hand[m]>>
         /\ UNCHANGED <<exists, exp, table, handles, app, late>>
<1> USE DEF IndInv, TypeOK, Goto, events, timers, ghost
<1>1. CASE Tick(n)
  BY <1>1 DEF Tick
<1>2. CASE TryLock(n) \/ ScanEnd(n)
  BY <1>2 DEF TryLock, ScanEnd, Leave
<1>3. CASE Scan(n)
  BY <1>3 DEF Scan
<1>4. CASE Expire(n)
  BY <1>4 DEF Expire
<1>5. CASE Enq(n)
  BY <1>5 DEF Enq
<1>6. CASE TryLate(n) \/ EnqFails(n)
  BY <1>6 DEF TryLate, EnqFails, locals
<1> QED
  BY <1>1, <1>2, <1>3, <1>4, <1>5, <1>6 DEF Notify

-----------------------------------------------------------------------------
LEMMA UserStep ==
  ASSUME IndInv, Next
  PROVE  UserInv'
<1>1. setup' = setup /\ setup \in Setups
  BY SMT DEF Next, IndInv, TypeOK
<1>2. /\ UserInv
      /\ \A u \in Users : u \in Threads /\ pc[u] \in {"idle", "hwm", "fini", "link", "set", "del"}
  BY DEF IndInv, UserInv, Threads
<1> USE Fixed, <1>1
<1>3. ASSUME NEW n \in Notifiers, Notify(n) PROVE UserInv'
  <2>1. \A u \in Users : UNCHANGED <<pc[u], i[u], tick[u]>>
    BY <1>2, <1>3, NotifierLeaves, Setup
  <2>2. \A u \in Users : pc[u] = "del" => running' = running
    BY <1>2, <1>3, Setup DEF Notify, Tick, TryLock, TryLate, Scan, ScanEnd, Expire, Enq, EnqFails,
                             IndInv, UserInv, NotifierInv, Scanning
  <2> QED
    BY <1>2, <1>3, <2>1, <2>2, NotifierLeaves, SMT DEF UserInv, Freeing, table
<1>4. ASSUME NEW e \in Events, Receive(e) PROVE UserInv'
  BY <1>4, <1>2 DEF UserInv, Freeing, Receive, locals, table, timers
<1>5. ASSUME NEW u \in Users, User(u) PROVE UserInv'
  <2>1. \A v \in Users : v # u => UNCHANGED <<pc[v], i[v], tick[v]>>
    BY <1>2, <1>5, UserLeaves
  <2>2. CASE Del(u)
    BY <1>2, <2>1, <2>2 DEF Del, Goto, UserInv, Freeing, IndInv, TypeOK, timers, table
  <2>3. CASE DelFree(u)
    BY <1>2, <2>1, <2>3, SMT DEF DelFree, Goto, UserInv, Freeing, IndInv, TypeOK, timers, table
  <2>4. ASSUME NEW q \in Queues, Alloc(u, q) PROVE UserInv'
    <3>1. first_free \in Timers \ handles /\ \A v \in Users : Freeing(v) => i[v] # first_free
      BY <2>4, FirstFree DEF Alloc
    <3>2. /\ pc[u] = "idle" /\ pc'[u] = "hwm" /\ i'[u] = first_free
          /\ UNCHANGED <<handles, running, high_wm>> /\ exp'[first_free] = TMO_INACTIVE
          /\ \A k \in Timers : k # first_free => exp'[k] = exp[k]
          /\ \A v \in Users : pc[v] # "hwm"
      BY <1>2, <2>4, <3>1 DEF Alloc, Goto, LockFree, IndInv, TypeOK
    <3> QED
      BY <1>2, <2>1, <3>1, <3>2, SMT DEF UserInv, Freeing
  <2>11. CASE AllocDone(u)
    <3>1. /\ pc[u] = "hwm" /\ pc'[u] = "idle" /\ handles' = handles \cup {i[u]}
          /\ UNCHANGED <<running, exp>> /\ high_wm \in Int /\ high_wm' \in Int /\ high_wm' >= high_wm
      BY <1>2, <2>11, SMT DEF AllocDone, Goto, timers, IndInv, TypeOK
    <3>2. \A v \in Users : Freeing(v) => i[v] \in Int /\ i[v] # i[u]
      BY <1>2, <3>1, Setup, Bounds, SMT DEF UserInv, TMO_UNUSED, TMO_INACTIVE
    <3> QED
      BY <1>2, <2>1, <3>1, <3>2, SMT DEF UserInv, Freeing
  <2>5. ASSUME NEW k \in Timers, Cancel(u, k) PROVE UserInv'
    BY <1>2, <2>5, SMTT(30) DEF Cancel, TimerCancel, UserInv, Freeing, IndInv, TypeOK, locals, table
  <2>6. ASSUME NEW k \in Timers, Free(u, k) PROVE UserInv'
    <3>1. /\ k \in handles /\ handles' = handles \ {k} /\ k < high_wm
          /\ high_wm' = high_wm /\ running' = running /\ \A v \in Users : i[v] # k
          /\ pc'[u] = "fini" /\ i'[u] = k /\ exp'[k] = TMO_UNUSED
          /\ \A j \in Timers : j # k => exp'[j] = exp[j]
      BY <1>2, <2>6 DEF Free, TimerCancel, table, IndInv, TypeOK, FreeInv, HighWmCovers
    <3> QED
      BY <1>2, <2>1, <3>1, SMT DEF UserInv, Freeing
  <2>7. CASE Fini(u)
    BY <1>2, <2>1, <2>7, SMT DEF Fini, Goto, UserInv, Freeing, IndInv, TypeOK, timers
  <2>8. CASE Link(u)
    BY <1>2, <2>1, <2>8, SMT DEF Link, Goto, UserInv, Freeing, IndInv, TypeOK, timers
  <2>9. ASSUME NEW k \in Timers, NEW t \in Ticks, SetCheck(u, k, t) PROVE UserInv'
    BY <1>2, <2>1, <2>9, SMT DEF SetCheck, Goto, UserInv, Freeing, IndInv, TypeOK, timers, table
  <2>10. ASSUME SetOld(u) \/ \E e \in Events : SetNew(u, e) PROVE UserInv'
    <3>1. /\ pc[u] = "set" /\ i[u] \in handles /\ pc'[u] = "idle"
          /\ UNCHANGED <<handles, high_wm, running>>
      <4>1. SetDone(u)
        BY <2>10 DEF SetOld, SetNew
      <4> QED
        BY <1>2, <4>1 DEF SetDone, Goto, UserInv, table, IndInv, TypeOK
    <3>2. \A k \in Timers : k # i[u] => exp'[k] = exp[k]
      BY <2>10 DEF SetOld, SetNew, Arm, IndInv, TypeOK
    <3> QED
      BY <1>2, <2>1, <3>1, <3>2, SMT DEF UserInv, Freeing
  <2> QED
    BY <1>5, <2>2, <2>3, <2>4, <2>5, <2>6, <2>7, <2>8, <2>9, <2>10, <2>11 DEF User
<1> QED
  BY <1>3, <1>4, <1>5 DEF Next

LEMMA NotifierStep ==
  ASSUME IndInv, Next
  PROVE  NotifierInv'
<1>1. setup' = setup /\ setup \in Setups
  BY SMT DEF Next, IndInv, TypeOK
<1>2. NotifierInv /\ \A n \in Notifiers : n \in Threads
  BY DEF IndInv, Threads
<1> USE Fixed, <1>1
<1>3. ASSUME NEW u \in Users, User(u) PROVE NotifierInv'
  <2>1. \A n \in Notifiers : UNCHANGED <<pc[n], i[n], tick[n], top[n], hand[n]>> /\ cur_tick' = cur_tick
    BY <1>2, <1>3, UserLeaves, Setup
  <2>2. /\ \A n \in Notifiers : Scanning(n) => running' = running
        /\ ~exists' => running' \in Users
    <3>1. CASE Del(u)
      BY <1>2, <3>1, Setup DEF Del, NotifierInv
    <3>2. CASE DelFree(u)
      BY <3>2 DEF DelFree, Goto, IndInv, UserInv
    <3>3. CASE exists' = exists /\ running' = running
      BY <1>2, <3>3 DEF NotifierInv
    <3> QED
      BY <1>3, <3>1, <3>2, <3>3
         DEF User, Alloc, AllocDone, Cancel, Free, SetCheck, Fini, Link, SetOld, SetNew, SetDone
  <2> QED
    BY <1>2, <2>1, <2>2, SMT DEF NotifierInv, Scanning
<1>4. ASSUME NEW e \in Events, Receive(e) PROVE NotifierInv'
  BY <1>2, <1>4 DEF NotifierInv, Scanning, Receive, locals
<1>5. ASSUME NEW n \in Notifiers, Notify(n) PROVE NotifierInv'
  <2>1. /\ \A m \in Notifiers : m # n => UNCHANGED <<pc[m], i[m], tick[m], top[m], hand[m]>>
        /\ handles' = handles /\ exists' = exists
        /\ cur_tick \in Int /\ high_wm \in 0 .. N /\ N \in Nat
        /\ n # None /\ n \notin Users
    <3>1. n # None /\ n \notin Users /\ N \in Nat
      BY Setup DEF IndInv, TypeOK
    <3>2. /\ \A m \in Notifiers : m # n => UNCHANGED <<pc[m], i[m], tick[m], top[m], hand[m]>>
          /\ handles' = handles /\ exists' = exists
      BY <1>5, NotifierLeaves DEF Threads
    <3>3. cur_tick \in Int /\ high_wm \in 0 .. N
      BY SMT DEF IndInv, TypeOK
    <3> QED
      BY <3>1, <3>2, <3>3
  <2>2. CASE Tick(n)
    <3>1. /\ cur_tick' \in Int /\ cur_tick' >= cur_tick /\ tick'[n] = cur_tick' - 1
          /\ pc[n] = "idle" /\ pc'[n] = "try" /\ UNCHANGED <<running, i, top, hand>>
      BY <2>2, SMT DEF Tick, Goto, IndInv, TypeOK
    <3> QED
      BY <1>2, <2>1, <3>1, SMT DEF NotifierInv, Scanning
  <2>3. CASE TryLock(n)
    <3>1. /\ pc[n] = "try" /\ UNCHANGED <<hand, cur_tick>>
          /\ IF running = None
               THEN /\ pc'[n] = "scan" /\ running' = n /\ i'[n] = 0 /\ top'[n] = high_wm
                    /\ tick' = tick
               ELSE pc'[n] = "idle" /\ running' = running
      BY <2>3 DEF TryLock, Leave, Goto, IndInv, TypeOK
    <3> QED
      BY <1>2, <2>1, <3>1, Setup, SMT DEF NotifierInv, Scanning
  <2>4. CASE Scan(n) \/ Expire(n) \/ Enq(n)
    <3>1. UNCHANGED <<tick, top, cur_tick, running>> /\ Scanning(n)
      BY <2>4 DEF Scan, Expire, Enq, Scanning
    <3>2. i[n] < top[n] /\ i[n] \in Int /\ top[n] \in Int
      BY <1>2, <2>4, <3>1, SMT DEF Scan, Expire, Enq, NotifierInv, IndInv, TypeOK
    <3>3. \/ pc'[n] = "scan" /\ i'[n] = i[n] + 1 /\ hand'[n] = None
          \/ pc'[n] = "expire" /\ i'[n] = i[n] /\ hand'[n] = None
          \/ pc'[n] = "enq" /\ i'[n] = i[n] /\ hand'[n] # None
      <4>1. CASE Scan(n)
        BY <1>2, <4>1 DEF Scan, ScanOn, Goto, NotifierInv, IndInv, TypeOK
      <4>2. CASE Expire(n)
        BY <1>2, <4>2, Indices, SMTT(30) DEF Expire, ScanOn, Goto, NotifierInv, IndInv, TypeOK, QueueInv
      <4>3. CASE Enq(n)
        BY <1>2, <4>3 DEF Enq, ScanOn, Goto, NotifierInv, IndInv, TypeOK
      <4> QED
        BY <2>4, <4>1, <4>2, <4>3
    <3> QED
      BY <1>2, <2>1, <3>1, <3>2, <3>3, SMT DEF NotifierInv, Scanning
  <2>5. CASE ScanEnd(n)
    <3>1. /\ pc[n] = "scan" /\ UNCHANGED <<hand, cur_tick>> /\ pc'[n] = "idle" /\ running' = None
      BY <2>5 DEF ScanEnd, Leave, IndInv, TypeOK
    <3> QED
      BY <1>2, <2>1, <3>1 DEF NotifierInv, Scanning
  <2>6. CASE TryLate(n) \/ EnqFails(n)
    BY <1>2, <2>6 DEF TryLate, EnqFails, NotifierInv, Scanning, locals
  <2> QED
    BY <1>5, <2>2, <2>3, <2>4, <2>5, <2>6 DEF Notify
<1> QED
  BY <1>3, <1>4, <1>5 DEF Next

-----------------------------------------------------------------------------
LEMMA PlaceStep ==
  ASSUME IndInv, Next
  PROVE  PlaceInv'
<1>1. setup' = setup /\ setup \in Setups
  BY SMT DEF Next, IndInv, TypeOK
<1>2. /\ PlaceInv /\ None \notin Events /\ app \subseteq Events
      /\ tmo_buf \in [Timers -> Events \cup {None}]
      /\ hand \in [Notifiers -> Events \cup {None}] /\ inq \in [Queues -> SUBSET Events]
  BY <1>1, Setup DEF IndInv, TypeOK
<1> USE Fixed, <1>1
<1>3. CASE UNCHANGED <<app, tmo_buf, hand, inq>>
  BY <1>2, <1>3 DEF PlaceInv, InTimer, InHand, InQueue
<1>4. ASSUME NEW u \in Users, NEW q \in Queues, Alloc(u, q)
      PROVE  UNCHANGED <<app, tmo_buf, hand, inq>>
  <2>1. first_free \in Timers /\ tmo_buf[first_free] = None
    BY <1>4, FirstFree DEF Alloc, IndInv, QueueInv
  <2> QED
    BY <1>2, <1>4, <2>1 DEF Alloc, events
<1>5. ASSUME NEW k \in Timers, NEW s, TimerCancel(k, s), UNCHANGED <<hand, inq>> PROVE PlaceInv'
  BY <1>2, <1>5, SMT DEF TimerCancel, PlaceInv, InTimer, InHand, InQueue
<1>6. ASSUME NEW u \in Users, NEW e \in Events, SetNew(u, e) PROVE PlaceInv'
  <2>1. i[u] \in Timers
    BY <1>6, Indices DEF SetNew, SetDone, Goto
  <2> QED
    BY <1>2, <1>6, <2>1, SMT DEF SetNew, SetDone, PlaceInv, InTimer, InHand, InQueue
<1>7. ASSUME NEW e \in Events, Receive(e) PROVE PlaceInv'
  BY <1>2, <1>7, SMT DEF Receive, timers, locals, PlaceInv, InTimer, InHand, InQueue
<1>8. ASSUME NEW n \in Notifiers, Expire(n) PROVE PlaceInv'
  <2>1. i[n] \in Timers /\ hand[n] = None
    BY <1>8, Indices DEF Expire, IndInv, NotifierInv
  <2>2. CASE tmo_buf[i[n]] # None /\ hand' = [hand EXCEPT ![n] = tmo_buf[i[n]]]
    BY <1>2, <1>8, <2>1, <2>2, SMT DEF Expire, Goto, PlaceInv, InTimer, InHand, InQueue
  <2> QED
    BY <1>3, <1>8, <2>2 DEF Expire
<1>9. ASSUME NEW n \in Notifiers, Enq(n) PROVE PlaceInv'
  <2>1. hand[n] \in Events
    BY <1>2, <1>9 DEF Enq, IndInv, NotifierInv
  <2> QED
    BY <1>2, <1>9, <2>1, SMT DEF Enq, timers, PlaceInv, InTimer, InHand, InQueue
<1>10. ASSUME NEW u \in Users, User(u) PROVE PlaceInv'
  BY <1>3, <1>4, <1>5, <1>6, <1>10
     DEF User, Del, DelFree, AllocDone, Cancel, Free, Fini, Link, SetCheck, SetOld, SetDone, timers,
         events, locals
<1>11. ASSUME NEW n \in Notifiers, Notify(n) PROVE PlaceInv'
  BY <1>3, <1>8, <1>9, <1>11 DEF Notify, Tick, TryLock, TryLate, Scan, ScanEnd, EnqFails, timers,
                                  events, locals
<1> QED
  BY <1>7, <1>10, <1>11, SMT DEF Next

-----------------------------------------------------------------------------
(* What timer_expire writes when it grabs an event.                        *)
LEMMA Grab ==
  ASSUME IndInv, NEW n \in Notifiers, Expire(n)
  PROVE  \/ UNCHANGED <<active, tmo_buf, hand, hdr>> /\ pc'[n] = "scan"
         \/ /\ i[n] \in handles /\ i'[n] = i[n] /\ pc'[n] = "enq"
            /\ tmo_buf[i[n]] \in Events /\ hand' = [hand EXCEPT ![n] = tmo_buf[i[n]]]
            /\ active' = [active EXCEPT ![i[n]] = FALSE]
            /\ tmo_buf' = [tmo_buf EXCEPT ![i[n]] = None]
            /\ exp[i[n]] \in Int /\ exp[i[n]] < cur_tick
            /\ hdr'[tmo_buf[i[n]]].expiration = exp[i[n]]
            /\ hdr'[tmo_buf[i[n]]].user_ptr = hdr[tmo_buf[i[n]]].user_ptr
            /\ \A e \in Events : e # tmo_buf[i[n]] => hdr'[e] = hdr[e]
<1> DEFINE k == i[n]
           f == tmo_buf[k]
           r == [hdr[f] EXCEPT !.expiration = exp[k]]
<1>1. setup \in Setups /\ n \in Threads /\ k \in Timers /\ pc[n] = "expire"
  BY Indices DEF Expire, IndInv, TypeOK, Threads
<1>2. CASE Due(k, tick[n]) /\ f # None
  <2>1. k \in handles /\ f \in Events /\ hdr[f] \in Headers /\ exp[k] \in Ticks \cup {TMO_UNUSED}
    BY <1>1, <1>2, SMT DEF IndInv, TypeOK, QueueInv
  <2>2. exp[k] \in Int /\ exp[k] < cur_tick /\ exp[k] \in Ticks
    <3>1. exp[k] <= tick[n] /\ tick[n] \in Int /\ tick[n] < cur_tick /\ cur_tick \in 0 .. MaxTick
      BY <1>1, <1>2 DEF Due, IndInv, TypeOK, NotifierInv
    <3> QED
      BY <2>1, <3>1, Bounds, SMT DEF Ticks, TMO_UNUSED
  <2>3. r.user_ptr = hdr[f].user_ptr /\ r.expiration = exp[k]
    BY <2>1, <2>2, HeaderStamp
  <2>4. hdr' = [hdr EXCEPT ![f] = r]
    BY <1>2 DEF Expire
  <2> HIDE DEF r
  <2>5. hdr'[f] = r /\ \A e \in Events : e # f => hdr'[e] = hdr[e]
    BY <2>1, <2>4 DEF IndInv, TypeOK
  <2>6. /\ i' = i /\ pc'[n] = "enq" /\ hand' = [hand EXCEPT ![n] = f]
        /\ active' = [active EXCEPT ![k] = FALSE] /\ tmo_buf' = [tmo_buf EXCEPT ![k] = None]
    BY <1>1, <1>2 DEF Expire, Goto, IndInv, TypeOK
  <2> QED
    BY <2>1, <2>2, <2>3, <2>5, <2>6
<1> QED
  BY <1>1, <1>2 DEF Expire, Goto, IndInv, TypeOK

(* What timer_reset writes when it is given an event.                      *)
LEMMA Given ==
  ASSUME IndInv, NEW u \in Users, NEW e \in Events, SetNew(u, e)
  PROVE  /\ i[u] \in handles /\ e \in app
         /\ hdr'[e].user_ptr = user_ptr[i[u]] /\ \A f \in Events : f # e => hdr'[f] = hdr[f]
<1> DEFINE r == [hdr[e] EXCEPT !.timer = i[u], !.user_ptr = user_ptr[i[u]]]
<1>1. pc[u] = "set" /\ i[u] \in handles /\ i[u] \in Timers /\ e \in app
  BY Indices DEF SetNew, SetDone, Goto, IndInv, UserInv
<1>2. hdr[e] \in Headers /\ user_ptr[i[u]] \in Queues \cup {None}
  BY <1>1 DEF IndInv, TypeOK
<1>3. r.user_ptr = user_ptr[i[u]]
  BY <1>1, <1>2, HeaderSet
<1>4. hdr' = [hdr EXCEPT ![e] = r]
  BY DEF SetNew
<1> HIDE DEF r
<1> QED
  BY <1>1, <1>3, <1>4 DEF IndInv, TypeOK

LEMMA QueueStep ==
  ASSUME IndInv, Next
  PROVE  QueueInv'
<1>1. setup' = setup /\ setup \in Setups
  BY DEF Next, IndInv, TypeOK
<1>2. /\ QueueInv /\ None \notin Events /\ handles \subseteq Timers /\ app \subseteq Events
      /\ tmo_buf \in [Timers -> Events \cup {None}] /\ active \in [Timers -> BOOLEAN]
      /\ hand \in [Notifiers -> Events \cup {None}] /\ inq \in [Queues -> SUBSET Events]
      /\ queue \in [Timers -> Queues \cup {None} \cup 0 .. N]
      /\ user_ptr \in [Timers -> Queues \cup {None}]
  BY <1>1, Setup DEF IndInv, TypeOK
<1>3. \A n \in Notifiers : pc[n] = "enq" =>
        hand[n] \in Events /\ (hand[n] \notin late => i[n] \in handles)
  BY <1>2, SMTT(30) DEF IndInv, NotifierInv, QueueInv
<1> USE Fixed, <1>1
<1>4. ASSUME NEW u \in Users, User(u) PROVE QueueInv'
  <2>1. /\ \A n \in Notifiers : UNCHANGED <<pc[n], i[n], hand[n]>>
        /\ inq' = inq /\ late \subseteq late'
        /\ \A v \in Users : v # u => UNCHANGED <<pc[v], i[v]>>
        /\ \A v \in Users : pc[v] = "hwm" => i[v] \in Timers \ handles
    <3>1. /\ \A t \in Threads : t # u => UNCHANGED <<pc[t], i[t]>>
          /\ UNCHANGED <<hand, inq>> /\ late \subseteq late'
      BY <1>4, UserLeaves
    <3>2. \A v \in Users : pc[v] = "hwm" => i[v] \in Timers \ handles
      BY DEF IndInv, UserInv
    <3> QED
      BY <3>1, <3>2, Setup
  <2>2. CASE UNCHANGED <<timers, queue, user_ptr, handles, hdr>> /\ pc'[u] # "hwm"
    BY <1>2, <2>1, <2>2, SMTT(30) DEF QueueInv, OwnQueue, timers
  <2>3. ASSUME NEW q \in Queues, Alloc(u, q) PROVE QueueInv'
    <3>1. first_free \in Timers \ handles
      BY <2>3, FirstFree DEF Alloc
    <3>2. i'[u] = first_free /\ \A v \in Users : pc[v] # "hwm"
      BY <2>3 DEF Alloc, LockFree, IndInv, TypeOK
    <3> QED
      BY <1>2, <1>3, <2>1, <2>3, <3>1, <3>2, SMTT(30) DEF Alloc, QueueInv, OwnQueue, events
  <2>8. CASE AllocDone(u)
    <3>1. pc[u] = "hwm" /\ pc'[u] = "idle"
      BY <2>8 DEF AllocDone, Goto, IndInv, TypeOK
    <3> QED
      BY <1>2, <1>3, <2>1, <2>8, <3>1, SMTT(30) DEF AllocDone, QueueInv, OwnQueue, timers, events
  <2>4. ASSUME NEW k \in handles, Cancel(u, k) \/ Free(u, k) PROVE QueueInv'
    <3>1. pc'[u] # "hwm" /\ UNCHANGED <<queue, user_ptr, hdr>>
      BY <2>4 DEF Cancel, Free, locals, table, IndInv, TypeOK
    <3>2. \A n \in Notifiers : pc[n] = "enq" /\ hand[n] \notin late' => i[n] \in handles'
      BY <1>3, <2>4, SMT DEF Cancel, Free, ghost
    <3> QED
      BY <1>2, <1>3, <2>1, <2>4, <3>1, <3>2, SMT DEF Cancel, Free, TimerCancel, QueueInv, OwnQueue
  <2>5. CASE Fini(u) \/ Link(u)
    <3>1. i[u] \in Timers \ handles /\ Freeing(u) /\ pc'[u] # "hwm"
      BY <2>5 DEF Fini, Link, Goto, Freeing, IndInv, UserInv, TypeOK
    <3>2. \A v \in Users : pc[v] = "hwm" => i[v] # i[u]
      BY <3>1, Bounds, SMT DEF IndInv, UserInv, TMO_UNUSED, TMO_INACTIVE
    <3> QED
      BY <1>2, <1>3, <2>1, <2>5, <3>1, <3>2, SMTT(30) DEF Fini, Link, QueueInv, OwnQueue, timers, events
  <2>6. CASE SetOld(u)
    <3>1. i[u] \in Timers /\ pc'[u] # "hwm"
      BY <2>6, Indices DEF SetOld, SetDone, Goto, IndInv, TypeOK
    <3> QED
      BY <1>2, <2>1, <2>6, <3>1, SMTT(30) DEF SetOld, SetDone, Arm, QueueInv, OwnQueue, table
  <2>7. ASSUME NEW e \in Events, SetNew(u, e) PROVE QueueInv'
    <3>1. /\ i[u] \in handles /\ hdr'[e].user_ptr = user_ptr[i[u]]
          /\ \A f \in Events : f # e => hdr'[f] = hdr[f]
      BY <2>7, Given
    <3>4. /\ e # None /\ tmo_buf' = [tmo_buf EXCEPT ![i[u]] = e]
          /\ active' = [active EXCEPT ![i[u]] = TRUE] /\ UNCHANGED <<queue, user_ptr, handles>>
          /\ pc'[u] # "hwm"
      BY <1>2, <2>7 DEF SetNew, SetDone, Arm, Goto, table, IndInv, TypeOK
    <3>2. /\ \A k \in Timers : tmo_buf[k] # e
          /\ \A n \in Notifiers : hand[n] # e
          /\ \A q \in Queues : e \notin inq[q]
      BY <2>7, Given DEF IndInv, PlaceInv, InTimer, InHand, InQueue
    <3>3. OwnQueue'
      <4>1. \A q \in Queues : \A f \in inq'[q] \ late' : hdr'[f].user_ptr = q
        BY <1>2, <2>1, <3>1, <3>2, SMTT(30) DEF QueueInv, OwnQueue
      <4>2. ASSUME NEW n \in Notifiers, pc'[n] = "enq", hand'[n] \notin late'
            PROVE  queue'[i'[n]] = hdr'[hand'[n]].user_ptr
        <5>1. pc[n] = "enq" /\ i'[n] = i[n] /\ hand'[n] = hand[n] /\ hand[n] \notin late
          BY <2>1, <4>2
        <5>2. hand[n] \in Events /\ hand[n] # e /\ queue[i[n]] = hdr[hand[n]].user_ptr
          BY <1>2, <1>3, <3>2, <5>1 DEF QueueInv, OwnQueue
        <5>3. hdr'[hand[n]] = hdr[hand[n]]
          BY <3>1, <5>2
        <5> QED
          BY <3>4, <5>1, <5>2, <5>3
      <4> QED
        BY <4>1, <4>2 DEF OwnQueue
    <3>5. \A k \in Timers : (active'[k] <=> tmo_buf'[k] # None) /\
            (tmo_buf'[k] # None => k \in handles' /\ hdr'[tmo_buf'[k]].user_ptr = user_ptr'[k])
      BY <1>2, <3>1, <3>2, <3>4, SMT DEF QueueInv
    <3>6. ASSUME NEW v \in Users, pc'[v] = "hwm"
          PROVE  queue'[i'[v]] = user_ptr'[i'[v]] /\ queue'[i'[v]] \in Queues
      <4>1. pc[v] = "hwm" /\ i'[v] = i[v]
        BY <2>1, <3>4, <3>6
      <4> QED
        BY <1>2, <3>4, <4>1 DEF QueueInv
    <3>7. ASSUME NEW n \in Notifiers, pc'[n] = "enq", hand'[n] \notin late'
          PROVE  i'[n] \in handles'
      <4>1. pc[n] = "enq" /\ i'[n] = i[n] /\ hand[n] \notin late
        BY <2>1, <3>7
      <4> QED
        BY <1>3, <3>4, <4>1
    <3> QED
      BY <1>2, <3>3, <3>4, <3>5, <3>6, <3>7 DEF QueueInv
  <2>9. ASSUME Del(u) \/ DelFree(u) \/ \E k \in Timers, t \in Ticks : SetCheck(u, k, t) PROVE QueueInv'
    BY <2>2, <2>9 DEF Del, DelFree, SetCheck, Goto, table, events, IndInv, TypeOK
  <2> QED
    BY <1>4, <2>3, <2>4, <2>5, <2>6, <2>7, <2>8, <2>9 DEF User, Cancel, Free
<1>5. ASSUME NEW e \in Events, Receive(e) PROVE QueueInv'
  <2>1. late' = late \ {e} /\ \A n \in Notifiers : hand[n] # e
    BY <1>5 DEF Receive, IndInv, PlaceInv, InHand, InQueue
  <2> QED
    <3>1. /\ UNCHANGED <<active, tmo_buf, queue, user_ptr, handles, hdr, pc, i, hand>>
          /\ \A q \in Queues : inq'[q] \ late' \subseteq inq[q] \ late
      BY <1>2, <1>5, <2>1, SMTT(30) DEF Receive, IndInv, PlaceInv, timers, table, locals
    <3>2. OwnQueue'
      BY <1>2, <2>1, <3>1, SMTT(30) DEF QueueInv, OwnQueue
    <3>3. \A n \in Notifiers : pc'[n] = "enq" /\ hand'[n] \notin late' => i'[n] \in handles'
      BY <1>3, <2>1, <3>1, SMT
    <3> QED
      BY <1>2, <3>1, <3>2, <3>3 DEF QueueInv
<1>6. ASSUME NEW n \in Notifiers, Notify(n) PROVE QueueInv'
  <2>1. /\ \A m \in Notifiers : m # n => UNCHANGED <<pc[m], i[m], hand[m]>>
        /\ UNCHANGED <<queue, user_ptr, handles, late>>
        /\ \A v \in Users : UNCHANGED <<pc[v], i[v]>>
    BY <1>6, NotifierLeaves, Setup DEF table, Threads
  <2>2. CASE UNCHANGED <<active, tmo_buf, inq, hdr>> /\ pc'[n] # "enq"
    <3>1. \A m \in Notifiers : pc'[m] = "enq" => pc[m] = "enq" /\ UNCHANGED <<i[m], hand[m]>>
      BY <2>1, <2>2
    <3>2. OwnQueue'
      BY <1>2, <2>1, <2>2, <3>1, SMTT(30) DEF QueueInv, OwnQueue
    <3> QED
      BY <1>2, <2>1, <2>2, <3>1, <3>2, SMT DEF QueueInv
  <2>3. CASE Expire(n) /\ pc'[n] = "enq"
    <3> DEFINE k == i[n]
    <3>1. /\ k \in handles /\ tmo_buf[k] \in Events /\ i'[n] = k
          /\ hand' = [hand EXCEPT ![n] = tmo_buf[k]]
          /\ active' = [active EXCEPT ![k] = FALSE]
          /\ tmo_buf' = [tmo_buf EXCEPT ![k] = None]
      BY <2>3, Grab
    <3>2. \A f \in Events : hdr'[f].user_ptr = hdr[f].user_ptr
      BY <2>3, Grab
    <3>4. inq' = inq
      BY <2>3 DEF Expire
    <3>3. OwnQueue'
      BY <1>2, <1>3, <2>1, <3>1, <3>2, <3>4, SMTT(30) DEF QueueInv, OwnQueue
    <3>5. \A m \in Notifiers : pc'[m] = "enq" /\ hand'[m] \notin late' => i'[m] \in handles'
      BY <1>2, <1>3, <2>1, <3>1
    <3>6. \A j \in Timers : (active'[j] <=> tmo_buf'[j] # None) /\
            (tmo_buf'[j] # None => j \in handles' /\ hdr'[tmo_buf'[j]].user_ptr = user_ptr'[j])
      BY <1>2, <2>1, <3>1, <3>2, SMT DEF QueueInv
    <3> QED
      BY <1>2, <2>1, <3>3, <3>5, <3>6, SMT DEF QueueInv
  <2>4. CASE Enq(n)
    <3>1. hand[n] \notin late => queue[i[n]] = hdr[hand[n]].user_ptr /\ queue[i[n]] \in Queues
      BY <1>2, <1>3, <2>4 DEF Enq, QueueInv, OwnQueue
    <3>2. pc'[n] = "scan"
      BY <2>4 DEF Enq, IndInv, TypeOK
    <3> QED
      BY <1>2, <2>1, <2>4, <3>1, <3>2, SMTT(30) DEF Enq, QueueInv, OwnQueue, timers
  <2>7. CASE TryLate(n) \/ EnqFails(n)
    <3>1. UNCHANGED <<active, tmo_buf, inq, hdr, pc, i, hand>>
      BY <2>7 DEF TryLate, EnqFails, timers, events, locals
    <3>2. OwnQueue'
      BY <1>2, <2>1, <3>1 DEF QueueInv, OwnQueue
    <3> QED
      BY <1>2, <2>1, <3>1, <3>2 DEF QueueInv
  <2>5. (Tick(n) \/ TryLock(n) \/ Scan(n) \/ ScanEnd(n)) =>
           UNCHANGED <<active, tmo_buf, inq, hdr>> /\ pc'[n] # "enq"
    BY DEF Tick, TryLock, Scan, ScanEnd, Leave, Goto, timers, events, IndInv, TypeOK
  <2>6. Expire(n) /\ pc'[n] # "enq" => UNCHANGED <<active, tmo_buf, inq, hdr>>
    BY Grab DEF Expire
  <2> QED
    BY <1>6, <2>2, <2>3, <2>4, <2>5, <2>6, <2>7 DEF Notify
<1> QED
  BY <1>4, <1>5, <1>6 DEF Next

LEMMA EarlyStep ==
  ASSUME IndInv, Next
  PROVE  EarlyInv'
<1>1. setup' = setup /\ setup \in Setups
  BY SMT DEF Next, IndInv, TypeOK
<1>2. /\ EarlyInv /\ None \notin Events /\ cur_tick \in Int
      /\ hand \in [Notifiers -> Events \cup {None}] /\ inq \in [Queues -> SUBSET Events]
  BY <1>1, Setup, SMT DEF IndInv, TypeOK
<1> USE Fixed, <1>1
<1>3. ASSUME cur_tick' \in Int, cur_tick' >= cur_tick,
             \A e \in Events : (InQueue(e) \/ InHand(e))' =>
                                 (InQueue(e) \/ InHand(e)) /\ hdr'[e] = hdr[e]
      PROVE  EarlyInv'
  BY <1>2, <1>3, SMT DEF EarlyInv, InQueue, InHand
<1>4. ASSUME NEW u \in Users, User(u) PROVE EarlyInv'
  <2>1. UNCHANGED <<hand, inq, cur_tick>>
    BY <1>4, UserLeaves
  <2>2. ASSUME NEW e \in Events, SetNew(u, e)
        PROVE  \A f \in Events : InQueue(f) \/ InHand(f) => hdr'[f] = hdr[f]
    BY <2>2, Given, SMTT(30) DEF IndInv, PlaceInv
  <2>3. \A f \in Events : InQueue(f) \/ InHand(f) => hdr'[f] = hdr[f]
    BY <1>4, <2>2 DEF User, Del, DelFree, Alloc, AllocDone, Cancel, Free, SetCheck, Fini, Link, SetOld,
                      events
  <2> QED
    BY <1>2, <1>3, <2>1, <2>3, SMT DEF InQueue, InHand
<1>5. ASSUME NEW e \in Events, Receive(e) PROVE EarlyInv'
  <2>1. (\A q \in Queues : inq'[q] \subseteq inq[q]) /\ UNCHANGED <<hand, hdr, cur_tick>>
    BY <1>2, <1>5 DEF Receive, locals
  <2> QED
    BY <1>2, <1>3, <2>1, SMT DEF InQueue, InHand
<1>6. ASSUME NEW n \in Notifiers, Notify(n) PROVE EarlyInv'
  <2>1. CASE Tick(n)
    BY <1>2, <1>3, <2>1, SMT DEF Tick, events, InQueue, InHand, IndInv, TypeOK
  <2>2. CASE UNCHANGED <<hand, inq, hdr, cur_tick>>
    BY <1>2, <1>3, <2>2, SMT DEF InQueue, InHand
  <2>3. CASE Expire(n)
    <3>1. inq' = inq /\ cur_tick' = cur_tick
      BY <2>3 DEF Expire
    <3> QED
      BY <1>2, <2>2, <2>3, <3>1, Grab, SMTT(30) DEF EarlyInv, InQueue, InHand
  <2>4. CASE Enq(n)
    <3>1. hand[n] # None
      BY <2>4 DEF Enq, IndInv, NotifierInv
    <3> QED
      BY <1>2, <1>3, <2>4, <3>1, SMT DEF Enq, InQueue, InHand
  <2> QED
    BY <1>6, <2>1, <2>2, <2>3, <2>4 DEF Notify, TryLock, TryLate, Scan, ScanEnd, EnqFails, events,
                                        locals
<1> QED
  BY <1>4, <1>5, <1>6, SMT DEF Next

(* The program ends in no other way: a field that timer_expire reads is a  *)
(* queue unless the event it has in hand is late.                          *)
LEMMA FaultStep ==
  ASSUME IndInv, Next
  PROVE  FaultsKnown'
<1>1. fault = "none"
  BY DEF Next
<1>2. CASE fault' = fault
  BY <1>1, <1>2 DEF FaultsKnown
<1>3. ASSUME NEW n \in Notifiers, TryLate(n) PROVE FaultsKnown'
  BY <1>3 DEF TryLate, FaultsKnown, locals
<1>4. ASSUME NEW n \in Notifiers, EnqFails(n) PROVE FaultsKnown'
  <2>1. hand[n] \in late
    BY <1>4 DEF EnqFails, IndInv, QueueInv
  <2> QED
    BY <1>4, <2>1 DEF EnqFails, FaultsKnown, locals
<1>5. ASSUME NEW u \in Users, User(u) PROVE fault' = fault
  BY <1>5, UserLeaves
<1> QED
  BY <1>2, <1>3, <1>4, <1>5
     DEF Next, Receive, Notify, Tick, TryLock, Scan, ScanEnd, Expire, Enq, ghost
=============================================================================
