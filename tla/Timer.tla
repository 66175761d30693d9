-------------------------------- MODULE Timer -------------------------------
(***************************************************************************)
(* A timer pool: platform/linux-generic/odp_timer.c, in the build without  *)
(* 16-byte atomics, where a lock per timer guards its tick and buffer.     *)
(* Users allocate, set, cancel and free timers; each tick the POSIX timer  *)
(* starts a thread in timer_notify, which may overlap the one before.      *)
(*                                                                         *)
(* A locked section is one step; so is each unlocked access that matters:  *)
(* the check of the current tick, the scan, the read of the queue, and the *)
(* store of high_wm, which the scan and handle_to_idx load without a lock. *)
(* The application passes the queue's name as the timer's user pointer.    *)
(***************************************************************************)
EXTENDS Integers, FiniteSets

CONSTANTS
  Notifiers,         \* threads in timer_notify
  Queues,
  Setups,            \* pools and applications, see setup
  MinRel, MaxRel,    \* min_rel_tck, max_rel_tck
  MaxTimers,         \* most timers of a pool
  MaxTick,           \* bound: time stands still here
  None

ASSUME TimerAssumption ==
  /\ \A s \in Setups :
       /\ s.num_timers \in 1 .. MaxTimers
       /\ s.users \cap Notifiers = {} /\ None \notin s.users \cup s.events
  /\ {MaxTimers, MaxTick, MinRel, MaxRel} \subseteq Nat
  /\ None \notin Queues \cup Notifiers

VARIABLE setup      \* [num_timers |-> param.num_timers, users |-> application
                    \*  threads, events |-> timeouts allocated]; never changes

N == setup.num_timers
Users == setup.users
Events == setup.events
Timers == 0 .. N - 1
Ticks == 0 .. MaxTick + MaxRel
TMO_UNUSED == MaxTick + MaxRel + 1    \* later than any tick; not active
TMO_INACTIVE == 0                     \* the flag alone

VARIABLES
  exists,           \* the pool's memory is there
  cur_tick,
  exp,              \* exp_tck without its TMO_INACTIVE bit...
  active,           \* ... and that bit is clear
  tmo_buf,
  queue,            \* tim->queue: a queue, None, or the next free index
  user_ptr,
  num_alloc, first_free, high_wm,
  running,          \* holder of itimer_running
  handles,          \* timers the application has
  app,              \* events the application has
  inq,              \* events in each queue
  hdr,              \* the timeout header: timer, user_ptr, expiration
  pc, i, tick,      \* of users and notifiers: the timer, the tick
  top,              \* high_wm when the notifier's scan began
  hand,             \* the event a notifier has grabbed
  late,             \* history: events grabbed from a timer that was freed
                    \* before they were enqueued
  fault             \* how the program ended, if it did

timers == <<exp, active, tmo_buf>>
table == <<queue, user_ptr, num_alloc, first_free, high_wm>>
events == <<app, inq, hdr>>
locals == <<pc, i, tick, top, hand>>
ghost == <<late, fault>>
vars == <<setup, exists, cur_tick, timers, table, running, handles, events, locals, ghost>>

Threads == Users \cup Notifiers

Goto(t, from, to) == pc[t] = from /\ pc' = [pc EXCEPT ![t] = to]

(* odp_timer_pool_new                                                      *)
Init ==
  /\ setup \in Setups
  /\ exists = TRUE /\ cur_tick = 0
  /\ exp = [k \in Timers |-> TMO_UNUSED] /\ active = [k \in Timers |-> FALSE]
  /\ tmo_buf = [k \in Timers |-> None]
  /\ queue = [k \in Timers |-> k + 1] /\ user_ptr = [k \in Timers |-> None]
  /\ num_alloc = 0 /\ first_free = 0 /\ high_wm = 0
  /\ running = None /\ handles = {}
  /\ app = Events /\ inq = [q \in Queues |-> {}]
  /\ hdr = [e \in Events |-> [timer |-> None, user_ptr |-> None, expiration |-> None]]
  /\ pc = [t \in Threads |-> "idle"] /\ i = [t \in Threads |-> None]
  /\ tick = [t \in Threads |-> None] /\ hand = [n \in Notifiers |-> None]
  /\ top = [n \in Notifiers |-> 0]
  /\ late = {} /\ fault = "none"

-----------------------------------------------------------------------------

(* Nobody has tp->lock.                                                    *)
LockFree == \A v \in Users : pc[v] \notin {"hwm", "del"}

(* timer_alloc: under the lock a timer is taken off the free list and      *)
(* initialised (timer_init)...                                             *)
Alloc(u, q) ==
  LET k == first_free
  IN /\ exists /\ LockFree /\ num_alloc < N
     /\ Goto(u, "idle", "hwm")
     /\ num_alloc' = num_alloc + 1
     /\ first_free' = queue[k]
     /\ queue' = [queue EXCEPT ![k] = q]
     /\ user_ptr' = [user_ptr EXCEPT ![k] = q]
     /\ tmo_buf' = [tmo_buf EXCEPT ![k] = None]
     /\ exp' = [exp EXCEPT ![k] = TMO_INACTIVE]
     /\ active' = [active EXCEPT ![k] = FALSE]
     /\ i' = [i EXCEPT ![u] = k]
     /\ UNCHANGED <<exists, cur_tick, high_wm, running, handles, events, tick, top, hand, ghost>>

(* ... and then high_wm is raised, if need be, and the handle returned.    *)
AllocDone(u) ==
  /\ Goto(u, "hwm", "idle")
  /\ high_wm' = IF num_alloc > high_wm THEN num_alloc ELSE high_wm
  /\ handles' = handles \cup {i[u]}
  /\ i' = [i EXCEPT ![u] = None]
  /\ UNCHANGED <<exists, cur_tick, timers, queue, user_ptr, num_alloc, first_free, running,
                 events, tick, top, hand, ghost>>

(* timer_cancel: the timer's buffer, if any, goes to the caller.           *)
TimerCancel(k, state) ==
  /\ exp' = [exp EXCEPT ![k] = state]
  /\ active' = [active EXCEPT ![k] = FALSE]
  /\ tmo_buf' = [tmo_buf EXCEPT ![k] = None]
  /\ app' = app \cup ({tmo_buf[k]} \ {None})

Cancel(u, k) ==
  /\ pc[u] = "idle" /\ k \in handles
  /\ TimerCancel(k, TMO_INACTIVE)
  /\ UNCHANGED <<exists, cur_tick, table, running, handles, inq, hdr, locals, ghost>>

(* odp_timer_free, in three steps.  Named assumption: no other thread is   *)
(* setting the timer.  An expiry may be in flight: timer_expire reads      *)
(* tim->queue after it has released the timer's lock, and then finds what  *)
(* Fini, Link or the next Alloc left there.                                *)
Free(u, k) ==
  /\ pc[u] = "idle" /\ k \in handles
  /\ \A t \in Users : i[t] # k
  /\ TimerCancel(k, TMO_UNUSED)
  /\ handles' = handles \ {k}
  /\ pc' = [pc EXCEPT ![u] = "fini"]
  /\ i' = [i EXCEPT ![u] = k]
  /\ late' = late \cup {hand[n] : n \in {m \in Notifiers : pc[m] = "enq" /\ i[m] = k}}
  /\ UNCHANGED <<exists, cur_tick, table, running, inq, hdr, tick, top, hand, fault>>

Fini(u) ==
  /\ Goto(u, "fini", "link")
  /\ queue' = [queue EXCEPT ![i[u]] = None]
  /\ user_ptr' = [user_ptr EXCEPT ![i[u]] = None]
  /\ UNCHANGED <<exists, cur_tick, timers, num_alloc, first_free, high_wm, running,
                 handles, events, i, tick, top, hand, ghost>>

Link(u) ==
  /\ LockFree
  /\ Goto(u, "link", "idle")
  /\ queue' = [queue EXCEPT ![i[u]] = first_free]
  /\ first_free' = i[u]
  /\ num_alloc' = num_alloc - 1
  /\ i' = [i EXCEPT ![u] = None]
  /\ UNCHANGED <<exists, cur_tick, timers, user_ptr, high_wm, running, handles,
                 events, tick, top, hand, ghost>>

(* odp_timer_set_abs and _rel: the tick is checked against cur_tick...     *)
SetCheck(u, k, abs) ==
  /\ k \in handles
  /\ abs \in cur_tick + MinRel .. cur_tick + MaxRel
  /\ Goto(u, "idle", "set")
  /\ i' = [i EXCEPT ![u] = k]
  /\ tick' = [tick EXCEPT ![u] = abs]
  /\ UNCHANGED <<exists, cur_tick, timers, table, running, handles, events, top, hand, ghost>>

SetDone(u) ==
  /\ Goto(u, "set", "idle")
  /\ i' = [i EXCEPT ![u] = None]
  /\ tick' = [tick EXCEPT ![u] = None]
  /\ UNCHANGED <<exists, cur_tick, table, running, handles, inq, top, hand, ghost>>

Arm(k, t) ==
  /\ exp' = [exp EXCEPT ![k] = t]
  /\ active' = [active EXCEPT ![k] = TRUE]

(* ... and timer_reset puts in a new event and returns the old one...      *)
SetNewMutant(u, e) ==
  /\ SetDone(u) /\ e \in app
  /\ hdr' = [hdr EXCEPT ![e].timer = i[u], ![e].user_ptr = user_ptr[i[u]]]
  /\ tmo_buf' = [tmo_buf EXCEPT ![i[u]] = e]
  /\ Arm(i[u], tick[u])
  /\ app' = app \ {e}

SetNew(u, e) ==
  /\ SetDone(u) /\ e \in app
  /\ hdr' = [hdr EXCEPT ![e].timer = i[u], ![e].user_ptr = user_ptr[i[u]]]
  /\ tmo_buf' = [tmo_buf EXCEPT ![i[u]] = e]
  /\ Arm(i[u], tick[u])
  /\ app' = (app \ {e}) \cup ({tmo_buf[i[u]]} \ {None})

(* ... or keeps the one that is there; without one (ODP_TIMER_NOEVENT) the *)
(* timer is not touched.                                                   *)
SetOld(u) ==
  /\ SetDone(u)
  /\ IF tmo_buf[i[u]] # None THEN Arm(i[u], tick[u]) ELSE UNCHANGED <<exp, active>>
  /\ UNCHANGED <<tmo_buf, app, hdr>>

(* The application dequeues a timeout (odp_queue_deq, odp_schedule).       *)
Receive(e) ==
  /\ \E q \in Queues : e \in inq[q] /\ inq' = [inq EXCEPT ![q] = @ \ {e}]
  /\ app' = app \cup {e}
  /\ late' = late \ {e}
  /\ UNCHANGED <<exists, cur_tick, timers, table, running, handles, hdr, locals, fault>>

-----------------------------------------------------------------------------
TickMutant(n) ==
  /\ Goto(n, "idle", "try") /\ exists
  /\ cur_tick' = IF cur_tick = MaxTick THEN MaxTick ELSE cur_tick + 1
  /\ tick' = [tick EXCEPT ![n] = cur_tick']
  /\ UNCHANGED <<exists, timers, table, running, handles, events, i, top, hand, ghost>>

(* timer_notify: the tick advances.  (At the bound it stays, and the       *)
(* notifications go on.)                                                   *)
Tick(n) ==
  /\ Goto(n, "idle", "try") /\ exists
  /\ cur_tick' = IF cur_tick = MaxTick THEN MaxTick ELSE cur_tick + 1
  /\ tick' = [tick EXCEPT ![n] = cur_tick' - 1]
  /\ UNCHANGED <<exists, timers, table, running, handles, events, i, top, hand, ghost>>

Leave(n) ==
  /\ pc' = [pc EXCEPT ![n] = "idle"]
  /\ i' = [i EXCEPT ![n] = None] /\ tick' = [tick EXCEPT ![n] = None]
  /\ top' = [top EXCEPT ![n] = 0]

(* The scan is skipped while another one runs.                             *)
TryLock(n) ==
  /\ pc[n] = "try" /\ exists
  /\ IF running = None
       THEN /\ Goto(n, "try", "scan")
            /\ running' = n
            /\ i' = [i EXCEPT ![n] = 0] /\ top' = [top EXCEPT ![n] = high_wm]
            /\ UNCHANGED tick
       ELSE Leave(n) /\ UNCHANGED running
  /\ UNCHANGED <<exists, cur_tick, timers, table, handles, events, hand, ghost>>

(* itimer_running is part of the pool's memory, which is unmapped by then. *)
TryLate(n) ==
  /\ pc[n] = "try" /\ ~exists
  /\ fault' = "unmapped"
  /\ UNCHANGED <<exists, cur_tick, timers, table, running, handles, events, locals, late>>

ScanOn(k) == k + 1

Due(k, t) == active[k] /\ exp[k] <= t

(* odp_timer_pool_expire: an unlocked look at the next timer               *)
Scan(n) ==
  /\ pc[n] = "scan" /\ i[n] < top[n]
  /\ IF Due(i[n], tick[n])
       THEN Goto(n, "scan", "expire") /\ UNCHANGED i
       ELSE i' = [i EXCEPT ![n] = ScanOn(@)] /\ UNCHANGED pc
  /\ UNCHANGED <<exists, cur_tick, timers, table, running, handles, events, tick, top, hand, ghost>>

ScanEndMutant(n) ==
  /\ pc[n] = "scan" /\ i[n] >= top[n]
  /\ Leave(n)
  /\ UNCHANGED <<exists, cur_tick, timers, table, running, handles, events, hand, ghost>>

ScanEnd(n) ==
  /\ pc[n] = "scan" /\ i[n] >= top[n]
  /\ Leave(n)
  /\ running' = None
  /\ UNCHANGED <<exists, cur_tick, timers, table, handles, events, hand, ghost>>

(* timer_expire: look again, locked, and grab the event...                 *)
Expire(n) ==
  LET k == i[n] e == tmo_buf[k]
  IN /\ pc[n] = "expire"
     /\ IF Due(k, tick[n]) /\ e # None
          THEN /\ Goto(n, "expire", "enq")
               /\ active' = [active EXCEPT ![k] = FALSE]
               /\ tmo_buf' = [tmo_buf EXCEPT ![k] = None]
               /\ hand' = [hand EXCEPT ![n] = e]
               /\ hdr' = [hdr EXCEPT ![e].expiration = exp[k]]
               /\ UNCHANGED i
          ELSE /\ Goto(n, "expire", "scan")
               /\ i' = [i EXCEPT ![n] = ScanOn(@)]
               /\ UNCHANGED <<active, tmo_buf, hand, hdr>>
     /\ UNCHANGED <<exists, cur_tick, exp, table, running, handles, app, inq, tick, top, ghost>>

(* ... and enqueue it where tim->queue says by now.  ODP_QUEUE_INVALID and *)
(* a link of the free list name any queue...                               *)
Enq(n) ==
  /\ pc[n] = "enq"
  /\ \E q \in Queues :
       /\ queue[i[n]] \in Queues => q = queue[i[n]]
       /\ inq' = [inq EXCEPT ![q] = @ \cup {hand[n]}]
  /\ hand' = [hand EXCEPT ![n] = None]
  /\ pc' = [pc EXCEPT ![n] = "scan"]
  /\ i' = [i EXCEPT ![n] = ScanOn(@)]
  /\ UNCHANGED <<exists, cur_tick, timers, table, running, handles, app, hdr, tick, top, ghost>>

(* ... or none: odp_queue_enq fails, and timer_expire aborts.              *)
EnqFails(n) ==
  /\ pc[n] = "enq" /\ queue[i[n]] \notin Queues
  /\ fault' = "queue"
  /\ UNCHANGED <<exists, cur_tick, timers, table, running, handles, events, locals, late>>

Notify(n) ==
  \/ Tick(n) \/ TryLock(n) \/ TryLate(n) \/ Scan(n) \/ ScanEnd(n)
  \/ Expire(n) \/ Enq(n) \/ EnqFails(n)

-----------------------------------------------------------------------------
(* odp_timer_pool_del, once all timers are freed: wait for the scan, then  *)
(* delete the POSIX timer and free the memory.                             *)
DelMutant(u) ==
  /\ exists /\ num_alloc = 0 /\ \A v \in Users : pc[v] = "idle"
  /\ running' = u
  /\ Goto(u, "idle", "del")
  /\ UNCHANGED <<exists, cur_tick, timers, table, handles, events, i, tick, top, hand, ghost>>

Del(u) ==
  /\ exists /\ num_alloc = 0 /\ \A v \in Users : pc[v] = "idle"
  /\ running = None
  /\ running' = u
  /\ Goto(u, "idle", "del")
  /\ UNCHANGED <<exists, cur_tick, timers, table, handles, events, i, tick, top, hand, ghost>>

DelFree(u) ==
  /\ Goto(u, "del", "idle")
  /\ exists' = FALSE
  /\ UNCHANGED <<cur_tick, timers, table, running, handles, events, i, tick, top, hand, ghost>>

User(u) ==
  \/ Del(u) \/ DelFree(u)
  \/ AllocDone(u) \/ \E q \in Queues : Alloc(u, q)
  \/ \E k \in Timers : Cancel(u, k) \/ Free(u, k) \/ \E t \in Ticks : SetCheck(u, k, t)
  \/ Fini(u) \/ Link(u)
  \/ SetOld(u) \/ \E e \in Events : SetNew(u, e)

Next ==
  /\ fault = "none"
  /\ \/ \E u \in Users : User(u)
     \/ \E n \in Notifiers : Notify(n)
     \/ \E e \in Events : Receive(e)
  /\ UNCHANGED setup

(* The kernel delivers the ticks and runs the threads it starts.           *)
Spec ==
  /\ Init /\ [][Next]_vars
  /\ \A n \in Notifiers : WF_vars(fault = "none" /\ Notify(n) /\ UNCHANGED setup)

-----------------------------------------------------------------------------
Headers ==
  [timer : Timers \cup {None}, user_ptr : Queues \cup {None}, expiration : Ticks \cup {None}]

TypeOK ==
  /\ setup \in Setups /\ exists \in BOOLEAN /\ cur_tick \in 0 .. MaxTick
  /\ exp \in [Timers -> Ticks \cup {TMO_UNUSED}] /\ active \in [Timers -> BOOLEAN]
  /\ tmo_buf \in [Timers -> Events \cup {None}]
  /\ queue \in [Timers -> Queues \cup {None} \cup 0 .. N]
  /\ user_ptr \in [Timers -> Queues \cup {None}]
  /\ num_alloc \in 0 .. N /\ first_free \in 0 .. N /\ high_wm \in 0 .. N
  /\ running \in Threads \cup {None} /\ handles \subseteq Timers
  /\ app \subseteq Events /\ inq \in [Queues -> SUBSET Events] /\ hdr \in [Events -> Headers]
  /\ pc \in [Threads -> {"idle", "hwm", "fini", "link", "set", "del", "try", "scan", "expire", "enq"}]
  /\ i \in [Threads -> 0 .. N \cup {None}] /\ tick \in [Threads -> -1 .. MaxTick + MaxRel \cup {None}]
  /\ top \in [Notifiers -> 0 .. N] /\ hand \in [Notifiers -> Events \cup {None}]
  /\ late \subseteq Events /\ fault \in {"none", "queue", "unmapped"}

(* An event is in one place: with the application, in one timer, in the    *)
(* hands of one notifier, or in one queue, whoever sets, cancels or frees  *)
(* the timer while it expires; and a timer is armed while it has one       *)
(* ("Else somehow active timer without user buffer": never).               *)
EventInOnePlace ==
  /\ TypeOK
  /\ \A k \in Timers : active[k] <=> tmo_buf[k] # None
  /\ \A e \in Events :
      (IF e \in app THEN 1 ELSE 0)
        + Cardinality({k \in Timers : tmo_buf[k] = e})
        + Cardinality({n \in Notifiers : hand[n] = e})
        + Cardinality({q \in Queues : e \in inq[q]}) = 1

(* A timeout is never delivered before the tick it was set for has passed. *)
NotEarly ==
  \A e \in Events :
    (\E q \in Queues : e \in inq[q]) \/ (\E n \in Notifiers : hand[n] = e)
      => hdr[e].expiration < cur_tick

(* The scan, and the check of handles, stop at high_wm: every timer in use *)
(* is below it, whatever was freed and allocated again in between.         *)
HighWmCovers == \A k \in handles : k < high_wm

(* The free list, kept in the queue fields, has N - num_alloc links, all   *)
(* of them different timers that are free, and ends after them.            *)
FreeListIntact ==
  \E chain \in [0 .. N - num_alloc -> 0 .. N] :
    /\ chain[0] = first_free /\ chain[N - num_alloc] = N
    /\ \A d \in 0 .. N - num_alloc - 1 :
         /\ chain[d] \in Timers /\ exp[chain[d]] = TMO_UNUSED
         /\ queue[chain[d]] = chain[d + 1]
    /\ \A d, e \in 0 .. N - num_alloc : chain[d] = chain[e] => d = e

(* A timeout goes to the queue its timer was allocated with ("queue:       *)
(* Destination queue for timeout notifications"), unless the timer was     *)
(* freed after the timeout had been grabbed and before it was enqueued.    *)
OwnQueue ==
  /\ \A q \in Queues : \A e \in inq[q] \ late : hdr[e].user_ptr = q
  /\ \A n \in Notifiers : pc[n] = "enq" /\ hand[n] \notin late
                            => queue[i[n]] = hdr[hand[n]].user_ptr

(* odp_timer_pool_del waits for the scan that runs: none touches the       *)
(* memory it has freed.                                                    *)
NoScanAfterFree ==
  ~exists => \A n \in Notifiers : pc[n] \notin {"scan", "expire", "enq"}

(* The program fails only in two ways: a timer was freed in that window    *)
(* and the timeout has nowhere to go, or the pool was deleted under a      *)
(* notification that had not yet tried itimer_running.                     *)
FaultsKnown ==
  /\ fault = "queue" => \E n \in Notifiers : pc[n] = "enq" /\ hand[n] \in late
  /\ fault = "unmapped" => ~exists /\ \E n \in Notifiers : pc[n] = "try"

Armed(k, t) == k \in Timers /\ active[k] /\ exp[k] = t

(* "next itimer invocation will process older expiration ticks as well":   *)
(* a timer whose tick passes expires, unless it is set anew or cancelled,  *)
(* also when some scans are skipped, or the program has aborted.           *)
Expires ==
  \A k \in 0 .. MaxTimers - 1, t \in 0 .. MaxTick - 1 :
    Armed(k, t) ~> ~Armed(k, t) \/ fault # "none"

(* The timers' memory is used as what it is: the scan covers every timer   *)
(* in use, the free list in the queue fields is whole, an expiry follows a *)
(* field that has become a link only if the timer was freed after its      *)
(* timeout was grabbed, and no scan goes on in a freed pool.               *)
MemoryIntact == HighWmCovers /\ FreeListIntact /\ OwnQueue /\ NoScanAfterFree /\ FaultsKnown
=============================================================================
