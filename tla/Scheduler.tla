----------------------------- MODULE Scheduler ------------------------------
(***************************************************************************)
(* Queues and the scheduler: platform/linux-generic/odp_queue.c and        *)
(* odp_schedule.c.  A scheduled queue owns one schedule command (cmd_ev).  *)
(* The command travels: it sits in one of the scheduler's priority queues, *)
(* or a thread carries it, or (queue empty) it rests with the queue.       *)
(*                                                                         *)
(* A section of code under one queue lock is one step; a call that takes   *)
(* two locks in turn is as many steps.  The priority queues are poll       *)
(* queues, so one odp_queue_enq or odp_queue_deq on them is one step.      *)
(* Calls that fail without changing anything are not steps.                *)
(***************************************************************************)
EXTENDS Integers, Sequences, FiniteSets, Functions

CONSTANTS
  Threads,     \* thread ids
  Queues,      \* ids of the entries of the queue table
  Events,      \* the events of the application
  Params,      \* what odp_queue_create is called with
  NumPrio,     \* ODP_CONFIG_SCHED_PRIOS
  QPP,         \* QUEUES_PER_PRIO
  MaxDeq,      \* MAX_DEQ: events a thread takes from a queue at once
  MaxNum,      \* most events a caller asks odp_schedule_multi for
  MaxEnq,      \* most events a caller gives odp_queue_enq_multi
  None

Prios == 0 .. NumPrio - 1
Ids == 0 .. QPP - 1
Slots == Prios \X Ids

ParamType == [type : {"SCHED", "POLL"}, sync : {"ATOMIC", "NONE"}, prio : Prios]

ASSUME SizesAssumption ==
  /\ NumPrio \in Nat \ {0} /\ QPP \in Nat \ {0}
  /\ MaxDeq \in Nat \ {0} /\ MaxNum \in Nat \ {0} /\ MaxEnq \in Nat \ {0}
ASSUME SetsAssumption ==
  /\ Threads \subseteq Nat /\ Threads # {} /\ Queues \subseteq Nat
  /\ IsFiniteSet(Queues)
  /\ Params \subseteq ParamType
  /\ None \notin Queues /\ None \notin Slots

VARIABLES
  status,      \* queue->s.status
  param,       \* queue->s.type and queue->s.param.sched
  evq,         \* the list from queue->s.head
  pri_queue,   \* queue->s.pri_queue, set together with queue->s.cmd_ev
  handles,     \* queue handles the application holds
  app,         \* events the application holds
  priq,        \* the commands in each sched->pri_queue[][]
  pri_mask, pri_count,         \* sched->pri_mask, sched->pri_count
  pc, cur, pos,                \* where a thread is; qe; i, j, id of schedule()
  held, lqe, lbuf, pause       \* sched_local: pri_queue/cmd_ev, qe, buf_hdr

table == <<status, param, evq, pri_queue, handles>>
pris == <<priq, pri_mask, pri_count>>
local == <<held, lqe, lbuf, pause>>
vars == <<status, param, evq, pri_queue, handles, app,
          priq, pri_mask, pri_count, pc, cur, pos, held, lqe, lbuf, pause>>

(* queue->s.status >= QUEUE_STATUS_READY                                   *)
Usable == {"READY", "NOTSCHED", "SCHED"}

IdOf(q) == q % QPP                \* pri_id_queue
Start(t) == [i |-> 0, j |-> 0, id |-> t % QPP]

AfterMutant(t, p) ==
  IF p.j + 1 < QPP
    THEN [p EXCEPT !.j = @ + 1, !.id = IF @ + 1 >= QPP THEN @ ELSE @ + 1]
    ELSE [i |-> p.i + 1, j |-> 0, id |-> t % QPP]

(* The loops over priorities and, from the thread's own id, over sub       *)
(* queues: the place after p.                                              *)
After(t, p) ==
  IF p.j + 1 < QPP
    THEN [i |-> p.i, j |-> p.j + 1, id |-> IF p.id + 1 >= QPP THEN 0 ELSE p.id + 1]
    ELSE [i |-> p.i + 1, j |-> 0, id |-> t % QPP]

SlotAt(t) == <<pos[t].i, pos[t].id>>

(* A thread's cur, pos and lqe are reset where the code no longer reads    *)
(* them, so that dead values make no states.                               *)
Goto(t, from, to) == pc[t] = from /\ pc' = [pc EXCEPT ![t] = to]

(* Go on with the loops; return 0 when they are exhausted.                 *)
Continue(t, from) ==
  LET p == After(t, pos[t])
      done == p.i >= NumPrio
  IN /\ Goto(t, from, IF done THEN "idle" ELSE "scan")
     /\ pos' = [pos EXCEPT ![t] = IF done THEN Start(t) ELSE p]
     /\ cur' = [cur EXCEPT ![t] = None]

Drop(s, n) == SubSeq(s, n + 1, Len(s))

Init ==
  /\ status = [q \in Queues |-> "FREE"]
  /\ param = [q \in Queues |-> [type |-> "SCHED", sync |-> "NONE", prio |-> 0]]
  /\ evq = [q \in Queues |-> <<>>]
  /\ pri_queue = [q \in Queues |-> None]
  /\ handles = {}
  /\ app = Events
  /\ priq = [s \in Slots |-> <<>>]
  /\ pri_mask = [s \in Slots |-> FALSE]
  /\ pri_count = [s \in Slots |-> 0]
  /\ pc = [t \in Threads |-> "idle"]
  /\ cur = [t \in Threads |-> None]
  /\ pos = [t \in Threads |-> Start(t)]
  /\ held = [t \in Threads |-> None]
  /\ lqe = [t \in Threads |-> None]
  /\ lbuf = [t \in Threads |-> <<>>]
  /\ pause = [t \in Threads |-> FALSE]

-----------------------------------------------------------------------------
(* The scheduler's mask and counters, under mask_lock.                     *)
pri_set(s) ==
  /\ pri_mask' = [pri_mask EXCEPT ![s] = TRUE]
  /\ pri_count' = [pri_count EXCEPT ![s] = @ + 1]

PriClrMutant(s) ==
  /\ pri_count' = [pri_count EXCEPT ![s] = @ - 1]
  /\ pri_mask' = [pri_mask EXCEPT ![s] = FALSE]

pri_clr(s) ==
  /\ pri_count' = [pri_count EXCEPT ![s] = @ - 1]
  /\ pri_mask' = [pri_mask EXCEPT ![s] = @ /\ pri_count[s] - 1 # 0]

(* odp_queue_enq(pri_queue, cmd_ev)                                        *)
Insert(q, s) == priq' = [priq EXCEPT ![s] = Append(@, q)]

schedule_queue_destroy(q) ==
  /\ pri_clr(pri_queue[q])
  /\ pri_queue' = [pri_queue EXCEPT ![q] = None]

-----------------------------------------------------------------------------
(* odp_queue_create up to the unlock of the entry: queue_init and status.  *)
(* The entry is any free one: what the scan over the table finds depends   *)
(* on unlocked reads of the status.                                        *)
Create(t, q, par) ==
  /\ status[q] = "FREE"
  /\ status' = [status EXCEPT ![q] = IF par.type = "SCHED" THEN "NOTSCHED" ELSE "READY"]
  /\ param' = [param EXCEPT ![q] = par]
  /\ evq' = [evq EXCEPT ![q] = <<>>]
  /\ pri_queue' = [pri_queue EXCEPT ![q] = None]
  /\ IF par.type = "SCHED"
       THEN /\ Goto(t, "idle", "create")
            /\ cur' = [cur EXCEPT ![t] = q]
            /\ UNCHANGED handles
       ELSE /\ pc[t] = "idle"
            /\ handles' = handles \cup {q}
            /\ UNCHANGED <<pc, cur>>
  /\ UNCHANGED <<app, pris, pos, local>>

(* schedule_queue_init: the command buffer is allocated and the queue      *)
(* counted in its priority queue; odp_queue_create returns the handle.     *)
CreateInit(t) ==
  LET q == cur[t]
      s == <<param[q].prio, IdOf(q)>>
  IN /\ Goto(t, "create", "idle")
     /\ pri_queue' = [pri_queue EXCEPT ![q] = s]
     /\ pri_set(s)
     /\ handles' = handles \cup {q}
     /\ cur' = [cur EXCEPT ![t] = None]
     /\ UNCHANGED <<status, param, evq, app, priq, pos, local>>

(* odp_buffer_alloc finds no command buffer (free ones may lie in other    *)
(* threads' caches): odp_queue_create fails and keeps the entry.           *)
CreateFail(t) ==
  /\ Goto(t, "create", "idle")
  /\ cur' = [cur EXCEPT ![t] = None]
  /\ UNCHANGED <<table, app, pris, pos, local>>

(* odp_queue_destroy: an empty queue; one that is in scheduling is only    *)
(* marked, the scheduler finalizes it.                                     *)
Destroy(t, q) ==
  /\ pc[t] = "idle"
  /\ q \in handles
  /\ status[q] \notin {"FREE", "DESTROYED"}
  /\ evq[q] = <<>>
  /\ handles' = handles \ {q}
  /\ \/ /\ status[q] = "READY"
        /\ status' = [status EXCEPT ![q] = "FREE"]
        /\ UNCHANGED <<pri_queue, pri_mask, pri_count>>
     \/ /\ status[q] = "NOTSCHED"
        /\ status' = [status EXCEPT ![q] = "FREE"]
        /\ schedule_queue_destroy(q)
     \/ /\ status[q] = "SCHED"
        /\ status' = [status EXCEPT ![q] = "DESTROYED"]
        /\ UNCHANGED <<pri_queue, pri_mask, pri_count>>
  /\ UNCHANGED <<param, evq, app, priq, pc, cur, pos, local>>

(* odp_queue_enq, odp_queue_enq_multi: the locked part of queue_enq.  A    *)
(* thread may come late with the handle of a queue another one destroyed.  *)
EnqForgetMutant(t, q, evs) ==
  /\ pc[t] = "idle"
  /\ q \in handles \/ status[q] = "DESTROYED"
  /\ status[q] \in Usable
  /\ evq' = [evq EXCEPT ![q] = @ \o evs]
  /\ app' = app \ Range(evs)
  /\ UNCHANGED <<status, pc, cur>>
  /\ UNCHANGED <<param, pri_queue, handles, pris, pos, local>>

Enq(t, q, evs) ==
  /\ pc[t] = "idle"
  /\ q \in handles \/ status[q] = "DESTROYED"
  /\ status[q] \in Usable
  /\ evq' = [evq EXCEPT ![q] = @ \o evs]
  /\ app' = app \ Range(evs)
  /\ IF status[q] = "NOTSCHED"
       THEN /\ status' = [status EXCEPT ![q] = "SCHED"]
            /\ Goto(t, "idle", "sched")
            /\ cur' = [cur EXCEPT ![t] = q]
       ELSE UNCHANGED <<status, pc, cur>>
  /\ UNCHANGED <<param, pri_queue, handles, pris, pos, local>>

(* ... and, the lock released, schedule_queue.                             *)
EnqSchedule(t) ==
  /\ Goto(t, "sched", "idle")
  /\ Insert(cur[t], pri_queue[cur[t]])
  /\ cur' = [cur EXCEPT ![t] = None]
  /\ UNCHANGED <<table, app, pri_mask, pri_count, pos, local>>

(* odp_queue_deq, odp_queue_deq_multi on a poll queue.                     *)
Deq(t, q, n) ==
  /\ pc[t] = "idle"
  /\ q \in handles /\ param[q].type = "POLL"
  /\ n <= Len(evq[q])
  /\ app' = app \cup Range(SubSeq(evq[q], 1, n))
  /\ evq' = [evq EXCEPT ![q] = Drop(@, n)]
  /\ UNCHANGED <<status, param, pri_queue, handles, pris, pc, cur, pos, local>>

-----------------------------------------------------------------------------
ReleaseAtomicMutant(t) ==
  IF held[t] # None
    THEN /\ Insert(held[t], pri_queue[held[t]])
         /\ held' = [held EXCEPT ![t] = None]
    ELSE UNCHANGED <<priq, held>>

(* odp_schedule_release_atomic does nothing while pre-dequeued events      *)
(* remain.                                                                 *)
release_atomic(t) ==
  IF held[t] # None /\ lbuf[t] = <<>>
    THEN /\ Insert(held[t], pri_queue[held[t]])
         /\ held' = [held EXCEPT ![t] = None]
    ELSE UNCHANGED <<priq, held>>

ReleaseAtomic(t) ==
  /\ pc[t] = "idle"
  /\ release_atomic(t)
  /\ UNCHANGED <<table, app, pri_mask, pri_count, pc, cur, pos, lqe, lbuf, pause>>

(* schedule() with events left from the last dequeue: copy_events only.    *)
ScheduleLocal(t, k) ==
  /\ pc[t] = "idle" /\ k <= Len(lbuf[t])
  /\ app' = app \cup Range(SubSeq(lbuf[t], 1, k))
  /\ lbuf' = [lbuf EXCEPT ![t] = Drop(@, k)]
  /\ lqe' = [lqe EXCEPT ![t] = IF k = Len(lbuf[t]) THEN None ELSE @]
  /\ UNCHANGED <<table, pris, pc, cur, pos, held, pause>>

(* schedule() without: release the atomic queue, then scan unless paused.  *)
ScheduleBegin(t) ==
  /\ pc[t] = "idle" /\ lbuf[t] = <<>>
  /\ release_atomic(t)
  /\ IF pause[t]
       THEN UNCHANGED pc
       ELSE Goto(t, "idle", "scan")
  /\ UNCHANGED <<table, app, pri_mask, pri_count, cur, pos, lqe, lbuf, pause>>

(* The mask bit is clear, or odp_queue_deq finds no command.  The unlocked *)
(* read of the mask and the dequeue are one step: a bit that is cleared in *)
(* between belongs to a priority queue that is empty by then.              *)
ScanSkip(t) ==
  /\ ~pri_mask[SlotAt(t)] \/ priq[SlotAt(t)] = <<>>
  /\ Continue(t, "scan")
  /\ UNCHANGED <<table, app, pris, local>>

ScanTake(t) ==
  LET s == SlotAt(t)
  IN /\ Goto(t, "scan", "got")
     /\ pri_mask[s] /\ priq[s] # <<>>
     /\ cur' = [cur EXCEPT ![t] = Head(priq[s])]
     /\ priq' = [priq EXCEPT ![s] = Tail(@)]
     /\ UNCHANGED <<table, app, pri_mask, pri_count, pos, local>>

(* queue_deq_multi on the command's queue: a destroyed queue...            *)
DeqDestroyed(t) ==
  /\ cur[t] \in Queues /\ status[cur[t]] \notin Usable
  /\ Goto(t, "got", "final")
  /\ UNCHANGED <<table, app, pris, cur, pos, local>>

(* ... an empty queue leaves scheduling: the command is dropped...         *)
DeqEmptyMutant(t) ==
  LET q == cur[t]
  IN /\ q \in Queues /\ status[q] \in Usable /\ evq[q] = <<>>
     /\ Continue(t, "got")
     /\ UNCHANGED <<table, app, pris, local>>

DeqEmpty(t) ==
  LET q == cur[t]
  IN /\ q \in Queues /\ status[q] \in Usable /\ evq[q] = <<>>
     /\ status' = [status EXCEPT ![q] = IF @ = "SCHED" THEN "NOTSCHED" ELSE @]
     /\ Continue(t, "got")
     /\ UNCHANGED <<param, evq, pri_queue, handles, app, pris, local>>

(* ... or up to MAX_DEQ events: k of them go to the caller, the rest stay  *)
(* with the thread; an atomic queue's command stays with the thread too.   *)
DeqEventsMutant(t, n, k) ==
  LET q == cur[t]
  IN /\ q \in Queues /\ status[q] \in Usable
     /\ n <= Len(evq[q]) /\ n \in {MaxDeq, Len(evq[q])}
     /\ k <= n
     /\ app' = app \cup Range(SubSeq(evq[q], 1, k))
     /\ lbuf' = [lbuf EXCEPT ![t] = SubSeq(evq[q], k + 1, n)]
     /\ lqe' = [lqe EXCEPT ![t] = IF k = n THEN None ELSE q]
     /\ evq' = [evq EXCEPT ![q] = Drop(@, n)]
     /\ Goto(t, "got", "reenq")
     /\ UNCHANGED <<status, param, pri_queue, handles, pris, cur, held, pos, pause>>

DeqEvents(t, n, k) ==
  LET q == cur[t]
  IN /\ q \in Queues /\ status[q] \in Usable
     /\ n <= Len(evq[q]) /\ n \in {MaxDeq, Len(evq[q])}
     /\ k <= n
     /\ app' = app \cup Range(SubSeq(evq[q], 1, k))
     /\ lbuf' = [lbuf EXCEPT ![t] = SubSeq(evq[q], k + 1, n)]
     /\ lqe' = [lqe EXCEPT ![t] = IF k = n THEN None ELSE q]
     /\ evq' = [evq EXCEPT ![q] = Drop(@, n)]
     /\ IF param[q].sync = "ATOMIC"
          THEN /\ Goto(t, "got", "idle")
               /\ held' = [held EXCEPT ![t] = q]
               /\ cur' = [cur EXCEPT ![t] = None]
               /\ pos' = [pos EXCEPT ![t] = Start(t)]
          ELSE /\ Goto(t, "got", "reenq")
               /\ UNCHANGED <<held, cur, pos>>
     /\ UNCHANGED <<status, param, pri_queue, handles, pris, pause>>

(* Continue scheduling a queue that is not atomic; schedule() returns.     *)
Reenqueue(t) ==
  /\ cur[t] \in Queues
  /\ Goto(t, "reenq", "idle")
  /\ Insert(cur[t], SlotAt(t))
  /\ cur' = [cur EXCEPT ![t] = None]
  /\ pos' = [pos EXCEPT ![t] = Start(t)]
  /\ UNCHANGED <<table, app, pri_mask, pri_count, local>>

(* queue_destroy_finalize                                                  *)
Finalize(t) ==
  LET q == cur[t]
  IN /\ Continue(t, "final")
     /\ IF status[q] = "DESTROYED"
          THEN /\ status' = [status EXCEPT ![q] = "FREE"]
               /\ schedule_queue_destroy(q)
          ELSE UNCHANGED <<status, pri_queue, pri_mask, pri_count>>
     /\ UNCHANGED <<param, evq, handles, app, priq, local>>

Pause(t) ==
  /\ pc[t] = "idle"
  /\ pause' = [pause EXCEPT ![t] = TRUE]
  /\ UNCHANGED <<table, app, pris, pc, cur, pos, held, lqe, lbuf>>

Resume(t) ==
  /\ pc[t] = "idle"
  /\ pause' = [pause EXCEPT ![t] = FALSE]
  /\ UNCHANGED <<table, app, pris, pc, cur, pos, held, lqe, lbuf>>

(* odp_schedule_term_local refuses while pre-dequeued events remain; the   *)
(* thread may come back with odp_schedule_init_local.                      *)
TermLocalMutant(t) ==
  /\ lbuf[t] = <<>>
  /\ Goto(t, "idle", "gone")
  /\ held' = [held EXCEPT ![t] = None]
  /\ lqe' = [lqe EXCEPT ![t] = None]
  /\ pause' = [pause EXCEPT ![t] = FALSE]
  /\ UNCHANGED <<table, app, pris, cur, pos, lbuf>>

TermLocal(t) ==
  /\ lbuf[t] = <<>>
  /\ Goto(t, "idle", "gone")
  /\ release_atomic(t)
  /\ lqe' = [lqe EXCEPT ![t] = None]
  /\ pause' = [pause EXCEPT ![t] = FALSE]
  /\ UNCHANGED <<table, app, pri_mask, pri_count, cur, pos, lbuf>>

InitLocal(t) ==
  /\ Goto(t, "gone", "idle")
  /\ UNCHANGED <<table, app, pris, cur, pos, local>>

-----------------------------------------------------------------------------
(* odp_schedule_term_global, called once every thread has terminated: each *)
(* command left in a priority queue is taken out.                          *)
TermBegin ==
  /\ \A t \in Threads : pc[t] = "gone"
  /\ pc' = [t \in Threads |-> "down"]
  /\ UNCHANGED <<table, app, pris, cur, pos, local>>

TermDrain(s) ==
  LET q == Head(priq[s])
  IN /\ \A t \in Threads : pc[t] = "down"
     /\ priq[s] # <<>>
     /\ priq' = [priq EXCEPT ![s] = Tail(@)]
     /\ \/ /\ status[q] \notin Usable
           /\ status' = [status EXCEPT ![q] = "FREE"]
           /\ schedule_queue_destroy(q)
           /\ UNCHANGED evq
        \/ /\ status[q] \in Usable /\ evq[q] = <<>>
           /\ status' = [status EXCEPT ![q] = IF @ = "SCHED" THEN "NOTSCHED" ELSE @]
           /\ UNCHANGED <<evq, pri_queue, pri_mask, pri_count>>
        \/ /\ status[q] \in Usable /\ evq[q] # <<>>
           /\ evq' = [evq EXCEPT ![q] = Tail(@)]
           /\ UNCHANGED <<status, pri_queue, pri_mask, pri_count>>
     /\ UNCHANGED <<param, handles, app, pc, cur, pos, local>>

-----------------------------------------------------------------------------
EventLists == {evs \in UNION {[1 .. n -> app] : n \in 1 .. MaxEnq} : IsInjective(evs)}

(* What the application decides to do.                                     *)
Call(t) ==
  \/ \E q \in Queues, par \in Params : Create(t, q, par)
  \/ \E q \in Queues : Destroy(t, q)
  \/ \E q \in Queues, evs \in EventLists : Enq(t, q, evs)
  \/ \E q \in Queues, n \in 1 .. MaxNum : Deq(t, q, n)
  \/ ReleaseAtomic(t)

(* A thread leaves scheduling, for a while or altogether.                  *)
Leave(t) == Pause(t) \/ Resume(t) \/ TermLocal(t) \/ InitLocal(t)

(* Calling odp_schedule.                                                   *)
Schedule(t) ==
  \/ \E k \in 1 .. MaxNum : ScheduleLocal(t, k)
  \/ ScheduleBegin(t)

(* The rest of a call that has begun.                                      *)
Run(t) ==
  \/ CreateInit(t) \/ CreateFail(t)
  \/ EnqSchedule(t)
  \/ ScanSkip(t) \/ ScanTake(t)
  \/ DeqDestroyed(t) \/ DeqEmpty(t)
  \/ \E n \in 1 .. MaxDeq, k \in 1 .. MaxNum : DeqEvents(t, n, k)
  \/ Reenqueue(t) \/ Finalize(t)

Next == \E t \in Threads : Call(t) \/ Leave(t) \/ Schedule(t) \/ Run(t)

Spec == Init /\ [][Next]_vars

(* The whole life of the scheduler, up to its termination.                 *)
LifeNext == Next \/ TermBegin \/ \E s \in Slots : TermDrain(s)

LifeSpec == Init /\ [][LifeNext]_vars

-----------------------------------------------------------------------------
PC == {"idle", "create", "sched", "scan", "got", "final", "reenq", "gone", "down"}

QueueType ==
  /\ status \in [Queues -> Usable \cup {"FREE", "DESTROYED"}]
  /\ pri_queue \in [Queues -> Slots \cup {None}]
  /\ handles \subseteq Queues

EventType ==
  /\ evq \in [Queues -> Seq(Events)]
  /\ lbuf \in [Threads -> Seq(Events)]
  /\ app \subseteq Events

PriType ==
  /\ priq \in [Slots -> Seq(Queues)]
  /\ pri_mask \in [Slots -> BOOLEAN] /\ pri_count \in [Slots -> Int]

ThreadType ==
  /\ pc \in [Threads -> PC]
  /\ cur \in [Threads -> Queues \cup {None}]
  /\ held \in [Threads -> Queues \cup {None}]

TypeOK ==
  /\ QueueType /\ EventType /\ PriType /\ ThreadType
  /\ param \in [Queues -> ParamType]
  /\ pos \in [Threads -> [i : Prios, j : Ids, id : Ids]]
  /\ lqe \in [Threads -> Queues \cup {None}]
  /\ pause \in [Threads -> BOOLEAN]

(* The thread carries the command of queue q.                              *)
Carries(t, q) ==
  \/ held[t] = q
  \/ cur[t] = q /\ pc[t] \in {"sched", "got", "final", "reenq"}

InPri(q) == \E s \in Slots : q \in Range(priq[s])

(* The command of a queue is in exactly one place while the queue is       *)
(* SCHED (or DESTROYED and not finalized), and nowhere otherwise: never    *)
(* twice in the priority queues, never in two threads' hands, never lost   *)
(* (queue_enq, schedule, odp_schedule_release_atomic, odp_queue_destroy).  *)
CmdInOnePlace ==
  /\ \A s \in Slots : \A q \in Range(priq[s]) : pri_queue[q] = s
  /\ \A s \in Slots : IsInjective(priq[s])
  /\ \A q \in Queues : \A t \in Threads :
       Carries(t, q) => ~InPri(q) /\ \A u \in Threads : Carries(u, q) => u = t
  /\ \A q \in Queues :
       InPri(q) \/ (\E t \in Threads : Carries(t, q))
         <=> status[q] \in {"SCHED", "DESTROYED"}

Up == \A t \in Threads : pc[t] # "down"

(* The command of a queue in scheduling is in one place, until             *)
(* odp_schedule_term_global empties the priority queues: no queue is       *)
(* scheduled twice at a time or forgotten (queue_enq, schedule,            *)
(* odp_schedule_release_atomic, odp_queue_destroy).                        *)
OneCommandEach == Up => CmdInOnePlace

(* No lost wakeup: a queue with events is scheduled, so by CmdInOnePlace   *)
(* some thread will find its command; and nobody scans past it, because    *)
(* its priority queue's mask bit is set (queue_enq against the scheduler's *)
(* removal of an empty queue; pri_clr of one queue against another's).     *)
NoLostWakeup ==
  \A q \in Queues :
    /\ evq[q] # <<>> => status[q] \in {"READY", "SCHED"}
    /\ pri_queue[q] # None => pri_mask[pri_queue[q]]

Working(t, q) == held[t] = q \/ (lqe[t] = q /\ lbuf[t] # <<>>)

(* Events of an atomic queue are with one thread at a time: a thread that  *)
(* holds the queue, or has pre-dequeued events that odp_schedule will      *)
(* return as this queue's, is the only such thread (schedule, copy_events, *)
(* odp_schedule_release_atomic).  It holds when all queues are atomic: the *)
(* events a thread pre-dequeued from a queue without synchronization       *)
(* outlive odp_queue_destroy, and come out as those of the queue created   *)
(* in its place.                                                           *)
AtomicExclusion ==
  \A q \in Queues : param[q].sync = "ATOMIC" =>
    \A t, u \in Threads : Working(t, q) /\ Working(u, q) => t = u

(* Every event is in one place: with the application, in one queue once,   *)
(* or among one thread's pre-dequeued events; none vanishes, not even in   *)
(* a queue that is destroyed (queue_enq, queue_deq_multi, copy_events,     *)
(* odp_queue_destroy).                                                     *)
EventPlaces(e) ==
  (IF e \in app THEN {<<"app">>} ELSE {})
    \cup {<<"queue", place>> : place \in
             {x \in Queues \X (1 .. Cardinality(Events) + 1) :
                x[2] \in DOMAIN evq[x[1]] /\ evq[x[1]][x[2]] = e}}
    \cup {<<"local", place>> : place \in
             {x \in Threads \X (1 .. Cardinality(Events) + 1) :
                x[2] \in DOMAIN lbuf[x[1]] /\ lbuf[x[1]][x[2]] = e}}

EventsConserved ==
  /\ Up => \A e \in Events : Cardinality(EventPlaces(e)) = 1
  /\ \A q \in Queues : status[q] = "FREE" => evq[q] = <<>>

(* The count of a priority queue is the number of queues whose commands    *)
(* go there (pri_set, pri_clr), so the mask bit is cleared with the last.  *)
CountExact ==
  \A s \in Slots :
    pri_count[s] = Cardinality({q \in Queues : pri_queue[q] = s})

Holder(q) == CHOOSE t \in Threads : held[t] = q
Pending(q) ==
  IF \E t \in Threads : held[t] = q THEN lbuf[Holder(q)] \o evq[q] ELSE evq[q]

(* A step takes from the front of what is pending, for the application...  *)
FrontLeaves(q) ==
  \E n \in 0 .. Len(Pending(q)) :
    /\ Pending(q)' = Drop(Pending(q), n)
    /\ Range(SubSeq(Pending(q), 1, n)) \subseteq app'

(* ... or adds to its end.                                                 *)
EndGrows(q) ==
  \E n \in 1 .. MaxEnq :
    /\ Len(Pending(q)') = Len(Pending(q)) + n
    /\ SubSeq(Pending(q)', 1, Len(Pending(q))) = Pending(q)

KeepsOrder ==
  \A q \in Queues :
    Up /\ param[q].sync = "ATOMIC" /\ UNCHANGED param[q] => FrontLeaves(q) \/ EndGrows(q)

(* An atomic queue delivers in enqueue order: what is still to be          *)
(* delivered from it, the holder's pre-dequeued events first, only ever    *)
(* grows at the end and shrinks at the front, what leaves going to the     *)
(* application, whichever threads serve it.                                *)
AtomicOrder == [][KeepsOrder]_vars

(* Once odp_schedule_term_global has drained the priority queues, the only *)
(* command buffers not yet freed belong to queues the application did not  *)
(* destroy or could not create: no queue is left DESTROYED for good.       *)
TermFinalizes ==
  (\A t \in Threads : pc[t] = "down") /\ (\A s \in Slots : priq[s] = <<>>) =>
    \A q \in Queues : pri_queue[q] # None => q \in handles

-----------------------------------------------------------------------------
(* A call that has begun goes on, and a thread that is initialized calls   *)
(* odp_schedule again and again; it may make other calls in between, and   *)
(* nobody is forced to create, destroy, enqueue or leave.                  *)
FairSpec ==
  /\ LifeSpec
  /\ \A t \in Threads : WF_vars(Run(t)) /\ SF_vars(Schedule(t))

(* The places schedule() looks at before slot s when thread t scans: the   *)
(* higher priorities and, within the priority, the sub queues from the     *)
(* thread's own on.                                                        *)
Before(t, s) ==
  {r \in Slots :
     \/ r[1] < s[1]
     \/ r[1] = s[1] /\ (r[2] - t) % QPP < (s[2] - t) % QPP}

Works(t) == pc[t] \notin {"gone", "down"} /\ ~pause[t]

(* Thread t finds no events, where schedule() would return, before it      *)
(* comes to the place of queue q.                                          *)
Reaches(t, q) ==
  pri_queue[q] # None =>
    \A r \in Queues : pri_queue[r] \in Before(t, pri_queue[q]) => evq[r] = <<>>

Scheduled(e, q) == param[q].type = "SCHED" /\ e \in Range(evq[q])

(* An event put into a scheduled queue reaches the application if some     *)
(* thread, from a time on, stays in scheduling and finds nothing in the    *)
(* places it looks at first, whoever else pauses, leaves or comes back,    *)
(* and whatever the other queues of the same priority queue carry: there   *)
(* the commands take turns (queue_enq, schedule, odp_schedule_pause,       *)
(* odp_schedule_term_local).  Without the second condition it may wait for *)
(* ever: schedule() begins at the highest priority and the thread's own    *)
(* sub queue every time and returns at the first events.                   *)
EveryEventDelivered ==
  \A t \in Threads, e \in Events :
    <>[](Works(t) /\ \A q \in Queues : Scheduled(e, q) => Reaches(t, q)) =>
      (\E q \in Queues : Scheduled(e, q)) ~> e \in app

(* Under the same condition a queue destroyed in scheduling becomes free   *)
(* again (odp_queue_destroy, queue_deq_multi, queue_destroy_finalize).     *)
DestroyCompletes ==
  \A t \in Threads, q \in Queues :
    <>[](Works(t) /\ (status[q] = "DESTROYED" => Reaches(t, q))) =>
      status[q] = "DESTROYED" ~> status[q] = "FREE"
=============================================================================
