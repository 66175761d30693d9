------------------------------- MODULE Pktio --------------------------------
(***************************************************************************)
(* Packet interfaces and how their packets reach the application:          *)
(* platform/linux-generic/odp_packet_io.c on the loopback device           *)
(* (pktio/loop.c), the poll commands of odp_schedule.c and the operations  *)
(* of odp_queue.c they use on packet input queues.                         *)
(*                                                                         *)
(* One device, "loop".  An input queue is never destroyed, and no packet   *)
(* matches a class of service.  Which command the scheduler takes next is  *)
(* left open, so only how often a command is queued is kept.  One step per *)
(* locked section and per read without the lock.                           *)
(***************************************************************************)
EXTENDS Integers, FiniteSets, Sequences, SequencesExt

CONSTANTS
  Threads,
  NumEntries,    \* ODP_CONFIG_PKTIO_ENTRIES
  Queues,        \* input queues, of type ODP_QUEUE_TYPE_PKTIN
  Packets,
  Burst,         \* QUEUE_MULTI_MAX and MAX_DEQ
  MaxCmds,       \* poll commands the scheduler's pool can hold
  Apps,          \* the applications: sets of what they do besides sending
  None

AllOps == {"close", "stop", "remdef", "schedule", "deq"}

ASSUME PktioAssumption ==
  /\ NumEntries \in Nat \ {0} /\ Burst \in Nat \ {0} /\ MaxCmds \in Nat
  /\ \A ops \in Apps : ops \subseteq AllOps
  /\ None \notin Threads \cup Queues \cup Packets

Entries == 1 .. NumEntries

VARIABLES
  ops,           \* what this application does; never changes
  taken, state,  \* of each interface; STATE_START or STATE_STOP
  inq,           \* inq_default
  loopq,         \* the queue of the loopback device, None if there is none
  pktin,         \* of each input queue: the interface it polls
  status,        \* NOTSCHED or SCHED
  evq,           \* the packets in the input queue
  inpri,         \* how often its command is in the priority queue (2: more than once)
  polls,         \* poll commands of the interface in the priority queue
  pri_count,     \* what the interface adds to pri_count
  cmds,          \* free buffers in the scheduler's pool of commands
  app,           \* packets the application has
  wild,          \* a queue entry was made from ODP_QUEUE_INVALID
  loc            \* of each thread: where it is, its interface, queue and packets

table == <<taken, state, inq, loopq>>
queues == <<pktin, status, evq, inpri>>
sched == <<polls, pri_count, cmds>>
vars == <<ops, table, queues, sched, app, wild, loc>>

Idle == [pc |-> "idle", ent |-> None, que |-> None, hand |-> <<>>]

Init ==
  /\ ops \in Apps
  /\ taken = [e \in Entries |-> FALSE] /\ state = [e \in Entries |-> "STOP"]
  /\ inq = [e \in Entries |-> None] /\ loopq = [e \in Entries |-> None]
  /\ pktin = [q \in Queues |-> None] /\ status = [q \in Queues |-> "NOTSCHED"]
  /\ evq = [q \in Queues |-> <<>>] /\ inpri = [q \in Queues |-> 0]
  /\ polls = [e \in Entries |-> 0] /\ pri_count = [e \in Entries |-> 0]
  /\ cmds = MaxCmds
  /\ app = Packets /\ wild = FALSE
  /\ loc = [t \in Threads |-> Idle]

First(s, n) == IF Len(s) <= n THEN s ELSE SubSeq(s, 1, n)
Skip(s, n) == IF Len(s) <= n THEN <<>> ELSE SubSeq(s, n + 1, Len(s))

At(t, pc) == loc[t].pc = pc
Goto(t, pc) == loc' = [loc EXCEPT ![t].pc = pc]
Return(t) == loc' = [loc EXCEPT ![t] = Idle]
Call(t, pc, e, q) == loc' = [loc EXCEPT ![t] = [Idle EXCEPT !.pc = pc, !.ent = e, !.que = q]]

(* The locks of the table and of an entry: only odp_pktio_open keeps them  *)
(* for more than one step.                                                 *)
TableFree == \A t \in Threads : ~At(t, "init")
EntryFree(e) == \A t \in Threads : ~(At(t, "init") /\ loc[t].ent = e)

(* Named assumption: the application opens and closes interfaces and takes *)
(* their default queue away while no other thread is in a call.            *)
Alone(t) == \A u \in Threads \ {t} : At(u, "idle")

-----------------------------------------------------------------------------
(* odp_pktio_open: a lookup of the device, and after it the set-up.        *)
OpenLookup(t) ==
  /\ At(t, "idle") /\ TableFree /\ Alone(t)
  /\ \A e \in Entries : ~taken[e]
  /\ Goto(t, "open")
  /\ UNCHANGED <<table, queues, sched, app, wild>>

FirstFree(e) == ~taken[e] /\ \A f \in 1 .. (e - 1) : taken[f]

OpenTake(t) ==
  /\ At(t, "open") /\ TableFree
  /\ \/ \E e \in Entries :
          /\ FirstFree(e)
          /\ taken' = [taken EXCEPT ![e] = TRUE]
          /\ Call(t, "init", e, None)
     \/ (\A e \in Entries : taken[e]) /\ Return(t) /\ UNCHANGED taken
  /\ UNCHANGED <<state, inq, loopq, queues, sched, app, wild>>

OpenInit(t) ==
  /\ At(t, "init")
  /\ LET e == loc[t].ent IN
       /\ inq' = [inq EXCEPT ![e] = None]
       /\ loopq' = [loopq EXCEPT ![e] = <<>>]
       /\ state' = [state EXCEPT ![e] = "STOP"]
  /\ Return(t)
  /\ UNCHANGED <<taken, queues, sched, app, wild>>

(* The entry is freed even when the loop queue, not being empty, cannot be *)
(* destroyed.                                                              *)
Close(t, e) ==
  /\ "close" \in ops /\ At(t, "idle") /\ EntryFree(e) /\ Alone(t)
  /\ taken[e]
  /\ loopq[e] = <<>> /\ inq[e] = None     \* named assumption: nothing in flight
  /\ taken' = [taken EXCEPT ![e] = FALSE]
  /\ loopq' = [loopq EXCEPT ![e] = None]
  /\ UNCHANGED <<state, inq, queues, sched, app, wild, loc>>

Start(t, e) ==
  /\ At(t, "idle") /\ EntryFree(e) /\ taken[e]
  /\ state' = [state EXCEPT ![e] = "START"]
  /\ UNCHANGED <<taken, inq, loopq, queues, sched, app, wild, loc>>

Stop(t, e) ==
  /\ "stop" \in ops /\ At(t, "idle") /\ EntryFree(e) /\ taken[e]
  /\ state' = [state EXCEPT ![e] = "STOP"]
  /\ UNCHANGED <<taken, inq, loopq, queues, sched, app, wild, loc>>

(* odp_pktio_send of a packet.                                             *)
Send(t, e, p) ==
  /\ At(t, "idle") /\ EntryFree(e) /\ taken[e]
  /\ p \in app
  /\ state[e] = "START" /\ loopq[e] # None
  /\ loopq' = [loopq EXCEPT ![e] = Append(@, p)]
  /\ app' = app \ {p}
  /\ UNCHANGED <<taken, state, inq, queues, sched, wild, loc>>

-----------------------------------------------------------------------------
(* odp_pktio_inq_setdef.  Named assumption: a default queue is set once    *)
(* the scheduler has dropped the poll command of the previous one.         *)
SetDefEntry(t, e, q) ==
  /\ At(t, "idle") /\ EntryFree(e) /\ taken[e]
  /\ pri_count[e] = 0 /\ \A u \in Threads : loc[u].pc \notin {"queue", "alloc", "count"}
  /\ inq' = [inq EXCEPT ![e] = q]
  /\ Call(t, "queue", e, q)
  /\ UNCHANGED <<taken, state, loopq, queues, sched, app, wild>>

SetDefQueue(t) ==
  /\ At(t, "queue")
  /\ pktin' = [pktin EXCEPT ![loc[t].que] = loc[t].ent]
  /\ Goto(t, "alloc")
  /\ UNCHANGED <<table, status, evq, inpri, sched, app, wild>>

(* schedule_pktio_start takes a command, counts it and queues it.          *)
PollAlloc(t) ==
  /\ At(t, "alloc")
  /\ IF cmds = 0
     THEN Return(t) /\ UNCHANGED cmds
     ELSE cmds' = cmds - 1 /\ Goto(t, "count")
  /\ UNCHANGED <<table, queues, polls, pri_count, app, wild>>

PollCount(t) ==
  /\ At(t, "count")
  /\ pri_count' = [pri_count EXCEPT ![loc[t].ent] = @ + 1]
  /\ Goto(t, "back")
  /\ UNCHANGED <<table, queues, polls, cmds, app, wild>>

(* The command enters the priority queue: at the start, and again after a  *)
(* poll that succeeded.                                                    *)
PollBack(t) ==
  /\ At(t, "back")
  /\ polls' = [polls EXCEPT ![loc[t].ent] = @ + 1]
  /\ Return(t)
  /\ UNCHANGED <<table, queues, pri_count, cmds, app, wild>>

(* odp_pktio_inq_remdef does not ask whether a queue is set.               *)
RemDef(t, e) ==
  /\ "remdef" \in ops /\ At(t, "idle") /\ EntryFree(e) /\ taken[e] /\ Alone(t)
  /\ inq[e] # None                         \* named assumption
  /\ pktin' = [pktin EXCEPT ![inq[e]] = None]
  /\ inq' = [inq EXCEPT ![e] = None]
  /\ UNCHANGED <<taken, state, loopq, status, evq, inpri, sched, app, wild, loc>>

-----------------------------------------------------------------------------
(* schedule() takes a poll command and calls pktin_poll.                   *)
PollTake(t, e) ==
  /\ "schedule" \in ops /\ At(t, "idle")
  /\ pri_count[e] > 0 /\ polls[e] > 0
  /\ polls' = [polls EXCEPT ![e] = @ - 1]
  /\ Call(t, "taken?", e, None)
  /\ UNCHANGED <<table, queues, pri_count, cmds, app, wild>>

Check(t, from, ok, to, otherwise) ==
  /\ At(t, from)
  /\ Goto(t, IF ok THEN to ELSE otherwise)
  /\ UNCHANGED <<table, queues, sched, app, wild>>

PollTaken(t) == Check(t, "taken?", taken[loc[t].ent], "inq?", "stop")
PollInq(t) == Check(t, "inq?", inq[loc[t].ent] # None, "state?", "stop")
PollState(t) == Check(t, "state?", state[loc[t].ent] = "START", "recv", "back")

(* loopback_recv, under the entry's lock                                   *)
CanRecv(e) == state[e] = "START" /\ loopq[e] # None
Received(e) == First(loopq[e], Burst)
Left(e) == Skip(loopq[e], Burst)

PollRecvMutant(t) ==
  /\ At(t, "recv") /\ EntryFree(loc[t].ent)
  /\ LET e == loc[t].ent IN
       IF CanRecv(e)
       THEN /\ loopq' = [loopq EXCEPT ![e] = Left(e)]
            /\ loc' = [loc EXCEPT ![t].pc = IF loopq[e] = <<>> THEN "back" ELSE "inq",
                                  ![t].hand = Reverse(Received(e))]
       ELSE Goto(t, "stop") /\ UNCHANGED loopq
  /\ UNCHANGED <<taken, state, inq, queues, sched, app, wild>>

PollRecv(t) ==
  /\ At(t, "recv") /\ EntryFree(loc[t].ent)
  /\ LET e == loc[t].ent IN
       IF CanRecv(e)
       THEN /\ loopq' = [loopq EXCEPT ![e] = Left(e)]
            /\ loc' = [loc EXCEPT ![t].pc = IF loopq[e] = <<>> THEN "back" ELSE "inq",
                                  ![t].hand = Received(e)]
       ELSE Goto(t, "stop") /\ UNCHANGED loopq
  /\ UNCHANGED <<taken, state, inq, queues, sched, app, wild>>

(* inq_default is read again, without the lock.                            *)
PollPick(t) ==
  /\ At(t, "inq")
  /\ LET q == inq[loc[t].ent] IN
       IF q = None
       THEN /\ wild' = TRUE
            /\ loc' = [loc EXCEPT ![t].pc = "back", ![t].hand = <<>>]
       ELSE loc' = [loc EXCEPT ![t].pc = "enq", ![t].que = q] /\ UNCHANGED wild
  /\ UNCHANGED <<table, queues, sched, app>>

(* queue_enq_multi on an input queue, and schedule_queue after it.         *)
After(t, pc) ==
  loc' = [loc EXCEPT ![t] = IF pc = "idle" THEN Idle ELSE [Idle EXCEPT !.pc = pc, !.ent = loc[t].ent]]

Enq(t, from, insert, done) ==
  LET q == loc[t].que IN
  /\ At(t, from)
  /\ evq' = [evq EXCEPT ![q] = @ \o loc[t].hand]
  /\ status' = [status EXCEPT ![q] = "SCHED"]
  /\ IF status[q] = "NOTSCHED"
     THEN loc' = [loc EXCEPT ![t].pc = insert, ![t].hand = <<>>]
     ELSE After(t, done)
  /\ UNCHANGED <<table, pktin, inpri, sched, app, wild>>

Insert(t, from, done) ==
  /\ At(t, from)
  /\ inpri' = [inpri EXCEPT ![loc[t].que] = IF @ = 0 THEN 1 ELSE 2]
  /\ After(t, done)
  /\ UNCHANGED <<table, pktin, status, evq, sched, app, wild>>

PollEnq(t) == Enq(t, "enq", "insert", "back")
PollInsert(t) == Insert(t, "insert", "back")

(* The poll failed: the command leaves the scheduler.                      *)
PollStop(t) ==
  /\ At(t, "stop")
  /\ pri_count' = [pri_count EXCEPT ![loc[t].ent] = @ - 1]
  /\ Goto(t, "free")
  /\ UNCHANGED <<table, queues, polls, cmds, app, wild>>

PollFree(t) ==
  /\ At(t, "free")
  /\ cmds' = cmds + 1
  /\ Return(t)
  /\ UNCHANGED <<table, queues, polls, pri_count, app, wild>>

-----------------------------------------------------------------------------
(* schedule() takes the command of an input queue, dequeues a burst and    *)
(* puts the command back, or leaves the queue unscheduled.                 *)
QueueTake(t, q) ==
  /\ "schedule" \in ops /\ At(t, "idle")
  /\ inpri[q] > 0
  /\ inpri' = [inpri EXCEPT ![q] = @ - 1]
  /\ Call(t, "deq", None, q)
  /\ UNCHANGED <<table, pktin, status, evq, sched, app, wild>>

(* queue_deq_multi: up to n packets, to the application.                   *)
Deq(q, n) ==
  /\ app' = app \cup ToSet(First(evq[q], n))
  /\ evq' = [evq EXCEPT ![q] = Skip(@, n)]
  /\ status' = [status EXCEPT ![q] = IF evq[q] = <<>> THEN "NOTSCHED" ELSE @]

QueueDropMutant(t) ==
  /\ At(t, "deq")
  /\ Deq(loc[t].que, 1)
  /\ Return(t)
  /\ UNCHANGED <<table, pktin, inpri, sched, wild>>

QueueDeq(t) ==
  /\ At(t, "deq")
  /\ Deq(loc[t].que, Burst)
  /\ IF evq[loc[t].que] = <<>> THEN Return(t) ELSE Goto(t, "again")
  /\ UNCHANGED <<table, pktin, inpri, sched, wild>>

QueueAgain(t) == Insert(t, "again", "idle")

-----------------------------------------------------------------------------
(* odp_queue_deq and odp_queue_deq_multi on an input queue: the queue      *)
(* first and, when that did not give n packets, the interface.  pktin_deq  *)
(* keeps the first packet it receives, pktin_deq_multi none.               *)
UserDeq(t, q, n) ==
  /\ "deq" \in ops /\ At(t, "idle")
  /\ Deq(q, n)
  /\ \/ n = 1 /\ (IF evq[q] = <<>> THEN Call(t, "one", None, q) ELSE UNCHANGED loc)
     \/ IF Len(evq[q]) >= n THEN UNCHANGED loc ELSE Call(t, "many", None, q)
  /\ UNCHANGED <<table, pktin, inpri, sched, wild>>

UserRecvMutant(t) ==
  LET e == pktin[loc[t].que] IN
  /\ loc[t].pc \in {"one", "many"}
  /\ e # None => EntryFree(e)
  /\ IF e = None \/ ~CanRecv(e) \/ loopq[e] = <<>>
     THEN Return(t) /\ UNCHANGED <<loopq, app>>
     ELSE LET kept == IF At(t, "one") THEN 1 ELSE 0 IN
          /\ loopq' = [loopq EXCEPT ![e] = Left(e)]
          /\ app' = app \cup ToSet(First(Received(e), kept))
          /\ Return(t)
  /\ UNCHANGED <<taken, state, inq, queues, sched, wild>>

UserRecv(t) ==
  LET e == pktin[loc[t].que] IN
  /\ loc[t].pc \in {"one", "many"}
  /\ e # None => EntryFree(e)
  /\ IF e = None \/ ~CanRecv(e) \/ loopq[e] = <<>>
     THEN Return(t) /\ UNCHANGED <<loopq, app>>
     ELSE LET kept == IF At(t, "one") THEN 1 ELSE 0
              rest == Skip(Received(e), kept) IN
          /\ loopq' = [loopq EXCEPT ![e] = Left(e)]
          /\ app' = app \cup ToSet(First(Received(e), kept))
          /\ IF rest = <<>>
             THEN Return(t)
             ELSE loc' = [loc EXCEPT ![t].pc = "uenq", ![t].hand = rest]
  /\ UNCHANGED <<taken, state, inq, queues, sched, wild>>

UserEnq(t) == Enq(t, "uenq", "uinsert", "idle")
UserInsert(t) == Insert(t, "uinsert", "idle")

-----------------------------------------------------------------------------
Poll(t) ==
  \/ PollTaken(t) \/ PollInq(t) \/ PollState(t) \/ PollRecv(t) \/ PollPick(t)
  \/ PollEnq(t) \/ PollInsert(t) \/ PollBack(t) \/ PollStop(t) \/ PollFree(t)

Rest(t) ==
  \/ Poll(t) \/ QueueDeq(t) \/ QueueAgain(t)
  \/ OpenTake(t) \/ OpenInit(t) \/ SetDefQueue(t) \/ PollAlloc(t) \/ PollCount(t)
  \/ UserRecv(t) \/ UserEnq(t) \/ UserInsert(t)

Step(t) ==
  \/ Rest(t) \/ OpenLookup(t)
  \/ \E e \in Entries :
       \/ Close(t, e) \/ Start(t, e) \/ Stop(t, e) \/ RemDef(t, e) \/ PollTake(t, e)
       \/ \E p \in Packets : Send(t, e, p)
       \/ \E q \in Queues : SetDefEntry(t, e, q)
  \/ \E q \in Queues :
       \/ QueueTake(t, q)
       \/ \E n \in 1 .. Burst : UserDeq(t, q, n)

Next == UNCHANGED ops /\ \E t \in Threads : Step(t)

(* Threads finish their calls, and go on calling odp_schedule.  A priority *)
(* queue is first in, first out, so every command in it has its turn.      *)
Spec ==
  /\ Init /\ [][Next]_vars
  /\ \A t \in Threads : WF_vars(UNCHANGED ops /\ Rest(t))
  /\ \A e \in Entries : SF_vars(UNCHANGED ops /\ \E t \in Threads : PollTake(t, e))
  /\ \A q \in Queues : SF_vars(UNCHANGED ops /\ \E t \in Threads : QueueTake(t, q))

-----------------------------------------------------------------------------
TypeOK ==
  /\ taken \in [Entries -> BOOLEAN] /\ state \in [Entries -> {"START", "STOP"}]
  /\ inq \in [Entries -> Queues \cup {None}]
  /\ \A e \in Entries : loopq[e] = None \/ loopq[e] \in Seq(Packets)
  /\ pktin \in [Queues -> Entries \cup {None}]
  /\ status \in [Queues -> {"NOTSCHED", "SCHED"}]
  /\ evq \in [Queues -> Seq(Packets)] /\ inpri \in [Queues -> 0 .. 2]
  /\ polls \in [Entries -> 0 .. MaxCmds] /\ pri_count \in [Entries -> 0 .. MaxCmds]
  /\ cmds \in 0 .. MaxCmds
  /\ app \subseteq Packets /\ wild \in BOOLEAN

(* No packet is lost or doubled on its way from odp_pktio_send through the *)
(* loop queue, the hands of the polling thread (pktin_poll) or of the      *)
(* dequeuing one (pktin_dequeue) and the input queue to the application.   *)
Occurs(p, s) == Cardinality({i \in 1 .. Len(s) : s[i] = p})
Holdings ==
  {<<"loop", e>> : e \in {f \in Entries : loopq[f] # None}}
    \cup {<<"queue", q>> : q \in Queues} \cup {<<"hand", t>> : t \in Threads}
Held(h) == IF h[1] = "loop" THEN loopq[h[2]] ELSE IF h[1] = "queue" THEN evq[h[2]] ELSE loc[h[2]].hand
PacketsInOnePlace ==
  \A p \in Packets :
    LET has == {h \in Holdings : Occurs(p, Held(h)) > 0} IN
    IF p \in app THEN has = {} ELSE \E h \in has : has = {h} /\ Occurs(p, Held(h)) = 1

(* The scheduler's account of an interface: pri_count counts exactly the   *)
(* poll commands that are queued or with a thread, and every command that  *)
(* schedule_pktio_start took is one of these or back in the pool.          *)
Polling(e) == {t \in Threads : loc[t].ent = e /\
                 loc[t].pc \in {"taken?", "inq?", "state?", "recv", "inq", "enq", "insert", "back", "stop"}}
Uncounted == {t \in Threads : loc[t].pc \in {"count", "free"}}
PollsCounted ==
  /\ \A e \in Entries : pri_count[e] = polls[e] + Cardinality(Polling(e))
  /\ LET Total[e \in 0 .. NumEntries] == IF e = 0 THEN 0 ELSE Total[e - 1] + pri_count[e] IN
       cmds + Total[NumEntries] + Cardinality(Uncounted) = MaxCmds

(* An input queue's command is queued or with a thread while the queue is  *)
(* SCHED, once, and nowhere while it is NOTSCHED; so a filled queue is     *)
(* always known to the scheduler.  (odp_queue_deq on an empty input queue  *)
(* makes it NOTSCHED with its command still queued: an application that    *)
(* schedules the queue must not call it.)                                  *)
QueuedOnce ==
  "deq" \notin ops => \A q \in Queues :
    LET with == {t \in Threads : loc[t].que = q /\ loc[t].pc \in {"insert", "uinsert", "deq", "again"}} IN
    /\ inpri[q] + Cardinality(with) = IF status[q] = "SCHED" THEN 1 ELSE 0
    /\ evq[q] # <<>> => status[q] = "SCHED"

Hand(e) ==
  LET with == {t \in Threads : loc[t].ent = e /\ loc[t].hand # <<>>} IN
  IF with = {} THEN <<>> ELSE loc[CHOOSE t \in with : TRUE].hand
Stream(e) == evq[inq[e]] \o Hand(e) \o loopq[e]
OrderStep(e) ==
  (/\ "deq" \notin ops /\ taken[e] /\ inq[e] # None /\ loopq[e] # None
   /\ taken'[e] /\ inq'[e] = inq[e] /\ loopq'[e] # None)
    => IsPrefix(Skip(Stream(e), Cardinality((app' \ app) \cap ToSet(Stream(e)))), Stream(e)')

(* pktin_poll keeps the order of the packets: what is in the input queue,  *)
(* in the hands of the poller and in the loop queue is one stream, from    *)
(* which packets leave at the front and to which they are added at the     *)
(* end, as long as the interface keeps its default queue and nobody calls  *)
(* odp_queue_deq on it.                                                    *)
InOrder == [][\A e \in Entries : OrderStep(e)]_vars

(* pktin_poll and odp_pktio_inq_remdef find a queue behind inq_default     *)
(* when they use it.                                                       *)
QueueIsSet == ~wild

(* A started interface with a default input queue has a poll command, or a *)
(* call of odp_pktio_inq_setdef is about to give it one, in an application *)
(* that never stops an interface (one that does may stop it between        *)
(* pktin_poll's look at the state and the receive, which then fails and    *)
(* drops the command).                                                     *)
StartedIsPolled ==
  \A e \in Entries :
    "stop" \notin ops /\ taken[e] /\ state[e] = "START" /\ inq[e] # None /\ loopq[e] # None
      => \/ pri_count[e] > 0
         \/ \E t \in Threads : loc[t].ent = e /\ loc[t].pc \in {"queue", "alloc", "count"}

(* A packet sent on a started interface with a default input queue reaches *)
(* the application through odp_schedule, when the application schedules    *)
(* and neither stops the interface nor takes its queue away.               *)
Delivered ==
  \A p \in Packets, e \in Entries :
    (ops = {"schedule"} /\ loopq[e] # None /\ inq[e] # None /\ Occurs(p, loopq[e]) > 0) ~> p \in app

(* Nothing is lost or doubled between the interfaces, the scheduler and    *)
(* the application: packets, poll commands and queue commands, and no poll *)
(* uses a default queue that was taken away.                               *)
PacketsConserved == TypeOK /\ PacketsInOnePlace /\ PollsCounted /\ QueuedOnce /\ QueueIsSet /\ StartedIsPolled
=============================================================================
