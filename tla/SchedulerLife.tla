--------------------------- MODULE SchedulerLife ----------------------------
(***************************************************************************)
(* The whole life of the scheduler: while it is up the invariant of        *)
(* SchedulerProofs holds, and what is left of it when the threads have     *)
(* terminated lets odp_schedule_term_global finalize every destroyed       *)
(* queue.  Then the events that travel through the queues, for any number  *)
(* of threads, queues and events.                                          *)
(***************************************************************************)
EXTENDS SchedulerProofs

(* Zenon proves what does not name SMT.                                    *)
USE Zenon

-----------------------------------------------------------------------------
(* A command buffer belongs to a queue that the application has or has     *)
(* destroyed.                                                              *)
OwnedInv ==
  \A q \in Queues : pri_queue[q] # None => q \in handles \/ status[q] = "DESTROYED"

(* After the threads: every command of a destroyed queue is still in its   *)
(* priority queue.                                                         *)
DownInv ==
  /\ CoreType
  /\ \A t \in Threads : pc[t] = "down" /\ held[t] = None
  /\ \A s \in Slots : IsInjective(priq[s]) /\ \A q \in Range(priq[s]) : pri_queue[q] = s
  /\ \A q \in Queues : status[q] = "DESTROYED" => InPri(q)
  /\ \A q \in Queues : EntryInv(q)

LifeInv == OwnedInv /\ ((Up /\ IndInv) \/ DownInv)

-----------------------------------------------------------------------------
(* Nobody calls anything once the threads have terminated...               *)
LEMMA DownStays ==
  ASSUME DownInv
  PROVE  ~Next
<1> SUFFICES ASSUME NEW t \in Threads, pc[t] = "down", Call(t) \/ Leave(t) \/ Schedule(t) \/ Run(t)
             PROVE  FALSE
  BY DEF DownInv, Next
<1>1. ~Call(t)
  BY DEF Call, Create, Destroy, Enq, Deq, ReleaseAtomic, Goto
<1>2. ~Leave(t)
  BY DEF Leave, Pause, Resume, TermLocal, InitLocal, Goto
<1>3. ~Schedule(t)
  BY DEF Schedule, ScheduleLocal, ScheduleBegin
<1>4. ~Run(t)
  BY DEF Run, CreateInit, CreateFail, EnqSchedule, ScanSkip, ScanTake, DeqDestroyed, DeqEmpty,
         DeqEvents, Reenqueue, Finalize, Continue, Goto
<1> QED
  BY <1>1, <1>2, <1>3, <1>4

(* ... and no call terminates the scheduler.                               *)
LEMMA UpStays ==
  ASSUME ThreadType, Up, [Next]_vars
  PROVE  Up'
<1>1. ASSUME NEW t \in Threads, NEW to, to # "down", pc' = [pc EXCEPT ![t] = to]
      PROVE  Up'
  BY <1>1 DEF Up, ThreadType
<1>2. ASSUME pc' = pc PROVE Up'
  BY <1>2 DEF Up
<1>3. ASSUME NEW t \in Threads, Call(t) PROVE Up'
  BY <1>1, <1>2, <1>3 DEF Call, Create, Destroy, Enq, Deq, ReleaseAtomic, Goto
<1>4. ASSUME NEW t \in Threads, Leave(t) PROVE Up'
  BY <1>1, <1>2, <1>4 DEF Leave, Pause, Resume, TermLocal, InitLocal, Goto
<1>5. ASSUME NEW t \in Threads, Schedule(t) PROVE Up'
  BY <1>1, <1>2, <1>5 DEF Schedule, ScheduleLocal, ScheduleBegin, Goto
<1>6. ASSUME NEW t \in Threads, Run(t) PROVE Up'
  <2>1. ASSUME NEW from, Continue(t, from) PROVE Up'
    BY <2>1, SMT DEF Continue, Goto, Up, ThreadType
  <2>2. CASE ScanSkip(t) \/ DeqEmpty(t) \/ Finalize(t)
    BY <2>1, <2>2 DEF ScanSkip, DeqEmpty, Finalize
  <2>3. ASSUME NEW n \in 1 .. MaxDeq, NEW k \in 1 .. MaxNum, DeqEvents(t, n, k) PROVE Up'
    BY <2>3, <1>1 DEF DeqEvents, Goto
  <2> QED
    BY <1>1, <1>6, <2>2, <2>3
    DEF Run, CreateInit, CreateFail, EnqSchedule, ScanTake, DeqDestroyed, Reenqueue, Goto
<1> QED
  BY <1>2, <1>3, <1>4, <1>5, <1>6 DEF Next, vars

LEMMA StepOwned == IndInv /\ OwnedInv /\ [Next]_vars => OwnedInv'
<1> SUFFICES ASSUME IndInv, OwnedInv, [Next]_vars PROVE OwnedInv'
  OBVIOUS
<1>0. ASSUME UNCHANGED <<pri_queue, status, handles>> PROVE OwnedInv'
  BY <1>0 DEF OwnedInv
<1>1. ASSUME NEW t \in Threads, Call(t) PROVE OwnedInv'
  <2>1. ASSUME NEW q \in Queues, NEW par \in Params, Create(t, q, par) PROVE OwnedInv'
    <3>1. /\ pri_queue' = [pri_queue EXCEPT ![q] = None] /\ handles \subseteq handles'
          /\ \A r \in Queues : r # q => status'[r] = status[r]
      BY <2>1 DEF Create, IndInv, CoreType, QueueType
    <3> QED
      BY <3>1 DEF OwnedInv, IndInv, CoreType, QueueType
  <2>2. ASSUME NEW q \in Queues, Destroy(t, q) PROVE OwnedInv'
    <3>1. /\ handles' = handles \ {q}
          /\ \A r \in Queues : r # q => status'[r] = status[r] /\ pri_queue'[r] = pri_queue[r]
          /\ status'[q] = "DESTROYED" \/ pri_queue'[q] = None
      BY <2>2 DEF Destroy, schedule_queue_destroy, IndInv, CoreType, QueueType, EntryInv
    <3> QED
      BY <3>1 DEF OwnedInv
  <2>3. ASSUME NEW q \in Queues, NEW evs \in EventLists, Enq(t, q, evs) PROVE OwnedInv'
    <3>1. /\ UNCHANGED <<pri_queue, handles>>
          /\ \A r \in Queues : status[r] = "DESTROYED" => status'[r] = "DESTROYED"
      BY <2>3 DEF Enq, IndInv, CoreType, QueueType
    <3> QED
      BY <3>1 DEF OwnedInv
  <2> QED
    BY <1>0, <1>1, <2>1, <2>2, <2>3 DEF Call, Deq, ReleaseAtomic, table
<1>2. ASSUME NEW t \in Threads, Leave(t) PROVE OwnedInv'
  BY <1>0, <1>2 DEF Leave, Pause, Resume, TermLocal, InitLocal, table
<1>3. ASSUME NEW t \in Threads, Schedule(t) PROVE OwnedInv'
  BY <1>0, <1>3 DEF Schedule, ScheduleLocal, ScheduleBegin, table
<1>4. ASSUME NEW t \in Threads, Run(t) PROVE OwnedInv'
  <2>1. CASE CreateInit(t)
    <3>1. PICK q \in Queues : q = cur[t]
      BY <2>1 DEF CreateInit, Goto, IndInv, CallInv, CreateInv
    <3>2. /\ handles' = handles \cup {q} /\ status' = status
          /\ \A r \in Queues : r # q => pri_queue'[r] = pri_queue[r]
      BY <2>1, <3>1 DEF CreateInit, IndInv, CoreType, QueueType
    <3> QED
      BY <3>2 DEF OwnedInv
  <2>2. CASE DeqEmpty(t)
    <3>1. /\ UNCHANGED <<pri_queue, handles>>
          /\ \A r \in Queues : status[r] = "DESTROYED" => status'[r] = "DESTROYED"
      BY <2>2 DEF DeqEmpty, IndInv, CoreType, QueueType
    <3> QED
      BY <3>1 DEF OwnedInv
  <2>3. CASE Finalize(t)
    <3>1. PICK q \in Queues : q = cur[t]
      BY <2>3 DEF Finalize, Continue, Goto, IndInv, CallInv, CurInv
    <3>2. /\ handles' = handles
          /\ \A r \in Queues : r # q => status'[r] = status[r] /\ pri_queue'[r] = pri_queue[r]
          /\ UNCHANGED <<status, pri_queue>> \/ pri_queue'[q] = None
      BY <2>3, <3>1 DEF Finalize, schedule_queue_destroy, IndInv, CoreType, QueueType
    <3> QED
      BY <3>2 DEF OwnedInv
  <2>4. ASSUME NEW n \in 1 .. MaxDeq, NEW k \in 1 .. MaxNum, DeqEvents(t, n, k)
        PROVE  OwnedInv'
    BY <2>4, <1>0 DEF DeqEvents
  <2> QED
    BY <1>0, <1>4, <2>1, <2>2, <2>3, <2>4
    DEF Run, CreateFail, EnqSchedule, ScanSkip, ScanTake, DeqDestroyed, Reenqueue, table
<1> QED
  BY <1>0, <1>1, <1>2, <1>3, <1>4 DEF Next, vars

-----------------------------------------------------------------------------
(* When all threads are gone nobody carries a command.                     *)
LEMMA TermBeginStep ==
  ASSUME IndInv, TermBegin
  PROVE  DownInv'
<1>1. /\ \A t \in Threads : pc[t] = "gone" /\ pc'[t] = "down"
      /\ UNCHANGED <<status, param, pri_queue, handles, priq, cur, pos, held>>
      /\ pc' \in [Threads -> PC]
  BY DEF TermBegin, table, pris, local, PC
<1>2. \A t \in Threads : held[t] = None
  BY <1>1 DEF IndInv, CallInv, HeldInv
<1>3. \A q \in Queues, t \in Threads : ~Carries(t, q)
  BY <1>1, <1>2, SetsAssumption DEF Carries
<1>4. \A q \in Queues : status[q] = "DESTROYED" => InPri(q)
  BY <1>3 DEF IndInv, CmdInOnePlace
<1>5. CoreType'
  BY <1>1 DEF IndInv, CoreType, QueueType, ThreadType
<1>6. \A s \in Slots : IsInjective(priq[s]) /\ \A q \in Range(priq[s]) : pri_queue[q] = s
  BY DEF IndInv, CmdInOnePlace
<1>7. \A q \in Queues : EntryInv(q)'
  BY <1>1 DEF IndInv, EntryInv
<1> QED
  BY <1>1, <1>2, <1>4, <1>5, <1>6, <1>7 DEF DownInv, InPri

(* A command is taken out: its queue, if destroyed, becomes free.          *)
LEMMA TermDrainStep ==
  ASSUME DownInv, OwnedInv, NEW s \in Slots, TermDrain(s)
  PROVE  DownInv' /\ OwnedInv'
<1>0. \A x \in Slots : IsInjective(priq[x]) /\ \A r \in Range(priq[x]) : pri_queue[r] = x
  BY DEF DownInv
<1>1. PICK q \in Queues : q = Head(priq[s]) /\ q \in Range(priq[s])
  BY TailRange DEF DownInv, CoreType, TermDrain
<1>2. /\ priq' = [priq EXCEPT ![s] = Tail(@)] /\ UNCHANGED <<param, handles, pc, cur, pos, held>>
      /\ priq \in [Slots -> Seq(Queues)] /\ Tail(priq[s]) \in Seq(Queues)
      /\ Range(Tail(priq[s])) = Range(priq[s]) \ {q} /\ IsInjective(Tail(priq[s]))
  BY <1>1, TailRange DEF DownInv, CoreType, TermDrain, local
<1>3. /\ \A r \in Queues : r # q => status'[r] = status[r] /\ pri_queue'[r] = pri_queue[r]
      /\ \/ status[q] \notin Usable /\ status'[q] = "FREE" /\ pri_queue'[q] = None
         \/ /\ status[q] \in Usable /\ pri_queue'[q] = pri_queue[q]
            /\ status'[q] = status[q] \/ (status[q] = "SCHED" /\ status'[q] = "NOTSCHED")
      /\ status' \in [Queues -> Usable \cup {"FREE", "DESTROYED"}]
      /\ pri_queue' \in [Queues -> Slots \cup {None}]
  <2> USE DEF DownInv, CoreType, QueueType, Usable
  <2>1. CASE status[q] \notin Usable /\ status' = [status EXCEPT ![q] = "FREE"]
               /\ pri_queue' = [pri_queue EXCEPT ![q] = None]
    BY <2>1
  <2>2. CASE status[q] \in Usable /\ UNCHANGED pri_queue
               /\ status' = [status EXCEPT ![q] = IF @ = "SCHED" THEN "NOTSCHED" ELSE @]
    BY <2>2
  <2>3. CASE status[q] \in Usable /\ UNCHANGED <<status, pri_queue>>
    BY <2>3
  <2> QED
    BY <1>1, <2>1, <2>2, <2>3 DEF TermDrain, schedule_queue_destroy
<1>4. CoreType'
  BY <1>2, <1>3 DEF DownInv, CoreType, QueueType, ThreadType
<1>5. pri_queue[q] = s /\ \A x \in Slots : x # s => q \notin Range(priq[x])
  BY <1>0, <1>1
<1>6. ASSUME NEW x \in Slots
      PROVE  IsInjective(priq'[x]) /\ \A r \in Range(priq'[x]) : pri_queue'[r] = x
  <2>1. IsInjective(priq'[x]) /\ Range(priq'[x]) = Range(priq[x]) \ {q}
    <3>1. CASE x = s
      BY <1>2, <3>1
    <3>2. CASE x # s
      <4>1. priq'[x] = priq[x] /\ q \notin Range(priq[x]) /\ IsInjective(priq[x])
        BY <1>0, <1>2, <1>5, <3>2
      <4> QED
        BY <4>1
    <3> QED
      BY <3>1, <3>2
  <2>2. Range(priq[x]) \subseteq Queues
    BY <1>2, SMT DEF Range
  <2> QED
    BY <1>0, <1>3, <2>1, <2>2
<1>7. ASSUME NEW r \in Queues, status'[r] = "DESTROYED" PROVE InPri(r)'
  <2>1. r # q /\ status[r] = "DESTROYED"
    BY <1>3, <1>7 DEF Usable
  <2>2. PICK x \in Slots : r \in Range(priq[x])
    BY <2>1 DEF DownInv, InPri
  <2>3. r \in Range(priq'[x])
    BY <1>2, <2>1, <2>2
  <2> QED
    BY <2>3 DEF InPri
<1>8. ASSUME NEW r \in Queues PROVE EntryInv(r)'
  <2>1. CASE r = q
    BY <1>2, <1>3, <1>5, <2>1, SetsAssumption DEF DownInv, EntryInv, InSched, Usable
  <2>2. CASE r # q
    BY <1>2, <1>3, <2>2 DEF DownInv, EntryInv
  <2> QED
    BY <2>1, <2>2
<1>9. OwnedInv'
  BY <1>2, <1>3 DEF OwnedInv, Usable
<1> QED
  BY <1>2, <1>4, <1>6, <1>7, <1>8, <1>9 DEF DownInv

LEMMA InitLife == Init => LifeInv
<1>1. Init => Up
  BY DEF Init, Up
<1>2. Init => OwnedInv
  BY DEF Init, OwnedInv
<1> QED
  BY <1>1, <1>2, InitInd DEF LifeInv

(* A step of a thread, the end of the threads, or a command taken out.     *)
LEMMA LifeCases ==
  ASSUME LifeInv, [LifeNext]_vars
  PROVE  \/ Up /\ IndInv /\ [Next]_vars
         \/ Up /\ IndInv /\ TermBegin
         \/ DownInv /\ \E s \in Slots : TermDrain(s)
         \/ DownInv /\ UNCHANGED vars
<1>1. Up => ~ \E s \in Slots : TermDrain(s)
  BY SetsAssumption DEF Up, TermDrain
<1>2. DownInv => ~TermBegin /\ ~Next
  BY DownStays, SetsAssumption DEF DownInv, TermBegin
<1> QED
  BY <1>1, <1>2 DEF LifeInv, LifeNext

LEMMA StepLife == LifeInv /\ [LifeNext]_vars => LifeInv'
<1> SUFFICES ASSUME LifeInv, [LifeNext]_vars PROVE LifeInv'
  OBVIOUS
<1>1. CASE Up /\ IndInv /\ [Next]_vars
  BY <1>1, UpStays, StepInd, StepOwned DEF LifeInv, IndInv, CoreType
<1>2. CASE IndInv /\ TermBegin
  BY <1>2, TermBeginStep DEF LifeInv, OwnedInv, TermBegin, table
<1>3. CASE DownInv /\ UNCHANGED vars
  BY <1>3 DEF LifeInv, OwnedInv, DownInv, CoreType, QueueType, ThreadType, EntryInv, InPri, vars
<1> QED
  BY <1>1, <1>2, <1>3, LifeCases, TermDrainStep DEF LifeInv

LEMMA Life == LifeSpec => []LifeInv
BY InitLife, StepLife, PTL DEF LifeSpec

(* A queue's schedule command is in one priority queue or in one thread's  *)
(* hands while the queue is in scheduling, and nowhere otherwise, until    *)
(* odp_schedule_term_global: queues are not scheduled twice at a time and  *)
(* are not forgotten (queue_enq, schedule, odp_schedule_release_atomic,    *)
(* odp_queue_destroy).                                                     *)
THEOREM OneCommand == LifeSpec => []OneCommandEach
<1>1. LifeInv => OneCommandEach
  BY SetsAssumption DEF LifeInv, OneCommandEach, IndInv, DownInv, Up
<1> QED
  BY <1>1, Life, PTL

(* When odp_schedule_term_global has emptied the priority queues, no       *)
(* destroyed queue is left with its command buffer: the commands of those  *)
(* were all there, none had gone with a thread.                            *)
THEOREM TerminationFinalizes == LifeSpec => []TermFinalizes
<1>1. LifeInv => TermFinalizes
  <2> SUFFICES ASSUME LifeInv, \A t \in Threads : pc[t] = "down",
                      \A s \in Slots : priq[s] = <<>>, NEW q \in Queues, pri_queue[q] # None
               PROVE  q \in handles
    BY DEF TermFinalizes
  <2>1. DownInv
    BY SetsAssumption DEF LifeInv, Up
  <2>2. ~InPri(q)
    BY SMT DEF InPri, Range
  <2> QED
    BY <2>1, <2>2 DEF LifeInv, OwnedInv, DownInv
<1> QED
  BY <1>1, Life, PTL

-----------------------------------------------------------------------------
(* The events.                                                             *)

LEMMA SubType ==
  ASSUME NEW S, NEW s \in Seq(S), NEW m \in Nat \ {0}, NEW n \in Int, n <= Len(s)
  PROVE  SubSeq(s, m, n) \in Seq(S) /\ Range(SubSeq(s, m, n)) \subseteq S
<1> QED
  BY SMT DEF Range

(* Events are where events belong, and a queue that has some is in         *)
(* scheduling or polled.                                                   *)
EventInv == EventType /\ lqe \in [Threads -> Queues \cup {None}]

WakeInv == \A q \in Queues : evq[q] # <<>> => status[q] \in {"READY", "SCHED"}

EnvInv == EventInv /\ WakeInv

(* Taking events out of a sequence: up to k to the application, the rest   *)
(* up to n kept.                                                           *)
LEMMA TakeEvents ==
  ASSUME NEW s \in Seq(Events), NEW k \in Nat \ {0}, NEW n \in Nat \ {0}, k <= n, n <= Len(s)
  PROVE  /\ Range(SubSeq(s, 1, k)) \subseteq Events
         /\ SubSeq(s, k + 1, n) \in Seq(Events)
         /\ Drop(s, n) \in Seq(Events) /\ Drop(s, k) \in Seq(Events)
         /\ s # <<>>
<1>1. Len(s) \in Nat /\ k + 1 \in Nat \ {0} /\ n + 1 \in Nat \ {0} /\ k <= Len(s) /\ s # <<>>
  BY SMT
<1> QED
  BY <1>1, SubType, SMT DEF Drop

LEMMA DeqEnv ==
  ASSUME IndInv, EnvInv, NEW t \in Threads, NEW q \in Queues, NEW n \in 1 .. MaxNum, Deq(t, q, n)
  PROVE  EnvInv'
<1>1. /\ app' = app \cup Range(SubSeq(evq[q], 1, n)) /\ n <= Len(evq[q])
      /\ evq' = [evq EXCEPT ![q] = Drop(evq[q], n)] /\ UNCHANGED <<status, lqe, lbuf>>
  BY DEF Deq, local
<1>2. evq[q] \in Seq(Events) /\ n \in Nat \ {0}
  BY SMT DEF EnvInv, EventInv, EventType
<1>3. /\ Range(SubSeq(evq[q], 1, n)) \subseteq Events /\ evq[q] # <<>>
      /\ Drop(evq[q], n) \in Seq(Events)
  BY <1>1, <1>2, TakeEvents, SMT
<1>4. EventInv'
  BY <1>1, <1>3 DEF EnvInv, EventInv, EventType
<1>5. WakeInv'
  BY <1>1, <1>3 DEF EnvInv, EventInv, EventType, WakeInv
<1> QED
  BY <1>4, <1>5 DEF EnvInv

LEMMA EnqEnv ==
  ASSUME IndInv, EnvInv, NEW t \in Threads, NEW q \in Queues, NEW evs \in EventLists, Enq(t, q, evs)
  PROVE  EnvInv'
<1>1. evq[q] \o evs \in Seq(Events)
  <2>1. PICK n \in 1 .. MaxEnq : evs \in [1 .. n -> app]
    BY DEF EventLists
  <2>2. n \in Nat /\ evs \in [1 .. n -> Events]
    BY <2>1, SMT DEF EnvInv, EventInv, EventType
  <2>3. evs \in Seq(Events)
    BY <2>2, SMT
  <2> QED
    BY <2>3, SMT DEF EnvInv, EventInv, EventType
<1>2. /\ evq' = [evq EXCEPT ![q] = evq[q] \o evs] /\ app' = app \ Range(evs)
      /\ UNCHANGED <<lqe, lbuf>> /\ status[q] \in Usable
  BY DEF Enq, local
<1>3. \/ status[q] = "NOTSCHED" /\ status' = [status EXCEPT ![q] = "SCHED"]
      \/ status[q] # "NOTSCHED" /\ status' = status
  BY DEF Enq
<1>4. EventInv'
  BY <1>1, <1>2 DEF EnvInv, EventInv, EventType
<1>5. WakeInv'
  BY <1>2, <1>3 DEF EnvInv, EventInv, EventType, WakeInv, IndInv, CoreType, QueueType, Usable
<1> QED
  BY <1>4, <1>5 DEF EnvInv

LEMMA DeqEventsEnv ==
  ASSUME IndInv, EnvInv, NEW t \in Threads, NEW n \in 1 .. MaxDeq, NEW k \in 1 .. MaxNum,
         DeqEvents(t, n, k)
  PROVE  EnvInv'
<1>0. PICK q \in Queues : q = cur[t]
  BY DEF DeqEvents
<1>1. /\ n <= Len(evq[q]) /\ k <= n
      /\ app' = app \cup Range(SubSeq(evq[q], 1, k))
      /\ lbuf' = [lbuf EXCEPT ![t] = SubSeq(evq[q], k + 1, n)]
      /\ lqe' = [lqe EXCEPT ![t] = IF k = n THEN None ELSE q]
      /\ evq' = [evq EXCEPT ![q] = Drop(evq[q], n)]
      /\ status' = status
  BY <1>0 DEF DeqEvents
<1>2. evq[q] \in Seq(Events) /\ k \in Nat \ {0} /\ n \in Nat \ {0}
  BY SMT DEF EnvInv, EventInv, EventType
<1>3. /\ Range(SubSeq(evq[q], 1, k)) \subseteq Events
      /\ SubSeq(evq[q], k + 1, n) \in Seq(Events)
      /\ Drop(evq[q], n) \in Seq(Events) /\ evq[q] # <<>>
  BY <1>1, <1>2, TakeEvents
<1>4. EventInv'
  BY <1>1, <1>3 DEF EnvInv, EventInv, EventType
<1>5. WakeInv'
  BY <1>1, <1>3 DEF EnvInv, EventInv, EventType, WakeInv
<1> QED
  BY <1>4, <1>5 DEF EnvInv

LEMMA ScheduleLocalEnv ==
  ASSUME IndInv, EnvInv, NEW t \in Threads, NEW k \in 1 .. MaxNum, ScheduleLocal(t, k)
  PROVE  EnvInv'
<1>1. /\ k <= Len(lbuf[t]) /\ app' = app \cup Range(SubSeq(lbuf[t], 1, k))
      /\ lbuf' = [lbuf EXCEPT ![t] = Drop(lbuf[t], k)]
      /\ lqe' = [lqe EXCEPT ![t] = IF k = Len(lbuf[t]) THEN None ELSE lqe[t]]
      /\ UNCHANGED <<status, evq>>
  BY DEF ScheduleLocal, table
<1>2. lbuf[t] \in Seq(Events) /\ k \in Nat \ {0}
  BY SMT DEF EnvInv, EventInv, EventType
<1>3. /\ Range(SubSeq(lbuf[t], 1, k)) \subseteq Events
      /\ Drop(lbuf[t], k) \in Seq(Events)
  BY <1>1, <1>2, TakeEvents, SMT
<1>4. EventInv'
  BY <1>1, <1>3 DEF EnvInv, EventInv, EventType
<1>5. WakeInv'
  BY <1>1 DEF EnvInv, WakeInv
<1> QED
  BY <1>4, <1>5 DEF EnvInv

-----------------------------------------------------------------------------
LEMMA StepEnv == IndInv /\ EnvInv /\ [Next]_vars => EnvInv'
<1> SUFFICES ASSUME IndInv, EnvInv, [Next]_vars PROVE EnvInv'
  BY SMT
<1>0. ASSUME UNCHANGED <<evq, status, app, lbuf>>,
             lqe' \in [Threads -> Queues \cup {None}]
      PROVE  EnvInv'
  <2>1. EventInv'
    BY <1>0 DEF EnvInv, EventInv, EventType
  <2> QED
    BY <1>0, <2>1 DEF EnvInv, WakeInv
<1>e. lqe \in [Threads -> Queues \cup {None}]
  BY DEF EnvInv, EventInv
<1>1. ASSUME NEW t \in Threads, Call(t) PROVE EnvInv'
  <2>1. ASSUME NEW q \in Queues, NEW par \in Params, Create(t, q, par) PROVE EnvInv'
    <3>1. /\ evq' = [evq EXCEPT ![q] = <<>>] /\ UNCHANGED <<app, lqe, lbuf>>
          /\ \A r \in Queues : r # q => status'[r] = status[r]
      BY <2>1 DEF Create, local, IndInv, CoreType, QueueType
    <3>2. EventInv'
      BY <3>1, SMT DEF EnvInv, EventInv, EventType
    <3>3. \A r \in Queues : evq'[r] = IF r = q THEN <<>> ELSE evq[r]
      BY <3>1 DEF EnvInv, EventInv, EventType
    <3> QED
      BY <3>1, <3>2, <3>3 DEF EnvInv, WakeInv
  <2>2. ASSUME NEW q \in Queues, Destroy(t, q) PROVE EnvInv'
    <3>1. /\ evq[q] = <<>> /\ UNCHANGED <<evq, app, lqe, lbuf>>
          /\ \A r \in Queues : r # q => status'[r] = status[r]
      BY <2>2 DEF Destroy, local, IndInv, CoreType, QueueType
    <3> QED
      BY <3>1 DEF EnvInv, EventInv, EventType, WakeInv
  <2>5. CASE ReleaseAtomic(t)
    BY <2>5, <1>0, <1>e DEF ReleaseAtomic, table
  <2> QED
    BY <1>1, <2>1, <2>2, <2>5, EnqEnv, DeqEnv DEF Call
<1>2. ASSUME NEW t \in Threads, Leave(t) PROVE EnvInv'
  <2>1. CASE Pause(t) \/ Resume(t) \/ InitLocal(t)
    BY <2>1, <1>0, <1>e DEF Pause, Resume, InitLocal, table, local
  <2>2. CASE TermLocal(t)
    <3>1. UNCHANGED <<evq, status, app, lbuf>> /\ lqe' = [lqe EXCEPT ![t] = None]
      BY <2>2 DEF TermLocal, table
    <3>2. lqe' \in [Threads -> Queues \cup {None}]
      BY <3>1, <1>e
    <3> QED
      BY <3>1, <3>2, <1>0
  <2> QED
    BY <1>2, <2>1, <2>2, SMT DEF Leave
<1>3. ASSUME NEW t \in Threads, Schedule(t) PROVE EnvInv'
  <2>1. CASE ScheduleBegin(t)
    BY <2>1, <1>0, <1>e DEF ScheduleBegin, table
  <2> QED
    BY <1>3, <2>1, ScheduleLocalEnv DEF Schedule
<1>4. ASSUME NEW t \in Threads, Run(t) PROVE EnvInv'
  <2>1. CASE CreateInit(t) \/ CreateFail(t) \/ EnqSchedule(t) \/ ScanSkip(t)
               \/ ScanTake(t) \/ DeqDestroyed(t) \/ Reenqueue(t)
    BY <2>1, <1>0, <1>e
    DEF CreateInit, CreateFail, EnqSchedule, ScanSkip, ScanTake, DeqDestroyed, Reenqueue,
        table, local
  <2>2. CASE DeqEmpty(t)
    <3>1. PICK q \in Queues : q = cur[t]
      BY <2>2 DEF DeqEmpty
    <3>2. /\ evq[q] = <<>> /\ UNCHANGED <<evq, app, lqe, lbuf>>
          /\ \A r \in Queues : r # q => status'[r] = status[r]
      BY <2>2, <3>1 DEF DeqEmpty, local, IndInv, CoreType, QueueType
    <3> QED
      BY <3>2, SMT DEF EnvInv, EventInv, EventType, WakeInv
  <2>4. CASE Finalize(t)
    <3>1. PICK q \in Queues : q = cur[t] /\ status[q] = "DESTROYED"
      BY <2>4 DEF Finalize, Continue, Goto, IndInv, CallInv, CurInv
    <3>2. /\ UNCHANGED <<evq, app, lqe, lbuf>>
          /\ \A r \in Queues : r # q => status'[r] = status[r]
      BY <2>4, <3>1 DEF Finalize, local, IndInv, CoreType, QueueType
    <3>3. evq[q] = <<>>
      BY <3>1 DEF EnvInv, WakeInv
    <3>4. EventInv'
      BY <3>2 DEF EnvInv, EventInv, EventType
    <3> QED
      BY <3>2, <3>3, <3>4 DEF EnvInv, WakeInv
  <2> QED
    BY <1>4, <2>1, <2>2, <2>4, DeqEventsEnv DEF Run
<1>5. CASE UNCHANGED vars
  BY <1>5, <1>0, <1>e DEF vars
<1> QED
  BY <1>1, <1>2, <1>3, <1>4, <1>5, SMT DEF Next

LEMMA InitEnv == Init => EnvInv
<1>1. \A S : <<>> \in Seq(S)
  BY SMT
<1> QED
  BY <1>1, SMT DEF Init, EnvInv, EventInv, EventType, WakeInv

(* odp_schedule_term_global frees a queue that is destroyed and so empty,  *)
(* or drops an event of one that is not.                                   *)
LEMMA LifeEnv == LifeInv /\ EnvInv /\ [LifeNext]_vars => EnvInv'
<1> SUFFICES ASSUME LifeInv, EnvInv, [LifeNext]_vars PROVE EnvInv'
  OBVIOUS
<1>1. CASE TermBegin \/ UNCHANGED vars
  BY <1>1 DEF TermBegin, table, local, vars, EnvInv, EventInv, EventType, WakeInv
<1>2. ASSUME DownInv, NEW s \in Slots, TermDrain(s) PROVE EnvInv'
  <2>1. PICK q \in Queues : q = Head(priq[s]) /\ q \in Range(priq[s])
    BY <1>2, TailRange DEF DownInv, CoreType, TermDrain
  <2>2. UNCHANGED <<app, lqe, lbuf>> /\ \A r \in Queues : r # q => status'[r] = status[r]
    BY <1>2, <2>1 DEF TermDrain, local, DownInv, CoreType, QueueType
  <2>3. CASE UNCHANGED evq /\ evq[q] = <<>>
    BY <2>2, <2>3 DEF EnvInv, EventInv, EventType, WakeInv
  <2>4. CASE status' = status /\ evq[q] # <<>> /\ evq' = [evq EXCEPT ![q] = Tail(@)]
    <3>1. evq' \in [Queues -> Seq(Events)]
      BY <2>4, SMT DEF EnvInv, EventInv, EventType
    <3>2. \A r \in Queues : evq'[r] # <<>> => evq[r] # <<>>
      BY <2>4 DEF EnvInv, EventInv, EventType
    <3> QED
      BY <2>2, <2>4, <3>1, <3>2 DEF EnvInv, EventInv, EventType, WakeInv
  <2>5. status[q] \notin Usable => evq[q] = <<>>
    BY DEF EnvInv, WakeInv, Usable
  <2> QED
    BY <1>2, <2>1, <2>3, <2>4, <2>5 DEF TermDrain
<1> QED
  BY <1>1, <1>2, LifeCases, StepEnv

-----------------------------------------------------------------------------
(* Where all queues are atomic, pre-dequeued events stay with the thread   *)
(* that holds their queue.                                                 *)

AllAtomic == \A par \in Params : par.sync = "ATOMIC"

AtomicInv ==
  /\ \A q \in Queues : status[q] # "FREE" => param[q].sync = "ATOMIC"
  /\ \A t \in Threads : lbuf[t] # <<>> => held[t] = lqe[t]

(* A step that leaves the queues and what the threads hold alone.          *)
LEMMA AtomicQuiet ==
  ASSUME AtomicInv, UNCHANGED <<param, held, lqe, lbuf>>,
         \A q \in Queues : status'[q] # "FREE" => status[q] # "FREE"
  PROVE  AtomicInv'
BY DEF AtomicInv

LEMMA AtomicRelease ==
  ASSUME AtomicInv, IndInv, EnvInv, NEW t \in Threads, release_atomic(t),
         UNCHANGED <<status, param, lbuf>>,
         lqe' = lqe \/ (lbuf[t] = <<>> /\ lqe' = [lqe EXCEPT ![t] = None])
  PROVE  AtomicInv'
<1>1. CASE held[t] # None /\ lbuf[t] = <<>>
  <2>1. held' = [held EXCEPT ![t] = None]
    BY <1>1 DEF release_atomic
  <2> QED
    BY <1>1, <2>1 DEF AtomicInv, IndInv, CoreType, ThreadType, EnvInv, EventInv
<1>2. CASE ~(held[t] # None /\ lbuf[t] = <<>>)
  BY <1>2 DEF AtomicInv, EnvInv, EventInv, release_atomic
<1> QED
  BY <1>1, <1>2

LEMMA AtomicStep ==
  ASSUME AllAtomic, IndInv, EnvInv, AtomicInv, [Next]_vars
  PROVE  AtomicInv'
<1>1. ASSUME NEW t \in Threads, Call(t) PROVE AtomicInv'
  <2>1. ASSUME NEW q \in Queues, NEW par \in Params, Create(t, q, par) PROVE AtomicInv'
    <3>1. /\ param' = [param EXCEPT ![q] = par] /\ UNCHANGED <<held, lqe, lbuf>>
          /\ \A r \in Queues : r # q => status'[r] = status[r]
      BY <2>1, SMT DEF Create, local
    <3> QED
      BY <3>1 DEF AtomicInv, AllAtomic, IndInv, CoreType, QueueType
  <2>2. ASSUME NEW q \in Queues, Destroy(t, q) PROVE AtomicInv'
    <3>1. UNCHANGED <<param, held, lqe, lbuf>>
      BY <2>2 DEF Destroy, local
    <3>2. \A r \in Queues : status'[r] # "FREE" => status[r] # "FREE"
      BY <2>2 DEF Destroy, IndInv, CoreType, QueueType
    <3> QED
      BY <3>1, <3>2, AtomicQuiet
  <2>3. ASSUME NEW q \in Queues, NEW evs \in EventLists, Enq(t, q, evs) PROVE AtomicInv'
    <3>1. UNCHANGED <<param, held, lqe, lbuf>>
      BY <2>3 DEF Enq, local
    <3>2. \A r \in Queues : status'[r] # "FREE" => status[r] # "FREE"
      BY <2>3 DEF Enq, IndInv, CoreType, QueueType
    <3> QED
      BY <3>1, <3>2, AtomicQuiet
  <2>4. ASSUME NEW q \in Queues, NEW n \in 1 .. MaxNum, Deq(t, q, n) PROVE AtomicInv'
    BY <2>4, AtomicQuiet DEF Deq, local
  <2>5. CASE ReleaseAtomic(t)
    BY <2>5, AtomicRelease DEF ReleaseAtomic, table
  <2> QED
    BY <1>1, <2>1, <2>2, <2>3, <2>4, <2>5 DEF Call
<1>2. ASSUME NEW t \in Threads, Leave(t) PROVE AtomicInv'
  <2>1. CASE Pause(t) \/ Resume(t) \/ InitLocal(t)
    BY <2>1, AtomicQuiet DEF Pause, Resume, InitLocal, table, local
  <2>2. CASE TermLocal(t)
    BY <2>2, AtomicRelease DEF TermLocal, table
  <2> QED
    BY <1>2, <2>1, <2>2 DEF Leave
<1>3. ASSUME NEW t \in Threads, Schedule(t) PROVE AtomicInv'
  <2>1. ASSUME NEW k \in 1 .. MaxNum, ScheduleLocal(t, k) PROVE AtomicInv'
    <3>1. /\ k <= Len(lbuf[t]) /\ lbuf' = [lbuf EXCEPT ![t] = Drop(lbuf[t], k)]
          /\ lqe' = [lqe EXCEPT ![t] = IF k = Len(lbuf[t]) THEN None ELSE lqe[t]]
          /\ UNCHANGED <<status, param, held>>
      BY <2>1 DEF ScheduleLocal, table
    <3>2. lbuf[t] \in Seq(Events) /\ Len(lbuf[t]) \in Nat /\ k \in Nat /\ k > 0
      BY SMT DEF EnvInv, EventInv, EventType, IndInv, CoreType
    <3>3. lbuf[t] # <<>>
      BY <3>1, SMT
    <3>4. k = Len(lbuf[t]) => Drop(lbuf[t], k) = <<>>
      BY SMT DEF Drop
    <3>5. lbuf'[t] # <<>> => held'[t] = lqe'[t]
      BY <3>1, <3>4, SMT DEF AtomicInv, EnvInv, EventInv, EventType, IndInv, CoreType
    <3>6. \A u \in Threads : u # t => lbuf'[u] = lbuf[u] /\ lqe'[u] = lqe[u]
      BY <3>1, SMT
    <3> QED
      BY <3>1, <3>5, SMT DEF AtomicInv
  <2>2. CASE ScheduleBegin(t)
    BY <2>2, AtomicRelease DEF ScheduleBegin, table
  <2> QED
    BY <1>3, <2>1, <2>2 DEF Schedule
<1>4. ASSUME NEW t \in Threads, Run(t) PROVE AtomicInv'
  <2>1. CASE CreateInit(t) \/ CreateFail(t) \/ EnqSchedule(t) \/ ScanSkip(t) \/ ScanTake(t)
               \/ DeqDestroyed(t) \/ Reenqueue(t)
    <3>1. UNCHANGED <<status, param, held, lqe, lbuf>>
      BY <2>1
      DEF CreateInit, CreateFail, EnqSchedule, ScanSkip, ScanTake, DeqDestroyed, Reenqueue,
          table, local
    <3> QED
      BY <3>1, AtomicQuiet
  <2>2. CASE DeqEmpty(t)
    <3>1. UNCHANGED <<param, held, lqe, lbuf>>
      BY <2>2 DEF DeqEmpty, local
    <3>2. \A r \in Queues : status'[r] # "FREE" => status[r] # "FREE"
      BY <2>2, SMT DEF DeqEmpty
    <3> QED
      BY <3>1, <3>2, AtomicQuiet
  <2>3. CASE Finalize(t)
    <3>1. UNCHANGED <<param, held, lqe, lbuf>>
      BY <2>3 DEF Finalize, local
    <3>2. \A r \in Queues : status'[r] # "FREE" => status[r] # "FREE"
      BY <2>3 DEF Finalize, IndInv, CoreType, QueueType
    <3> QED
      BY <3>1, <3>2, AtomicQuiet, SMT
  <2>4. ASSUME NEW n \in 1 .. MaxDeq, NEW k \in 1 .. MaxNum, DeqEvents(t, n, k)
        PROVE  AtomicInv'
    <3>0. PICK q \in Queues : q = cur[t]
      BY <2>4 DEF DeqEvents
    <3>1. pc[t] = "got" /\ Carries(t, q)
      BY <2>4, <3>0 DEF DeqEvents, Goto, Carries
    <3>2. param[q].sync = "ATOMIC"
      BY <3>1, CarryFacts DEF AtomicInv, InSched
    <3>3. /\ lbuf' = [lbuf EXCEPT ![t] = SubSeq(evq[q], k + 1, n)]
          /\ lqe' = [lqe EXCEPT ![t] = IF k = n THEN None ELSE q]
          /\ held' = [held EXCEPT ![t] = q] /\ UNCHANGED <<status, param>>
      BY <2>4, <3>0, <3>2 DEF DeqEvents
    <3>4. k = n => SubSeq(evq[q], k + 1, n) = <<>>
      BY SMT
    <3>5. lbuf'[t] # <<>> => held'[t] = lqe'[t]
      BY <3>3, <3>4 DEF EnvInv, EventInv, EventType, IndInv, CoreType, ThreadType
    <3>6. \A u \in Threads : u # t =>
            lbuf'[u] = lbuf[u] /\ lqe'[u] = lqe[u] /\ held'[u] = held[u]
      BY <3>3, SMT
    <3> QED
      BY <3>3, <3>5, <3>6 DEF AtomicInv
  <2> QED
    BY <1>4, <2>1, <2>2, <2>3, <2>4 DEF Run
<1>5. CASE UNCHANGED vars
  BY <1>5, AtomicQuiet DEF vars
<1> QED
  BY <1>1, <1>2, <1>3, <1>4, <1>5 DEF Next

LEMMA LifeAtomic ==
  ASSUME AllAtomic, LifeInv, EnvInv, AtomicInv, [LifeNext]_vars
  PROVE  AtomicInv'
<1>1. CASE TermBegin \/ UNCHANGED vars
  BY <1>1, AtomicQuiet DEF TermBegin, table, local, vars
<1>2. ASSUME DownInv, NEW s \in Slots, TermDrain(s) PROVE AtomicInv'
  <2>1. Head(priq[s]) \in Queues
    BY <1>2, TailRange DEF DownInv, CoreType, TermDrain
  <2>2. \A r \in Queues : status'[r] # "FREE" => status[r] # "FREE"
    BY <1>2, <2>1 DEF TermDrain, DownInv, CoreType, QueueType, Usable
  <2> QED
    BY <1>2, <2>2, AtomicQuiet DEF TermDrain, local
<1> QED
  BY <1>1, <1>2, LifeCases, AtomicStep

(* If all queues are atomic, one thread at a time works on the events of a *)
(* queue, those it dequeued ahead included, however odp_schedule,          *)
(* odp_schedule_release_atomic and odp_queue_destroy interleave.           *)
THEOREM AtomicQueuesExclude ==
  ASSUME AllAtomic
  PROVE  LifeSpec => []AtomicExclusion
<1>1. Init => AtomicInv
  BY SMT DEF Init, AtomicInv
<1>2. LifeInv /\ AtomicInv => AtomicExclusion
  <2> SUFFICES ASSUME LifeInv, AtomicInv, NEW q \in Queues,
                      NEW t \in Threads, NEW u \in Threads, Working(t, q), Working(u, q)
               PROVE  t = u
    BY DEF AtomicExclusion
  <2>1. held[t] = q /\ held[u] = q
    BY DEF Working, AtomicInv
  <2>2. IndInv
    BY <2>1, SetsAssumption DEF LifeInv, DownInv
  <2> QED
    BY <2>1, <2>2, CarryFacts DEF Carries
<1>3. LifeInv /\ EnvInv /\ AtomicInv /\ [LifeNext]_vars => AtomicInv'
  BY LifeAtomic
<1> QED
  BY <1>1, <1>2, <1>3, Life, InitEnv, LifeEnv, PTL DEF LifeSpec

-----------------------------------------------------------------------------
(* Poll queues are never scheduled.                                        *)
KindInv == \A q \in Queues : status[q] \in {"FREE", "READY"} \/ param[q].type = "SCHED"

LEMMA LifeKind == LifeInv /\ KindInv /\ [LifeNext]_vars => KindInv'
<1> SUFFICES ASSUME LifeInv, KindInv, [LifeNext]_vars PROVE KindInv'
  OBVIOUS
<1>0. ASSUME param' = param,
             \A q \in Queues : status'[q] \notin {"FREE", "READY"} => status[q] \notin {"FREE", "READY"}
      PROVE  KindInv'
  BY <1>0 DEF KindInv
<1>u. ASSUME UNCHANGED <<param, status>> PROVE KindInv'
  BY <1>0, <1>u
<1>1. ASSUME IndInv, NEW t \in Threads, Call(t) PROVE KindInv'
  <2>1. ASSUME NEW q \in Queues, NEW par \in Params, Create(t, q, par) PROVE KindInv'
    BY <1>1, <2>1 DEF Create, KindInv, IndInv, CoreType, QueueType
  <2>2. ASSUME NEW q \in Queues, Destroy(t, q) PROVE KindInv'
    BY <1>0, <1>1, <2>2 DEF Destroy, IndInv, CoreType, QueueType
  <2>3. ASSUME NEW q \in Queues, NEW evs \in EventLists, Enq(t, q, evs) PROVE KindInv'
    BY <1>0, <1>1, <2>3 DEF Enq, IndInv, CoreType, QueueType
  <2> QED
    BY <1>u, <1>1, <2>1, <2>2, <2>3 DEF Call, Deq, ReleaseAtomic, table
<1>2. ASSUME NEW t \in Threads, Leave(t) \/ Schedule(t) PROVE KindInv'
  BY <1>u, <1>2 DEF Leave, Pause, Resume, TermLocal, InitLocal, Schedule, ScheduleLocal,
                    ScheduleBegin, table
<1>3. ASSUME IndInv, NEW t \in Threads, Run(t) PROVE KindInv'
  <2>1. CASE DeqEmpty(t)
    BY <1>0, <1>3, <2>1 DEF DeqEmpty, IndInv, CoreType, QueueType
  <2>2. CASE Finalize(t)
    BY <1>0, <1>3, <2>2 DEF Finalize, IndInv, CoreType, QueueType
  <2>3. ASSUME NEW n \in 1 .. MaxDeq, NEW k \in 1 .. MaxNum, DeqEvents(t, n, k)
        PROVE  KindInv'
    BY <1>u, <2>3 DEF DeqEvents
  <2> QED
    BY <1>u, <1>3, <2>1, <2>2, <2>3
    DEF Run, CreateInit, CreateFail, EnqSchedule, ScanSkip, ScanTake, DeqDestroyed, Reenqueue, table
<1>4. ASSUME DownInv, NEW s \in Slots, TermDrain(s) PROVE KindInv'
  <2>1. Head(priq[s]) \in Queues
    BY <1>4, TailRange DEF DownInv, CoreType, TermDrain
  <2> QED
    BY <1>0, <1>4, <2>1 DEF TermDrain, DownInv, CoreType, QueueType, Usable
<1> QED
  BY <1>u, <1>1, <1>2, <1>3, <1>4, LifeCases DEF Next, TermBegin, table, vars

-----------------------------------------------------------------------------
(* What is pending of a queue that a thread holds, and of one that nobody  *)
(* holds.                                                                  *)
LEMMA PendingFree ==
  ASSUME NEW q \in Queues
  PROVE  /\ (\A u \in Threads : held[u] # q) => Pending(q) = evq[q]
         /\ (\A u \in Threads : held'[u] # q) => Pending(q)' = evq'[q]
BY DEF Pending

LEMMA PendingHeld ==
  ASSUME NEW q \in Queues, NEW t \in Threads
  PROVE  /\ held[t] = q /\ (\A u \in Threads : held[u] = q => u = t)
           => Pending(q) = lbuf[t] \o evq[q]
         /\ held'[t] = q /\ (\A u \in Threads : held'[u] = q => u = t)
           => Pending(q)' = lbuf'[t] \o evq'[q]
<1>1. ASSUME held[t] = q, \A u \in Threads : held[u] = q => u = t
      PROVE  Pending(q) = lbuf[t] \o evq[q]
  <2>1. Holder(q) = t
    BY <1>1 DEF Holder
  <2> QED
    BY <1>1, <2>1 DEF Pending
<1>2. ASSUME held'[t] = q, \A u \in Threads : held'[u] = q => u = t
      PROVE  Pending(q)' = lbuf'[t] \o evq'[q]
  <2>1. Holder(q)' = t
    BY <1>2 DEF Holder
  <2> QED
    BY <1>2, <2>1 DEF Pending
<1> QED
  BY <1>1, <1>2

LEMMA OneHolder ==
  ASSUME IndInv, NEW q \in Queues, NEW t \in Threads, held[t] = q
  PROVE  /\ \A u \in Threads : held[u] = q => u = t
         /\ status[q] \in InSched
BY CarryFacts DEF Carries

(* Events leave at the front...                                            *)
LEMMA DropNone ==
  ASSUME NEW s \in Seq(Events)
  PROVE  Drop(s, 0) = s /\ Range(SubSeq(s, 1, 0)) = {} /\ Len(s) \in Nat
BY SMT DEF Drop, Range

LEMMA SameSeq ==
  ASSUME NEW r \in Seq(Events), NEW s \in Seq(Events), Len(r) = Len(s),
         \A i \in 1 .. Len(s) : r[i] = s[i]
  PROVE  r = s
BY SMT

LEMMA SubSeqIs ==
  ASSUME NEW s \in Seq(Events), NEW k \in Nat, NEW n \in Nat, k <= n, n <= Len(s)
  PROVE  /\ SubSeq(s, k + 1, n) \in Seq(Events) /\ Len(SubSeq(s, k + 1, n)) = n - k
         /\ \A i \in 1 .. n - k : SubSeq(s, k + 1, n)[i] = s[k + i]
BY SMT

LEMMA DropIs ==
  ASSUME NEW s \in Seq(Events), NEW k \in Nat, k <= Len(s)
  PROVE  /\ Drop(s, k) \in Seq(Events) /\ Len(Drop(s, k)) = Len(s) - k
         /\ \A i \in 1 .. Len(s) - k : Drop(s, k)[i] = s[k + i]
BY SMT DEF Drop

LEMMA CatIs ==
  ASSUME NEW a \in Seq(Events), NEW b \in Seq(Events)
  PROVE  /\ a \o b \in Seq(Events) /\ Len(a \o b) = Len(a) + Len(b)
         /\ Len(a) \in Nat /\ Len(b) \in Nat
         /\ \A i \in 1 .. Len(a) : (a \o b)[i] = a[i]
         /\ \A i \in 1 .. Len(b) : (a \o b)[Len(a) + i] = b[i]
BY SMT

(* A sequence in two pieces.                                               *)
LEMMA TwoPieces ==
  ASSUME NEW r \in Seq(Events), NEW a \in Seq(Events), NEW b \in Seq(Events),
         Len(r) = Len(a) + Len(b), \A i \in 1 .. Len(a) : r[i] = a[i],
         \A i \in 1 .. Len(b) : r[Len(a) + i] = b[i]
  PROVE  a \o b = r
<1> DEFINE d == a \o b
<1>1. /\ d \in Seq(Events) /\ Len(d) = Len(r) /\ Len(a) \in Nat /\ Len(b) \in Nat
      /\ \A i \in 1 .. Len(a) : d[i] = a[i]
      /\ \A i \in 1 .. Len(b) : d[Len(a) + i] = b[i]
  BY CatIs
<1> HIDE DEF d
<1>2. ASSUME NEW i \in 1 .. Len(r) PROVE d[i] = r[i]
  <2>1. CASE i \in 1 .. Len(a)
    BY <1>1, <2>1
  <2>2. CASE i \notin 1 .. Len(a)
    <3>1. PICK j \in 1 .. Len(b) : i = Len(a) + j
      <4>1. i - Len(a) \in 1 .. Len(b) /\ i = Len(a) + (i - Len(a))
        BY <1>1, <2>2, SMT
      <4> QED
        BY <4>1
    <3> QED
      BY <1>1, <3>1
  <2> QED
    BY <2>1, <2>2
<1>3. d = r
  BY <1>1, <1>2, SameSeq
<1> QED
  BY <1>3 DEF d

LEMMA DropStash ==
  ASSUME NEW a \in Seq(Events), NEW b \in Seq(Events), NEW k \in Nat, k <= Len(a)
  PROVE  /\ Drop(a, k) \o b = Drop(a \o b, k)
         /\ SubSeq(a \o b, 1, k) = SubSeq(a, 1, k) /\ k <= Len(a \o b)
<1> DEFINE c == a \o b
           l == Drop(a, k)
           r == Drop(c, k)
<1>1. /\ c \in Seq(Events) /\ Len(c) = Len(a) + Len(b) /\ Len(a) \in Nat /\ Len(b) \in Nat
      /\ \A i \in 1 .. Len(a) : c[i] = a[i]
      /\ \A i \in 1 .. Len(b) : c[Len(a) + i] = b[i]
  BY CatIs
<1> HIDE DEF c
<1>2. k <= Len(c)
  BY <1>1, SMT
<1>3. l \in Seq(Events) /\ Len(l) = Len(a) - k /\ \A i \in 1 .. Len(a) - k : l[i] = a[k + i]
  BY DropIs
<1>4. r \in Seq(Events) /\ Len(r) = Len(c) - k /\ \A i \in 1 .. Len(c) - k : r[i] = c[k + i]
  BY <1>1, <1>2, DropIs
<1> HIDE DEF l, r
<1>5. Len(r) = Len(l) + Len(b)
  BY <1>1, <1>3, <1>4, SMT
<1>6. ASSUME NEW i \in 1 .. Len(l) PROVE r[i] = l[i]
  <2>1. i \in 1 .. Len(a) - k /\ i \in 1 .. Len(c) - k /\ k + i \in 1 .. Len(a)
    BY <1>1, <1>3, SMT
  <2> QED
    BY <1>1, <1>3, <1>4, <2>1
<1>7. ASSUME NEW i \in 1 .. Len(b) PROVE r[Len(l) + i] = b[i]
  <2>1. Len(l) + i \in 1 .. Len(c) - k /\ k + (Len(l) + i) = Len(a) + i
    BY <1>1, <1>3, SMT
  <2> QED
    BY <1>1, <1>4, <2>1
<1>8. l \o b = r
  BY <1>3, <1>4, <1>5, <1>6, <1>7, TwoPieces
<1>9. SubSeq(c, 1, k) = SubSeq(a, 1, k)
  BY <1>1, <1>2, SMT
<1> QED
  BY <1>2, <1>8, <1>9 DEF c, l, r

LEMMA DropTwice ==
  ASSUME NEW s \in Seq(Events), NEW k \in Nat, NEW n \in Nat, k <= n, n <= Len(s)
  PROVE  SubSeq(s, k + 1, n) \o Drop(s, n) = Drop(s, k)
<1> DEFINE a == SubSeq(s, k + 1, n)
           b == Drop(s, n)
           r == Drop(s, k)
<1>1. Len(s) \in Nat /\ k <= Len(s)
  BY SMT
<1>2. a \in Seq(Events) /\ Len(a) = n - k /\ \A i \in 1 .. n - k : a[i] = s[k + i]
  BY SubSeqIs
<1>3. b \in Seq(Events) /\ Len(b) = Len(s) - n /\ \A i \in 1 .. Len(s) - n : b[i] = s[n + i]
  BY DropIs
<1>4. r \in Seq(Events) /\ Len(r) = Len(s) - k /\ \A i \in 1 .. Len(s) - k : r[i] = s[k + i]
  BY <1>1, DropIs
<1> HIDE DEF a, b, r
<1>5. Len(r) = Len(a) + Len(b)
  BY <1>1, <1>2, <1>3, <1>4, SMT
<1>6. ASSUME NEW i \in 1 .. Len(a) PROVE r[i] = a[i]
  <2>1. i \in 1 .. n - k /\ i \in 1 .. Len(s) - k
    BY <1>1, <1>2, SMT
  <2> QED
    BY <1>2, <1>4, <2>1
<1>7. ASSUME NEW i \in 1 .. Len(b) PROVE r[Len(a) + i] = b[i]
  <2>1. /\ i \in 1 .. Len(s) - n /\ Len(a) + i \in 1 .. Len(s) - k
        /\ k + (Len(a) + i) = n + i
    BY <1>1, <1>2, <1>3, SMT
  <2> QED
    BY <1>3, <1>4, <2>1
<1>8. a \o b = r
  BY <1>2, <1>3, <1>4, <1>5, <1>6, <1>7, TwoPieces
<1> QED
  BY <1>8 DEF a, b, r

(* ... and come at the end.                                                *)
LEMMA Grows ==
  ASSUME NEW a \in Seq(Events), NEW b \in Seq(Events), NEW c \in Seq(Events)
  PROVE  /\ Len(a \o (b \o c)) = Len(a \o b) + Len(c)
         /\ SubSeq(a \o (b \o c), 1, Len(a \o b)) = a \o b
BY SMT

-----------------------------------------------------------------------------
LEMMA SamePending ==
  ASSUME IndInv, EnvInv, NEW q \in Queues, evq'[q] = evq[q],
         \A u \in Threads : (held'[u] = q <=> held[u] = q) /\ (held[u] = q => lbuf'[u] = lbuf[u])
  PROVE  FrontLeaves(q)
<1>1. Pending(q)' = Pending(q) /\ Pending(q) \in Seq(Events)
  <2>0. lbuf \in [Threads -> Seq(Events)] /\ evq[q] \in Seq(Events)
    BY DEF EnvInv, EventInv, EventType
  <2>1. CASE \A u \in Threads : held[u] # q
    BY <2>0, <2>1, PendingFree
  <2>2. ASSUME NEW t \in Threads, held[t] = q PROVE Pending(q)' = Pending(q) /\ Pending(q) \in Seq(Events)
    <3>1. /\ \A u \in Threads : held[u] = q => u = t
          /\ held'[t] = q /\ \A u \in Threads : held'[u] = q => u = t
      BY <2>2, OneHolder
    <3>2. Pending(q) = lbuf[t] \o evq[q] /\ Pending(q)' = lbuf'[t] \o evq'[q]
      BY <2>2, <3>1, PendingHeld
    <3>3. lbuf[t] \o evq[q] \in Seq(Events)
      BY <2>0, CatIs
    <3> QED
      BY <2>2, <3>2, <3>3
  <2> QED
    BY <2>1, <2>2
<1>2. 0 \in 0 .. Len(Pending(q))
  BY <1>1, SMT
<1> QED
  BY <1>1, <1>2, DropNone DEF FrontLeaves

(* odp_schedule_release_atomic waits for the stash to be empty.            *)
LEMMA ReleasePending ==
  ASSUME IndInv, EnvInv, NEW q \in Queues, NEW t \in Threads, release_atomic(t),
         UNCHANGED <<evq, lbuf>>
  PROVE  FrontLeaves(q)
<1>0. held \in [Threads -> Queues \cup {None}] /\ q # None
  BY SetsAssumption DEF IndInv, CoreType, ThreadType
<1>1. CASE held[t] = q /\ lbuf[t] = <<>>
  <2>1. /\ \A u \in Threads : held[u] = q => u = t
        /\ \A u \in Threads : held'[u] # q
    BY <1>0, <1>1, OneHolder DEF release_atomic
  <2>2. evq[q] \in Seq(Events)
    BY DEF EnvInv, EventInv, EventType
  <2>3. <<>> \o evq[q] = evq[q] /\ 0 \in 0 .. Len(evq[q])
    BY <2>2, SMT
  <2>4. Pending(q) = lbuf[t] \o evq[q]
    BY <1>1, <2>1, PendingHeld
  <2>5. Pending(q) = evq[q] /\ Pending(q)' = evq[q]
    BY <1>1, <2>1, <2>3, <2>4, PendingFree
  <2> QED
    BY <2>2, <2>3, <2>5, DropNone DEF FrontLeaves
<1>2. CASE ~(held[t] = q /\ lbuf[t] = <<>>)
  <2>1. \A u \in Threads : held'[u] = q <=> held[u] = q
    BY <1>0, <1>2 DEF release_atomic
  <2> QED
    BY <2>1, SamePending
<1> QED
  BY <1>1, <1>2

LEMMA EnqPending ==
  ASSUME IndInv, EnvInv, NEW q \in Queues, NEW t \in Threads, NEW evs \in EventLists,
         Enq(t, q, evs)
  PROVE  EndGrows(q)
<1>1. PICK n \in 1 .. MaxEnq : evs \in [1 .. n -> app]
  BY DEF EventLists
<1>2. evs \in Seq(Events) /\ Len(evs) = n
  <2>1. n \in Nat /\ evs \in [1 .. n -> Events]
    BY <1>1, SMT DEF EnvInv, EventInv, EventType
  <2> QED
    BY <2>1, SMT
<1>3. /\ lbuf \in [Threads -> Seq(Events)] /\ evq[q] \in Seq(Events) /\ <<>> \in Seq(Events)
      /\ \A c \in Seq(Events) : <<>> \o c = c
  BY SMT DEF EnvInv, EventInv, EventType
<1>4. evq'[q] = evq[q] \o evs /\ UNCHANGED <<held, lbuf>> /\ evq[q] \o evs \in Seq(Events)
  BY <1>2, <1>3, CatIs DEF Enq, local, EnvInv, EventInv, EventType
<1>5. PICK a \in Seq(Events) : Pending(q) = a \o evq[q] /\ Pending(q)' = a \o (evq[q] \o evs)
  <2>1. CASE \A u \in Threads : held[u] # q
    BY <1>3, <1>4, <2>1, PendingFree
  <2>2. ASSUME NEW u \in Threads, held[u] = q
        PROVE  Pending(q) = lbuf[u] \o evq[q] /\ Pending(q)' = lbuf[u] \o (evq[q] \o evs)
    BY <1>4, <2>2, OneHolder, PendingHeld
  <2> QED
    BY <1>3, <2>1, <2>2
<1>6. /\ Len(Pending(q)') = Len(Pending(q)) + Len(evs)
      /\ SubSeq(Pending(q)', 1, Len(Pending(q))) = Pending(q)
  <2>1. /\ Len(a \o (evq[q] \o evs)) = Len(a \o evq[q]) + Len(evs)
        /\ SubSeq(a \o (evq[q] \o evs), 1, Len(a \o evq[q])) = a \o evq[q]
    BY <1>2, <1>3, Grows
  <2> QED
    BY <1>5, <2>1
<1> QED
  BY <1>2, <1>6 DEF EndGrows

LEMMA DeqPending ==
  ASSUME IndInv, EnvInv, KindInv, NEW q \in Queues, NEW t \in Threads, NEW n \in 1 .. MaxNum,
         Deq(t, q, n)
  PROVE  FrontLeaves(q)
<1>1. \A u \in Threads : held[u] # q /\ held'[u] # q
  BY OneHolder DEF Deq, local, KindInv, IndInv, EntryInv, InSched, Usable
<1>2. /\ app' = app \cup Range(SubSeq(evq[q], 1, n)) /\ n <= Len(evq[q])
      /\ evq[q] \in Seq(Events) /\ evq'[q] = Drop(evq[q], n)
  BY DEF Deq, EnvInv, EventInv, EventType
<1>3. n \in 0 .. Len(evq[q])
  BY <1>2, SMT
<1> QED
  BY <1>1, <1>2, <1>3, PendingFree DEF FrontLeaves

LEMMA ScheduleLocalPending ==
  ASSUME IndInv, EnvInv, NEW q \in Queues, NEW t \in Threads, NEW k \in 1 .. MaxNum,
         ScheduleLocal(t, k)
  PROVE  FrontLeaves(q)
<1>1. /\ k <= Len(lbuf[t]) /\ app' = app \cup Range(SubSeq(lbuf[t], 1, k))
      /\ lbuf' = [lbuf EXCEPT ![t] = Drop(lbuf[t], k)]
      /\ UNCHANGED <<held, evq>>
  BY DEF ScheduleLocal, table
<1>2. lbuf \in [Threads -> Seq(Events)] /\ evq[q] \in Seq(Events) /\ k \in Nat
  BY SMT DEF EnvInv, EventInv, EventType
<1>3. CASE held[t] = q
  <2>1. Pending(q) = lbuf[t] \o evq[q] /\ Pending(q)' = Drop(lbuf[t], k) \o evq[q]
    <3>1. /\ \A u \in Threads : held[u] = q => u = t
          /\ held'[t] = q /\ \A u \in Threads : held'[u] = q => u = t
      BY <1>1, <1>3, OneHolder
    <3>2. lbuf'[t] = Drop(lbuf[t], k) /\ evq'[q] = evq[q]
      BY <1>1, <1>2
    <3> QED
      BY <1>3, <3>1, <3>2, PendingHeld
  <2>2. k <= Len(Pending(q)) /\ Pending(q)' = Drop(Pending(q), k)
        /\ SubSeq(Pending(q), 1, k) = SubSeq(lbuf[t], 1, k)
    <3>1. lbuf[t] \in Seq(Events)
      BY <1>2
    <3>2. /\ Drop(lbuf[t], k) \o evq[q] = Drop(lbuf[t] \o evq[q], k)
          /\ SubSeq(lbuf[t] \o evq[q], 1, k) = SubSeq(lbuf[t], 1, k)
          /\ k <= Len(lbuf[t] \o evq[q])
      BY <1>1, <1>2, <3>1, DropStash
    <3> QED
      BY <2>1, <3>2
  <2>3. Pending(q) \in Seq(Events)
    <3>1. lbuf[t] \o evq[q] \in Seq(Events)
      BY <1>2, CatIs
    <3> QED
      BY <2>1, <3>1
  <2>4. k \in 0 .. Len(Pending(q))
    BY <1>2, <2>2, <2>3, SMT
  <2> QED
    BY <1>1, <2>2, <2>4 DEF FrontLeaves
<1>4. CASE held[t] # q
  BY <1>1, <1>2, <1>4, SamePending
<1> QED
  BY <1>3, <1>4

LEMMA DeqEventsPending ==
  ASSUME IndInv, EnvInv, NEW q \in Queues, param[q].sync = "ATOMIC",
         NEW t \in Threads, NEW n \in 1 .. MaxDeq, NEW k \in 1 .. MaxNum, DeqEvents(t, n, k)
  PROVE  FrontLeaves(q)
<1>0. PICK r \in Queues : r = cur[t]
  BY DEF DeqEvents
<1>1. /\ n <= Len(evq[r]) /\ k <= n
      /\ app' = app \cup Range(SubSeq(evq[r], 1, k))
      /\ lbuf' = [lbuf EXCEPT ![t] = SubSeq(evq[r], k + 1, n)]
      /\ evq' = [evq EXCEPT ![r] = Drop(evq[r], n)]
      /\ IF param[r].sync = "ATOMIC" THEN held' = [held EXCEPT ![t] = r] ELSE held' = held
      /\ pc[t] = "got"
  BY <1>0 DEF DeqEvents, Goto
<1>2. /\ lbuf \in [Threads -> Seq(Events)] /\ evq \in [Queues -> Seq(Events)]
      /\ held \in [Threads -> Queues \cup {None}] /\ k \in Nat /\ n \in Nat /\ None \notin Queues
  BY SetsAssumption, SMT DEF EnvInv, EventInv, EventType, IndInv, CoreType, ThreadType
<1>3. held[t] = None
  BY <1>1 DEF IndInv, CallInv, HeldInv
<1>4. CASE r = q
  <2>1. \A u \in Threads : held[u] # q
    <3>1. Carries(t, q)
      BY <1>0, <1>1, <1>4 DEF Carries
    <3>2. \A u \in Threads : held[u] = q => u = t
      BY <3>1, CarryFacts DEF Carries
    <3> QED
      BY <1>2, <1>3, <3>2
  <2>2. Pending(q) = evq[q] /\ Pending(q)' = SubSeq(evq[q], k + 1, n) \o Drop(evq[q], n)
    <3>1. held'[t] = q /\ \A u \in Threads : held'[u] = q => u = t
      BY <1>1, <1>2, <1>4, <2>1
    <3>2. lbuf'[t] = SubSeq(evq[q], k + 1, n) /\ evq'[q] = Drop(evq[q], n)
      BY <1>1, <1>2, <1>4
    <3> QED
      BY <2>1, <3>1, <3>2, PendingFree, PendingHeld
  <2>3. Pending(q)' = Drop(Pending(q), k)
    BY <1>1, <1>2, <1>4, <2>2, DropTwice
  <2>4. k \in 0 .. Len(evq[q])
    BY <1>1, <1>2, <1>4, SMT
  <2> QED
    BY <1>1, <1>4, <2>2, <2>3, <2>4 DEF FrontLeaves
<1>5. CASE r # q
  <2>1. evq'[q] = evq[q]
    BY <1>1, <1>2, <1>5
  <2>2. \A u \in Threads : (held'[u] = q <=> held[u] = q) /\ (held[u] = q => lbuf'[u] = lbuf[u])
    BY <1>1, <1>2, <1>3, <1>5
  <2> QED
    BY <2>1, <2>2, SamePending
<1> QED
  BY <1>4, <1>5

LEMMA StepPending ==
  ASSUME IndInv, EnvInv, KindInv, NEW q \in Queues, param[q].sync = "ATOMIC", [Next]_vars
  PROVE  FrontLeaves(q) \/ EndGrows(q)
<1>0. ASSUME evq'[q] = evq[q], UNCHANGED <<held, lbuf>> PROVE FrontLeaves(q)
  BY <1>0, SamePending
<1>1. ASSUME NEW t \in Threads, Call(t) PROVE FrontLeaves(q) \/ EndGrows(q)
  <2>0. evq \in [Queues -> Seq(Events)]
    BY DEF EnvInv, EventInv, EventType
  <2>1. ASSUME NEW r \in Queues, NEW par \in Params, Create(t, r, par) PROVE FrontLeaves(q)
    <3>1. evq[r] = <<>> /\ evq' = [evq EXCEPT ![r] = <<>>] /\ UNCHANGED <<held, lbuf>>
      BY <2>1 DEF Create, local, EnvInv, WakeInv
    <3> QED
      BY <1>0, <2>0, <3>1
  <2>2. ASSUME NEW r \in Queues, Destroy(t, r) PROVE FrontLeaves(q)
    BY <1>0, <2>2 DEF Destroy, local
  <2>3. ASSUME NEW r \in Queues, NEW evs \in EventLists, Enq(t, r, evs)
        PROVE  FrontLeaves(q) \/ EndGrows(q)
    <3>1. CASE r # q
      BY <1>0, <2>0, <2>3, <3>1 DEF Enq, local
    <3> QED
      BY <2>3, <3>1, EnqPending
  <2>4. ASSUME NEW r \in Queues, NEW n \in 1 .. MaxNum, Deq(t, r, n) PROVE FrontLeaves(q)
    <3>1. CASE r # q
      BY <1>0, <2>0, <2>4, <3>1 DEF Deq, local
    <3> QED
      BY <2>4, <3>1, DeqPending
  <2>5. CASE ReleaseAtomic(t)
    BY <2>5, ReleasePending DEF ReleaseAtomic, table
  <2> QED
    BY <1>1, <2>1, <2>2, <2>3, <2>4, <2>5 DEF Call
<1>2. ASSUME NEW t \in Threads, Leave(t) PROVE FrontLeaves(q)
  <2>1. CASE TermLocal(t)
    BY <2>1, ReleasePending DEF TermLocal, table
  <2> QED
    BY <1>0, <1>2, <2>1 DEF Leave, Pause, Resume, InitLocal, table, local
<1>3. ASSUME NEW t \in Threads, Schedule(t) PROVE FrontLeaves(q)
  <2>1. CASE ScheduleBegin(t)
    BY <2>1, ReleasePending DEF ScheduleBegin, table
  <2> QED
    BY <1>3, <2>1, ScheduleLocalPending DEF Schedule
<1>4. ASSUME NEW t \in Threads, Run(t) PROVE FrontLeaves(q)
  <2>1. CASE CreateInit(t) \/ CreateFail(t) \/ EnqSchedule(t) \/ ScanSkip(t) \/ ScanTake(t)
    BY <1>0, <2>1 DEF CreateInit, CreateFail, EnqSchedule, ScanSkip, ScanTake, table, local
  <2>2. CASE DeqDestroyed(t) \/ DeqEmpty(t) \/ Reenqueue(t) \/ Finalize(t)
    BY <1>0, <2>2 DEF DeqDestroyed, DeqEmpty, Reenqueue, Finalize, table, local
  <2> QED
    BY <1>4, <2>1, <2>2, DeqEventsPending DEF Run
<1> QED
  BY <1>0, <1>1, <1>2, <1>3, <1>4 DEF Next, vars

(* An atomic queue delivers in the order of enqueueing, whichever threads  *)
(* serve it and whatever they have dequeued ahead (queue_enq, schedule,    *)
(* copy_events, odp_schedule_release_atomic, odp_queue_destroy).           *)
THEOREM AtomicQueuesKeepOrder == LifeSpec => AtomicOrder
<1>1. Init => KindInv
  BY DEF Init, KindInv
<1>2. ASSUME LifeInv, EnvInv, KindInv, [LifeNext]_vars, NEW q \in Queues, Up,
             param[q].sync = "ATOMIC"
      PROVE  FrontLeaves(q) \/ EndGrows(q)
  <2>1. IndInv
    BY <1>2, SetsAssumption DEF LifeInv, DownInv, Up
  <2>2. CASE TermBegin
    BY <1>2, <2>1, <2>2, SamePending DEF TermBegin, table, local
  <2>3. ~DownInv
    BY <1>2, SetsAssumption DEF DownInv, Up
  <2> QED
    BY <1>2, <2>1, <2>2, <2>3, LifeCases, StepPending
<1>3. LifeInv /\ EnvInv /\ KindInv /\ [LifeNext]_vars => KeepsOrder
  BY <1>2 DEF KeepsOrder
<1> QED
  BY <1>1, <1>3, Life, LifeKind, InitEnv, LifeEnv, PTL DEF LifeSpec, AtomicOrder
=============================================================================
