-------------------------- MODULE SchedulerCounts ---------------------------
(***************************************************************************)
(* The counters of the priority queues are exact and no wakeup is lost,    *)
(* for any number of threads, queues and events.                           *)
(***************************************************************************)
EXTENDS SchedulerLife, FiniteSetTheorems

(* Zenon proves what does not name SMT.                                    *)
USE Zenon

-----------------------------------------------------------------------------
(* The counters and the mask.                                              *)

(* The mask bit of a priority queue is set while queues use it.            *)
MaskInv == \A q \in Queues : pri_queue[q] # None => pri_mask[pri_queue[q]]

CountType ==
  /\ pri_mask \in [Slots -> BOOLEAN] /\ pri_count \in [Slots -> Int]

CountInv == CountType /\ CountExact /\ MaskInv

Users(s) == {q \in Queues : pri_queue[q] = s}

LEMMA CountStays ==
  ASSUME CountInv, UNCHANGED <<pri_queue, pri_mask, pri_count>>
  PROVE  CountInv'
BY SMT DEF CountInv, CountType, CountExact, MaskInv

LEMMA CountUp ==
  ASSUME CountInv, QueueType,
         NEW p \in Queues, pri_queue[p] = None, NEW x \in Slots,
         pri_queue' = [pri_queue EXCEPT ![p] = x], pri_set(x)
  PROVE  CountInv'
<1>2. \A s \in Slots : Users(s)' = IF s = x THEN Users(s) \cup {p} ELSE Users(s)
  BY SetsAssumption DEF Users, QueueType
<1>3. p \notin Users(x) /\ IsFiniteSet(Users(x))
  BY SetsAssumption, FS_Subset DEF Users
<1>4. Cardinality(Users(x) \cup {p}) = Cardinality(Users(x)) + 1
  BY <1>3, FS_AddElement
<1>5. \A s \in Slots : pri_count[s] = Cardinality(Users(s))
  BY DEF CountInv, CountExact, Users
<1>6. \A s \in Slots : pri_count'[s] = Cardinality(Users(s)')
  BY <1>2, <1>4, <1>5 DEF pri_set, CountInv, CountType
<1>7. CountExact'
  BY <1>6 DEF CountExact, Users
<1>8. MaskInv'
  BY DEF CountInv, MaskInv, pri_set, CountType, QueueType
<1>9. CountType'
  BY SMT DEF CountInv, CountType, pri_set
<1> QED
  BY <1>7, <1>8, <1>9 DEF CountInv

LEMMA CountDown ==
  ASSUME CountInv, QueueType,
         NEW p \in Queues, pri_queue[p] \in Slots, schedule_queue_destroy(p)
  PROVE  CountInv'
<1>0. PICK x \in Slots : x = pri_queue[p]
  BY SMT
<1>1. x # None /\ None \notin Slots
  BY SetsAssumption
<1>2. /\ pri_queue' = [pri_queue EXCEPT ![p] = None]
      /\ pri_count' = [pri_count EXCEPT ![x] = pri_count[x] - 1]
      /\ pri_mask' = [pri_mask EXCEPT ![x] = pri_mask[x] /\ pri_count[x] - 1 # 0]
  BY <1>0 DEF schedule_queue_destroy, pri_clr
<1>3. \A s \in Slots : Users(s)' = IF s = x THEN Users(s) \ {p} ELSE Users(s)
  BY <1>0, <1>1, <1>2 DEF Users, QueueType
<1>4. p \in Users(x) /\ IsFiniteSet(Users(x))
  BY <1>0, SetsAssumption, FS_Subset DEF Users
<1>5. /\ Cardinality(Users(x) \ {p}) = Cardinality(Users(x)) - 1
      /\ IsFiniteSet(Users(x) \ {p})
  BY <1>4, FS_RemoveElement
<1>6. \A s \in Slots : pri_count[s] = Cardinality(Users(s))
  BY DEF CountInv, CountExact, Users
<1>t. pri_count \in [Slots -> Int]
  BY DEF CountInv, CountType
<1>7. \A s \in Slots : pri_count'[s] = Cardinality(Users(s)')
  BY <1>t, <1>2, <1>3, <1>5, <1>6
<1>8. CountExact'
  BY <1>7 DEF CountExact, Users
<1>9. ASSUME NEW q \in Queues, pri_queue'[q] # None PROVE pri_mask'[pri_queue'[q]]
  <2>1. q # p /\ pri_queue'[q] = pri_queue[q] /\ pri_mask[pri_queue[q]] /\ pri_queue[q] \in Slots
    BY <1>2, <1>9 DEF CountInv, MaskInv, QueueType
  <2>2. CASE pri_queue[q] # x
    BY <1>2, <2>1, <2>2 DEF CountInv, CountType
  <2>3. CASE pri_queue[q] = x
    BY <2>1, <1>5, <1>6, FS_EmptySet, <1>2, SMT DEF Users, CountInv, CountType
  <2> QED
    BY <2>2, <2>3
<1>10. CountType'
  BY <1>2, SMT DEF CountInv, CountType
<1> QED
  BY <1>8, <1>9, <1>10 DEF MaskInv, CountInv


LEMMA InitCount == Init => CountInv
<1> SUFFICES ASSUME Init PROVE CountInv
  BY SMT
<1>1. \A s \in Slots : {q \in Queues : pri_queue[q] = s} = {}
  BY SetsAssumption DEF Init
<1>2. CountExact
  BY <1>1, FS_EmptySet DEF Init, CountExact
<1>3. MaskInv /\ CountType
  BY SMT DEF Init, MaskInv, CountType
<1> QED
  BY <1>2, <1>3 DEF CountInv

LEMMA CreateInitCount ==
  ASSUME IndInv, CountInv, NEW t \in Threads, CreateInit(t)
  PROVE  CountInv'
<1>0. PICK q \in Queues : q = cur[t]
  BY DEF CreateInit, Goto, IndInv, CallInv, CreateInv
<1>1. pri_queue[q] = None
  BY <1>0 DEF CreateInit, Goto, IndInv, CallInv, CreateInv
<1>2. PICK x \in Slots : x = <<param[q].prio, IdOf(q)>>
  BY IdType, SetsAssumption DEF IndInv, CoreType, ParamType, IdOf, Slots
<1>3. pri_queue' = [pri_queue EXCEPT ![q] = x] /\ pri_set(x)
  BY <1>0, <1>2 DEF CreateInit
<1>4. QueueType
  BY DEF IndInv, CoreType
<1> QED
  BY <1>1, <1>3, <1>4, CountUp

LEMMA DestroyCount ==
  ASSUME IndInv, CountInv, NEW t \in Threads, NEW q \in Queues, Destroy(t, q)
  PROVE  CountInv'
<1>1. CASE schedule_queue_destroy(q) /\ status[q] = "NOTSCHED"
  BY <1>1, CountDown DEF Destroy, IndInv, CoreType, QueueType, EntryInv
<1>2. CASE UNCHANGED <<pri_queue, pri_mask, pri_count>>
  BY <1>2, CountStays
<1> QED
  BY <1>1, <1>2 DEF Destroy

LEMMA FinalizeCount ==
  ASSUME IndInv, CountInv, NEW t \in Threads, Finalize(t)
  PROVE  CountInv'
<1>0. PICK q \in Queues : q = cur[t]
  BY DEF Finalize, Continue, Goto, IndInv, CallInv, CurInv
<1>1. status[q] = "DESTROYED"
  BY <1>0 DEF Finalize, Continue, Goto, IndInv, CallInv, CurInv
<1>2. schedule_queue_destroy(q)
  BY <1>0, <1>1 DEF Finalize
<1>3. pri_queue[q] \in Slots
  BY <1>1 DEF IndInv, CoreType, QueueType, EntryInv, InSched
<1>4. QueueType
  BY DEF IndInv, CoreType
<1> QED
  BY <1>2, <1>3, <1>4, CountDown

LEMMA StepCount == IndInv /\ CountInv /\ [Next]_vars => CountInv'
<1> SUFFICES ASSUME IndInv, CountInv, [Next]_vars PROVE CountInv'
  BY SMT
<1>0. ASSUME UNCHANGED <<pri_queue, pri_mask, pri_count>> PROVE CountInv'
  BY <1>0, CountStays
<1>1. ASSUME NEW t \in Threads, Call(t) PROVE CountInv'
  BY <1>0, <1>1, DestroyCount, SMT
  DEF Create, IndInv, EntryInv, pris, CoreType, QueueType, Enq, Deq, ReleaseAtomic, table,
      Call
<1>2. ASSUME NEW t \in Threads, Leave(t) PROVE CountInv'
  <2>1. CASE Pause(t) \/ Resume(t) \/ InitLocal(t)
    BY <2>1, <1>0 DEF Pause, Resume, InitLocal, table, pris
  <2>2. CASE TermLocal(t)
    BY <2>2, <1>0 DEF TermLocal, table
  <2> QED
    BY <1>2, <2>1, <2>2 DEF Leave
<1>3. ASSUME NEW t \in Threads, Schedule(t) PROVE CountInv'
  <2>1. ASSUME NEW k \in 1 .. MaxNum, ScheduleLocal(t, k) PROVE CountInv'
    BY <2>1, <1>0 DEF ScheduleLocal, table, pris
  <2>2. CASE ScheduleBegin(t)
    BY <2>2, <1>0 DEF ScheduleBegin, table
  <2> QED
    BY <1>3, <2>1, <2>2 DEF Schedule
<1>4. ASSUME NEW t \in Threads, Run(t) PROVE CountInv'
  <2>1. CASE CreateFail(t) \/ EnqSchedule(t) \/ ScanSkip(t) \/ ScanTake(t)
               \/ DeqDestroyed(t) \/ DeqEmpty(t) \/ Reenqueue(t)
    BY <2>1, <1>0
    DEF CreateFail, EnqSchedule, ScanSkip, ScanTake, DeqDestroyed, DeqEmpty, Reenqueue,
        table, pris
  <2>2. ASSUME NEW n \in 1 .. MaxDeq, NEW k \in 1 .. MaxNum, DeqEvents(t, n, k)
        PROVE  CountInv'
    BY <2>2, <1>0 DEF DeqEvents, pris
  <2> QED
    BY <1>4, <2>1, <2>2, CreateInitCount, FinalizeCount DEF Run
<1>5. CASE UNCHANGED vars
  BY <1>5, <1>0 DEF vars
<1> QED
  BY <1>1, <1>2, <1>3, <1>4, <1>5 DEF Next

(* A command taken out by odp_schedule_term_global leaves its count if its *)
(* queue is destroyed.                                                     *)
LEMMA LifeCount == LifeInv /\ CountInv /\ [LifeNext]_vars => CountInv'
<1> SUFFICES ASSUME LifeInv, CountInv, [LifeNext]_vars PROVE CountInv'
  OBVIOUS
<1>1. CASE TermBegin \/ UNCHANGED vars
  BY <1>1, CountStays DEF TermBegin, table, pris, vars
<1>2. ASSUME DownInv, NEW s \in Slots, TermDrain(s) PROVE CountInv'
  <2>1. PICK q \in Queues : q = Head(priq[s]) /\ q \in Range(priq[s])
    BY <1>2, TailRange DEF DownInv, CoreType, TermDrain
  <2>2. pri_queue[q] \in Slots /\ QueueType
    BY <1>2, <2>1 DEF DownInv, CoreType
  <2>3. schedule_queue_destroy(q) \/ UNCHANGED <<pri_queue, pri_mask, pri_count>>
    BY <1>2, <2>1 DEF TermDrain
  <2> QED
    BY <2>2, <2>3, CountDown, CountStays
<1> QED
  BY <1>1, <1>2, LifeCases, StepCount

(* pri_set and pri_clr keep the exact number of queues of each priority    *)
(* queue.                                                                  *)
THEOREM CountsAreExact == LifeSpec => []CountExact
<1>1. CountInv => CountExact
  BY DEF CountInv
<1> QED
  BY <1>1, Life, InitCount, LifeCount, PTL DEF LifeSpec

(* A queue that has events is in scheduling and the mask bit of its        *)
(* priority queue is set, so the scan of schedule() does not pass it by.   *)
THEOREM NoWakeupIsLost == LifeSpec => []NoLostWakeup
<1>1. EnvInv /\ CountInv => NoLostWakeup
  BY DEF CountInv, NoLostWakeup, EnvInv, WakeInv, MaskInv
<1> QED
  BY <1>1, Life, InitCount, InitEnv, LifeCount, LifeEnv, PTL DEF LifeSpec
=============================================================================
