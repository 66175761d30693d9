------------------------------- MODULE Thread -------------------------------
(***************************************************************************)
(* Registration of threads: odp_thread.c, the local half of odp_init.c,    *)
(* and helper/linux.c, with which a main thread starts workers, as threads *)
(* or as processes, waits for them, and with which the last thread tears   *)
(* the ODP instance down.                                                  *)
(***************************************************************************)
EXTENDS ProcessParams, SequencesExt

Ids == 0 .. (MAX_THREADS - 1)
type(t) == IF t = Main THEN "CONTROL" ELSE "WORKER"

VARIABLES
  setup,         \* chosen at the start
  all, worker, control,  \* the masks
  num, num_worker, num_control,
  thr,           \* the type stored with each id
  alive,         \* odp_term_global has not been called
  pc,
  id,            \* the thread's id
  ret,           \* what odp_term_local returns
  tbl,           \* the helper's table: the workers Main has started
  joined         \* those it has waited for

globals == <<all, worker, control, num, num_worker, num_control, thr>>
helper == <<tbl, joined>>
vars == <<setup, globals, alive, pc, id, ret, helper>>

Init ==
  /\ setup \in Setups
  /\ all = {} /\ worker = {} /\ control = {}
  /\ num = 0 /\ num_worker = 0 /\ num_control = 0
  /\ thr = [i \in Ids |-> "WORKER"]
  /\ alive = TRUE
  /\ pc = [t \in Threads |-> IF t = Main \/ setup.start = "free" THEN "start" ELSE "none"]
  /\ id = [t \in Threads |-> None] /\ ret = [t \in Threads |-> None]
  /\ tbl = <<>> /\ joined = {}

Goto(t, from, to) == pc[t] = from /\ pc' = [pc EXCEPT ![t] = to]
Fails == setup.fails

-----------------------------------------------------------------------------
FirstFree(i) == i \notin all /\ \A j \in 0 .. (i - 1) : j \in all

(* odp_thread_init_local: alloc_id under the lock...                       *)
alloc_id(t) ==
  /\ num < MAX_THREADS
  /\ Goto(t, "start", "store")
  /\ \E i \in Ids :
       /\ FirstFree(i)
       /\ all' = all \cup {i}
       /\ id' = [id EXCEPT ![t] = i]
       /\ worker' = IF type(t) = "WORKER" THEN worker \cup {i} ELSE worker
       /\ control' = IF type(t) = "CONTROL" THEN control \cup {i} ELSE control
  /\ num' = num + 1
  /\ num_worker' = num_worker + (IF type(t) = "WORKER" THEN 1 ELSE 0)
  /\ num_control' = num_control + (IF type(t) = "CONTROL" THEN 1 ELSE 0)
  /\ UNCHANGED <<thr, alive, ret, setup, helper>>

TooMany(t) ==
  /\ num >= MAX_THREADS
  /\ Goto(t, "start", "done")
  /\ UNCHANGED <<globals, alive, id, ret, setup, helper>>

(* ... and the thread's entry without it.                                  *)
StoreMutant(t) ==
  /\ Goto(t, "store", "run")
  /\ UNCHANGED <<globals, alive, id, ret, setup, helper>>

Store(t) ==
  /\ Goto(t, "store", "run")
  /\ thr' = [thr EXCEPT ![id[t]] = type(t)]
  /\ UNCHANGED <<all, worker, control, num, num_worker, num_control, alive, id, ret, setup, helper>>

(* sched_getcpu failed: the thread ends and its id stays taken.            *)
NoCpu(t) ==
  /\ Fails
  /\ Goto(t, "store", "done")
  /\ UNCHANGED <<globals, alive, id, ret, setup, helper>>

(* Main, registered, starts the workers one by one, as many as there are   *)
(* CPUs in the mask.  pthread_create or fork may fail: then the threads    *)
(* started so far are all there is, and with processes Main gives up.      *)
odph_linux_pthread_create(t) ==
  /\ setup.start # "free" /\ pc[Main] = "run"
  /\ pc[t] = "none"
  /\ pc' = [pc EXCEPT ![t] = "start"]
  /\ tbl' = Append(tbl, t)
  /\ UNCHANGED <<globals, alive, id, ret, setup, joined>>

CreateFails ==
  /\ Fails /\ setup.start # "free"
  /\ \E t \in Threads : pc[t] = "none"
  /\ Goto(Main, "run", IF setup.start = "pthread" THEN "join" ELSE "done")
  /\ UNCHANGED <<globals, alive, id, ret, setup, helper>>

AllCreated ==
  /\ setup.start # "free" /\ \A t \in Threads : pc[t] # "none"
  /\ Goto(Main, "run", "join")
  /\ UNCHANGED <<globals, alive, id, ret, setup, helper>>

(* pthread_join takes the threads in the order of the table, wait takes    *)
(* any child that has ended.                                               *)
Join(t) ==
  /\ pc[Main] = "join" /\ pc[t] = "done" /\ t \in ToSet(tbl) \ joined
  /\ setup.start = "pthread" => t = tbl[Cardinality(joined) + 1]
  /\ joined' = joined \cup {t}
  /\ UNCHANGED <<globals, alive, pc, id, ret, setup, tbl>>

Joined ==
  /\ joined = ToSet(tbl)
  /\ Goto(Main, "join", "end")
  /\ UNCHANGED <<globals, alive, id, ret, setup, helper>>

(* odp_term_local: the scheduler first, whose failure is remembered...     *)
TermSchedule(t) ==
  /\ Goto(t, IF t = Main /\ setup.start # "free" THEN "end" ELSE "run", "free")
  /\ ret' \in {[ret EXCEPT ![t] = r] : r \in {None} \cup (IF Fails THEN {-1} ELSE {})}
  /\ UNCHANGED <<globals, alive, id, setup, helper>>

(* ... then free_id under the lock, by the type stored with the id.        *)
free_id(i) ==
  /\ all' = all \ {i}
  /\ worker' = IF thr[i] = "WORKER" THEN worker \ {i} ELSE worker
  /\ control' = IF thr[i] = "CONTROL" THEN control \ {i} ELSE control
  /\ num_worker' = num_worker - (IF thr[i] = "WORKER" THEN 1 ELSE 0)
  /\ num_control' = num_control - (IF thr[i] = "CONTROL" THEN 1 ELSE 0)
  /\ num' = num - 1
  /\ UNCHANGED thr

(* The start routine of a thread goes by what odp_term_local returns; Main *)
(* ends the instance whatever it returns, a process does not.              *)
TermReturnMutant(t, left) ==
  /\ ret' = [ret EXCEPT ![t] = IF @ = -1 THEN -1 ELSE left]
  /\ pc' = [pc EXCEPT ![t] = IF ret'[t] = 0 THEN "global" ELSE "done"]

TermReturn(t, left) ==
  /\ ret' = [ret EXCEPT ![t] = IF @ = -1 THEN -1 ELSE left]
  /\ pc' = [pc EXCEPT ![t] = IF \/ t = Main /\ setup.start # "free"
                                \/ ret'[t] = 0 /\ setup.start # "process"
                             THEN "global" ELSE "done"]

TermThread(t) ==
  /\ pc[t] = "free"
  /\ free_id(id[t])
  /\ TermReturn(t, num')
  /\ id' = [id EXCEPT ![t] = None]
  /\ UNCHANGED <<alive, setup, helper>>

TermGlobal(t) ==
  /\ Goto(t, "global", "done")
  /\ alive' = FALSE
  /\ UNCHANGED <<globals, id, ret, setup, helper>>

Step(t) ==
  \/ alloc_id(t) \/ TooMany(t) \/ Store(t) \/ NoCpu(t)
  \/ TermSchedule(t) \/ TermThread(t) \/ TermGlobal(t)
  \/ odph_linux_pthread_create(t) \/ Join(t)

(* Every thread has ended, or was never started.                           *)
Ended ==
  /\ \A t \in Threads : pc[t] \in {"none", "done"}
  /\ pc[Main] = "done"
  /\ UNCHANGED vars

Next == (\E t \in Threads : Step(t)) \/ CreateFails \/ AllCreated \/ Joined \/ Ended

(* Threads run, and the work of each one ends.                             *)
Fairness == (\A t \in Threads : WF_vars(Step(t))) /\ WF_vars(AllCreated \/ Joined)

Spec == Init /\ [][Next]_vars /\ Fairness

-----------------------------------------------------------------------------
(* Threads that have an id, those that kept it when they failed included.  *)
Registered == {t \in Threads : id[t] # None}
OfType(k) == {id[t] : t \in {u \in Registered : type(u) = k}}

TypeOK ==
  /\ all \subseteq Ids /\ worker \subseteq Ids /\ control \subseteq Ids
  /\ {num, num_worker, num_control} \subseteq 0 .. MAX_THREADS
  /\ thr \in [Ids -> {"WORKER", "CONTROL"}] /\ alive \in BOOLEAN
  /\ id \in [Threads -> Ids \cup {None}]
  /\ \A t \in Threads : ret[t] = None \/ ret[t] \in -1 .. MAX_THREADS

(* Thread ids are unique: no two registered threads have the same one, so  *)
(* that what the library keeps by thread id is private to a thread.        *)
IdsAreUnique == \A t, u \in Registered : id[t] = id[u] => t = u

(* The masks and the counters say the same as the threads: also while an   *)
(* id is handed from a thread to one of the other type, when the type in   *)
(* its entry is still the old one.                                         *)
MasksAreExact ==
  /\ worker = OfType("WORKER") /\ control = OfType("CONTROL")
  /\ all = worker \cup control
  /\ num_worker = Cardinality(worker) /\ num_control = Cardinality(control)
  /\ num = num_worker + num_control

(* odp_term_global is called under no thread: when the instance is torn    *)
(* down, by the start routine of the last thread or by Main after it has   *)
(* waited, no other thread is between odp_init_local and odp_term_local,   *)
(* also when some could not be started or registered.  Threads that come   *)
(* and go without Main have nobody to wait for them: however many end      *)
(* together, one of them is told by odp_term_local that no other is left   *)
(* and tears the instance down, unless one kept its id or its              *)
(* odp_term_local failed.                                                  *)
LastOneTerminates ==
  /\ ~alive /\ setup.start # "free" => \A t \in Threads : pc[t] \in {"none", "done"}
  /\ /\ setup.start = "free" /\ \A t \in Threads : pc[t] = "done" /\ id[t] = None /\ ret[t] # -1
     /\ \E t \in Threads : ret[t] # None
     => ~alive

(* The instance is torn down in the end, with Main waiting for every       *)
(* worker, in order or as they come, also when a worker failed and left    *)
(* its id taken: unless Main itself could not register or gave up.         *)
EventuallyTerminated ==
  <>(~alive \/ setup.start = "free" \/ (pc[Main] = "done" /\ ret[Main] = None))
=============================================================================
