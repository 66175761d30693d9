------------------------------ MODULE MCProcess -----------------------------
(***************************************************************************)
(* The modules about a process that uses ODP, which share no state in the  *)
(* code but what their parameters say, explored one after the other:       *)
(* `part' names the one that runs in a behaviour.                          *)
(***************************************************************************)
EXTENDS ProcessParams

VARIABLES
  part,
  setup, all, worker, control, num, num_worker, num_control, thr, alive, pc, id, ret,
  tbl, joined,                                                  \* Thread
  block, mapped, dir, held, torn, loc, rival,                   \* Shm
  mask, walk,                                                   \* Cpumask
  stage, step, blocks, libq, status, full, session, pool, cached, active, fault, left, rc
                                                                \* Instance

T == INSTANCE Thread
S == INSTANCE Shm
C == INSTANCE Cpumask
I == INSTANCE Instance

tvars == <<setup, all, worker, control, num, num_worker, num_control, thr, alive, pc, id, ret,
           tbl, joined>>
svars == <<block, mapped, dir, held, torn, loc, rival>>
cvars == <<mask, walk>>
ivars == <<stage, step, blocks, libq, status, full, session, pool, cached, active, fault, left, rc>>
vars == <<part, tvars, svars, cvars, ivars>>

Init ==
  /\ part \in {"thread", "shm", "cpumask", "instance"}
  /\ T!Init /\ S!Init /\ C!Init /\ I!Init
  /\ part # "thread" => setup = CHOOSE s \in Setups : TRUE

OnlyT == part = "thread" /\ UNCHANGED <<part, svars, cvars, ivars>>
OnlyS == part = "shm" /\ UNCHANGED <<part, tvars, cvars, ivars>>
OnlyC == part = "cpumask" /\ UNCHANGED <<part, tvars, svars, ivars>>
OnlyI == part = "instance" /\ UNCHANGED <<part, tvars, svars, cvars>>

Next ==
  \/ OnlyT /\ T!Next
  \/ OnlyS /\ S!Next
  \/ OnlyC /\ C!Next
  \/ OnlyI /\ I!Next

(* The fairness of Thread: threads run, and the work of each one ends.     *)
ThreadSteps(t) == OnlyT /\ T!Step(t)
MainSteps == OnlyT /\ (T!AllCreated \/ T!Joined)

Spec ==
  /\ Init /\ [][Next]_vars
  /\ \A t \in Threads : WF_vars(ThreadSteps(t))
  /\ WF_vars(MainSteps)

-----------------------------------------------------------------------------
AllSetups ==
  [start : {"pthread", "process"}, fails : BOOLEAN] \cup {[start |-> "free", fails |-> TRUE]}

SomeTexts == {<<>>, <<1>>, <<8>>, <<15, 3>>, <<9, 0, 5>>, <<Bad, 2>>}

TypeOK == T!TypeOK /\ S!TypeOK

(* The masks and the counters of odp_thread.c say the same as the threads, *)
(* each with an id of its own, also while an id is handed to a thread of   *)
(* the other type; and odp_term_global is called under no thread,          *)
(* whichever of the threads the helper started, could not start or could   *)
(* not register.                                                           *)
ThreadsKnown == TypeOK /\ T!IdsAreUnique /\ T!MasksAreExact /\ T!LastOneTerminates

(* Main waits for every worker it started and then ends the instance, also *)
(* when a worker failed and left its id taken: unless Main itself could    *)
(* not register or gave up.                                                *)
EventuallyTerminated ==
  <>(part = "thread" =>
       ~alive \/ setup.start = "free" \/ (pc[Main] = "done" /\ ret[Main] = None))

(* A block with ODP_SHM_PROC that is held has its file in /dev/shm, whole, *)
(* and odp_shm_lookup returns the one block of a name, with its own handle *)
(* and its memory in place, while threads reserve and free one name at     *)
(* once: unless the name was reserved again while the block was there, or  *)
(* freed between the block's shm_open and the lock.                        *)
SharedWithProcesses == S!SharedWithProcesses /\ S!LookupIsExact

(* The text of a CPU mask, read again, is the mask; a walk by              *)
(* odp_cpumask_first and odp_cpumask_next sees every CPU once; and         *)
(* odp_cpumask_def_worker takes the highest CPUs, as many as asked for.    *)
MasksWalked == C!TextRoundTrip /\ C!WalkSeesAll /\ C!WorkersOnTop

(* No part of the library touches a table before it is reserved or after   *)
(* it is freed, but for odp_crypto_init_global when there is no memory for *)
(* its own; odp_term_global reports what the application did not       *)
(* destroy, and only that; and when it returns 0 all memory is given back. *)
TornDown == I!TablesLive /\ I!ReportsWhatIsLeft /\ I!NothingRemains
=============================================================================
