------------------------------ MODULE Instance ------------------------------
(***************************************************************************)
(* One ODP instance from odp_init_global to odp_term_global (odp_init.c)   *)
(* with the init_global and term_global of the parts.  A part keeps its    *)
(* state in a table in a block of shared memory, and some are built on     *)
(* others: the scheduler on a pool and on queues, an interface on a queue. *)
(* In between an application uses queues, a pool and a crypto session.     *)
(***************************************************************************)
EXTENDS ProcessParams

odp_init_global == <<"shm", "thread", "pool", "queue", "sched", "pktio", "timer", "crypto", "class">>
TermOrderMutant == <<"class", "crypto", "sched", "queue", "pktio", "pool", "thread", "shm">>
odp_term_global == <<"class", "crypto", "pktio", "sched", "queue", "pool", "thread", "shm">>

Workers == Threads \ {Main}

VARIABLES
  stage,         \* "init", "run", "term", "ended", "failed" or "crashed"
  step,          \* the next step of odp_init_global or odp_term_global
  blocks,        \* the tables and pools whose memory is mapped
  libq,          \* queues the library itself has: "pri" and "outq"
  status,        \* of the application's queues
  full,          \* those that hold an event
  session, pool, \* the application has a crypto session, a pool
  cached,        \* threads with free scheduler commands in their cache
  active,        \* workers that have not ended
  fault,         \* a table was used while it was not mapped
  left,          \* what the application had not destroyed when odp_term_global began
  rc

app == <<status, full, session, pool, cached, active>>
vars == <<stage, step, blocks, libq, app, fault, left, rc>>

Init ==
  /\ stage = "init" /\ step = 1 /\ rc = 0
  /\ blocks = {} /\ libq = {}
  /\ status = [q \in Queues |-> "FREE"] /\ full = {}
  /\ session = FALSE /\ pool = FALSE /\ cached = {} /\ active = Workers
  /\ fault = FALSE /\ left = {}

Uses(tables) == fault' = (fault \/ ~(tables \subseteq blocks))

-----------------------------------------------------------------------------
(* The steps of odp_init_global.  A part reserves memory for its tables,   *)
(* in order; when there is none for one of them the call fails, and all    *)
(* but classification leave the tables before it reserved.                 *)
InitPart(part, uses, tables, queues) ==
  /\ stage = "init" /\ odp_init_global[step] = part
  /\ blocks' = blocks \cup tables
  /\ libq' = libq \cup queues
  /\ step' = IF step = Len(odp_init_global) THEN 1 ELSE step + 1
  /\ stage' = IF step = Len(odp_init_global) THEN "run" ELSE "init"
  /\ Uses(uses)
  /\ UNCHANGED <<app, left, rc>>

InitFails(part, uses, kept, end) ==
  /\ stage = "init" /\ odp_init_global[step] = part
  /\ blocks' \in {blocks \cup k : k \in kept}
  /\ stage' = end
  /\ Uses(uses)
  /\ UNCHANGED <<step, libq, app, left, rc>>

InitShm == InitPart("shm", {}, {"shm"}, {}) \/ InitFails("shm", {}, {{}}, "failed")
InitThread == InitPart("thread", {"shm"}, {"thread"}, {}) \/ InitFails("thread", {"shm"}, {{}}, "failed")
InitPool == InitPart("pool", {"shm"}, {"pool"}, {}) \/ InitFails("pool", {"shm"}, {{}}, "failed")
InitQueue == InitPart("queue", {"shm"}, {"queue"}, {}) \/ InitFails("queue", {"shm"}, {{}}, "failed")

(* A table, a pool for its commands and the priority queues.               *)
InitSchedule ==
  \/ InitPart("sched", {"shm", "pool", "queue"}, {"sched", "sched_pool"}, {"pri"})
  \/ InitFails("sched", {"shm", "pool"}, {{}, {"sched"}}, "failed")

(* A table, and an output queue for each interface there may be.           *)
InitPktio ==
  \/ InitPart("pktio", {"shm", "queue"}, {"pktio"}, {"outq"})
  \/ InitFails("pktio", {"shm"}, {{}}, "failed")

InitTimer == InitPart("timer", {}, {}, {})

(* The table is cleared whether or not there is one: without memory for it *)
(* the memset goes to address NULL.                                        *)
InitCrypto ==
  \/ InitPart("crypto", {"shm"}, {"crypto"}, {})
  \/ InitFails("crypto", {"shm", "crypto"}, {{}}, "crashed")

InitClass ==
  \/ InitPart("class", {"shm"}, {"cos", "pmr", "pmr_set"}, {})
  \/ InitFails("class", {"shm"}, {{}}, "failed")

-----------------------------------------------------------------------------
(* The application: threads that run, with the tables in place.            *)
Runs(t) == stage = "run" /\ t \in active \cup {Main}
Kept == UNCHANGED <<stage, step, blocks, libq, left, rc>>

(* odp_queue_create with schedule_queue_init, which takes a command from   *)
(* the scheduler's pool and keeps others in the thread's cache.            *)
CreateQueue(t, q) ==
  /\ Runs(t) /\ status[q] = "FREE"
  /\ status' = [status EXCEPT ![q] = "NOTSCHED"]
  /\ cached' = cached \cup {t}
  /\ Uses({"queue", "sched", "sched_pool"})
  /\ Kept /\ UNCHANGED <<full, session, pool, active>>

(* odp_queue_enq: the command goes to its priority queue.                  *)
Enqueue(t, q) ==
  /\ Runs(t) /\ status[q] \in {"NOTSCHED", "SCHED"}
  /\ status' = [status EXCEPT ![q] = "SCHED"] /\ full' = full \cup {q}
  /\ Uses({"queue", "sched"})
  /\ Kept /\ UNCHANGED <<session, pool, cached, active>>

(* odp_schedule meets the command: an event, nothing left, or a queue that *)
(* was destroyed.                                                          *)
Schedule(t, q) ==
  /\ Runs(t) /\ status[q] \in {"SCHED", "DESTROYED"}
  /\ full' = full \ {q}
  /\ status' = [status EXCEPT ![q] = IF q \in full THEN "SCHED"
                                     ELSE IF @ = "SCHED" THEN "NOTSCHED" ELSE "FREE"]
  /\ cached' = IF status[q] = "DESTROYED" THEN cached \cup {t} ELSE cached
  /\ Uses({"queue", "sched"})
  /\ Kept /\ UNCHANGED <<session, pool, active>>

DestroyQueue(t, q) ==
  /\ Runs(t) /\ status[q] \in {"NOTSCHED", "SCHED"} /\ q \notin full
  /\ status' = [status EXCEPT ![q] = IF @ = "SCHED" THEN "DESTROYED" ELSE "FREE"]
  /\ cached' = IF status[q] = "NOTSCHED" THEN cached \cup {t} ELSE cached
  /\ Uses({"queue", "sched"})
  /\ Kept /\ UNCHANGED <<full, session, pool, active>>

(* The session and the pool, each created and destroyed.                   *)
OtherResources(t) ==
  /\ Runs(t)
  /\ \/ session' = ~session /\ UNCHANGED pool /\ Uses({"crypto"})
     \/ pool' = ~pool /\ UNCHANGED session /\ Uses({"pool", "shm"})
  /\ Kept /\ UNCHANGED <<status, full, cached, active>>

(* odp_term_local empties the caches of the thread.                        *)
odp_term_local(t) ==
  /\ stage = "run" /\ t \in active
  /\ active' = active \ {t} /\ cached' = cached \ {t}
  /\ Uses({"sched", "pool", "thread"})
  /\ Kept /\ UNCHANGED <<status, full, session, pool>>

(* Named assumption: the instance is ended when the workers have ended, as *)
(* after odph_linux_pthread_join.                                          *)
BeginTerm ==
  /\ stage = "run" /\ active = {}
  /\ stage' = "term" /\ step' = 1 /\ rc' = 0
  /\ cached' = cached \ {Main}
  /\ left' = {q \in Queues : status[q] \in {"NOTSCHED", "SCHED"}}
             \cup (IF session THEN {"session"} ELSE {}) \cup (IF pool THEN {"pool"} ELSE {})
  /\ UNCHANGED <<blocks, libq, status, full, session, pool, active, fault>>

-----------------------------------------------------------------------------
(* The steps of odp_term_global.  Each frees its tables, whatever else it  *)
(* has to report.                                                          *)
TermPart(part, uses, frees, ok) ==
  /\ stage = "term" /\ odp_term_global[step] = part
  /\ blocks' = blocks \ frees
  /\ rc' = IF ok THEN rc ELSE -1
  /\ Uses(uses)
  /\ step' = IF step = Len(odp_term_global) THEN 1 ELSE step + 1
  /\ stage' = IF step = Len(odp_term_global) THEN "ended" ELSE "term"
  /\ UNCHANGED <<session, pool, cached, active, left>>

TermClass ==
  /\ TermPart("class", {"shm"}, {"cos", "pmr", "pmr_set"}, TRUE)
  /\ UNCHANGED <<libq, status, full>>

TermCrypto ==
  /\ TermPart("crypto", {"shm", "crypto"}, {"crypto"}, ~session)
  /\ UNCHANGED <<libq, status, full>>

TermPktio ==
  /\ TermPart("pktio", {"shm", "pktio", "queue"}, {"pktio"}, TRUE)
  /\ libq' = libq \ {"outq"}
  /\ UNCHANGED <<status, full>>

(* The commands in the priority queues are taken out and each queue asked  *)
(* once.  Then the pool: it goes if every command is back.                 *)
TermSchedule ==
  LET free == \A q \in Queues : status'[q] = "FREE" IN
  /\ status' = [q \in Queues |-> CASE status[q] = "DESTROYED" -> "FREE"
                                   [] status[q] = "SCHED" /\ q \notin full -> "NOTSCHED"
                                   [] OTHER -> status[q]]
  /\ full' = full \ {q \in Queues : status[q] = "SCHED"}
  /\ libq' = libq \ {"pri"}
  /\ TermPart("sched", {"shm", "sched", "queue", "pool", "sched_pool"},
              {"sched"} \cup (IF free /\ cached = {} THEN {"sched_pool"} ELSE {}),
              free /\ cached = {})

TermQueue ==
  /\ TermPart("queue", {"shm", "queue"}, {"queue"},
              libq = {} /\ \A q \in Queues : status[q] = "FREE")
  /\ UNCHANGED <<libq, status, full>>

TermPool ==
  /\ TermPart("pool", {"shm", "pool"}, {"pool"}, ~pool /\ "sched_pool" \notin blocks)
  /\ UNCHANGED <<libq, status, full>>

TermThread ==
  /\ TermPart("thread", {"shm", "thread"}, {"thread"}, TRUE)
  /\ UNCHANGED <<libq, status, full>>

TermShm ==
  /\ TermPart("shm", {"shm"}, {"shm"}, TRUE)
  /\ UNCHANGED <<libq, status, full>>

(* The process ends, or starts a new instance.                             *)
Over ==
  \/ stage \in {"failed", "crashed"} /\ UNCHANGED vars
  \/ stage = "ended" /\ rc # 0 /\ UNCHANGED vars
  \/ /\ stage = "ended" /\ rc = 0
     /\ stage' = "init" /\ active' = Workers
     /\ UNCHANGED <<step, blocks, libq, status, full, session, pool, cached, fault, left, rc>>

AppStep ==
  \/ \E t \in Workers \cup {Main} :
       \/ OtherResources(t) \/ odp_term_local(t)
       \/ \E q \in Queues : CreateQueue(t, q) \/ Enqueue(t, q) \/ Schedule(t, q) \/ DestroyQueue(t, q)
  \/ BeginTerm

Next ==
  \/ InitShm \/ InitThread \/ InitPool \/ InitQueue \/ InitSchedule \/ InitPktio
  \/ InitTimer \/ InitCrypto \/ InitClass
  \/ AppStep
  \/ TermClass \/ TermCrypto \/ TermPktio \/ TermSchedule \/ TermQueue \/ TermPool
  \/ TermThread \/ TermShm
  \/ Over

Spec == Init /\ [][Next]_vars

-----------------------------------------------------------------------------
(* No part of the library touches a table before it is reserved or after   *)
(* it is freed, in the order in which odp_init_global and odp_term_global  *)
(* call the parts that use each other.  There is one exception in the      *)
(* code: odp_crypto_init_global, when the reservation of its own table     *)
(* failed, writes through the NULL it got, and the process ends there.     *)
TablesLive == fault => stage = "crashed" /\ odp_init_global[step] = "crypto"

(* odp_term_global reports what the application did not destroy, and only  *)
(* that: a queue it destroyed while its command was out, which only the    *)
(* scheduler's term_global frees, does not count, nor do commands that     *)
(* the ended threads had in their caches.                                  *)
ReportsWhatIsLeft == stage = "ended" => (rc = 0 <=> left = {})

(* When odp_term_global returns 0 all the memory is given back, so that    *)
(* the process can start an instance again.                                *)
NothingRemains == stage = "ended" /\ rc = 0 => blocks = {} /\ libq = {}
=============================================================================
