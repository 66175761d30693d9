----------------------------- MODULE MCExamples -----------------------------
(***************************************************************************)
(* The example applications side by side; a behaviour runs one of them,    *)
(* chosen at the start with its command line.                              *)
(***************************************************************************)
EXTENDS Generator

CONSTANTS WAIT_NUM, MAX_DEQ, MAX_PMR_COUNT

VARIABLES example,
          t_args, remain, tt, timer_queue, t_worker, aborted,
          r_args, r_main, stats, total_packets, started, input, queues, r_worker, output,
          freed

-----------------------------------------------------------------------------
Own(proto, i, err) == [proto |-> proto, type |-> None, id |-> i, err |-> err]
Gen(mode, workers, ifs, number, timeout, interval, pool, refuses, strays) ==
  [mode |-> mode, workers |-> workers, if_count |-> ifs, number |-> number, timeout |-> timeout,
   interval |-> interval, pool |-> pool, refuses |-> refuses, strays |-> strays,
   valid |-> TRUE, opens |-> TRUE, loses |-> FALSE]
MCGenArgs ==
  {Gen("none", 1, 1, 1, -1, 0, 1, FALSE, <<>>),
   [Gen("udp", 1, 1, 1, -1, 0, 1, FALSE, <<>>) EXCEPT !.valid = FALSE],
   [Gen("udp", 1, 1, 1, -1, 0, 1, FALSE, <<>>) EXCEPT !.opens = FALSE],
   Gen("udp", 2, 2, 3, -1, 0, 2, FALSE, <<>>),
   Gen("udp", 3, 2, 2, -1, 1, 3, FALSE, <<>>),
   Gen("udp", 2, 1, 0, -1, 0, 2, FALSE, <<>>),
   Gen("udp", 2, 1, 2, -1, 0, 1, TRUE, <<>>),
   Gen("ping", 1, 1, 1, -1, 0, 1, FALSE, <<>>),
   Gen("ping", 3, 1, 2, 1, 1, 3, FALSE, <<Own("arp", 0, FALSE)>>),
   Gen("ping", 2, 1, 3, -1, 0, 2, FALSE, <<>>),
   Gen("ping", 2, 1, 2, 1, 0, 1, TRUE, <<>>),
   [Gen("ping", 2, 1, 2, 1, 0, 2, FALSE, <<>>) EXCEPT !.loses = TRUE],
   Gen("ping", 2, 1, 0, 1, 0, 2, FALSE, <<Own("udp", 0, TRUE)>>),
   Gen("rcv", 2, 2, -1, -1, 0, 2, FALSE, <<Own("udp", 0, FALSE), Own("udp", 1, TRUE), Own("icmp", 2, FALSE)>>)}

MCTimerArgs == {[num |-> 2, period |-> 1, count |-> 1], [num |-> 2, period |-> 2, count |-> 2],
                [num |-> 1, period |-> 1, count |-> 3]}

F(id, from, src, err, ipv4) ==
  [id |-> id, from |-> from, mac |-> <<"a", "b">>, ip |-> <<src, 9>>, err |-> err, ipv4 |-> ipv4]
Reflect(mode, workers, frames, refuses) ==
  [app |-> "pktio", mode |-> mode, workers |-> workers, frames |-> frames, refuses |-> refuses,
   policies |-> <<>>, time |-> 0, opens |-> TRUE]
Classify(mode, workers, frames, refuses, policies, time) ==
  [app |-> "classifier", mode |-> mode, workers |-> workers, frames |-> frames, refuses |-> refuses,
   policies |-> policies, time |-> time, opens |-> TRUE]
OneIf == <<<<F(1, 1, 1, FALSE, TRUE), F(2, 1, 2, TRUE, TRUE), F(3, 1, 3, FALSE, FALSE), F(4, 1, 4, FALSE, TRUE)>>>>
TwoIfs == <<<<F(1, 1, 1, FALSE, TRUE), F(2, 1, 2, TRUE, TRUE)>>, <<F(3, 2, 3, FALSE, FALSE), F(4, 2, 4, FALSE, TRUE)>>>>
Policy(known, addrs) == [known |-> known, rule |-> addrs]
MCRefArgs ==
  {Reflect("burst", 2, TwoIfs, FALSE),
   Reflect("queue", 3, TwoIfs, FALSE),
   Reflect("sched", 3, OneIf, TRUE), Reflect("sched", 2, TwoIfs, FALSE), Reflect("sched", 1, <<>>, FALSE),
   [Reflect("burst", 1, OneIf, FALSE) EXCEPT !.opens = FALSE],
   Classify("reply", 2, OneIf, TRUE, <<Policy(TRUE, {1, 4}), Policy(TRUE, {4, 3}), Policy(TRUE, {2})>>, 1),
   Classify("drop", 3, OneIf, FALSE, <<Policy(TRUE, {1})>>, 0),
   [Classify("drop", 1, OneIf, FALSE, <<Policy(TRUE, {1})>>, 1) EXCEPT !.opens = FALSE],
   Classify("drop", 2, OneIf, FALSE, <<Policy(FALSE, {})>>, 0),
   Classify("drop", 2, OneIf, FALSE, <<>>, 0)}

T == INSTANCE TimerTest WITH TimerArgs <- MCTimerArgs
R == INSTANCE Reflector WITH RefArgs <- MCRefArgs

-----------------------------------------------------------------------------
t_vars == <<t_args, remain, tt, timer_queue, t_worker, aborted>>
r_vars == <<r_args, r_main, stats, total_packets, started, input, queues, r_worker, output, freed>>
e_vars == <<example, g_vars, t_vars, r_vars>>

EInit ==
  /\ example \in {"generator", "timer", "reflector"}
  /\ GInit /\ T!TInit /\ R!RInit
  /\ example # "generator" => appl = (CHOOSE a \in GenArgs : TRUE)
  /\ example # "timer" => t_args = (CHOOSE a \in MCTimerArgs : TRUE)
  /\ example # "reflector" => r_args = (CHOOSE a \in MCRefArgs : TRUE)

GeneratorRuns(A) == example = "generator" /\ A /\ UNCHANGED <<example, t_vars, r_vars>>
TimerRuns(A) == example = "timer" /\ A /\ UNCHANGED <<example, t_args, g_vars, r_vars>>
ReflectorRuns(A) == example = "reflector" /\ A /\ UNCHANGED <<example, r_args, g_vars, t_vars>>

ENext == GeneratorRuns(GNext) \/ TimerRuns(T!TNext) \/ ReflectorRuns(R!RNext)

(* Every thread keeps running, time passes, and the other end of a link    *)
(* takes and answers what it is sent.                                      *)
EFairness ==
  /\ WF_e_vars(GeneratorRuns(GMainStep))
  /\ \A t \in 0..2 : WF_e_vars(GeneratorRuns(t \in Threads /\ GThreadStep(t)))
  /\ \A d \in 1..2 : WF_e_vars(GeneratorRuns(d \in Ifs /\ Answer(d)))
  /\ WF_e_vars(TimerRuns(T!Tick))
  /\ \A t \in 1..2 : WF_e_vars(TimerRuns(t \in T!TWorkers /\ T!Expire(t)))
  /\ \A w \in 1..2 : WF_e_vars(TimerRuns(w \in T!TWorkers /\ T!TWorkerStep(w)))
  /\ WF_e_vars(ReflectorRuns(R!RMainStep)) /\ WF_e_vars(ReflectorRuns(R!Teardown))
  /\ \A w \in 0..2 : WF_e_vars(ReflectorRuns(w \in R!RWorkers /\ R!RWorkerStep(w)))
  /\ \A d \in 1..2 : WF_e_vars(ReflectorRuns(d \in R!RIfs /\ R!PktinPoll(d)))
ESpec == EInit /\ [][ENext]_e_vars /\ EFairness

(* The examples get done, or come to a stop the code provides for.  The    *)
(* generator, unless it only receives, sends its count and joins its       *)
(* threads, also when the reply timeout ends the wait, a sender fails or   *)
(* the pool runs dry; only when a thread ends before main has seen all of  *)
(* them up, or ping replies will not come, main waits for ever.  The       *)
(* threads of the timer example all find out that no timeout is left,      *)
(* unless one was too late to set its timer or had to wait too long and    *)
(* the program aborts.  The reflecting examples work off all the frames    *)
(* they are given, but for the burst mode, which receives none.            *)
Finishes ==
  <>(CASE example = "generator" -> GEnded \/ appl.mode = "rcv" \/ NeverAllUp \/ NoMoreReplies
       [] example = "timer" -> T!TEnded \/ aborted # None
       [] example = "reflector" -> R!REnded \/ R!Deaf)

(* See modules TimerTest and Reflector.                                    *)
TimeoutsCounted == T!TimeoutsCounted
Reflected == R!Reflected
=============================================================================
