----------------------------- MODULE Reflector -----------------------------
(***************************************************************************)
(* The packet I/O example and the classifier example: worker threads that  *)
(* send each good packet back where it came from, addresses swapped.  The  *)
(* first reads its interfaces from polled queues or through the scheduler, *)
(* or means to read them in bursts; the second lets the classifier spread  *)
(* the packets over queues and counts them per queue.                      *)
(***************************************************************************)
EXTENDS Integers, Sequences, FiniteSets, SequencesExt

CONSTANTS RefArgs, MAX_PMR_COUNT, None

VARIABLES r_args,    \* the command line
          r_main, stats, total_packets,
          started,   \* the interfaces odp_pktio_start was called for
          input,     \* per interface, frames it has not handed out
          queues,    \* per queue, packets the scheduler may hand out
          r_worker, output, freed

r_vars == <<r_args, r_main, stats, total_packets, started, input, queues, r_worker, output, freed>>

Classifies == r_args.app = "classifier"
RIfs == DOMAIN r_args.frames
RWorkers == 0..(r_args.workers - 1)
(* The input queues of the interfaces; with the classifier queue 0 is that *)
(* of its interface, the others are those of the policies.                 *)
Queues == IF Classifies THEN 0..MAX_PMR_COUNT ELSE RIfs
Atomic(q) == r_args.mode = "sched" \/ (Classifies /\ q = 0)

RInit ==
  /\ r_args \in RefArgs
  /\ r_main = [pc |-> "parse", i |-> 0]
  /\ stats = <<>> /\ total_packets = 0 /\ started = {}
  /\ input = r_args.frames
  /\ queues = [q \in Queues |-> <<>>]
  /\ r_worker = [w \in RWorkers |-> [pc |-> "none", dev |-> 0, q |-> None, tbl |-> <<>>]]
  /\ output = [d \in RIfs |-> <<>>] /\ freed = {}

-----------------------------------------------------------------------------
(* Main.  A policy: whether its term is known, and the source addresses    *)
(* whose bits under the mask are those of the value.                       *)
parse_pmr_policy(p) ==
  stats' = IF Len(stats) >= MAX_PMR_COUNT - 1 THEN stats
           ELSE Append(stats, [rule |-> p.rule, queue |-> None, count |-> 0])
pktio_parse_args ==
  /\ ~Classifies /\ r_main.pc = "parse"
  /\ r_main' = [pc |-> IF r_args.frames = <<>> THEN "failed" ELSE "create", i |-> 0]
  /\ UNCHANGED <<stats, total_packets, started, input, queues, r_worker, output, freed>>
cls_parse_args ==
  LET i == r_main.i + 1
  IN /\ Classifies /\ r_main.pc = "parse"
     /\ IF i > Len(r_args.policies)
        THEN r_main' = [pc |-> IF r_args.frames = <<>> \/ stats = <<>> THEN "failed" ELSE "create", i |-> 0] /\ UNCHANGED stats
        ELSE IF r_args.policies[i].known
        THEN parse_pmr_policy(r_args.policies[i]) /\ r_main' = [r_main EXCEPT !.i = i]
        ELSE r_main' = [r_main EXCEPT !.pc = "failed"] /\ UNCHANGED stats
     /\ UNCHANGED <<total_packets, started, input, queues, r_worker, output, freed>>

(* The interfaces are opened, given an input queue and started; one that   *)
(* cannot be opened ends the program.  For bursts create_pktio returns     *)
(* once an interface is open, which leaves it stopped.                     *)
create_pktio ==
  /\ ~Classifies /\ r_main.pc = "create"
  /\ r_main' = [pc |-> IF r_args.opens THEN "threads" ELSE "failed", i |-> 0]
  /\ started' = IF r_args.opens /\ r_args.mode # "burst" THEN RIfs ELSE {}
  /\ UNCHANGED <<stats, total_packets, input, queues, r_worker, output, freed>>
cls_create_pktio == IF r_args.opens THEN "threads" ELSE "failed"
configure_cos_queue(s) == [i \in DOMAIN s |-> [s[i] EXCEPT !.queue = i, !.count = 0]]
configure_default_queue(s) == Append(s, [rule |-> None, queue |-> Len(s) + 1, count |-> 0])
ConfigureClassifier ==
  /\ Classifies /\ r_main.pc = "create" /\ r_main' = [pc |-> cls_create_pktio, i |-> 0]
  /\ stats' = IF r_args.opens THEN configure_default_queue(configure_cos_queue(stats)) ELSE stats
  /\ started' = IF r_args.opens THEN RIfs ELSE {}
  /\ UNCHANGED <<total_packets, input, queues, r_worker, output, freed>>
CreateWorker ==
  LET i == r_main.i
  IN /\ r_main.pc = "threads"
     /\ r_worker' = [r_worker EXCEPT ![i] = [@ EXCEPT !.pc = "receive", !.dev = (i % Len(r_args.frames)) + 1]]
     /\ r_main' = IF i + 1 = r_args.workers THEN [pc |-> "run", i |-> 0] ELSE [r_main EXCEPT !.i = i + 1]
     /\ UNCHANGED <<stats, total_packets, started, input, queues, output, freed>>

-----------------------------------------------------------------------------
(* A started interface is polled by the scheduler, or by the thread that   *)
(* dequeues from its queue.  The classifier gives a frame the queue of the *)
(* first policy that matches it, or the default one; a frame with an error *)
(* stays with the interface's input queue, there being no error class.     *)
Matches(s, f) == s.rule = None \/ (f.ipv4 /\ f.ip[1] \in s.rule)
QueueOf(d, f) ==
  IF ~Classifies THEN d
  ELSE IF f.err THEN 0
  ELSE CHOOSE i \in DOMAIN stats : Matches(stats[i], f) /\ \A j \in 1..(i - 1) : ~Matches(stats[j], f)
PktinPoll(d) ==
  /\ r_main.pc \in {"threads", "run"} /\ d \in started /\ input[d] # <<>>
  /\ LET q == QueueOf(d, Head(input[d]))
     IN queues' = [queues EXCEPT ![q] = Append(@, Head(input[d]))]
  /\ input' = [input EXCEPT ![d] = Tail(@)]
  /\ UNCHANGED <<r_main, stats, total_packets, started, r_worker, output, freed>>

RAt(w, pc) == r_worker[w].pc = pc /\ r_main.pc # "exit"
Keep(w, pc, tbl) == r_worker' = [r_worker EXCEPT ![w] = [@ EXCEPT !.pc = pc, !.tbl = tbl]]

(* odp_pktio_recv from an interface that was not started returns -1, and   *)
(* the loop calls it again.                                                *)
RecvFails(w) ==
  /\ RAt(w, "receive") /\ r_worker[w].dev \notin started
  /\ UNCHANGED <<r_main, stats, total_packets, started, input, queues, r_worker, output, freed>>

(* One packet: from the queue of the thread's interface, or from any queue *)
(* through the scheduler.  A scheduled thread holds an atomic queue until  *)
(* its next call.                                                          *)
FreeMutant(w, q) == r_args.mode = "queue" => q = r_worker[w].dev
Free(w, q) ==
  IF r_args.mode = "queue" THEN q = r_worker[w].dev
  ELSE Atomic(q) => \A v \in RWorkers \ {w} : r_worker[v].q # q
ReceiveOne(w) ==
  /\ RAt(w, "receive")
  /\ \E q \in Queues :
       /\ queues[q] # <<>> /\ Free(w, q)
       /\ r_worker' = [r_worker EXCEPT ![w] = [@ EXCEPT !.pc = "drop", !.tbl = <<Head(queues[q])>>, !.q = q]]
       /\ queues' = [queues EXCEPT ![q] = Tail(@)]
  /\ total_packets' = IF Classifies THEN total_packets + 1 ELSE total_packets
  /\ UNCHANGED <<r_main, stats, started, input, output, freed>>
(* The call that finds nothing gives up the atomic queue.                  *)
ReleaseQueue(w) ==
  /\ RAt(w, "receive") /\ r_worker[w].q # None
  /\ r_worker' = [r_worker EXCEPT ![w].q = None]
  /\ UNCHANGED <<r_main, stats, total_packets, started, input, queues, output, freed>>

(* The threads that do receive hand drop_err_pkts one packet at a time, so *)
(* its loop over the table has one turn.                                   *)
drop_err_pkts(tbl) == SelectSeq(tbl, LAMBDA f : ~f.err)
DropErrors(w) ==
  LET tbl == r_worker[w].tbl
      ok == drop_err_pkts(tbl)
  IN /\ RAt(w, "drop")
     /\ freed' = freed \cup {f.id : f \in {g \in Range(tbl) : g.err}}
     /\ Keep(w, IF ok = <<>> THEN "receive" ELSE "swap", ok)
     /\ UNCHANGED <<r_main, stats, total_packets, started, input, queues, output>>

(* The frames have an Ethernet header, and some an IPv4 header.            *)
swap_pkt_addrs(f) == [f EXCEPT !.mac = <<@[2], @[1]>>, !.ip = IF f.ipv4 THEN <<@[2], @[1]>> ELSE @]
CountQueue(q) == [i \in DOMAIN stats |-> IF stats[i].queue = q THEN [stats[i] EXCEPT !.count = @ + 1] ELSE stats[i]]
SwapAndCount(w) ==
  LET tbl == r_worker[w].tbl
  IN /\ RAt(w, "swap")
     /\ Keep(w, "send", [i \in DOMAIN tbl |-> swap_pkt_addrs(tbl[i])])
     /\ stats' = IF Classifies THEN CountQueue(r_worker[w].q) ELSE stats
     /\ UNCHANGED <<r_main, total_packets, started, input, queues, output, freed>>

(* To the packet's own interface.  What the interface does not take, and   *)
(* all in drop mode, is freed.                                             *)
SendBack(w) ==
  LET tbl == r_worker[w].tbl
      d == tbl[1].from
  IN /\ RAt(w, "send")
     /\ \E n \in 0..Len(tbl) :
          /\ r_args.mode = "drop" => n = 0
          /\ n < Len(tbl) => r_args.refuses \/ r_args.mode = "drop"
          /\ output' = [output EXCEPT ![d] = @ \o SubSeq(tbl, 1, n)]
          /\ freed' = freed \cup {tbl[i].id : i \in (n + 1)..Len(tbl)}
     /\ Keep(w, "receive", <<>>)
     /\ UNCHANGED <<r_main, stats, total_packets, started, input, queues>>

-----------------------------------------------------------------------------
Quiet == /\ \A d \in RIfs : input[d] = <<>>
         /\ \A q \in Queues : queues[q] = <<>>
         /\ \A w \in RWorkers : r_worker[w].pc = "receive" /\ r_worker[w].q = None
(* Main prints the statistics for the time given, for ever without one.    *)
print_cls_statistics == r_args.time > 0
(* The time given to the classifier example is over: main destroys the     *)
(* queues and frees the shared arguments the workers use.  Named           *)
(* assumption: the traffic has ended by then.                              *)
Teardown ==
  /\ Classifies /\ print_cls_statistics /\ r_main.pc = "run" /\ Quiet
  /\ r_main' = [r_main EXCEPT !.pc = "exit"]
  /\ UNCHANGED <<stats, total_packets, started, input, queues, r_worker, output, freed>>

(* The three thread routines.                                              *)
pktio_ifburst_thread(w) ==
  r_args.mode = "burst" /\ RecvFails(w)
pktio_queue_thread(w) ==
  /\ ~Classifies /\ r_args.mode # "burst"
  /\ ReceiveOne(w) \/ ReleaseQueue(w) \/ DropErrors(w) \/ SwapAndCount(w) \/ SendBack(w)
pktio_receive_thread(w) ==
  /\ Classifies
  /\ ReceiveOne(w) \/ ReleaseQueue(w) \/ DropErrors(w) \/ SwapAndCount(w) \/ SendBack(w)
RWorkerStep(w) == pktio_ifburst_thread(w) \/ pktio_queue_thread(w) \/ pktio_receive_thread(w)
RMainStep == pktio_parse_args \/ cls_parse_args \/ create_pktio \/ ConfigureClassifier \/ CreateWorker
REnded == r_main.pc \in {"failed", "exit"} \/ (r_main.pc = "run" /\ Quiet /\ ~(Classifies /\ print_cls_statistics))
(* In burst mode the threads call odp_pktio_recv for ever.                 *)
Deaf == r_args.mode = "burst" /\ r_main.pc = "run"
RNext ==
  /\ \/ \E w \in RWorkers : RWorkerStep(w)
     \/ RMainStep \/ Teardown
     \/ \E d \in RIfs : PktinPoll(d)
     \/ REnded /\ UNCHANGED r_vars
  /\ UNCHANGED r_args

-----------------------------------------------------------------------------
Given == FlattenSeq(r_args.frames)
Original(id) == CHOOSE f \in Range(Given) : f.id = id
Ids(q) == [i \in DOMAIN q |-> q[i].id]
(* Where the frames that are not freed are.                                *)
Kept == Ids(FlattenSeq(input)) \o Ids(FlattenSeq(output))
          \o Ids(FlattenSeq([i \in 1..r_args.workers |-> r_worker[i - 1].tbl]))
          \o Ids(FlattenSeq(IF Classifies THEN [i \in 1..(MAX_PMR_COUNT + 1) |-> queues[i - 1]] ELSE queues))
Handled == freed \cup Range(Ids(FlattenSeq(output)))
             \cup UNION {Range(Ids(r_worker[w].tbl)) : w \in {v \in RWorkers : r_worker[v].pc = "send"}}
(* One thread at a time serves the interface.                              *)
InTurn(d) ==
  \/ r_args.mode = "sched"
  \/ r_args.mode = "queue" /\ \A v, w \in RWorkers : r_worker[v].dev = d /\ r_worker[w].dev = d => v = w

(* The loops of the two examples, for any interleaving of the threads:     *)
(* - a frame is in one place, and freed only when it has an error, when    *)
(*   the interface refused it or in drop mode;                             *)
(* - what goes out came in without error on the same interface, and has    *)
(*   its Ethernet and, where it is IPv4, its IP addresses swapped once;    *)
(* - through an atomic queue, or with one thread per interface, frames     *)
(*   leave in the order they came, and none leave an interface that was    *)
(*   not started;                                                          *)
(* - the statistics of the classifier example add up: each queue's count   *)
(*   is that of the handled frames its policy is the first to match, and   *)
(*   the total counts these, the error frames and those in progress.       *)
Reflected ==
  /\ IsInjective(Kept) /\ Range(Kept) \cap freed = {} /\ Range(Kept) \cup freed = Range(Ids(Given))
  /\ \A id \in freed : Original(id).err \/ r_args.refuses \/ r_args.mode = "drop"
  /\ \A d \in RIfs :
       /\ \A i \in DOMAIN output[d] :
            LET f == output[d][i]
                o == Original(f.id)
            IN /\ ~o.err /\ o.from = d /\ f.mac = Reverse(o.mac)
               /\ f.ip = IF o.ipv4 THEN Reverse(o.ip) ELSE o.ip
       /\ output[d] # <<>> => d \in started
       /\ InTurn(d) => \A i, j \in DOMAIN output[d] : i < j => output[d][i].id < output[d][j].id
  /\ (Classifies /\ r_main.pc \in {"threads", "run", "exit"}) =>
       /\ Len(stats) <= MAX_PMR_COUNT
       /\ \A i \in DOMAIN stats :
            stats[i].count = Cardinality({id \in Handled : QueueOf(1, Original(id)) = stats[i].queue})
       /\ total_packets = Cardinality(Handled) + Cardinality({w \in RWorkers : r_worker[w].pc \in {"drop", "swap"}})
=============================================================================
