----------------------------- MODULE Generator -----------------------------
(***************************************************************************)
(* The packet generator example: sender threads that share one sequence    *)
(* counter, receiver threads that share the reply counters, a main thread  *)
(* that watches the mask of worker threads and then joins them, and, as an *)
(* external part, the station at the other end of each interface.          *)
(***************************************************************************)
EXTENDS Integers, Sequences, FiniteSets, SequencesExt

CONSTANTS GenArgs, None

VARIABLES appl,      \* the parsed arguments; timeout counts down
          g_main,    \* where main is
          counters, g_thread, free,
          sent,      \* per interface, every frame put on the wire
          answered,  \* how many of them the station has dealt with
          incoming   \* per interface, frames not yet received

g_vars == <<appl, g_main, counters, g_thread, free, sent, answered, incoming>>

Ifs == 1..appl.if_count
num_workers == IF appl.mode = "ping" /\ appl.workers >= 2 THEN 2 ELSE appl.workers
Threads == 0..(appl.workers - 1)
Unlimited == appl.number = -1
ReachedMutant(n) == ~Unlimited /\ n > appl.number
Reached(n) == ~Unlimited /\ n >= appl.number

GInit ==
  /\ appl \in GenArgs
  /\ g_main = [pc |-> "parse", i |-> 0]
  /\ counters = [seq |-> 0, ip |-> 0, udp |-> 0, icmp |-> 0]
  /\ g_thread = [t \in Threads |-> [pc |-> "none", run |-> None, dev |-> 0, pkt |-> None, failed |-> FALSE]]
  /\ free = appl.pool
  /\ sent = [d \in Ifs |-> <<>>] /\ answered = [d \in Ifs |-> 0]
  /\ incoming = [d \in Ifs |-> <<>>]

-----------------------------------------------------------------------------
(* Main.                                                                   *)
Main(pc) == g_main' = [g_main EXCEPT !.pc = pc, !.i = 0]
(* A malformed option, no interface or no mode ends the program.           *)
gen_parse_args ==
  /\ g_main.pc = "parse"
  /\ Main(IF ~appl.valid \/ appl.if_count = 0 \/ appl.mode = "none" THEN "failed" ELSE "open")
  /\ UNCHANGED <<appl, counters, g_thread, free, sent, answered, incoming>>
(* Ping mode needs two workers.  An interface that cannot be opened aborts *)
(* the program.                                                            *)
TooFew == appl.mode = "ping" /\ appl.workers < 2
gen_create_pktio ==
  /\ g_main.pc = "open"
  /\ LET i == g_main.i + 1
     IN IF TooFew \/ ~appl.opens THEN Main("failed")
        ELSE IF i = appl.if_count THEN Main("create") ELSE g_main' = [g_main EXCEPT !.i = i]
  /\ UNCHANGED <<appl, counters, g_thread, free, sent, answered, incoming>>

(* The threads are created one by one, in ping mode the receiver first.    *)
CreateThread ==
  LET i == g_main.i
      t == IF appl.mode = "ping" THEN 1 - i ELSE i
      run == IF appl.mode = "rcv" \/ (appl.mode = "ping" /\ t = 1) THEN "recv" ELSE "send"
      dev == IF appl.mode = "ping" THEN 1 ELSE (i % appl.if_count) + 1
  IN /\ g_main.pc = "create"
     /\ g_thread' = [g_thread EXCEPT ![t] = [@ EXCEPT !.pc = "created", !.run = run, !.dev = dev]]
     /\ g_main' = IF i + 1 = num_workers THEN [pc |-> "stats", i |-> 0] ELSE [g_main EXCEPT !.i = i + 1]
     /\ UNCHANGED <<appl, counters, free, sent, answered, incoming>>

WorkerMask == {t \in Threads : g_thread[t].pc \notin {"none", "created", "ended"}}
(* First until all workers are up, then until one is gone or all packets   *)
(* are sent.                                                               *)
print_global_stats ==
  /\ \/ g_main.pc = "stats" /\ Cardinality(WorkerMask) >= num_workers /\ Main("watch")
     \/ /\ g_main.pc = "watch" /\ (Cardinality(WorkerMask) # num_workers \/ Reached(counters.seq))
        /\ Main("join")
  /\ UNCHANGED <<appl, counters, g_thread, free, sent, answered, incoming>>
JoinThreads ==
  /\ g_main.pc = "join" /\ \A t \in 0..(num_workers - 1) : g_thread[t].pc = "ended"
  /\ Main("exit")
  /\ UNCHANGED <<appl, counters, g_thread, free, sent, answered, incoming>>

-----------------------------------------------------------------------------
GAt(t, pc) == g_thread[t].pc = pc
Goto(t, pc) == g_thread' = [g_thread EXCEPT ![t].pc = pc]

(* A thread registers as a worker before its routine and leaves the mask   *)
(* after it, whatever main has seen of it.                                 *)
StartThread(t) ==
  /\ GAt(t, "created") /\ Goto(t, IF g_thread[t].run = "send" THEN "pack" ELSE "test")
  /\ UNCHANGED <<appl, g_main, counters, free, sent, answered, incoming>>
EndThread(t) ==
  /\ GAt(t, "leave") /\ Goto(t, "ended")
  /\ UNCHANGED <<appl, g_main, counters, free, sent, answered, incoming>>

(* The sequence number modulo 65535 goes into the IP header; the runs stay *)
(* below that.                                                             *)
SeqNo == counters.seq % 65535
pack_udp_pkt == [proto |-> "udp", type |-> None, id |-> SeqNo, err |-> FALSE]
pack_icmp_pkt == [proto |-> "icmp", type |-> "echo", id |-> SeqNo, err |-> FALSE]
Pack(t) ==
  /\ GAt(t, "pack")
  /\ IF free = 0
     THEN /\ g_thread' = [g_thread EXCEPT ![t] = [@ EXCEPT !.pc = "leave", !.failed = TRUE]]
          /\ UNCHANGED <<counters, free>>
     ELSE /\ g_thread' = [g_thread EXCEPT ![t] = [@ EXCEPT !.pc = "send",
                            !.pkt = IF appl.mode = "udp" THEN pack_udp_pkt ELSE pack_icmp_pkt]]
          /\ counters' = [counters EXCEPT !.seq = @ + 1] /\ free' = free - 1
  /\ UNCHANGED <<appl, g_main, sent, answered, incoming>>

(* The interface copies the frame and frees the packet.  One it refuses    *)
(* the sender frees, and ends.                                             *)
Send(t) ==
  LET th == g_thread[t]
  IN /\ GAt(t, "send") /\ free' = free + 1
     /\ \/ /\ sent' = [sent EXCEPT ![th.dev] = Append(@, th.pkt)]
           /\ g_thread' = [g_thread EXCEPT ![t] = [@ EXCEPT !.pkt = None, !.pc = IF appl.interval # 0 THEN "sleep" ELSE "sent"]]
        \/ /\ appl.refuses
           /\ g_thread' = [g_thread EXCEPT ![t] = [@ EXCEPT !.pkt = None, !.pc = "leave", !.failed = TRUE]]
           /\ UNCHANGED sent
     /\ UNCHANGED <<appl, g_main, counters, answered, incoming>>

(* Sleep on a timer of the thread's own, whose timeout always arrives.     *)
millisleep(t) ==
  /\ \/ GAt(t, "sleep") /\ Goto(t, "sent") /\ UNCHANGED appl
     \/ GAt(t, "awaitsleep") /\ Goto(t, "await") /\ appl' = [appl EXCEPT !.timeout = @ - 1]
  /\ UNCHANGED <<g_main, counters, free, sent, answered, incoming>>

(* Enough sent?  The check follows the send, so every thread sends once.   *)
AllSentMutant == ~Unlimited /\ counters.seq > appl.number
AllSent == Reached(counters.seq)
gen_send_thread(t) ==
  /\ \/ /\ GAt(t, "sent")
        /\ Goto(t, IF ~AllSent THEN "pack"
                   ELSE IF appl.mode = "ping" /\ appl.number > 0 THEN "await" ELSE "leave")
     \/ /\ GAt(t, "await")
        /\ Goto(t, IF appl.timeout < 0 \/ counters.icmp >= appl.number THEN "leave" ELSE "awaitsleep")
  /\ UNCHANGED <<appl, g_main, counters, free, sent, answered, incoming>>

-----------------------------------------------------------------------------
(* The input queues are atomic: a thread holds its queue until it asks the *)
(* scheduler again.                                                        *)
gen_recv_thread(t) ==
  /\ \/ /\ GAt(t, "test") /\ Goto(t, IF Reached(counters.icmp) THEN "leave" ELSE "schedule")
        /\ UNCHANGED <<free, incoming>>
     \/ \E d \in Ifs :
          /\ GAt(t, "schedule") /\ incoming[d] # <<>> /\ free > 0
          /\ \A u \in Threads : ~(GAt(u, "got") /\ g_thread[u].dev = d)
          /\ g_thread' = [g_thread EXCEPT ![t] = [@ EXCEPT !.pc = "got", !.pkt = Head(incoming[d]), !.dev = d]]
          /\ incoming' = [incoming EXCEPT ![d] = Tail(@)] /\ free' = free - 1
  /\ UNCHANGED <<appl, g_main, counters, sent, answered>>

print_pkts(p) ==
  IF p.proto \notin {"udp", "icmp"} THEN counters ELSE
  [counters EXCEPT
    !.ip = @ + 1,
    !.udp = IF p.proto = "udp" THEN @ + 1 ELSE @,
    !.icmp = IF p.proto = "icmp" /\ p.type = "reply" THEN @ + 1 ELSE @]
Handle(t) ==
  /\ GAt(t, "got")
  /\ counters' = IF g_thread[t].pkt.err THEN counters ELSE print_pkts(g_thread[t].pkt)
  /\ g_thread' = [g_thread EXCEPT ![t] = [@ EXCEPT !.pc = "test", !.pkt = None]]
  /\ free' = free + 1
  /\ UNCHANGED <<appl, g_main, sent, answered, incoming>>

-----------------------------------------------------------------------------
(* The station at the other end answers each echo request once, unless the *)
(* request or the reply is lost, and sends frames of its own.              *)
Answer(d) ==
  /\ answered[d] < Len(sent[d])
  /\ LET f == sent[d][answered[d] + 1]
     IN \/ /\ f.proto = "icmp"
           /\ incoming' = [incoming EXCEPT ![d] = Append(@, [f EXCEPT !.type = "reply"])]
        \/ (f.proto # "icmp" \/ appl.loses) /\ UNCHANGED incoming
  /\ answered' = [answered EXCEPT ![d] = @ + 1]
  /\ UNCHANGED <<appl, g_main, counters, g_thread, free, sent>>
Stray(d) ==
  /\ appl.strays # <<>> /\ g_main.pc \notin {"parse", "failed"}
  /\ incoming' = [incoming EXCEPT ![d] = Append(@, Head(appl.strays))]
  /\ appl' = [appl EXCEPT !.strays = Tail(@)]
  /\ UNCHANGED <<g_main, counters, g_thread, free, sent, answered>>

GEnded == g_main.pc \in {"failed", "exit"}
(* Main loops until the workers are up, and a receiver loops in            *)
(* odp_schedule until there is a packet.                                   *)
Spins == g_main.pc = "stats" \/ \E t \in Threads : g_thread[t].pc = "schedule"
(* The two ways in which main waits for ever: for the worker mask to fill  *)
(* up when a thread has left it already, and for a receiver that is short  *)
(* of replies that will not come.                                          *)
NeverAllUp == g_main.pc = "stats" /\ \E t \in Threads : g_thread[t].pc = "ended"
NoMoreReplies ==
  /\ appl.mode = "ping" /\ g_main.pc = "join" /\ appl.strays = <<>>
  /\ g_thread[0].pc = "ended" /\ g_thread[1].pc = "schedule"
  /\ \A d \in Ifs : incoming[d] = <<>> /\ answered[d] = Len(sent[d])
  /\ counters.icmp < appl.number

GThreadStep(t) ==
  \/ StartThread(t) \/ EndThread(t) \/ Pack(t) \/ Send(t) \/ millisleep(t)
  \/ gen_send_thread(t) \/ gen_recv_thread(t) \/ Handle(t)
GMainStep == gen_parse_args \/ gen_create_pktio \/ CreateThread \/ print_global_stats \/ JoinThreads
GNext ==
  \/ \E t \in Threads : GThreadStep(t)
  \/ GMainStep
  \/ \E d \in Ifs : ~GEnded /\ (Answer(d) \/ Stray(d))
  \/ (GEnded \/ Spins) /\ UNCHANGED g_vars

-----------------------------------------------------------------------------
(* The count option and the counters, whatever the threads' interleaving:  *)
(* - every packet of the pool is free or held by one thread;               *)
(* - no two frames carry the same sequence number, although the threads    *)
(*   share the counter;                                                    *)
(* - the threads that send, each of which looks at the counter after its   *)
(*   send, overshoot the count asked for by less than their number, and a  *)
(*   run in which no thread failed has put at least the count on the wire; *)
(* - the reply counter never runs ahead of the station's answers.          *)
CountKept ==
  LET senders == IF appl.mode = "ping" THEN 1 ELSE num_workers
      wire == FlattenSeq([d \in Ifs |-> sent[d]])
      holding == {t \in Threads : g_thread[t].pkt # None}
      replies == SelectSeq(wire, LAMBDA f : f.proto = "icmp")
  IN /\ free + Cardinality(holding) = appl.pool
     /\ \A i, j \in DOMAIN wire : wire[i].id = wire[j].id => i = j
     /\ \A t \in holding, i \in DOMAIN wire :
          g_thread[t].run = "send" => wire[i].id # g_thread[t].pkt.id
     /\ appl.mode # "rcv" /\ ~Unlimited =>
          /\ counters.seq <= (IF appl.number > 0 THEN appl.number ELSE 1) + senders - 1
          /\ (g_main.pc = "exit" /\ \A t \in Threads : ~g_thread[t].failed) => Len(wire) >= appl.number
     /\ counters.icmp <= Len(replies)
=============================================================================
