----------------------------- MODULE TimerTest -----------------------------
(***************************************************************************)
(* The timer example: as many periodic timers as worker threads, all       *)
(* expiring into one scheduled queue.  Whoever is given a timeout sets its *)
(* timer again or, for the last timeouts, frees it; an atomic counter of   *)
(* timeouts still to be received decides which.  Ticks are counted from    *)
(* the current one, which is 0: they go down as time passes.               *)
(***************************************************************************)
EXTENDS Integers, Sequences, FiniteSets, SequencesExt

CONSTANTS TimerArgs,  \* command lines: worker count, period in ticks, timeout count
          WAIT_NUM, MAX_DEQ, None

VARIABLES t_args, remain, tt, timer_queue, t_worker,
          aborted     \* which of the example's checks ended the program

t_vars == <<t_args, remain, tt, timer_queue, t_worker, aborted>>

TWorkers == 1..t_args.num
(* A timeout: its user pointer, that is the helper structure of its timer, *)
(* and its expiration tick.                                                *)
Timeout(t, tick) == [ptr |-> t, tick |-> tick]

TInit ==
  /\ t_args \in TimerArgs
  /\ remain = t_args.count * t_args.num
  /\ timer_queue = <<>> /\ aborted = None
  /\ tt = [t \in TWorkers |-> [alloc |-> FALSE, armed |-> FALSE, exp |-> 0]]
  /\ t_worker = [w \in TWorkers |-> [pc |-> "start", ttp |-> None, tick |-> 0, wait |-> 0,
                                     slept |-> FALSE, ev |-> None, cache |-> <<>>]]

-----------------------------------------------------------------------------
At(w, pc) == t_worker[w].pc = pc /\ aborted = None
Set(w, r) == t_worker' = [t_worker EXCEPT ![w] = r]
Abort(why) == aborted' = why /\ UNCHANGED <<remain, tt, timer_queue, t_worker>>

(* The threads meet at the barrier before the test.                        *)
run_thread(w) ==
  /\ \/ At(w, "start") /\ Set(w, [t_worker[w] EXCEPT !.pc = "barrier"])
     \/ /\ At(w, "barrier") /\ \A v \in TWorkers : t_worker[v].pc # "start"
        /\ Set(w, [t_worker[w] EXCEPT !.pc = "alloc"])
  /\ UNCHANGED <<remain, tt, timer_queue, aborted>>

(* The timer pool has one timer per worker and the timeout pool more than  *)
(* enough timeouts, so neither allocation fails.                           *)
AllocTimer(w) ==
  /\ At(w, "alloc")
  /\ tt' = [tt EXCEPT ![w] = [alloc |-> TRUE, armed |-> FALSE, exp |-> 0]]
  /\ Set(w, [t_worker[w] EXCEPT !.pc = "set", !.ttp = w, !.tick = 0])
  /\ UNCHANGED <<remain, timer_queue, aborted>>

(* odp_timer_set_abs refuses a tick that has passed.  A pass of the loop   *)
(* without a timer (ttp NULL) sets none.                                   *)
SetTimer(w) ==
  LET ttp == t_worker[w].ttp
      tick == t_worker[w].tick + t_args.period
  IN /\ At(w, "set")
     /\ IF ttp # None /\ tick < 0 THEN Abort("set failed")
        ELSE /\ tt' = IF ttp = None THEN tt ELSE [tt EXCEPT ![ttp] = [@ EXCEPT !.armed = TRUE, !.exp = tick]]
             /\ Set(w, [t_worker[w] EXCEPT !.pc = "schedule", !.wait = 0, !.slept = FALSE, !.tick = 0])
             /\ UNCHANGED <<remain, timer_queue, aborted>>

(* odp_schedule hands out what the thread dequeued before, and otherwise   *)
(* dequeues up to MAX_DEQ events at once.  Nothing makes it fair among the *)
(* threads.  The count of calls stops one above WAIT_NUM.                  *)
Waited(w) == IF t_worker[w].wait > WAIT_NUM THEN t_worker[w].wait ELSE t_worker[w].wait + 1
Dequeue(w) ==
  /\ At(w, "schedule")
  /\ LET cache == t_worker[w].cache
         got == IF cache # <<>> THEN cache
                ELSE SubSeq(timer_queue, 1, IF Len(timer_queue) < MAX_DEQ THEN Len(timer_queue) ELSE MAX_DEQ)
     IN /\ got # <<>>
        /\ timer_queue' = IF cache # <<>> THEN timer_queue
                          ELSE SubSeq(timer_queue, Len(got) + 1, Len(timer_queue))
        /\ Set(w, [t_worker[w] EXCEPT !.pc = "check", !.ev = Head(got), !.cache = Tail(got), !.wait = Waited(w)])
  /\ UNCHANGED <<remain, tt, aborted>>
(* The wait of the scheduler call ran out.                                 *)
TimedOut(w) ==
  /\ At(w, "schedule") /\ t_worker[w].slept /\ t_worker[w].cache = <<>> /\ timer_queue = <<>>
  /\ Set(w, [t_worker[w] EXCEPT !.pc = "check", !.ev = None, !.slept = FALSE, !.wait = Waited(w)])
  /\ UNCHANGED <<remain, tt, timer_queue, aborted>>

(* After every scheduler call: was the wait too long, and are there more   *)
(* timeouts to wait for?                                                   *)
CheckWait(w) ==
  /\ At(w, "check")
  /\ IF t_worker[w].wait > WAIT_NUM /\ remain < t_args.num THEN Abort("TMO lost")
     ELSE /\ Set(w, IF t_worker[w].ev # None THEN [t_worker[w] EXCEPT !.pc = "handle", !.wait = 0]
                    ELSE [t_worker[w] EXCEPT !.pc = IF remain > 0 THEN "schedule" ELSE "drain"])
          /\ UNCHANGED <<remain, tt, timer_queue, aborted>>

LastTimeoutMutant(rx_num) == rx_num < t_args.num
LastTimeout(rx_num) == rx_num <= t_args.num
test_abs_timeouts(w) ==
  LET e == t_worker[w].ev
  IN /\ At(w, "handle")
     /\ IF tt[e.ptr].exp # e.tick \/ remain = 0 THEN Abort("unexpected timeout")
        ELSE /\ remain' = remain - 1
             /\ IF LastTimeout(remain)
                THEN /\ tt' = [tt EXCEPT ![e.ptr] = [alloc |-> FALSE, armed |-> FALSE, exp |-> 0]]
                     /\ Set(w, [t_worker[w] EXCEPT !.pc = "set", !.ev = None, !.tick = 0, !.ttp = None])
                ELSE /\ Set(w, [t_worker[w] EXCEPT !.pc = "set", !.ev = None, !.tick = e.tick, !.ttp = e.ptr])
                     /\ UNCHANGED tt
             /\ UNCHANGED <<timer_queue, aborted>>

remove_prescheduled_events(w) ==
  /\ At(w, "drain")
  /\ Set(w, [t_worker[w] EXCEPT !.pc = "done", !.cache = <<>>])
  /\ UNCHANGED <<remain, tt, timer_queue, aborted>>

TEnded == \A w \in TWorkers : t_worker[w].pc = "done"

-----------------------------------------------------------------------------
(* The scan of the timer pool: a timer whose tick is over puts its timeout *)
(* on the queue.  One step, for nobody else sets or frees a timer that is  *)
(* armed (module Timer has the scan in detail).                            *)
Expire(t) ==
  /\ aborted = None /\ tt[t].armed /\ tt[t].exp < 0
  /\ timer_queue' = Append(timer_queue, Timeout(t, tt[t].exp))
  /\ tt' = [tt EXCEPT ![t].armed = FALSE]
  /\ UNCHANGED <<remain, t_worker, aborted>>

(* Time passes, at any moment.  A tick more than a period ago is too late  *)
(* for its timer to be set again, however much more it is.                 *)
Older(tick) == IF tick < -t_args.period THEN tick ELSE tick - 1
OlderTimeout(e) == IF e = None THEN e ELSE Timeout(e.ptr, Older(e.tick))
OlderAll(q) == [i \in DOMAIN q |-> OlderTimeout(q[i])]
Tick ==
  /\ aborted = None /\ ~TEnded
  /\ timer_queue' = OlderAll(timer_queue)
  /\ tt' = [t \in TWorkers |-> IF tt[t].alloc THEN [tt[t] EXCEPT !.exp = Older(@)] ELSE tt[t]]
  /\ t_worker' = [w \in TWorkers |->
       LET r == t_worker[w]
       IN [r EXCEPT !.slept = r.pc = "schedule" /\ r.cache = <<>>, !.ev = OlderTimeout(@), !.cache = OlderAll(@),
                    !.tick = IF r.pc = "set" /\ r.ttp # None THEN Older(@) ELSE @]]
  /\ UNCHANGED <<remain, aborted>>

TWorkerStep(w) ==
  \/ run_thread(w) \/ AllocTimer(w) \/ SetTimer(w) \/ Dequeue(w) \/ TimedOut(w)
  \/ CheckWait(w) \/ test_abs_timeouts(w) \/ remove_prescheduled_events(w)
TNext ==
  /\ \/ \E w \in TWorkers : TWorkerStep(w)
     \/ \E t \in TWorkers : Expire(t)
     \/ Tick
     \/ (TEnded \/ aborted # None) /\ UNCHANGED t_vars
  /\ UNCHANGED t_args

-----------------------------------------------------------------------------
(* How often timer t is set, or its timeout queued, cached by the          *)
(* scheduler for a thread, or in a thread's hands.                         *)
Holds(t) ==
  LET of(e) == e.ptr = t
      in(w) == Len(SelectSeq(t_worker[w].cache, of))
                 + (IF t_worker[w].ev # None /\ of(t_worker[w].ev) THEN 1 ELSE 0)
                 + (IF t_worker[w].pc = "set" /\ t_worker[w].ttp = t THEN 1 ELSE 0)
  IN (IF tt[t].armed THEN 1 ELSE 0) + Len(SelectSeq(timer_queue, of))
       + FoldLeft(LAMBDA n, w : n + in(w), 0, [i \in TWorkers |-> i])

(* The counter of timeouts decides, across the threads, which are the last *)
(* ones, however unfairly the scheduler treats them and however late they  *)
(* are: no timeout is ever unexpected; every allocated timer is set or its *)
(* timeout is in exactly one place; as many timers are left as the counter *)
(* still allows to be freed; and the threads end with none left.  This is  *)
(* so also when the program aborts: "At least one TMO was lost" is only    *)
(* ever said of a thread that waited too long, when none was lost.         *)
TimeoutsCounted ==
  LET begun == {w \in TWorkers : t_worker[w].pc \notin {"start", "barrier", "alloc"}}
      live == {t \in TWorkers : tt[t].alloc}
      gone == IF remain < t_args.num THEN t_args.num - remain ELSE 0
  IN /\ aborted # "unexpected timeout"
     /\ Cardinality(live) = Cardinality(begun) - gone
     /\ \A t \in TWorkers : Holds(t) = IF t \in live THEN 1 ELSE 0
     /\ TEnded => remain = 0
=============================================================================
