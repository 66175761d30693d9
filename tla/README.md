# A verification of OpenDataPlane, linux-generic

OpenDataPlane (ODP) is a C library for programs that process packets. This
directory models its Linux implementation (`src/platform/linux-generic`), its helper
library (`src/helper`) and its example programs (`src/example`) in TLA+, checks the
models with TLC on small instances, and proves the central invariants of the scheduler,
the timers, the pools, the ring, the locks and the barrier with TLAPS for every number of
threads, queues, timers, buffers and events.

## 1. The system

An application starts ODP once (`odp_init_global`), registers each of its threads
(`odp_init_local`) and then works with events: buffers, packets, timeouts and crypto
completions. The parts, from the bottom up:

| part | state | what is hard |
|---|---|---|
| locks, barrier | one or two shared words | every access interleaves; words wrap; a barrier is reused while others still leave it |
| CPU and thread masks | sets of numbers | the text form at its limits |
| shared memory | a table of named blocks, files in `/dev/shm` | the file is opened before the table is locked; calls fail half way |
| threads, start and end | id masks, counters, the order of the parts | failures after an id was taken; who is the last; a part that goes while another needs it |
| pools | free lists of buffers and blocks, a cache per thread, counters, water marks | caches and counters lag behind the lists; blocks run out half way |
| queues, scheduler | queue entries, priority queues of commands, masks and counts, a stash and an atomic context per thread | status and command change under different locks; lost wakeups; two threads in one atomic queue; destruction |
| packets | segments, rooms, flags and offsets | arithmetic over segments; a parser that runs at the first look |
| timers | per timer a tick, an event, a queue; a free list; notifier threads | overlapping notifications; expiry races set, cancel and free |
| packet interfaces | table entries, the default input queue, poll commands | unlocked reads by the scheduler's poll |
| classification | classes of service (CoS), matching rules (PMR), a classifier per interface | packets are classified without a lock during reconfiguration |
| cryptography | sessions | completion in another thread |
| ring (helper) | two heads, two tails, an array | claims and publications of several producers and consumers; wrap |
| examples | counters, queues, contexts shared by worker threads | which thread is the last; order; ends |

How they interact: a queue holds events of pools; the scheduler is built from
queues (a priority queue is an ordinary queue whose events are commands); a timer
enqueues its event to a queue; an interface is polled by a command in the scheduler,
classifies what it received and enqueues it; pools and tables live in shared memory;
the examples put all of it to use.

What a user relies on: an event is never lost or in two places; one thread at a time
works on an atomic queue and sees its events in order; whatever is in a queue is
eventually scheduled; destruction completes; a timeout is not early; a packet keeps its
bytes; a class is decided by one configuration; a call returns. Section 4 says which
definition states each of these.

## 2. Modules

One module per part. A step of a model is a section of code under one lock, or a
single access to a word that other threads use without one. Calls that fail without
changing anything are no steps, unless a property is about them.

| module | source | state and actions |
|---|---|---|
| `Ticketlock`, abstract `FifoLock` | `odp_ticketlock.c` | `next_ticket`, `cur_ticket` modulo `W`; each load, store, increment and compare-and-exchange is an action |
| `Spinlock` | `odp_spinlock.c` | the flag; test-and-set, the inner reading loop, clear |
| `Rwlock` | `odp_rwlock.c` | the word `cnt` modulo `CntW`; load and compare-and-exchange apart |
| `Barrier`, abstract `RoundBarrier` | `odp_barrier.c` | the word `bar`; arrive, wrap, spin, return |
| `Ring`, abstract `BoundedFifo` | `helper/ring.c` | heads and tails modulo `W`; the two sides are mirror images in the code and are one parameterised operator here |
| `Scheduler` | `odp_queue.c`, `odp_schedule.c` | queue entries (status, events, priority slot), priority queues, `pri_mask`, `pri_count`, and per thread the stash, the atomic context and its place in a call |
| `Pool` | `odp_pool.c`, `odp_pool_internal.h` | free list, blocks, caches, `bufcount`, water marks and statistics |
| `Packet`, abstract `ByteString` | `odp_packet.c`, `odp_packet_internal.h`, `odp_buffer_inlines.h` | one packet: segments, bytes, the three lengths |
| `Parser` | `odp_packet.c`, `odp_packet_flags.c` | the parser as a function of a frame's headers; the flags, offsets and user pointer, the lazy parse, what copies take over |
| `Timer` | `odp_timer.c` (the variant with a lock per timer) | ticks, events, queue fields, the free list threaded through them, `high_wm`, notifier threads; an allocation is two steps, a free three, and `late` and `fault` record what a free in the middle of an expiry leads to |
| `Pktio` | `odp_packet_io.c`, `pktio/loop.c`, with the poll commands of `odp_schedule.c` and the operations of `odp_queue.c` it uses | interface entries, input queues, poll commands; composes the interface, its queues and the scheduler's side |
| `Classification` | `odp_classification.c` | tables of classes and rules, the classifier of an interface, and the walk of one packet through them step by step |
| `Shm` | `odp_shared_memory.c` | the table, and `/dev/shm` and `mmap`; `rival` records the blocks whose file another call touched |
| `Thread` | `odp_thread.c`, the local half of `odp_init.c`, `helper/linux.c` | masks, counters, ids, the helper's table of workers, and who tears the instance down |
| `Instance` | `odp_init.c` and every `*_init_global`, `*_term_global` | which tables and pools exist, step by step through start and end, with failures |
| `Cpumask` | `odp_cpumask.c`, `odp_cpumask_task.c` | a mask, an iteration over it, its text |
| `Crypto` | `odp_crypto.c` | sessions and operations as functions of a packet's content |
| `Ipsec` | `example/ipsec`, `odp_crypto.c` | options, databases, cache, queues, contexts; one action per handler of `pktio_thread` and per phase of `main` |
| `Generator` | `example/generator/odp_generator.c` | counters, threads, pool, the link |
| `TimerTest` | `example/timer/odp_timer_test.c` | the shared count, timers (by ticks from the current one), the timer queue, each worker's place, waits and stash |
| `Reflector` | `example/packet/odp_pktio.c`, `example/classifier/odp_classifier.c` | interfaces and which of them are started, queues, statistics, each worker's packet |
| `SyncParams`, `ProcessParams` | | constants that several modules share, with their assumptions |
| `SyncProofs` | | theorems about the locks and the barrier, as `MCSync` puts them together |
| `SchedulerProofs`, `SchedulerLife`, `SchedulerCounts` | | the scheduler's inductive invariant with lemmas for its actions; its whole life, up to termination, and its events; its counters; each extends the one before |
| `RingProofs` | | theorems about the ring, for the order of loads of the source |
| `TimerCalls`, `TimerProofs` | | the inductive invariant of a timer pool, lemmas for its actions; then the free list, and the theorems |
| `PoolProofs` | | the inductive invariant of a buffer pool, lemmas for its actions, and the theorems |
| `MC*` | | instances for TLC |

`MCSync`, `MCPacket`, `MCProcess` and `MCExamples` put modules side by side that share no
state; a variable chosen at the start names the one that runs in a behaviour. The others
choose their application (a set of calls, a command line) at the start in the same way.

Definitions carry the names of the C functions where there is one; `PROJECT.json` maps
each to its lines. Definitions whose name ends in `Mutant` are what a plausible mistake
would make of the definition after them; nothing uses them except to test that each
property can fail.

What is abstracted: names, sizes and payloads are model values; a free list is a set
where its order does not matter; a term of a rule is the set of packets it matches;
which of several commands the scheduler meets first is left open in `Pktio` and exact in
`Scheduler`; ciphers and hashes are perfect. A section under a spinlock is one step, as the
lock is one test-and-set. Where an example uses the scheduler, timers or classifier, its
module relies on what the module of that part shows: events of an atomic queue are with one
thread until it schedules again, and a thread may have dequeued more than it was given.

Memory model. Accesses are sequentially consistent, except that the two relaxed loads of
`odp_ticketlock_trylock` happen in either order. The plain loads of a ring's head and tail
happen in the order of the source; `Orders` can add the other one (see section 7).

## 3. How the runs are set up

`tlc -config X.cfg M` for a row of section 4. Bounds are constants named in the `.cfg` files
and in the sets of setups of the `MC` modules, and small: two to four threads, two or three
queues, events, packets. They are chosen so that the cases in question happen:

- words wrap (`W` is 4 or 8 instead of 2^32; `Width` is 5 bits in `Packet`): each
  module asks only that more values exist than threads or entries can be outstanding; while a
  thread of the ring has loaded an index, that index moves on by a whole turn of the array (`MaxLag`);
- tables, pools, rings and command pools run full (one entry or block fewer than the
  threads could use), and entries are freed and reused;
- every call that has several steps meets every other one in the middle, because there are
  at least two threads in it;
- a thread takes two events at a time (`MaxDeq`, `Burst`, `MAX_DEQ`), so that it keeps a stash;
- a packet has up to three segments of two sizes, and each call gets every offset and length
  from 0 to 3, so that data, headroom and tailroom end anywhere in a segment; the run's `VIEW`
  leaves out which call came last, on which no later step depends;
- time stops at `MaxTick` in `Timer`, after each timer could expire, be set again and expire
  again; `TimerTest` counts ticks from the current one, so that time has no bound, and does not
  tell apart ticks that are older than a period; `WAIT_NUM` is 1, so that waits run out;
- `scheduler` has two priorities with one priority queue each, `scheduler_atomic` two priorities
  with two each, so that a thread scans the others' after its own;
- the applications of `MCClassification` make at most `calls` calls each: chains of rules over
  three classes, linked again and in circles; rules destroyed and made anew; priorities and an interface that is
  opened again; two threads that configure; rule sets in entries used before;
- the command lines of the examples (`MCSetups`, `MCGenArgs`, `MCTimerArgs`, `MCRefArgs`) cover
  every mode, one more thread than interfaces, a pool smaller than what the threads could
  use, frames with and without errors, lost replies, and options the program refuses.

Symmetry is used over threads, buffers, producers and consumers in runs without liveness, never over
ids that are compared as numbers.

**Named assumptions.** Some behaviours of an application break what the code promises. They
are excluded where `Named assumption` stands in a module; section 7 says what happens
without them.

| module | assumption |
|---|---|
| `Packet` | no offset plus length wraps |
| `Pktio` | interfaces are opened and closed, and default queues removed, while no other thread is in a call and nothing is in flight; a default queue is set after the scheduler dropped the poll command of the last one |
| `Classification` | a CoS has its queue before it is used; nothing is destroyed while a packet is classified, and no CoS that is a default, an error or a priority class; an entry is not created anew while a rule still refers to it; no term longer than `ODP_PMR_TERM_BYTES_MAX` |
| `Timer` | a timer is not freed while another thread is setting it |
| `Instance` | the workers have ended when `odp_term_global` is called |
| `Ipsec` | `OneStreamPerLoop`, `NoEspTunnel`, `LongPackets`, `NoNesting` (explained in its header) |
| `Reflector` | the traffic is over when the classifier example's time is |

## 4. What the runs show

| run | properties | shows |
|---|---|---|
| `sync` | `Exclusion` | whoever is inside a lock is alone, or among readers, and the word says who is inside, across its wrap |
| | `ServedInOrder`, `RoundsInStep` | the ticket lock implements `FifoLock`; the barrier implements `RoundBarrier`: nobody leaves before all arrived, also when a thread comes back early |
| | `NobodyStuck` | every `odp_ticketlock_lock` returns, a free spinlock or reader-writer lock lets somebody in, everybody leaves the barrier |
| `scheduler` | `OneCommandEach`, `NoLostWakeup` | the command of a queue in scheduling is in one place; a queue with events is in scheduling and the scan does not pass it by |
| | `AtomicOrder` | events of an atomic queue are delivered in the order they were enqueued, whichever threads serve it |
| | `TermFinalizes` | the end of the scheduler finalizes every destroyed queue |
| | `EveryEventDelivered` | every event of a scheduled queue reaches the application, if some thread from a time on keeps scheduling and finds nothing in the places it scans first |
| `scheduler_atomic` | `AtomicExclusion` | one thread at a time works on the events of an atomic queue, with two priorities of two queues each |
| | `DestroyCompletes` | under the same condition the entry of a destroyed queue becomes free |
| `ring` | `IsFifo`, `ClaimsHold` | the ring implements `BoundedFifo` for bulk and burst calls; what a call claimed stays its own until it publishes, so a dequeue copies what it claimed and the wait for earlier calls ends |
| `pool` | `Conserved`, `Hysteresis` | nothing leaks through caches, failures in the middle and flushes, counters and statistics balance, only a whole pool is destroyed; the low water mark is a hysteresis for one thread |
| `timer` | `EventInOnePlace`, `NotEarly`, `MemoryIntact`, `Expires` | expiry against set, cancel, free and overlapping notifications, also at the deletion of the pool: the event is in one place and not early, the free list stays whole, a timeout goes astray only when its timer was freed after it was grabbed, and the program fails only in the two ways `FaultsKnown` names |
| `pktio` | `PacketsConserved`, `InOrder`, `Delivered` | no packet or command is lost, doubled or overtaken between device, scheduler and application |
| `classification` | `OldOrNew`, `DestinationExists`, `Decides` | a packet gets the class of the configuration before the overlapping call, after it, or with one of its stores in effect; what it meets exists; the walk ends unless classes are linked in a circle |
| `packet` | `RoomsFit`, `DataKept` | every call does to the bytes what its documentation says, across segments (implements `ByteString`); a copy leaves the rooms of its buffer only when the buffer is smaller than the source's |
| | `FirstLookTells` | what the first look at a received packet finds stays and is right for complete frames, but for the IPv6 datagrams that `Misjudged` describes; what the application set stays too |
| `process` | `ThreadsKnown`, `EventuallyTerminated` | ids, masks, counters and the teardown by the last thread, also when threads leave together, with threads and processes that fail to start |
| | `SharedWithProcesses` | a name leads to its block, and a shared block to its file, unless the name was reserved again or freed around its `shm_open` |
| | `MasksWalked` | text and iteration of a mask, the choice of worker CPUs |
| | `TornDown` | no part uses a table that is not there, except `odp_crypto_init_global` when its reservation fails; the end reports what was left and gives back the memory |
| `ipsec` | `Conserved`, `InSequence`, `AllReceived` | packets and contexts are in one place whatever the workers and the crypto mode; sequence numbers and order of a stream; every stream is received and verified |
| `examples` | `CountKept` | the generator's count, counters and pool under any interleaving |
| | `TimeoutsCounted` | the shared count of the timer example frees each timer once, no timeout is unexpected, and none is lost, also when a worker says so |
| | `Reflected` | a frame goes back where it came from, swapped once, in order where one thread at a time serves it; nothing leaves an interface that is not started; the statistics add up |
| | `Finishes` | each example gets done, except where it can not: receive mode, a worker that ended before all were up, a reply that never comes, a worker that aborted, interfaces that were never started |

Each property has a mutant, a version of a mapped definition with a plausible mistake, under
which TLC finds it violated.

### Fairness

Invariants need none. For liveness:

- a thread inside a call keeps running (weak fairness of its next step). ODP's threads are
  kernel threads; the spinning calls assume the same of the threads they wait for;
- `scheduler`, `scheduler_atomic`: an initialized thread calls `odp_schedule` again and again
  (strong fairness of `Schedule`, since it may make other calls in between). What a call
  then finds is not assumed: higher priorities, and sub queues that a thread scans first, can
  starve the others, and the properties say so in their condition;
- `pktio`: the same, per command. A priority queue is first in, first out, and this
  module keeps no order between commands, so that strong fairness of taking each of
  them stands for its turn;
- `timer`: POSIX timer threads run once they are started;
- `classification`: the thread that classifies a packet keeps running;
- `process`: threads run, and a thread's work ends;
- `ipsec`, `examples`: main and workers keep running, the clock ticks, and the station at the
  other end of the generator's link answers what it was not said to lose.

Calls that the application makes at its pleasure are never fair. Deadlock is checked except
in the two scheduler runs and `timer`, whose applications may have done all their bounded calls.

## 5. What is proved

`tlapm` checks the proof modules. The theorems hold for all values of the constants
that satisfy the named assumptions, which TLC evaluates in each run.

`SyncProofs` (finitely many threads, fewer than the values of a ticket word, and a
reader/writer word of more than twice their number). Each primitive has an inductive
invariant of its own, and `SyncInv` is their conjunction.

- Ticket lock, `TicketInv` with the types: the tickets out are the distances from
  `cur_ticket` below `next_ticket - cur_ticket` modulo `W`, one per thread that waits or owns.
  Mutual exclusion follows, because an owner's ticket is at distance 0. The invariant is needed
  because after a wrap the words say nothing by themselves; a counting lemma shows that fewer
  than `W` tickets are out, and that trylock's stale pair of loads is caught by its
  compare-and-exchange.
- Reader/writer lock: the word is the number of readers in, or -1 when a writer is in, never
  both. The assumption on the width keeps a count of readers from looking negative.
- Spinlock: the flag is set exactly while somebody is inside.
- Barrier, `BarCounts`: `bar` is the number of arrivals of the cycle, and each waiting
  thread is on the side its `wasless` says. With it each step is a step of `RoundBarrier` or
  stutters.

Theorems: `LocksExclude` (`Exclusion`), `ImplementsRounds` (`RoundsInStep`), and
`TicketlockExcludes` and `RwlockExcludes`, which state it of one lock by itself.

`RingProofs` (any numbers of producers and consumers, any ring size that divides the number of
index values and is at most half of it, any bursts). Its theorems carry the hypothesis
`HeadFirst`: a call loads its own side's head before the other side's tail. In the other order
what they state is false (section 7), so `Orders` may contain it only in behaviours they do
not speak of. `IndInv` joins

- `Order`: consumers' tail, consumers' head, producers' tail and producers' head follow one another
  within less than the ring, as distances modulo `W`;
- `CallInv`: a call that may still move the head sees no more room than there is, as long as it is not
  lapped (`NoHeadLap`, `NoTailLap`, the bounds of the model);
- `Tiling`: the claims of the calls of one side fill the stretch between its tail and its head
  without overlap. It is what makes the wait of a call for the earlier ones end and the moves of the tail
  compose, and it is not visible in the two words;
- `DueInv`: a consumer that copies finds in the entries it claimed what was due to it when it
  moved the head.

The refinement then maps the entries from the consumers' head to the producers' tail to the abstract
queue: `Publish` of a producer appends, `Reserve` of a consumer removes, everything else
stutters. Sequences are functions of distances here, so that no induction over
them is needed. Theorems: `ClaimsAreKept` (`ClaimsHold`), `RingIsFifo` (`IsFifo`).

`TimerCalls`, `TimerProofs` (any pool sizes, events, threads, queues and overlapping
notifications). `IndInv` joins

- `UserInv`, `NotifierInv`: a timer that is being set stays allocated, one that is being freed is
  nobody else's; a notifier that scans owns `itimer_running` and works for a tick that has passed;
- `PlaceInv`: each event is with the application, in a timer, in a notifier's hand or in a
  queue, and in one of them only;
- `QueueInv`: a timer with an event is allocated and its queue field is a queue, and the event
  knows the timer's user pointer; the queue field of a timer whose timeout is in a notifier's
  hand is still that queue, or the event is in `late`;
- `FreeInv`: the queue fields of the free timers form a chain from `first_free` to the end of
  the table that visits each once; above the high water mark it is in order. The chain is
  named by a function from depths to timers, which allocation shortens and `Link` extends;
- `EarlyInv`: what was grabbed was due;
- `FaultsKnown`: what state the program is in when it has failed.

`Link` needs room on the chain: while a timer is being freed it still counts as allocated, so
`num_alloc` is above 0 and the chain has fewer links than there are timers (`LinkCounts`).
The queue field of a timer is also its link in the free list, and `timer_expire` reads it
after it has released the timer's lock. That it is the timer's queue unless the timer was freed in
between needs all of them: the expiry found an event, so the timer was allocated, so it was not
on the chain, and nothing but a free puts it there. Theorems: `EventsAreInOnePlace` (`EventInOnePlace`), `TimeoutsAreNotEarly` (`NotEarly`),
`TimerMemoryIsIntact` (`MemoryIntact`).

`PoolProofs` (finitely many threads, buffers and blocks, fewer buffers and threads together than
values of `bufcount`). `IndInv` joins

- `CallInv`: a thread has a buffer in its hands exactly between getting it and giving it away, and
  knows what follows `ret_buf` exactly while it returns one;
- `Apart`, `Found`: the lists, the caches, the hands of the threads and the application share no buffer,
  and no buffer is missing; `BlocksConserved` says the same of blocks;
- `LocalInv`: the statistics of a cache lag behind its list by the buffers flushed so far and by the local
  allocation that waits for blocks, or that failed and has not taken back its count;
- `BufcountExact`, `CountInv`: the counter is the length of the free list but for pops and pushes not
  counted yet, modulo its width, and the pool's statistics move with it;
- `QuietInv`, `DestroyedWhole`: during a destruction, and after it, threads only flush.

`odp_pool_destroy` decides by the counter alone, while other threads may be flushing their caches
between a push and its count. That the pool it destroys has all its buffers is the argument that
needs everything else: no thread is allocating, so no pop is uncounted (`QuietInv`), and the
counter has not wrapped below 0 (`CountInv`); it is then at most the length of the free list (`BufcountExact`), so a counter of `buf_num` means that the
list has every buffer, and no push is uncounted either; by `Apart` the caches and hands are
empty. Cardinalities stand for counts here, so a step moves one element and adds or takes off one.
With one user of the pool, `WaterInv` adds that between the change of the counter and that of
`low_wm_assert` the counter stays at the mark. Theorems: `PoolIsConserved` (`Conserved`) and, for pools of more than
one buffer, `LowWaterIsHysteresis` (`Hysteresis`).

`SchedulerProofs`, `SchedulerLife`, `SchedulerCounts` (finitely many queues, at least one thread,
any numbers of threads, events and priorities). The inductive invariant `IndInv` joins

- `CoreType` and `CmdInOnePlace`: where the one command of each queue is;
- `CallInv(t)`, what a thread in the middle of a call may rely on: the entry it is creating
  is nobody else's (`CreateInv`), the queue whose command it carries still has the priority
  slot it came from, and is `DESTROYED` when it is about to be finalized, and a
  thread that holds an atomic queue is not in the middle of scheduling it;
- `EntryInv(q)`, how the status of a queue goes with the rest of its entry.

`odp_schedule_term_global` breaks it on purpose: it takes commands out of the priority queues
while their queues stay in scheduling. `LifeInv` says that while the scheduler is up `IndInv` holds, and that
afterwards `DownInv` does: no thread carries a command, and the command of each destroyed queue
is in its priority queue. Together with `OwnedInv` (a command buffer belongs to a queue the
application has, or has destroyed) it yields `TermFinalizes`.

On top of it more invariants are inductive: `EnvInv` (a queue with events is in scheduling),
`KindInv` (poll queues never are), `CountInv` (the count of a priority queue is exact, and so the mask bit
that `pri_clr` clears with the last queue) and, with atomic queues only, `AtomicInv` (a thread's stash
belongs to the queue it holds). None is inductive alone: that a wakeup is not lost when `schedule()` meets an empty queue needs
to know that the command it carries is the only one; that needs to know that nobody reuses
the entry; that needs the status. `AtomicOrder` is an action property: by `OneHolder` at most one thread
has a stash of the queue, and then each step is followed on the sequence that the stash and the queue make up, with
lemmas about `Drop` and concatenation in place of an induction.

`SchedulerProofs` has the lemmas about how a command moves, then one lemma for each action,
and under it a step for each conjunct the action can disturb. Theorems of `SchedulerLife`:
`OneCommand` (`OneCommandEach`), `TerminationFinalizes` (`TermFinalizes`), `AtomicQueuesKeepOrder`
(`AtomicOrder`) and, when all queues are atomic, `AtomicQueuesExclude` (`AtomicExclusion`); of
`SchedulerCounts`: `CountsAreExact`, `NoWakeupIsLost` (`NoLostWakeup`). All are about `LifeSpec`, which includes
the termination.

## 6. What is only model-checked

Liveness (fairness and `ENABLED` are outside the prover); the refinements of `Ticketlock`, whose
abstract queue is sorted by a cardinality, and `Packet`, whose operations are recursive over segments;
and everything in `Parser`, `Pktio`, `Classification`, `Shm`, `Thread`, `Instance`, `Cpumask`, `Crypto`, `Ipsec` and the examples'
modules.

## 7. Where the code and its documents part

What follows was met while modelling. The models do what the code does; the properties state
what holds and name the cases in which it does not, and the named assumptions leave out the rest.

*Queues and scheduler.* Events a thread dequeued ahead outlive `odp_queue_destroy`, and come
out as those of a queue created in the same entry; `AtomicExclusion` therefore speaks of
applications whose queues are all atomic. A queue of a low priority, or of a sub queue that every
thread scans late, waits as long as the places before it have events.

*Ring.* Head and tail are plain loads: in the other order they make room out of nothing, and in
order a stale head can still yield more room than the ring has. The water mark is reported
one object early.

*Pools.* An allocation fails while free buffers sit in other threads' caches. A pool
without a name is refused (`odp_pool.c:291`), which `pool.h:109` allows. Both water marks of a pool of one buffer
are 0: the low water condition is asserted when its buffer is allocated, and never deasserted. With
several users `low_wm_assert` is set and cleared after the counter was read, so that it can stay wrong.

*Timers.* `timer_expire` reads `tim->queue` after the lock is released: when the timer is freed in
between, its timeout goes to the queue the timer was allocated with next, or the program aborts. A timer set again for the tick it
expired for makes the old timeout look fresh. A notifier that has not yet tried `itimer_running`
outlives the pool.

*Interfaces.* Two threads can open one device; a stop in the middle of a poll drops the poll
command for good; each `odp_pktio_inq_setdef` starts a poll command; a user's dequeue from a
scheduled input queue doubles its command; removing a default queue that is not set indexes the
queue table with an invalid handle.

*Classification.* Destroyed classes and rules, and the classifier of a closed interface, keep deciding about packets; a
packet can meet the new rule of a class with the old class behind it, or one layer-3 preference with the other's table; a term that is too long
leaves the old one in its slot; `ODP_COS_INVALID` is refused as the sink the documentation
calls it; classes linked in a circle make the walk endless.

*Packets.* The lengths of a packet's segments do not always add up to its length; copies
keep the source's rooms whatever the buffer, and so can reach beyond a smaller one; `pull_head` beyond the first segment; sums of offset and length wrap at 32 bits.
`odp_packet_copy` makes an "exact copy of the source packet (incl. data and metadata)"
(`packet.h:790`) without the user pointer. The parser leaves the 40 bytes of an IPv6 header out
of `l3_len`, so that UDP over IPv6 gets `udp_err`, and does not reset `l3_len` and `l4_len`;
what a lazy parse finds is the frame as it is at the first look.

*Shared memory, threads, start and end.* `odp_shm_reserve` truncates the file of a name before it
finds that the name is taken (`odp_shared_memory.c:212`); a block that is freed between another call's
`shm_open` and its lock takes the file of the new block with it, whose own free then fails. The count of `odp_thrmask_worker` and the mask are
read without the lock and can disagree. `odp_term_local` returns the number of threads left, where `init.h`
knows 0 and 1. `odp_crypto_init_global` clears its memory before it knows that it has it.

*Cryptography.* A session whose creation ends with `ODP_CRYPTO_SES_CREATE_ERR_INV_CIPHER` or `_INV_AUTH` is not given back.

*IPsec example.* A policy without an association is dereferenced before the warning about it; a
packet the output refuses is freed twice; with polled queues sequence numbers are not
assigned in order; behind a new tunnel header the last 20 bytes are not moved, and an ESP length is in
network byte order; the check of inbound tunnel policies compares different byte orders; in new-buffer mode the IV is read from a
freed packet; streams that share an output loop are all counted for the first.

*Generator example.* `main` waits for ever when a worker ends before it saw all of them running; the count is
overshot by up to the number of workers less one; receive mode counts only ICMP replies;
a lost reply leaves the receiver, and the join, waiting although the sender's time is over;
`tv_sub` borrows wrongly; the check after creating the timeout pool looks at the packet pool; the interval that the
usage text gives as 1000 ms by default is 0.

*Timer example.* `wait` is counted and checked also for calls that got an event, so that a worker that gets
none for long aborts with "At least one TMO was lost" when none is.

*Packet I/O example.* In burst mode `create_pktio` returns before `odp_pktio_start`
(`odp_pktio.c:147`), the drivers open an interface stopped, and `odp_pktio_recv` on it returns
an error: nothing is ever received.

*Classifier example.* `main` destroys the queues and frees the shared arguments while the workers,
which are never joined, still use them.

## 8. What is not modelled

- Socket devices: system calls; `socket_mmap.c` shares a ring of frames with the kernel, whose
  side is not in this repository.
- Accessors of buffers, events and packets that read or write one field; printing.
- System information, time, versions, error numbers: they read files, the clock or a constant.
- Protocol headers and checksums of the helper library: layouts, and a sum over bytes.
- The 16-byte compare-and-exchange variant of the timers, and conversions of time.
- Lookup by name of queues, pools and rings; layout computations of pools; huge pages, alignment.
- Address, MTU and promiscuous mode of interfaces; drop policies and the other settings of a class
  that no code reads.
- The text of the examples' options, the bytes of their frames and what they print.
- Weaker memory models than the case of section 2.

`PROJECT.json` lists the parts with what is left out of each, and the hazards of the code line by
line with the properties that cover them.
