-------------------------------- MODULE Pool --------------------------------
(***************************************************************************)
(* A buffer pool: platform/linux-generic/odp_pool.c and the inline code of *)
(* odp_pool_internal.h.  Buffer headers move between the pool's free list, *)
(* the threads' caches and the application; the blocks that hold the data  *)
(* move between the pool's block list and the headers.                     *)
(*                                                                         *)
(* Sizes are counted in segments, a block each.  The lists are sets: in    *)
(* which order they hand out buffers and blocks does not matter.  One step *)
(* per locked section and per access to a word that other threads change   *)
(* without the lock.                                                       *)
(***************************************************************************)
EXTENDS Integers, FiniteSets

CONSTANTS
  Threads,
  Bufs,          \* the buffer headers (buf_num of them)
  Blks,          \* the blocks
  MaxSeg,        \* most segments a buffer may need
  W,             \* values of bufcount, a uint32_t
  None

ASSUME PoolAssumption ==
  /\ IsFiniteSet(Bufs) /\ Bufs # {} /\ IsFiniteSet(Threads)
  /\ IsFiniteSet(Blks) /\ MaxSeg \in Nat \ {0}
  /\ W \in Nat /\ W > Cardinality(Bufs) + Cardinality(Threads)
  /\ None \notin Bufs \cup Threads \cup {"idle", "retry", "flush"}

buf_num == Cardinality(Bufs)
high_wm == buf_num \div 2
low_wm == buf_num \div 4

VARIABLES
  users,         \* the threads of the application that use the pool
  exists,        \* pool_shm # ODP_SHM_INVALID
  raw,           \* params.type = ODP_POOL_BUFFER: buffers keep their block
  lock,          \* who holds pool->s.lock
  freelist,      \* buf_freelist
  blk_freelist,
  addr,          \* the blocks of each buffer
  bufcount,      \* the atomic counter of free buffers
  low_wm_assert,
  net,           \* poolstats.bufallocs - poolstats.buffrees
  app,           \* buffers the application has
  cache, lnet,   \* local_cache: its list, bufallocs - buffrees
  pc,
  buf,           \* the buffer the thread works on
  need,          \* segments requested
  then,          \* what follows ret_buf
  flushed        \* flush_count

shared == <<users, exists, raw, lock, freelist, blk_freelist, addr, bufcount, low_wm_assert, net, app>>
vars == <<users, exists, raw, lock, freelist, blk_freelist, addr, bufcount, low_wm_assert, net, app,
          cache, lnet, pc, buf, need, then, flushed>>

segcount(b) == Cardinality(addr[b])

(* bufcount wraps: a buffer may be popped before its push is counted.      *)
Minus1(c) == IF c = 0 THEN W - 1 ELSE c - 1
Plus1(c) == IF c = W - 1 THEN 0 ELSE c + 1

Goto(t, from, to) == pc[t] = from /\ pc' = [pc EXCEPT ![t] = to]

(* The state odp_pool_create leaves.                                       *)
Fresh ==
  /\ freelist' = Bufs /\ blk_freelist' = Blks
  /\ addr' = [b \in Bufs |-> {}]
  /\ bufcount' = buf_num
  /\ low_wm_assert' = FALSE
  /\ net' = 0

Init ==
  /\ users = Threads \/ \E t \in Threads : users = {t}
  /\ exists = FALSE /\ raw = FALSE /\ lock = None
  /\ freelist = {} /\ blk_freelist = {} /\ addr = [b \in Bufs |-> {}]
  /\ bufcount = 0 /\ low_wm_assert = FALSE /\ net = 0 /\ app = {}
  /\ cache = [t \in Threads |-> {}] /\ lnet = [t \in Threads |-> 0]
  /\ pc = [t \in Threads |-> "idle"]
  /\ buf = [t \in Threads |-> None] /\ need = [t \in Threads |-> 0]
  /\ then = [t \in Threads |-> None] /\ flushed = [t \in Threads |-> 0]

Create(t) ==
  /\ pc[t] = "idle" /\ ~exists /\ lock = None
  /\ exists' = TRUE
  /\ raw' \in BOOLEAN
  /\ Fresh
  /\ UNCHANGED <<users, lock, app, cache, lnet, pc, buf, need, then, flushed>>

-----------------------------------------------------------------------------
(* buffer_alloc                                                            *)

(* The call returns the buffer.                                            *)
Deliver(t, b) ==
  /\ app' = app \cup {b}
  /\ pc' = [pc EXCEPT ![t] = "idle"]
  /\ buf' = [buf EXCEPT ![t] = None]
  /\ need' = [need EXCEPT ![t] = 0]

(* A pool in use: no thread is destroying it.                              *)
InUse == exists /\ lock = None

(* get_local_buf finds a cached buffer that is large enough...             *)
AllocCached(t, k) ==
  /\ pc[t] = "idle" /\ InUse
  /\ \E b \in cache[t] :
       /\ segcount(b) >= k
       /\ cache' = [cache EXCEPT ![t] = @ \ {b}]
       /\ Deliver(t, b)
  /\ lnet' = [lnet EXCEPT ![t] = @ + 1]
  /\ UNCHANGED <<users, exists, raw, lock, freelist, blk_freelist, addr, bufcount, low_wm_assert, net,
                 then, flushed>>

(* ... one that needs more blocks, or none.                                *)
AllocStart(t, k) ==
  /\ InUse
  /\ need' = [need EXCEPT ![t] = k]
  /\ \/ \E b \in cache[t] :
          /\ segcount(b) < k
          /\ cache' = [cache EXCEPT ![t] = @ \ {b}]
          /\ buf' = [buf EXCEPT ![t] = b]
          /\ Goto(t, "idle", "lblk")
     \/ /\ cache[t] = {}
        /\ Goto(t, "idle", "get")
        /\ UNCHANGED <<cache, buf>>
  /\ UNCHANGED <<shared, lnet, then, flushed>>

(* get_buf                                                                 *)
GetBuf(t) ==
  /\ \E b \in freelist :
       /\ freelist' = freelist \ {b}
       /\ buf' = [buf EXCEPT ![t] = b]
  /\ Goto(t, "get", "dec")
  /\ UNCHANGED <<users, exists, raw, lock, blk_freelist, addr, bufcount, low_wm_assert, net, app,
                 cache, lnet, need, then, flushed>>

GetBufEmpty(t) ==
  /\ freelist = {}
  /\ Goto(t, "get", "idle")
  /\ need' = [need EXCEPT ![t] = 0]
  /\ UNCHANGED <<shared, cache, lnet, buf, then, flushed>>

(* After get_buf: blocks are needed, or the buffer is complete.            *)
GotBuf(t) ==
  IF segcount(buf[t]) < need[t]
    THEN /\ pc' = [pc EXCEPT ![t] = "blk"]
         /\ UNCHANGED <<app, buf, need>>
    ELSE Deliver(t, buf[t])

Dec(t) ==
  /\ pc[t] = "dec"
  /\ bufcount' = Minus1(bufcount)
  /\ net' = net + 1
  /\ IF Minus1(bufcount) = low_wm
       THEN Goto(t, "dec", "low") /\ UNCHANGED <<app, buf, need>>
       ELSE GotBuf(t)
  /\ UNCHANGED <<users, exists, raw, lock, freelist, blk_freelist, addr, low_wm_assert, cache, lnet,
                 then, flushed>>

LowSeen(t) ==
  /\ pc[t] = "low"
  /\ IF low_wm_assert
       THEN GotBuf(t)
       ELSE Goto(t, "low", "lowset") /\ UNCHANGED <<app, buf, need>>
  /\ UNCHANGED <<users, exists, raw, lock, freelist, blk_freelist, addr, bufcount, low_wm_assert, net,
                 cache, lnet, then, flushed>>

LowSetMutant(t) ==
  /\ pc[t] = "lowset"
  /\ GotBuf(t)
  /\ UNCHANGED <<users, exists, raw, lock, freelist, blk_freelist, addr, bufcount, low_wm_assert, net,
                 cache, lnet, then, flushed>>

LowSet(t) ==
  /\ pc[t] = "lowset"
  /\ low_wm_assert' = TRUE
  /\ GotBuf(t)
  /\ UNCHANGED <<users, exists, raw, lock, freelist, blk_freelist, addr, bufcount, net,
                 cache, lnet, then, flushed>>

(* get_blk, in the loops of buffer_alloc and get_local_buf                 *)
GetBlk(t) ==
  LET b == buf[t]
  IN /\ pc[t] \in {"blk", "lblk"}
     /\ \E k \in blk_freelist :
          /\ blk_freelist' = blk_freelist \ {k}
          /\ addr' = [addr EXCEPT ![b] = @ \cup {k}]
     /\ IF segcount(b) + 1 < need[t]
          THEN UNCHANGED <<app, pc, buf, need, lnet>>
          ELSE /\ Deliver(t, b)
               /\ lnet' = [lnet EXCEPT ![t] = IF pc[t] = "lblk" THEN @ + 1 ELSE @]
     /\ UNCHANGED <<users, exists, raw, lock, freelist, bufcount, low_wm_assert, net, cache, then, flushed>>

(* No block: the buffer goes back to the pool with the blocks it got; the  *)
(* local path then tries the pool.                                         *)
BlkEmptyMutant(t) ==
  /\ pc[t] \in {"blk", "lblk"} /\ blk_freelist = {}
  /\ freelist' = freelist \cup {buf[t]}
  /\ buf' = [buf EXCEPT ![t] = None]
  /\ then' = [then EXCEPT ![t] = IF pc[t] = "blk" THEN "idle" ELSE "retry"]
  /\ pc' = [pc EXCEPT ![t] = "inc"]
  /\ UNCHANGED <<users, exists, raw, lock, blk_freelist, addr, bufcount, low_wm_assert, net, app,
                 cache, lnet, need, flushed>>

BlkEmpty(t) ==
  /\ pc[t] \in {"blk", "lblk"} /\ blk_freelist = {}
  /\ then' = [then EXCEPT ![t] = IF pc[t] = "blk" THEN "idle" ELSE "retry"]
  /\ pc' = [pc EXCEPT ![t] = "ret"]
  /\ UNCHANGED <<shared, cache, lnet, buf, need, flushed>>

-----------------------------------------------------------------------------
(* ret_buf: the blocks of a packet or timeout go back one by one...        *)
RetBlk(t) ==
  /\ pc[t] = "ret" /\ ~raw
  /\ \E k \in addr[buf[t]] :
       /\ addr' = [addr EXCEPT ![buf[t]] = @ \ {k}]
       /\ blk_freelist' = blk_freelist \cup {k}
  /\ UNCHANGED <<users, exists, raw, lock, freelist, bufcount, low_wm_assert, net, app,
                 cache, lnet, pc, buf, need, then, flushed>>

(* ... then the buffer...                                                  *)
RetPush(t) ==
  /\ Goto(t, "ret", "inc")
  /\ raw \/ addr[buf[t]] = {}
  /\ freelist' = freelist \cup {buf[t]}
  /\ buf' = [buf EXCEPT ![t] = None]
  /\ UNCHANGED <<users, exists, raw, lock, blk_freelist, addr, bufcount, low_wm_assert, net, app,
                 cache, lnet, need, then, flushed>>

(* ... and the caller goes on: a failed local allocation takes back the    *)
(* count of the free and tries get_buf.                                    *)
Resume(t) ==
  /\ then' = [then EXCEPT ![t] = None]
  /\ \/ /\ then[t] = "retry"
        /\ pc' = [pc EXCEPT ![t] = "get"]
        /\ lnet' = [lnet EXCEPT ![t] = @ + 1]
        /\ UNCHANGED need
     \/ /\ then[t] # "retry"
        /\ pc' = [pc EXCEPT ![t] = then[t]]
        /\ need' = [need EXCEPT ![t] = 0]
        /\ UNCHANGED lnet

Inc(t) ==
  /\ pc[t] = "inc"
  /\ bufcount' = Plus1(bufcount)
  /\ net' = net - 1
  /\ IF Plus1(bufcount) = high_wm
       THEN Goto(t, "inc", "high") /\ UNCHANGED <<then, lnet, need>>
       ELSE Resume(t)
  /\ UNCHANGED <<users, exists, raw, lock, freelist, blk_freelist, addr, low_wm_assert, app,
                 cache, buf, flushed>>

HighSeen(t) ==
  /\ pc[t] = "high"
  /\ IF low_wm_assert
       THEN Goto(t, "high", "highset") /\ UNCHANGED <<then, lnet, need>>
       ELSE Resume(t)
  /\ UNCHANGED <<shared, cache, buf, flushed>>

HighSet(t) ==
  /\ pc[t] = "highset"
  /\ low_wm_assert' = FALSE
  /\ Resume(t)
  /\ UNCHANGED <<users, exists, raw, lock, freelist, blk_freelist, addr, bufcount, net, app,
                 cache, buf, flushed>>

(* odp_buffer_free: to the pool while it is low, else to the cache.        *)
Free(t, b) ==
  /\ pc[t] = "idle" /\ b \in app
  /\ app' = app \ {b}
  /\ IF low_wm_assert
       THEN /\ Goto(t, "idle", "ret")
            /\ buf' = [buf EXCEPT ![t] = b]
            /\ then' = [then EXCEPT ![t] = "idle"]
            /\ UNCHANGED <<cache, lnet>>
       ELSE /\ cache' = [cache EXCEPT ![t] = @ \cup {b}]
            /\ lnet' = [lnet EXCEPT ![t] = @ - 1]
            /\ UNCHANGED <<pc, buf, then>>
  /\ UNCHANGED <<users, exists, raw, lock, freelist, blk_freelist, addr, bufcount, low_wm_assert, net,
                 need, flushed>>

-----------------------------------------------------------------------------
(* odp_pool_term_local: flush_cache.                                       *)
TermLocal(t) ==
  /\ Goto(t, "idle", "flush")
  /\ UNCHANGED <<shared, cache, lnet, buf, need, then, flushed>>

FlushOne(t) ==
  /\ \E b \in cache[t] :
       /\ cache' = [cache EXCEPT ![t] = @ \ {b}]
       /\ buf' = [buf EXCEPT ![t] = b]
  /\ Goto(t, "flush", "ret")
  /\ then' = [then EXCEPT ![t] = "flush"]
  /\ flushed' = [flushed EXCEPT ![t] = @ + 1]
  /\ UNCHANGED <<shared, lnet, need>>

FlushEnd(t) ==
  /\ cache[t] = {}
  /\ Goto(t, "flush", IF lock = t THEN "destroy" ELSE "idle")
  /\ net' = net + lnet[t] + flushed[t]
  /\ lnet' = [lnet EXCEPT ![t] = 0]
  /\ flushed' = [flushed EXCEPT ![t] = 0]
  /\ UNCHANGED <<users, exists, raw, lock, freelist, blk_freelist, addr, bufcount, low_wm_assert, app,
                 cache, buf, need, then>>

(* odp_pool_destroy, its lock held: flush the caller's cache, then check.  *)
(* include/odp/api/pool.h: "Results are undefined if an attempt is made to *)
(* destroy a pool that contains allocated or otherwise active buffers."    *)
(* The guard is the caller's part of that contract; the caches of the      *)
(* other threads are not the caller's to see.                              *)
Destroy(t) ==
  /\ exists /\ lock = None
  /\ app = {} /\ \A u \in Threads : pc[u] = "idle"
  /\ lock' = t
  /\ Goto(t, "idle", "flush")
  /\ UNCHANGED <<users, exists, raw, freelist, blk_freelist, addr, bufcount, low_wm_assert, net, app,
                 cache, lnet, buf, need, then, flushed>>

DestroyEnd(t) ==
  /\ Goto(t, "destroy", "idle")
  /\ exists' = (bufcount < buf_num)
  /\ lock' = None
  /\ UNCHANGED <<users, raw, freelist, blk_freelist, addr, bufcount, low_wm_assert, net, app,
                 cache, lnet, buf, need, then, flushed>>

Step(t) ==
  \/ GetBuf(t) \/ GetBufEmpty(t) \/ Dec(t) \/ LowSeen(t) \/ LowSet(t)
  \/ GetBlk(t) \/ BlkEmpty(t)
  \/ RetBlk(t) \/ RetPush(t) \/ Inc(t) \/ HighSeen(t) \/ HighSet(t)
  \/ FlushOne(t) \/ FlushEnd(t) \/ DestroyEnd(t)

Next ==
  \E t \in users :
    \/ Create(t) \/ Destroy(t) \/ TermLocal(t)
    \/ \E k \in 0 .. (IF raw THEN 1 ELSE MaxSeg) : AllocCached(t, k) \/ AllocStart(t, k)
    \/ \E b \in Bufs : Free(t, b)
    \/ Step(t)

Spec == Init /\ [][Next]_vars

-----------------------------------------------------------------------------
TypeOK ==
  /\ users \subseteq Threads /\ exists \in BOOLEAN /\ raw \in BOOLEAN /\ lock \in Threads \cup {None}
  /\ freelist \subseteq Bufs /\ app \subseteq Bufs
  /\ blk_freelist \subseteq Blks /\ addr \in [Bufs -> SUBSET Blks]
  /\ bufcount \in 0 .. W - 1
  /\ low_wm_assert \in BOOLEAN /\ net \in Int
  /\ cache \in [Threads -> SUBSET Bufs] /\ lnet \in [Threads -> Int]
  /\ pc \in [Threads -> {"idle", "get", "dec", "low", "lowset", "blk", "lblk", "ret",
                         "inc", "high", "highset", "flush", "destroy"}]
  /\ buf \in [Threads -> Bufs \cup {None}]
  /\ need \in [Threads -> 0 .. MaxSeg]
  /\ then \in [Threads -> {"idle", "retry", "flush", None}]
  /\ flushed \in [Threads -> Nat]

At(S) == {t \in Threads : pc[t] \in S}

(* Every buffer is in one place: the pool, one thread's cache, one         *)
(* thread's hands, or with the application; in no other list at once.      *)
BufferInOnePlace ==
  exists =>
    \A b \in Bufs :
      Cardinality({p \in {"pool", "app"} : b \in IF p = "pool" THEN freelist ELSE app})
        + Cardinality({t \in Threads : b \in cache[t]})
        + Cardinality({t \in Threads : buf[t] = b}) = 1

(* No block is lost or handed out twice, and a packet in the free list     *)
(* keeps none, also when an allocation got some blocks and then failed.    *)
BlocksConserved ==
  exists =>
    /\ blk_freelist \cup UNION {addr[b] : b \in Bufs} = Blks
    /\ \A b \in Bufs :
         /\ addr[b] \cap blk_freelist = {}
         /\ \A c \in Bufs : c # b => addr[b] \cap addr[c] = {}
    /\ ~raw => \A b \in freelist : addr[b] = {}

(* The counter is the length of the free list, but for the buffers whose   *)
(* pop or push is not counted yet (for a moment it may be below zero).     *)
BufcountExact ==
  LET n == Cardinality(freelist) + Cardinality(At({"dec"})) - Cardinality(At({"inc"}))
  IN exists => bufcount = IF n < 0 THEN n + W ELSE n

(* The statistics are right whenever no call is in progress: those of the *)
(* pool count the buffers that have left it, those of a cache take off the *)
(* ones it holds, and what remains is what the application has.  Caching,  *)
(* flushing and failed allocations cancel out.                             *)
StatsBalance ==
  exists /\ At({"idle"}) = Threads =>
    /\ net = Cardinality(app \cup UNION {cache[t] : t \in Threads})
    /\ \A t \in Threads : lnet[t] = -Cardinality(cache[t])

(* A pool that was destroyed had all its buffers: none is in a cache of    *)
(* another thread or with the application ("Call fails if pool has         *)
(* allocated buffers", odp_pool_destroy).                                  *)
DestroyedWhole ==
  ~exists =>
    /\ app = {}
    /\ \A t \in Threads : cache[t] = {} /\ buf[t] = None

(* With one thread, the low water condition is a hysteresis: it holds from *)
(* the moment the pool is down to low_wm until it is back at high_wm.      *)
Hysteresis ==
  exists /\ Cardinality(users) = 1 /\ At({"idle"}) = Threads =>
    /\ bufcount <= low_wm => low_wm_assert
    /\ low_wm_assert => bufcount < high_wm

(* Nothing of the pool is lost or in two places, while it exists and when  *)
(* it is destroyed, and the counter and the statistics say so too.         *)
Conserved ==
  TypeOK /\ BufferInOnePlace /\ BlocksConserved /\ BufcountExact /\ StatsBalance /\ DestroyedWhole
=============================================================================
