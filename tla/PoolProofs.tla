----------------------------- MODULE PoolProofs -----------------------------
(***************************************************************************)
(* A pool conserves its buffers and its blocks, its counter and its        *)
(* statistics are right, and with one thread the low water condition is a  *)
(* hysteresis, for any number of threads, buffers and blocks.              *)
(***************************************************************************)
EXTENDS Pool, FiniteSetTheorems, TLAPS

(* Zenon proves what does not name SMT.                                    *)
USE Zenon

(* What thread t does in a step.                                           *)
Act(t) ==
  \/ Create(t) \/ Destroy(t) \/ TermLocal(t)
  \/ \E k \in 0 .. (IF raw THEN 1 ELSE MaxSeg) : AllocCached(t, k) \/ AllocStart(t, k)
  \/ \E b \in Bufs : Free(t, b)
  \/ Step(t)

Allocating == {"get", "dec", "low", "lowset", "blk", "lblk"}
Holding == {"dec", "low", "lowset", "blk", "lblk", "ret"}
Returning == {"ret", "inc", "high", "highset"}

(* The buffer that get_local_buf took from the cache is in no count until  *)
(* the call knows whether it succeeds.                                     *)
Uncounted(t) == IF pc[t] = "lblk" \/ then[t] = "retry" THEN 1 ELSE 0

(* What a call knows.                                                      *)
CallInv(t) ==
  /\ buf[t] # None <=> pc[t] \in Holding
  /\ then[t] # None <=> pc[t] \in Returning
  /\ flushed[t] # 0 => pc[t] = "flush" \/ then[t] = "flush"
  /\ pc[t] = "destroy" => lock = t

(* The statistics of a cache.                                              *)
LocalInv(t) == lnet[t] = -Cardinality(cache[t]) - flushed[t] - Uncounted(t)

(* While a pool is destroyed, and when it is gone, threads only flush.     *)
QuietInv ==
  /\ lock # None => exists /\ app = {}
  /\ lock # None \/ ~exists =>
       \A t \in Threads : pc[t] \notin Allocating /\ then[t] \in {"flush", None}
  /\ ~exists => \A t \in Threads : pc[t] # "inc"

(* No buffer is in two places.                                             *)
Apart ==
  /\ app \cap freelist = {}
  /\ \A t \in Threads :
       /\ cache[t] \cap freelist = {} /\ cache[t] \cap app = {}
       /\ buf[t] \notin freelist /\ buf[t] \notin app
       /\ \A u \in Threads : buf[t] \notin cache[u]
       /\ \A u \in Threads \ {t} :
            /\ cache[t] \cap cache[u] = {}
            /\ buf[t] # None => buf[t] # buf[u]

(* No buffer is lost.                                                      *)
Found ==
  exists =>
    \A b \in Bufs :
      b \in freelist \/ b \in app \/ \E t \in Threads : b \in cache[t] \/ buf[t] = b

(* Free buffers, but for the pops and pushes that are not counted yet.     *)
Counted == Cardinality(freelist) + Cardinality(At({"dec"})) - Cardinality(At({"inc"}))

CountInv ==
  /\ exists => net = buf_num - Counted
  /\ lock # None => Counted >= 0

IndInv ==
  /\ TypeOK
  /\ \A t \in Threads : CallInv(t) /\ LocalInv(t)
  /\ QuietInv /\ DestroyedWhole
  /\ Apart /\ Found
  /\ BlocksConserved
  /\ BufcountExact /\ CountInv

-----------------------------------------------------------------------------
(* What the steps leave alone.                                             *)

LEMMA NextAct == Next /\ users \subseteq Threads => \E t \in Threads : Act(t)
  BY DEF Next, Act

(* A thread's own variables are its own.                                   *)
Own(u) == <<pc[u], buf[u], need[u], then[u], flushed[u], lnet[u], cache[u]>>

LEMMA OthersStay ==
  ASSUME TypeOK, NEW t \in Threads, Act(t), NEW u \in Threads \ {t}
  PROVE  UNCHANGED Own(u)
<1> USE DEF TypeOK, Own
<1>1. CASE Create(t) \/ Destroy(t) \/ TermLocal(t)
  BY <1>1, SMT DEF Create, Destroy, TermLocal, Goto
<1>2. ASSUME NEW k, AllocCached(t, k) \/ AllocStart(t, k) PROVE UNCHANGED Own(u)
  BY <1>2, SMT DEF AllocCached, AllocStart, Deliver, Goto
<1>3. ASSUME NEW b \in Bufs, Free(t, b) PROVE UNCHANGED Own(u)
  BY <1>3, SMT DEF Free, Goto
<1>4. CASE GetBuf(t) \/ GetBufEmpty(t)
  BY <1>4, SMT DEF GetBuf, GetBufEmpty, Goto
<1>5. CASE Dec(t) \/ LowSeen(t) \/ LowSet(t)
  BY <1>5, SMT DEF Dec, LowSeen, LowSet, GotBuf, Deliver, Goto
<1>6. CASE GetBlk(t) \/ BlkEmpty(t) \/ RetBlk(t) \/ RetPush(t)
  BY <1>6, SMT DEF GetBlk, BlkEmpty, RetBlk, RetPush, Deliver, Goto
<1>7. CASE Inc(t) \/ HighSeen(t) \/ HighSet(t)
  BY <1>7, SMT DEF Inc, HighSeen, HighSet, Resume, Goto
<1>8. CASE FlushOne(t) \/ FlushEnd(t) \/ DestroyEnd(t)
  BY <1>8, SMT DEF FlushOne, FlushEnd, DestroyEnd, Goto
<1> QED
  BY <1>1, <1>2, <1>3, <1>4, <1>5, <1>6, <1>7, <1>8 DEF Act, Step

(* The lock is taken when it is free, and released by its owner.           *)
LEMMA LockMoves ==
  ASSUME IndInv, NEW t \in Threads, Act(t)
  PROVE  lock' = lock \/ lock \in {None, t}
<1>1. CASE Create(t) \/ Destroy(t) \/ TermLocal(t)
  BY <1>1 DEF Create, Destroy, TermLocal, shared
<1>2. ASSUME NEW k, AllocCached(t, k) \/ AllocStart(t, k) PROVE lock' = lock
  BY <1>2 DEF AllocCached, AllocStart, shared
<1>3. ASSUME NEW b \in Bufs, Free(t, b) PROVE lock' = lock
  BY <1>3 DEF Free
<1>4. CASE DestroyEnd(t)
  BY <1>4 DEF IndInv, CallInv, DestroyEnd, Goto
<1>5. CASE Step(t) /\ ~DestroyEnd(t)
  BY <1>5 DEF Step, GetBuf, GetBufEmpty, Dec, LowSeen, LowSet, GetBlk, BlkEmpty, RetBlk, RetPush,
              Inc, HighSeen, HighSet, FlushOne, FlushEnd, shared
<1> QED
  BY <1>1, <1>2, <1>3, <1>4, <1>5 DEF Act

(* What can still happen while a pool is destroyed...                      *)
LEMMA DestroySteps ==
  ASSUME IndInv, NEW t \in Threads, Act(t), lock # None
  PROVE  \/ TermLocal(t) \/ RetBlk(t) \/ RetPush(t) \/ Inc(t) \/ HighSeen(t) \/ HighSet(t)
         \/ FlushOne(t) \/ FlushEnd(t) \/ DestroyEnd(t)
<1>1. pc[t] \notin Allocating /\ app = {}
  BY DEF IndInv, QuietInv
<1>2. ~Create(t) /\ ~Destroy(t)
  BY DEF Create, Destroy
<1>3. ASSUME NEW k PROVE ~AllocCached(t, k) /\ ~AllocStart(t, k)
  BY DEF AllocCached, AllocStart, InUse
<1>4. ASSUME NEW b \in Bufs PROVE ~Free(t, b)
  BY <1>1 DEF Free
<1>5. ~GetBuf(t) /\ ~GetBufEmpty(t) /\ ~Dec(t) /\ ~LowSeen(t) /\ ~LowSet(t) /\ ~GetBlk(t)
      /\ ~BlkEmpty(t)
  BY <1>1 DEF GetBuf, GetBufEmpty, Dec, LowSeen, LowSet, GetBlk, BlkEmpty, Allocating, Goto
<1> QED
  BY <1>2, <1>3, <1>4, <1>5 DEF Act, Step

(* ... and when it is gone.                                                *)
LEMMA GoneSteps ==
  ASSUME IndInv, NEW t \in Threads, Act(t), ~exists
  PROVE  Create(t) \/ TermLocal(t) \/ HighSeen(t) \/ HighSet(t) \/ FlushEnd(t)
<1>1. /\ pc[t] \notin Allocating /\ pc[t] # "inc" /\ pc[t] \notin Holding /\ pc[t] # "destroy"
      /\ app = {} /\ cache[t] = {}
  BY PoolAssumption DEF IndInv, QuietInv, DestroyedWhole, CallInv
<1>2. ~Destroy(t) /\ ~RetBlk(t) /\ ~RetPush(t) /\ ~Inc(t) /\ ~FlushOne(t) /\ ~DestroyEnd(t)
  BY <1>1 DEF Destroy, RetBlk, RetPush, Inc, FlushOne, DestroyEnd, Holding, Goto
<1>3. ASSUME NEW k PROVE ~AllocCached(t, k) /\ ~AllocStart(t, k)
  BY DEF AllocCached, AllocStart, InUse
<1>4. ASSUME NEW b \in Bufs PROVE ~Free(t, b)
  BY <1>1 DEF Free
<1>5. ~GetBuf(t) /\ ~GetBufEmpty(t) /\ ~Dec(t) /\ ~LowSeen(t) /\ ~LowSet(t) /\ ~GetBlk(t)
      /\ ~BlkEmpty(t)
  BY <1>1 DEF GetBuf, GetBufEmpty, Dec, LowSeen, LowSet, GetBlk, BlkEmpty, Allocating, Goto
<1> QED
  BY <1>2, <1>3, <1>4, <1>5 DEF Act, Step

-----------------------------------------------------------------------------
(* Types, and what a call knows.                                           *)

LEMMA TypeStep ==
  ASSUME IndInv, NEW t \in Threads, Act(t)
  PROVE  TypeOK'
<1> USE PoolAssumption DEF TypeOK
<1>1. TypeOK /\ CallInv(t)
  BY DEF IndInv
<1>2. users' = users
  BY DEF Act, Step, Create, Destroy, TermLocal, AllocCached, AllocStart, Free, GetBuf, GetBufEmpty,
         Dec, LowSeen, LowSet, GetBlk, BlkEmpty, RetBlk, RetPush, Inc, HighSeen, HighSet,
         FlushOne, FlushEnd, DestroyEnd, shared
<1>3. buf_num \in Nat /\ buf_num < W
  BY FS_CardinalityType, SMT DEF buf_num
<1>4. CASE Create(t)
  <2>1. bufcount' \in 0 .. W - 1 /\ net' \in Int
    BY <1>3, <1>4, SMT DEF Create, Fresh
  <2>2. addr' \in [Bufs -> SUBSET Blks] /\ freelist' \subseteq Bufs /\ blk_freelist' \subseteq Blks
    BY <1>4 DEF Create, Fresh
  <2> QED
    BY <1>1, <1>4, <2>1, <2>2 DEF Create, Fresh
<1>5. CASE Destroy(t) \/ TermLocal(t)
  BY <1>1, <1>5, SMT DEF Destroy, TermLocal, Goto, shared
<1>6. ASSUME NEW k \in 0 .. (IF raw THEN 1 ELSE MaxSeg), AllocCached(t, k) PROVE TypeOK'
  BY <1>1, <1>6, SMT DEF AllocCached, Deliver
<1>7. ASSUME NEW k \in 0 .. (IF raw THEN 1 ELSE MaxSeg), AllocStart(t, k) PROVE TypeOK'
  <2>1. k \in 0 .. MaxSeg
    BY <1>1, SMT
  <2>2. need' \in [Threads -> 0 .. MaxSeg]
    BY <1>1, <1>7, <2>1, SMT DEF AllocStart
  <2> QED
    BY <1>1, <1>7, <2>2, SMT DEF AllocStart, Goto, shared
<1>8. ASSUME NEW b \in Bufs, Free(t, b) PROVE TypeOK'
  BY <1>1, <1>8, SMT DEF Free, Goto
<1>9. CASE GetBuf(t) \/ GetBufEmpty(t)
  BY <1>1, <1>9, SMT DEF GetBuf, GetBufEmpty, Goto, shared
<1>10. Minus1(bufcount) \in 0 .. W - 1 /\ Plus1(bufcount) \in 0 .. W - 1
  BY <1>1, SMT DEF Minus1, Plus1
<1>11. ASSUME pc[t] \in Holding, GotBuf(t)
       PROVE  /\ app' \subseteq Bufs /\ buf' \in [Threads -> Bufs \cup {None}]
              /\ need' \in [Threads -> 0 .. MaxSeg]
              /\ pc' = [pc EXCEPT ![t] = "blk"] \/ pc' = [pc EXCEPT ![t] = "idle"]
  BY <1>1, <1>11, SMT DEF GotBuf, Deliver, CallInv
<1>12. CASE Dec(t)
  BY <1>1, <1>10, <1>11, <1>12, SMT DEF Dec, Goto, Holding
<1>13. CASE LowSeen(t) \/ LowSet(t)
  <2>1. CASE LowSeen(t)
    BY <1>1, <1>11, <2>1, SMT DEF LowSeen, Goto, Holding
  <2>2. CASE LowSet(t)
    BY <1>1, <1>11, <2>2, SMT DEF LowSet, Holding
  <2> QED
    BY <1>13, <2>1, <2>2
<1>14. CASE GetBlk(t)
  BY <1>1, <1>14, SMT DEF GetBlk, Deliver, CallInv, Holding
<1>15. CASE BlkEmpty(t)
  BY <1>1, <1>15, SMT DEF BlkEmpty, shared
<1>16. CASE RetBlk(t) \/ RetPush(t)
  BY <1>1, <1>16, SMT DEF RetBlk, RetPush, Goto, CallInv, Holding
<1>17. ASSUME pc[t] \in Returning, Resume(t)
       PROVE  /\ then' \in [Threads -> {"idle", "retry", "flush", None}]
              /\ lnet' \in [Threads -> Int] /\ need' \in [Threads -> 0 .. MaxSeg]
              /\ \/ pc' = [pc EXCEPT ![t] = "get"] \/ pc' = [pc EXCEPT ![t] = "idle"]
                 \/ pc' = [pc EXCEPT ![t] = "flush"]
  BY <1>1, <1>17, SMT DEF Resume, CallInv
<1>18. CASE Inc(t)
  BY <1>1, <1>10, <1>17, <1>18, SMT DEF Inc, Goto, Returning
<1>19. CASE HighSeen(t) \/ HighSet(t)
  <2>1. CASE HighSeen(t)
    BY <1>1, <1>17, <2>1, SMT DEF HighSeen, Goto, Returning, shared
  <2>2. CASE HighSet(t)
    <3>1. /\ then' \in [Threads -> {"idle", "retry", "flush", None}]
          /\ lnet' \in [Threads -> Int] /\ need' \in [Threads -> 0 .. MaxSeg]
          /\ \/ pc' = [pc EXCEPT ![t] = "get"] \/ pc' = [pc EXCEPT ![t] = "idle"]
             \/ pc' = [pc EXCEPT ![t] = "flush"]
      BY <1>17, <2>2 DEF HighSet, Returning
    <3>2. pc' \in [Threads -> {"idle", "get", "dec", "low", "lowset", "blk", "lblk", "ret",
                               "inc", "high", "highset", "flush", "destroy"}]
      BY <1>1, <3>1
    <3> QED
      BY <1>1, <2>2, <3>1, <3>2 DEF HighSet
  <2> QED
    BY <1>19, <2>1, <2>2
<1>20. CASE FlushOne(t)
  BY <1>1, <1>20, SMT DEF FlushOne, Goto, shared
<1>21. CASE FlushEnd(t)
  BY <1>1, <1>21, SMT DEF FlushEnd, Goto
<1>22. CASE DestroyEnd(t)
  BY <1>1, <1>22, SMT DEF DestroyEnd, Goto
<1> QED
  BY <1>4, <1>5, <1>6, <1>7, <1>8, <1>9, <1>12, <1>13, <1>14, <1>15, <1>16, <1>18, <1>19,
     <1>20, <1>21, <1>22 DEF Act, Step

LEMMA CallStep ==
  ASSUME IndInv, NEW t \in Threads, Act(t), NEW u \in Threads
  PROVE  CallInv(u)'
<1> USE PoolAssumption
<1>1. TypeOK /\ CallInv(t) /\ CallInv(u)
  BY DEF IndInv
<1>2. CASE u # t
  <2>1. UNCHANGED <<pc[u], buf[u], then[u], flushed[u]>>
    BY <1>1, <1>2, OthersStay DEF Own
  <2>2. pc[u] = "destroy" => lock' = u
    BY <1>1, <1>2, LockMoves DEF CallInv
  <2> QED
    BY <1>1, <2>1, <2>2 DEF CallInv
<1>3. CASE u = t
  <2> SUFFICES CallInv(t)'
    BY <1>3
  <2> USE DEF TypeOK, CallInv, Holding, Returning
  <2>1. CASE Create(t) \/ Destroy(t) \/ TermLocal(t)
    BY <1>1, <2>1, SMT DEF Create, Destroy, TermLocal, Goto, shared
  <2>2. ASSUME NEW k, AllocCached(t, k) \/ AllocStart(t, k) PROVE CallInv(t)'
    BY <1>1, <2>2, SMT DEF AllocCached, AllocStart, Deliver, Goto, shared
  <2>3. ASSUME NEW b \in Bufs, Free(t, b) PROVE CallInv(t)'
    BY <1>1, <2>3, SMT DEF Free, Goto
  <2>4. CASE GetBuf(t) \/ GetBufEmpty(t)
    BY <1>1, <2>4, SMT DEF GetBuf, GetBufEmpty, Goto, shared
  <2>5. CASE Dec(t) \/ LowSeen(t) \/ LowSet(t)
    BY <1>1, <2>5, SMT DEF Dec, LowSeen, LowSet, GotBuf, Deliver, Goto
  <2>6. CASE GetBlk(t)
    BY <1>1, <2>6, SMT DEF GetBlk, Deliver
  <2>7. CASE BlkEmpty(t) \/ RetBlk(t) \/ RetPush(t)
    BY <1>1, <2>7, SMT DEF BlkEmpty, RetBlk, RetPush, Goto, shared
  <2>8. CASE Inc(t)
    BY <1>1, <2>8, SMT DEF Inc, Resume, Goto
  <2>9. CASE HighSeen(t) \/ HighSet(t)
    BY <1>1, <2>9, SMT DEF HighSeen, HighSet, Resume, Goto, shared
  <2>10. CASE FlushOne(t) \/ FlushEnd(t)
    BY <1>1, <2>10, SMT DEF FlushOne, FlushEnd, Goto, shared
  <2>11. CASE DestroyEnd(t)
    BY <1>1, <2>11, SMT DEF DestroyEnd, Goto
  <2> QED
    BY <2>1, <2>2, <2>3, <2>4, <2>5, <2>6, <2>7, <2>8, <2>9, <2>10, <2>11 DEF Act, Step
<1> QED
  BY <1>2, <1>3

-----------------------------------------------------------------------------
(* The statistics of the caches.                                           *)

LEMMA CacheFinite ==
  ASSUME TypeOK, NEW t \in Threads
  PROVE  IsFiniteSet(cache[t]) /\ Cardinality(cache[t]) \in Nat
<1>1. cache[t] \in SUBSET Bufs
  BY DEF TypeOK
<1> QED
  BY <1>1, PoolAssumption, FS_Subset, FS_CardinalityType

(* A buffer taken from the cache, or put there.                            *)
LEMMA CacheTake ==
  ASSUME TypeOK, NEW t \in Threads, NEW b \in cache[t], cache' = [cache EXCEPT ![t] = @ \ {b}]
  PROVE  Cardinality(cache[t])' = Cardinality(cache[t]) - 1
<1>1. cache'[t] = cache[t] \ {b}
  BY DEF TypeOK
<1>2. Cardinality(cache[t] \ {b}) = IF b \in cache[t] THEN Cardinality(cache[t]) - 1
      ELSE Cardinality(cache[t])
  BY CacheFinite, FS_RemoveElement
<1> QED
  BY <1>1, <1>2

LEMMA CachePut ==
  ASSUME TypeOK, NEW t \in Threads, NEW b, b \notin cache[t],
         cache' = [cache EXCEPT ![t] = @ \cup {b}]
  PROVE  Cardinality(cache[t])' = Cardinality(cache[t]) + 1
<1>1. cache'[t] = cache[t] \cup {b}
  BY DEF TypeOK
<1>2. Cardinality(cache[t] \cup {b}) = IF b \in cache[t] THEN Cardinality(cache[t])
      ELSE Cardinality(cache[t]) + 1
  BY CacheFinite, FS_AddElement
<1> QED
  BY <1>1, <1>2

LEMMA LocalStep ==
  ASSUME IndInv, NEW t \in Threads, Act(t), NEW u \in Threads
  PROVE  LocalInv(u)'
<1> USE PoolAssumption
<1>1. TypeOK /\ CallInv(t) /\ LocalInv(t) /\ LocalInv(u)
  BY DEF IndInv
<1>2. CASE u # t
  <2>1. /\ lnet'[u] = lnet[u] /\ cache'[u] = cache[u] /\ flushed'[u] = flushed[u]
        /\ pc'[u] = pc[u] /\ then'[u] = then[u]
    BY <1>1, <1>2, OthersStay DEF Own
  <2> QED
    BY <1>1, <2>1 DEF LocalInv, Uncounted
<1>3. CASE u = t
  <2> SUFFICES LocalInv(t)'
    BY <1>3
  <2>1. Cardinality(cache[t]) \in Nat /\ lnet[t] \in Int /\ flushed[t] \in Nat
    BY <1>1, CacheFinite DEF TypeOK
  <2> USE DEF LocalInv, Uncounted
  <2>2. CASE Create(t) \/ Destroy(t) \/ TermLocal(t)
    BY <1>1, <2>2, SMT DEF Create, Destroy, TermLocal, Goto, TypeOK, shared
  <2>3. ASSUME NEW k, AllocCached(t, k) PROVE LocalInv(t)'
    <3>1. PICK b \in cache[t] : cache' = [cache EXCEPT ![t] = @ \ {b}]
      BY <2>3 DEF AllocCached
    <3>2. Cardinality(cache[t])' = Cardinality(cache[t]) - 1
      BY <1>1, <3>1, CacheTake
    <3>3. /\ lnet'[t] = lnet[t] + 1 /\ flushed' = flushed /\ then' = then
          /\ pc[t] = "idle" /\ pc'[t] = "idle"
      BY <1>1, <2>3, SMT DEF AllocCached, Deliver, TypeOK
    <3> QED
      BY <1>1, <2>1, <3>2, <3>3, SMT
  <2>4. ASSUME NEW k, AllocStart(t, k) PROVE LocalInv(t)'
    <3>1. lnet' = lnet /\ flushed' = flushed /\ then' = then /\ pc[t] = "idle" /\ then[t] = None
      BY <1>1, <2>4 DEF AllocStart, Goto, CallInv, Returning
    <3>2. CASE pc'[t] = "lblk" /\ \E b \in cache[t] : cache' = [cache EXCEPT ![t] = @ \ {b}]
      <4>1. Cardinality(cache[t])' = Cardinality(cache[t]) - 1
        BY <1>1, <3>2, CacheTake
      <4> QED
        BY <1>1, <2>1, <3>1, <3>2, <4>1, SMT
    <3>3. CASE pc'[t] = "get" /\ cache' = cache
      BY <1>1, <3>1, <3>3
    <3> QED
      BY <1>1, <2>4, <3>2, <3>3 DEF AllocStart, Goto, TypeOK
  <2>5. ASSUME NEW b \in Bufs, Free(t, b) PROVE LocalInv(t)'
    <3>1. flushed' = flushed /\ pc[t] = "idle" /\ then[t] = None
      BY <1>1, <2>5 DEF Free, CallInv, Returning
    <3>2. CASE low_wm_assert
      BY <1>1, <2>5, <3>1, <3>2, SMT DEF Free, Goto, TypeOK
    <3>3. CASE ~low_wm_assert
      <4>1. b \notin cache[t]
        BY <2>5 DEF IndInv, Apart, Free
      <4>2. /\ cache' = [cache EXCEPT ![t] = @ \cup {b}] /\ lnet' = [lnet EXCEPT ![t] = @ - 1]
            /\ pc' = pc /\ then' = then
        BY <2>5, <3>3 DEF Free
      <4>3. Cardinality(cache[t])' = Cardinality(cache[t]) + 1
        BY <1>1, <4>1, <4>2, CachePut
      <4> QED
        BY <1>1, <2>1, <3>1, <4>2, <4>3, SMT DEF TypeOK
    <3> QED
      BY <3>2, <3>3
  <2>6. CASE GetBuf(t) \/ GetBufEmpty(t)
    BY <1>1, <2>6, SMT DEF GetBuf, GetBufEmpty, Goto, TypeOK
  <2>7. CASE Dec(t) \/ LowSeen(t) \/ LowSet(t)
    BY <1>1, <2>7, SMT DEF Dec, LowSeen, LowSet, GotBuf, Deliver, Goto, TypeOK
  <2>8. CASE GetBlk(t)
    <3>1. then[t] = None /\ then' = then /\ cache' = cache /\ flushed' = flushed
      BY <1>1, <2>8 DEF GetBlk, CallInv, Returning
    <3>2. \/ pc'[t] = pc[t] /\ lnet' = lnet
          \/ pc'[t] = "idle" /\ pc[t] \in {"blk", "lblk"}
             /\ lnet'[t] = IF pc[t] = "lblk" THEN lnet[t] + 1 ELSE lnet[t]
      BY <1>1, <2>8, SMT DEF GetBlk, Deliver, TypeOK
    <3> QED
      BY <1>1, <2>1, <3>1, <3>2, SMT
  <2>9. CASE BlkEmpty(t) \/ RetBlk(t) \/ RetPush(t)
    BY <1>1, <2>9, SMT DEF BlkEmpty, RetBlk, RetPush, Goto, TypeOK, CallInv, Returning
  <2>10. ASSUME pc[t] \in Returning, Resume(t), cache' = cache, flushed' = flushed
         PROVE LocalInv(t)'
    BY <1>1, <2>1, <2>10, SMT DEF Resume, TypeOK, CallInv, Returning
  <2>11. CASE Inc(t)
    BY <1>1, <2>10, <2>11, SMT DEF Inc, Goto, TypeOK, Returning
  <2>12. CASE HighSeen(t) \/ HighSet(t)
    BY <1>1, <2>10, <2>12, SMT DEF HighSeen, HighSet, Goto, TypeOK, Returning
  <2>13. CASE FlushOne(t)
    <3>1. PICK b \in cache[t] : cache' = [cache EXCEPT ![t] = @ \ {b}]
      BY <2>13 DEF FlushOne
    <3>2. Cardinality(cache[t])' = Cardinality(cache[t]) - 1
      BY <1>1, <3>1, CacheTake
    <3>3. /\ lnet' = lnet /\ flushed'[t] = flushed[t] + 1 /\ then[t] = None /\ then'[t] = "flush"
          /\ pc[t] = "flush" /\ pc'[t] = "ret"
      BY <1>1, <2>13, SMT DEF FlushOne, Goto, TypeOK, CallInv, Returning
    <3> QED
      BY <1>1, <2>1, <3>2, <3>3, SMT
  <2>14. CASE FlushEnd(t)
    <3>1. /\ cache' = cache /\ cache[t] = {} /\ lnet'[t] = 0 /\ flushed'[t] = 0
          /\ then'[t] = None /\ pc'[t] \in {"destroy", "idle"}
      BY <1>1, <2>14, SMT DEF FlushEnd, Goto, TypeOK, CallInv, Returning
    <3>2. Cardinality(cache'[t]) = 0
      BY <3>1, FS_EmptySet
    <3> QED
      BY <3>1, <3>2, SMT
  <2>15. CASE DestroyEnd(t)
    BY <1>1, <2>15, SMT DEF DestroyEnd, Goto, TypeOK
  <2> QED
    BY <2>2, <2>3, <2>4, <2>5, <2>6, <2>7, <2>8, <2>9, <2>11, <2>12, <2>13, <2>14, <2>15
       DEF Act, Step
<1> QED
  BY <1>2, <1>3

-----------------------------------------------------------------------------
(* Where the buffers are.                                                  *)

places == <<freelist, app, cache, buf>>

(* A buffer goes from the thread to the application, at the end of an      *)
(* allocation.                                                             *)
LEMMA DeliverPlace ==
  ASSUME IndInv, NEW t \in Threads, pc[t] \in Holding, Deliver(t, buf[t]),
         UNCHANGED <<exists, freelist, cache>>
  PROVE  Apart' /\ Found'
<1>1. TypeOK /\ buf[t] \in Bufs
  BY DEF IndInv, TypeOK, CallInv
<1>2. app' = app \cup {buf[t]} /\ buf' = [buf EXCEPT ![t] = None]
  BY DEF Deliver
<1>3. Apart'
  BY <1>1, <1>2, PoolAssumption, SMT DEF IndInv, Apart, TypeOK
<1>4. Found'
  BY <1>1, <1>2, SMT DEF IndInv, Found, TypeOK
<1> QED
  BY <1>3, <1>4

LEMMA PlaceStep ==
  ASSUME IndInv, NEW t \in Threads, Act(t)
  PROVE  Apart' /\ Found'
<1> USE PoolAssumption
<1>1. TypeOK /\ CallInv(t) /\ Apart /\ Found
  BY DEF IndInv
<1>2. ASSUME UNCHANGED places, exists' => exists PROVE Apart' /\ Found'
  BY <1>1, <1>2 DEF Apart, Found, places
<1>3. CASE Create(t)
  <2>1. /\ freelist' = Bufs /\ app' = {}
        /\ \A u \in Threads : cache'[u] = {} /\ buf'[u] = None
    BY <1>3 DEF IndInv, DestroyedWhole, Create, Fresh
  <2> QED
    BY <2>1 DEF Apart, Found
<1>4. CASE Destroy(t) \/ TermLocal(t)
  BY <1>2, <1>4 DEF Destroy, TermLocal, places, shared
<1>5. ASSUME NEW k, AllocCached(t, k) PROVE Apart' /\ Found'
  <2>1. PICK b \in cache[t] : /\ cache' = [cache EXCEPT ![t] = @ \ {b}] /\ app' = app \cup {b}
                              /\ buf' = [buf EXCEPT ![t] = None]
    BY <1>5 DEF AllocCached, Deliver
  <2>2. b \in Bufs /\ buf' = buf /\ freelist' = freelist /\ exists' = exists
    BY <1>1, <1>5, <2>1, SMT DEF AllocCached, TypeOK, CallInv, Holding
  <2>3. Apart'
    BY <1>1, <2>1, <2>2, SMT DEF Apart, TypeOK
  <2>4. Found'
    BY <1>1, <2>1, <2>2, SMT DEF Found, TypeOK
  <2> QED
    BY <2>3, <2>4
<1>6. ASSUME NEW b \in cache[t], cache' = [cache EXCEPT ![t] = @ \ {b}],
             buf' = [buf EXCEPT ![t] = b],
             buf[t] = None, UNCHANGED <<exists, freelist, app>>
      PROVE  Apart' /\ Found'
  <2>1. b \in Bufs
    BY <1>1 DEF TypeOK
  <2>2. Apart'
    BY <1>1, <1>6, <2>1, SMT DEF Apart, TypeOK
  <2>3. Found'
    BY <1>1, <1>6, <2>1, SMT DEF Found, TypeOK
  <2> QED
    BY <2>2, <2>3
<1>7. ASSUME NEW k, AllocStart(t, k) PROVE Apart' /\ Found'
  BY <1>1, <1>2, <1>6, <1>7 DEF AllocStart, Goto, CallInv, Holding, places, shared
<1>8. ASSUME NEW b \in Bufs, Free(t, b) PROVE Apart' /\ Found'
  <2>1. /\ b \in app /\ app' = app \ {b} /\ buf[t] = None /\ UNCHANGED <<exists, freelist>>
        /\ \/ cache' = cache /\ buf' = [buf EXCEPT ![t] = b]
           \/ cache' = [cache EXCEPT ![t] = @ \cup {b}] /\ buf' = buf
    BY <1>1, <1>8 DEF Free, CallInv, Holding
  <2>2. Apart'
    BY <1>1, <2>1, SMT DEF Apart, TypeOK
  <2>3. Found'
    BY <1>1, <2>1, SMT DEF Found, TypeOK
  <2> QED
    BY <2>2, <2>3
<1>9. CASE GetBuf(t)
  <2>1. PICK b \in freelist : freelist' = freelist \ {b} /\ buf' = [buf EXCEPT ![t] = b]
    BY <1>9 DEF GetBuf
  <2>2. b \in Bufs /\ buf[t] = None /\ UNCHANGED <<exists, app, cache>>
    BY <1>1, <1>9 DEF GetBuf, Goto, CallInv, Holding, TypeOK
  <2>3. Apart'
    BY <1>1, <2>1, <2>2, SMT DEF Apart, TypeOK
  <2>4. Found'
    BY <1>1, <2>1, <2>2, SMT DEF Found, TypeOK
  <2> QED
    BY <2>3, <2>4
<1>10. CASE GetBufEmpty(t)
  BY <1>2, <1>10 DEF GetBufEmpty, places, shared
<1>11. CASE Dec(t) \/ LowSeen(t) \/ LowSet(t)
  <2>1. pc[t] \in Holding /\ UNCHANGED <<exists, freelist, cache>>
    BY <1>11 DEF Dec, LowSeen, LowSet, Holding
  <2>2. Deliver(t, buf[t]) \/ UNCHANGED <<app, buf>>
    BY <1>11 DEF Dec, LowSeen, LowSet, GotBuf
  <2> QED
    BY <1>2, <2>1, <2>2, DeliverPlace DEF places
<1>12. CASE GetBlk(t)
  <2>1. pc[t] \in Holding /\ UNCHANGED <<exists, freelist, cache>>
    BY <1>12 DEF GetBlk, Holding
  <2>2. Deliver(t, buf[t]) \/ UNCHANGED <<app, buf>>
    BY <1>12 DEF GetBlk
  <2> QED
    BY <1>2, <2>1, <2>2, DeliverPlace DEF places
<1>13. CASE BlkEmpty(t) \/ RetBlk(t)
  BY <1>2, <1>13 DEF BlkEmpty, RetBlk, places, shared
<1>14. CASE RetPush(t)
  <2>1. /\ buf[t] \in Bufs /\ freelist' = freelist \cup {buf[t]} /\ buf' = [buf EXCEPT ![t] = None]
        /\ UNCHANGED <<exists, app, cache>>
    BY <1>1, <1>14 DEF RetPush, Goto, TypeOK, CallInv, Holding
  <2>2. Apart'
    BY <1>1, <2>1, SMT DEF Apart, TypeOK
  <2>3. Found'
    BY <1>1, <2>1, SMT DEF Found, TypeOK
  <2> QED
    BY <2>2, <2>3
<1>15. CASE Inc(t) \/ HighSeen(t) \/ HighSet(t)
  BY <1>2, <1>15 DEF Inc, HighSeen, HighSet, places, shared
<1>16. CASE FlushOne(t)
  BY <1>1, <1>6, <1>16 DEF FlushOne, Goto, CallInv, Holding, shared
<1>17. CASE FlushEnd(t)
  BY <1>2, <1>17 DEF FlushEnd, places
<1>18. CASE DestroyEnd(t)
  <2>1. exists
    BY <1>1, <1>18 DEF IndInv, QuietInv, CallInv, DestroyEnd, Goto
  <2> QED
    BY <1>2, <1>18, <2>1 DEF DestroyEnd, places
<1> QED
  BY <1>3, <1>4, <1>5, <1>7, <1>8, <1>9, <1>10, <1>11, <1>12, <1>13, <1>14, <1>15, <1>16, <1>17,
     <1>18
  DEF Act, Step

-----------------------------------------------------------------------------
(* Where the blocks are.                                                   *)

LEMMA BlockStep ==
  ASSUME IndInv, NEW t \in Threads, Act(t)
  PROVE  BlocksConserved'
<1> USE PoolAssumption
<1>1. TypeOK /\ CallInv(t) /\ BlocksConserved
  BY DEF IndInv
<1>2. ASSUME UNCHANGED <<raw, blk_freelist, addr>>, exists' => exists, freelist' \subseteq freelist
      PROVE  BlocksConserved'
  BY <1>1, <1>2 DEF BlocksConserved
<1>3. CASE Create(t)
  BY <1>3, SMT DEF Create, Fresh, BlocksConserved
<1>4. CASE Destroy(t) \/ TermLocal(t)
  BY <1>2, <1>4 DEF Destroy, TermLocal, shared
<1>5. ASSUME NEW k, AllocCached(t, k) \/ AllocStart(t, k) PROVE BlocksConserved'
  BY <1>2, <1>5 DEF AllocCached, AllocStart, shared
<1>6. ASSUME NEW b \in Bufs, Free(t, b) PROVE BlocksConserved'
  BY <1>2, <1>6 DEF Free
<1>7. CASE GetBuf(t) \/ GetBufEmpty(t)
  BY <1>2, <1>7 DEF GetBuf, GetBufEmpty, shared
<1>8. CASE Dec(t) \/ LowSeen(t) \/ LowSet(t)
  BY <1>2, <1>8 DEF Dec, LowSeen, LowSet
<1>9. CASE GetBlk(t)
  <2>1. PICK k \in blk_freelist : /\ blk_freelist' = blk_freelist \ {k}
                                  /\ addr' = [addr EXCEPT ![buf[t]] = @ \cup {k}]
    BY <1>9 DEF GetBlk
  <2>2. k \in Blks /\ buf[t] \in Bufs /\ buf[t] \notin freelist
        /\ UNCHANGED <<exists, raw, freelist>>
    BY <1>1, <1>9 DEF GetBlk, TypeOK, CallInv, Holding, IndInv, Apart
  <2> QED
    BY <1>1, <2>1, <2>2, SMT DEF BlocksConserved, TypeOK
<1>10. CASE BlkEmpty(t)
  BY <1>2, <1>10 DEF BlkEmpty, shared
<1>11. CASE RetBlk(t)
  <2>1. PICK k \in addr[buf[t]] : /\ blk_freelist' = blk_freelist \cup {k}
                                  /\ addr' = [addr EXCEPT ![buf[t]] = @ \ {k}]
    BY <1>11 DEF RetBlk
  <2>2. k \in Blks /\ buf[t] \in Bufs /\ buf[t] \notin freelist
        /\ UNCHANGED <<exists, raw, freelist>>
    <3>1. pc[t] = "ret" /\ UNCHANGED <<exists, raw, freelist>>
      BY <1>11 DEF RetBlk
    <3>2. buf[t] \in Bufs
      BY <1>1, <3>1 DEF TypeOK, CallInv, Holding
    <3>3. k \in Blks
      BY <1>1, <2>1, <3>2 DEF TypeOK
    <3> QED
      BY <3>1, <3>2, <3>3 DEF IndInv, Apart
  <2> QED
    BY <1>1, <2>1, <2>2, SMT DEF BlocksConserved, TypeOK
<1>12. CASE RetPush(t)
  BY <1>1, <1>12, SMT DEF RetPush, BlocksConserved
<1>13. CASE Inc(t) \/ HighSeen(t) \/ HighSet(t)
  BY <1>2, <1>13 DEF Inc, HighSeen, HighSet, shared
<1>14. CASE FlushOne(t) \/ FlushEnd(t)
  BY <1>2, <1>14 DEF FlushOne, FlushEnd, shared
<1>15. CASE DestroyEnd(t)
  <2>1. exists
    BY <1>1, <1>15 DEF IndInv, QuietInv, CallInv, DestroyEnd, Goto
  <2> QED
    BY <1>2, <1>15, <2>1 DEF DestroyEnd
<1> QED
  BY <1>3, <1>4, <1>5, <1>6, <1>7, <1>8, <1>9, <1>10, <1>11, <1>12, <1>13, <1>14, <1>15
  DEF Act, Step

-----------------------------------------------------------------------------
(* The counter.                                                            *)

(* A thread comes to S or leaves it.                                       *)
LEMMA AtCount ==
  ASSUME NEW CONSTANT S, NEW t \in Threads, \A u \in Threads \ {t} : pc'[u] = pc[u]
  PROVE  /\ Cardinality(At(S)) \in 0 .. Cardinality(Threads)
         /\ Cardinality(At(S))' = Cardinality(At(S)) + (IF pc'[t] \in S THEN 1 ELSE 0)
                                                     - (IF pc[t] \in S THEN 1 ELSE 0)
<1>1. At(S) \in SUBSET Threads /\ At(S) \ {t} \in SUBSET Threads
  BY DEF At
<1>2. IsFiniteSet(At(S)) /\ IsFiniteSet(At(S) \ {t}) /\ Cardinality(At(S)) <= Cardinality(Threads)
  BY <1>1, PoolAssumption, FS_Subset
<1>3. Cardinality(At(S)) \in Nat /\ Cardinality(Threads) \in Nat /\ Cardinality(At(S) \ {t}) \in Nat
  BY <1>2, PoolAssumption, FS_CardinalityType
<1>4. Cardinality(At(S) \ {t}) = IF t \in At(S) THEN Cardinality(At(S)) - 1 ELSE Cardinality(At(S))
  BY <1>2, FS_RemoveElement
<1>5. t \in At(S) <=> pc[t] \in S
  BY DEF At
<1>6. CASE pc'[t] \in S
  <2>1. At(S)' = (At(S) \ {t}) \cup {t}
    BY <1>6, SMT DEF At
  <2>2. Cardinality((At(S) \ {t}) \cup {t})
        = IF t \in At(S) \ {t} THEN Cardinality(At(S) \ {t}) ELSE Cardinality(At(S) \ {t}) + 1
    BY <1>2, FS_AddElement
  <2>3. Cardinality(At(S))' = Cardinality(At(S) \ {t}) + 1
    BY <2>1, <2>2
  <2> QED
    BY <1>2, <1>3, <1>4, <1>5, <1>6, <2>3, SMT
<1>7. CASE pc'[t] \notin S
  <2>1. At(S)' = At(S) \ {t}
    BY <1>7, SMT DEF At
  <2>2. Cardinality(At(S))' = Cardinality(At(S) \ {t})
    BY <2>1
  <2> QED
    BY <1>2, <1>3, <1>4, <1>5, <1>7, <2>2, SMT
<1> QED
  BY <1>6, <1>7

LEMMA CountBounds ==
  ASSUME TypeOK
  PROVE  /\ Cardinality(freelist) \in 0 .. buf_num /\ IsFiniteSet(freelist)
         /\ buf_num \in Nat
         /\ Counted \in -Cardinality(Threads) .. buf_num + Cardinality(Threads)
<1>1. freelist \in SUBSET Bufs /\ At({"dec"}) \in SUBSET Threads /\ At({"inc"}) \in SUBSET Threads
  BY DEF TypeOK, At
<1>2. IsFiniteSet(freelist) /\ IsFiniteSet(At({"dec"})) /\ IsFiniteSet(At({"inc"}))
  BY <1>1, PoolAssumption, FS_Subset
<1>3. /\ Cardinality(freelist) \in Nat /\ Cardinality(At({"dec"})) \in Nat
         /\ Cardinality(At({"inc"})) \in Nat
      /\ Cardinality(Bufs) \in Nat /\ Cardinality(Threads) \in Nat
  BY <1>2, PoolAssumption, FS_CardinalityType
<1>4. /\ Cardinality(freelist) <= Cardinality(Bufs)
         /\ Cardinality(At({"dec"})) <= Cardinality(Threads)
      /\ Cardinality(At({"inc"})) <= Cardinality(Threads)
  BY <1>1, PoolAssumption, FS_Subset
<1> QED
  BY <1>2, <1>3, <1>4, SMT DEF Counted, buf_num

(* Only get_buf and ret_buf change what is counted, with the counter.      *)
LEMMA CountedStep ==
  ASSUME IndInv, NEW t \in Threads, Act(t), ~Create(t)
  PROVE  \/ Dec(t) /\ Counted' = Counted - 1
         \/ Inc(t) /\ Counted' = Counted + 1
         \/ ~Dec(t) /\ ~Inc(t) /\ Counted' = Counted
<1> USE PoolAssumption
<1>1. TypeOK /\ CallInv(t)
  BY DEF IndInv
<1>2. \A u \in Threads \ {t} : pc'[u] = pc[u]
  BY <1>1, OthersStay DEF Own
<1>3. /\ Cardinality(At({"dec"})) \in 0 .. Cardinality(Threads)
      /\ Cardinality(At({"dec"}))'
           = Cardinality(At({"dec"})) + (IF pc'[t] \in {"dec"} THEN 1 ELSE 0)
                                                              - (IF pc[t] \in {"dec"} THEN 1 ELSE 0)
  BY <1>2, AtCount
<1>4. /\ Cardinality(At({"inc"})) \in 0 .. Cardinality(Threads)
      /\ Cardinality(At({"inc"}))'
           = Cardinality(At({"inc"})) + (IF pc'[t] \in {"inc"} THEN 1 ELSE 0)
                                                              - (IF pc[t] \in {"inc"} THEN 1 ELSE 0)
  BY <1>2, AtCount
<1>5. /\ Cardinality(freelist) \in Nat /\ IsFiniteSet(freelist)
      /\ Cardinality(At({"dec"})) \in Int /\ Cardinality(At({"inc"})) \in Int
  BY <1>1, <1>3, <1>4, CountBounds, FS_CardinalityType, SMT
<1>6. ASSUME pc[t] \notin {"dec", "inc"}, pc'[t] \notin {"dec", "inc"}, freelist' = freelist
      PROVE  ~Dec(t) /\ ~Inc(t) /\ Counted' = Counted
  <2>1. Counted' = Counted
    BY <1>3, <1>4, <1>5, <1>6, SMT DEF Counted
  <2> QED
    BY <1>6, <2>1 DEF Dec, Inc
<1>0. t \in DOMAIN pc
  BY <1>1 DEF TypeOK
<1>7. CASE Destroy(t) \/ TermLocal(t)
  BY <1>0, <1>6, <1>7, SMT DEF Destroy, TermLocal, Goto, shared
<1>8. ASSUME NEW k, AllocCached(t, k) \/ AllocStart(t, k)
      PROVE  ~Dec(t) /\ ~Inc(t) /\ Counted' = Counted
  <2>1. pc[t] = "idle" /\ pc'[t] \in {"idle", "lblk", "get"} /\ freelist' = freelist
    BY <1>0, <1>8 DEF AllocCached, AllocStart, Deliver, Goto, shared
  <2> QED
    BY <1>6, <2>1
<1>9. ASSUME NEW b \in Bufs, Free(t, b)
      PROVE  ~Dec(t) /\ ~Inc(t) /\ Counted' = Counted
  <2>1. pc[t] = "idle" /\ pc'[t] \in {"idle", "ret"} /\ freelist' = freelist
    BY <1>0, <1>9 DEF Free, Goto
  <2> QED
    BY <1>6, <2>1
<1>10. CASE GetBuf(t)
  <2>1. PICK b \in freelist : freelist' = freelist \ {b}
    BY <1>10 DEF GetBuf
  <2>2. Cardinality(freelist \ {b}) = IF b \in freelist THEN Cardinality(freelist) - 1
        ELSE Cardinality(freelist)
    BY <1>5, FS_RemoveElement
  <2>3. Cardinality(freelist)' = Cardinality(freelist) - 1
    BY <2>1, <2>2
  <2>4. pc[t] = "get" /\ pc'[t] = "dec"
    BY <1>0, <1>10 DEF GetBuf, Goto
  <2>5. Counted' = Counted
    BY <1>3, <1>4, <1>5, <2>3, <2>4, SMT DEF Counted
  <2> QED
    BY <2>4, <2>5 DEF Dec, Inc
<1>11. CASE GetBufEmpty(t)
  BY <1>0, <1>6, <1>11, SMT DEF GetBufEmpty, Goto, shared
<1>12. CASE Dec(t)
  <2>1. pc[t] = "dec" /\ pc'[t] \in {"low", "blk", "idle"} /\ freelist' = freelist
    BY <1>0, <1>12 DEF Dec, GotBuf, Deliver, Goto
  <2>2. Counted' = Counted - 1
    BY <1>3, <1>4, <1>5, <2>1, SMT DEF Counted
  <2> QED
    BY <1>12, <2>2
<1>13. CASE LowSeen(t) \/ LowSet(t)
  <2>1. pc[t] \in {"low", "lowset"} /\ pc'[t] \in {"lowset", "blk", "idle"} /\ freelist' = freelist
    BY <1>0, <1>13 DEF LowSeen, LowSet, GotBuf, Deliver, Goto
  <2> QED
    BY <1>6, <2>1
<1>14. CASE GetBlk(t)
  <2>1. pc[t] \in {"blk", "lblk"} /\ pc'[t] \in {"blk", "lblk", "idle"} /\ freelist' = freelist
    BY <1>0, <1>14 DEF GetBlk, Deliver
  <2> QED
    BY <1>6, <2>1
<1>15. CASE BlkEmpty(t) \/ RetBlk(t)
  <2>1. pc[t] \in {"blk", "lblk", "ret"} /\ pc'[t] = "ret" /\ freelist' = freelist
    BY <1>0, <1>15 DEF BlkEmpty, RetBlk, shared
  <2> QED
    BY <1>6, <2>1
<1>16. CASE RetPush(t)
  <2>1. freelist' = freelist \cup {buf[t]} /\ pc[t] = "ret" /\ pc'[t] = "inc"
    BY <1>0, <1>16 DEF RetPush, Goto
  <2>2. buf[t] \notin freelist
    BY DEF IndInv, Apart
  <2>3. Cardinality(freelist \cup {buf[t]})
        = IF buf[t] \in freelist THEN Cardinality(freelist) ELSE Cardinality(freelist) + 1
    BY <1>5, FS_AddElement
  <2>4. Cardinality(freelist)' = Cardinality(freelist) + 1
    BY <2>1, <2>2, <2>3
  <2>5. Counted' = Counted
    BY <1>3, <1>4, <1>5, <2>1, <2>4, SMT DEF Counted
  <2> QED
    BY <2>1, <2>5 DEF Dec, Inc
<1>17. ASSUME pc[t] \in Returning, Resume(t) PROVE pc'[t] \in {"get", "idle", "flush"}
  <2>1. then[t] \in {"idle", "retry", "flush"}
    BY <1>1, <1>17 DEF CallInv, TypeOK
  <2> QED
    BY <1>0, <1>17, <2>1 DEF Resume
<1>18. CASE Inc(t)
  <2>1. pc[t] = "inc" /\ pc'[t] \in {"high", "get", "idle", "flush"} /\ freelist' = freelist
    BY <1>0, <1>17, <1>18 DEF Inc, Goto, Returning
  <2>2. Counted' = Counted + 1
    BY <1>3, <1>4, <1>5, <2>1, SMT DEF Counted
  <2> QED
    BY <1>18, <2>2
<1>19. CASE HighSeen(t) \/ HighSet(t)
  <2>1. pc[t] \in {"high", "highset"} /\ pc'[t] \in {"highset", "get", "idle", "flush"}
        /\ freelist' = freelist
    BY <1>0, <1>17, <1>19 DEF HighSeen, HighSet, Goto, Returning, shared
  <2> QED
    BY <1>6, <2>1
<1>20. CASE FlushOne(t) \/ FlushEnd(t)
  <2>1. pc[t] = "flush" /\ pc'[t] \in {"ret", "destroy", "idle"} /\ freelist' = freelist
    BY <1>0, <1>20 DEF FlushOne, FlushEnd, Goto, shared
  <2> QED
    BY <1>6, <2>1
<1>21. CASE DestroyEnd(t)
  BY <1>0, <1>6, <1>21, SMT DEF DestroyEnd, Goto
<1> QED
  BY <1>7, <1>8, <1>9, <1>10, <1>11, <1>12, <1>13, <1>14, <1>15, <1>16, <1>18, <1>19, <1>20, <1>21
  DEF Act, Step

(* A new pool is complete.                                                 *)
LEMMA CreateCount ==
  ASSUME IndInv, NEW t \in Threads, Create(t)
  PROVE  Counted' = buf_num
<1>1. pc' = pc /\ freelist' = Bufs /\ ~exists
  BY DEF Create, Fresh
<1>2. At({"dec"})' = {} /\ At({"inc"})' = {}
  BY <1>1 DEF IndInv, QuietInv, At, Allocating
<1>3. Cardinality(At({"dec"}))' = 0 /\ Cardinality(At({"inc"}))' = 0
      /\ Cardinality(freelist)' = buf_num
  BY <1>1, <1>2, FS_EmptySet DEF buf_num
<1>4. buf_num \in Nat
  BY CountBounds DEF IndInv
<1> QED
  BY <1>3, <1>4, SMT DEF Counted

(* Arithmetic on the counter, modulo W.                                    *)
Wrap(n) == IF n < 0 THEN n + W ELSE n

LEMMA WrapMinus ==
  ASSUME NEW n \in Int, -W < n - 1, n < W
  PROVE  Minus1(Wrap(n)) = Wrap(n - 1)
BY PoolAssumption, SMT DEF Minus1, Wrap

LEMMA WrapPlus ==
  ASSUME NEW n \in Int, -W < n, n + 1 < W
  PROVE  Plus1(Wrap(n)) = Wrap(n + 1)
BY PoolAssumption, SMT DEF Plus1, Wrap

(* A push that is not counted yet leaves room for its count, and so does a *)
(* pop.                                                                    *)
LEMMA CountRoom ==
  ASSUME TypeOK, NEW t \in Threads
  PROVE  /\ pc[t] = "inc" => -W < Counted /\ Counted + 1 < W
         /\ pc[t] = "dec" => -W < Counted - 1 /\ Counted < W
<1>1. At({"dec"}) \in SUBSET Threads /\ At({"inc"}) \in SUBSET Threads
  BY DEF At
<1>2. IsFiniteSet(At({"dec"})) /\ IsFiniteSet(At({"inc"}))
  BY <1>1, PoolAssumption, FS_Subset
<1>3. /\ Cardinality(At({"dec"})) \in Nat /\ Cardinality(At({"inc"})) \in Nat
      /\ Cardinality(At({"dec"})) <= Cardinality(Threads)
      /\ Cardinality(At({"inc"})) <= Cardinality(Threads)
  BY <1>1, <1>2, PoolAssumption, FS_Subset, FS_CardinalityType
<1>4. pc[t] = "dec" => Cardinality(At({"dec"})) # 0
  BY <1>2, FS_EmptySet DEF At
<1>5. pc[t] = "inc" => Cardinality(At({"inc"})) # 0
  BY <1>2, FS_EmptySet DEF At
<1>6. /\ Cardinality(freelist) \in 0 .. buf_num /\ buf_num \in Nat /\ Cardinality(Threads) \in Nat
      /\ W \in Nat /\ W > buf_num + Cardinality(Threads)
  BY CountBounds, PoolAssumption, FS_CardinalityType DEF buf_num
<1> QED
  BY <1>3, <1>4, <1>5, <1>6, SMT DEF Counted

LEMMA CountStep ==
  ASSUME IndInv, NEW t \in Threads, Act(t)
  PROVE  BufcountExact' /\ CountInv'
<1>1. TypeOK /\ CallInv(t) /\ CountInv
  BY DEF IndInv
<1>2. /\ buf_num \in Nat /\ W \in Nat /\ Cardinality(Threads) \in Nat
      /\ Counted \in -Cardinality(Threads) .. buf_num + Cardinality(Threads)
      /\ W > buf_num + Cardinality(Threads)
  BY <1>1, PoolAssumption, CountBounds, FS_CardinalityType DEF buf_num
<1>3. exists => bufcount = Wrap(Counted)
  BY DEF IndInv, BufcountExact, Counted, Wrap
<1>4. SUFFICES /\ exists' => bufcount' = Wrap(Counted') /\ net' = buf_num - Counted'
               /\ lock' # None => Counted' >= 0
  BY <1>4 DEF BufcountExact, CountInv, Counted, buf_num, Wrap
<1> HIDE DEF buf_num
<1>5. CASE Create(t)
  <2>1. Counted' = buf_num /\ bufcount' = buf_num /\ net' = 0
    BY <1>5, CreateCount DEF Create, Fresh
  <2>2. Wrap(buf_num) = buf_num /\ buf_num - buf_num = 0 /\ buf_num >= 0
    BY <1>2, SMT DEF Wrap
  <2> QED
    BY <2>1, <2>2
<1>6. CASE ~Create(t)
  <2>1. exists' => exists
    <3>1. CASE ~exists
      BY <1>6, <3>1, GoneSteps DEF TermLocal, HighSeen, HighSet, FlushEnd, shared
    <3> QED
      BY <3>1
  <2>2. lock' # None => lock # None \/ (Destroy(t) /\ \A u \in Threads : pc[u] = "idle")
    <3>1. CASE lock = None
      <4>1. CASE Destroy(t)
        BY <4>1 DEF Destroy
      <4>2. CASE ~Destroy(t)
        BY <1>6, <3>1, <4>2 DEF Act, Step, TermLocal, AllocCached, AllocStart, Free, GetBuf, GetBufEmpty,
           Dec, LowSeen, LowSet, GetBlk, BlkEmpty, RetBlk, RetPush, Inc, HighSeen, HighSet,
           FlushOne, FlushEnd, DestroyEnd, shared
      <4> QED
        BY <4>1, <4>2
    <3> QED
      BY <3>1
  <2>3. ASSUME \A u \in Threads : pc[u] = "idle" PROVE Counted >= 0
    <3>1. At({"dec"}) = {} /\ At({"inc"}) = {}
      BY <2>3 DEF At
    <3>2. Counted = Cardinality(freelist) + 0 - 0
      BY <3>1, FS_EmptySet DEF Counted
    <3> QED
      BY <1>1, <3>2, CountBounds, SMT
  <2>4. CASE Dec(t) /\ Counted' = Counted - 1
    <3>1. lock = None /\ lock' = lock
      BY <2>4 DEF IndInv, QuietInv, Dec, Allocating
    <3>2. bufcount' = Minus1(bufcount) /\ net' = net + 1
      BY <2>4 DEF Dec
    <3>3. Minus1(Wrap(Counted)) = Wrap(Counted - 1)
      BY <1>1, <1>2, <2>4, CountRoom, WrapMinus, SMT DEF Dec
    <3>4. exists' => net' = buf_num - Counted'
      BY <1>1, <1>2, <2>1, <2>4, <3>2, SMT DEF CountInv, TypeOK
    <3> QED
      BY <1>3, <2>1, <2>4, <3>1, <3>2, <3>3, <3>4
  <2>5. CASE Inc(t) /\ Counted' = Counted + 1
    <3>1. bufcount' = Plus1(bufcount) /\ net' = net - 1 /\ lock' = lock
      BY <2>5 DEF Inc
    <3>2. Plus1(Wrap(Counted)) = Wrap(Counted + 1)
      BY <1>1, <1>2, <2>5, CountRoom, WrapPlus, SMT DEF Inc
    <3>3. exists' => net' = buf_num - Counted'
      BY <1>1, <1>2, <2>1, <2>5, <3>1, SMT DEF CountInv, TypeOK
    <3>4. lock' # None => Counted' >= 0
      BY <1>1, <1>2, <2>5, <3>1, SMT DEF CountInv
    <3> QED
      BY <1>3, <2>1, <2>5, <3>1, <3>2, <3>3, <3>4
  <2>6. CASE ~Dec(t) /\ ~Inc(t) /\ Counted' = Counted
    <3>1. bufcount' = bufcount
      BY <1>6, <2>6 DEF Act, Step, Destroy, TermLocal, AllocCached, AllocStart, Free, GetBuf, GetBufEmpty,
         LowSeen, LowSet, GetBlk, BlkEmpty, RetBlk, RetPush, HighSeen, HighSet,
         FlushOne, FlushEnd, DestroyEnd, shared
    <3>2. CASE FlushEnd(t)
      <4>1. LocalInv(t) /\ then[t] = None /\ pc[t] = "flush" /\ cache[t] = {}
        BY <1>1, <3>2 DEF IndInv, FlushEnd, Goto, CallInv, Returning
      <4>2. lnet[t] + flushed[t] = 0
        BY <1>1, <4>1, PoolAssumption, FS_EmptySet, SMT DEF LocalInv, Uncounted, TypeOK
      <4>3. net' = net
        BY <1>1, <3>2, <4>2, SMT DEF FlushEnd, TypeOK
      <4> QED
        BY <1>1, <1>3, <2>1, <2>2, <2>3, <2>6, <3>1, <4>3 DEF CountInv
    <3>3. CASE ~FlushEnd(t)
      <4>1. net' = net
        BY <1>6, <2>6, <3>3 DEF Act, Step, Destroy, TermLocal, AllocCached, AllocStart, Free,
           GetBuf, GetBufEmpty,
           LowSeen, LowSet, GetBlk, BlkEmpty, RetBlk, RetPush, HighSeen, HighSet,
           FlushOne, DestroyEnd, shared
      <4> QED
        BY <1>1, <1>3, <2>1, <2>2, <2>3, <2>6, <3>1, <4>1 DEF CountInv
    <3> QED
      BY <3>2, <3>3
  <2> QED
    BY <1>6, <2>4, <2>5, <2>6, CountedStep
<1> QED
  BY <1>5, <1>6

-----------------------------------------------------------------------------
(* Destruction.                                                            *)

(* odp_pool_destroy looks at the counter only.  It is right: nobody        *)
(* allocates, so that a push not counted yet can only make it too low.     *)
LEMMA DestroyedAll ==
  ASSUME IndInv, NEW t \in Threads, DestroyEnd(t), ~exists'
  PROVE  freelist = Bufs /\ At({"inc"}) = {}
<1>1. TypeOK /\ lock = t /\ lock # None /\ exists
  BY PoolAssumption DEF IndInv, CallInv, QuietInv, DestroyEnd, Goto
<1>2. ~(bufcount < buf_num)
  BY DEF DestroyEnd
<1>3. At({"dec"}) = {}
  BY <1>1 DEF IndInv, QuietInv, At, Allocating
<1>4. Counted = Cardinality(freelist) + 0 - Cardinality(At({"inc"}))
  BY <1>3, FS_EmptySet DEF Counted
<1>5. bufcount = Counted
  <2>1. bufcount = IF Counted < 0 THEN Counted + W ELSE Counted
    BY <1>1 DEF IndInv, BufcountExact, Counted
  <2>2. Counted >= 0 /\ Counted \in Int
    BY <1>1, CountBounds, SMT DEF IndInv, CountInv
  <2> QED
    BY <2>1, <2>2, SMT
<1>6. IsFiniteSet(At({"inc"})) /\ Cardinality(At({"inc"})) \in Nat
  <2>1. At({"inc"}) \in SUBSET Threads
    BY DEF At
  <2> QED
    BY <2>1, PoolAssumption, FS_Subset, FS_CardinalityType
<1>7. Cardinality(freelist) = Cardinality(Bufs) /\ Cardinality(At({"inc"})) = 0
  BY <1>1, <1>2, <1>4, <1>5, <1>6, CountBounds, SMT DEF buf_num
<1>8. freelist \in SUBSET Bufs
  BY <1>1 DEF TypeOK
<1> QED
  BY <1>6, <1>7, <1>8, PoolAssumption, FS_Subset, FS_EmptySet

LEMMA DestroyedStep ==
  ASSUME IndInv, NEW t \in Threads, Act(t)
  PROVE  DestroyedWhole'
<1> SUFFICES ASSUME ~exists' PROVE app' = {} /\ \A u \in Threads : cache'[u] = {} /\ buf'[u] = None
  BY DEF DestroyedWhole
<1>1. TypeOK
  BY DEF IndInv
<1>2. CASE exists
  <2>1. DestroyEnd(t)
    BY <1>2 DEF Act, Step, Create, Destroy, TermLocal, AllocCached, AllocStart, Free, GetBuf, GetBufEmpty,
       Dec, LowSeen, LowSet, GetBlk, BlkEmpty, RetBlk, RetPush, Inc, HighSeen, HighSet,
       FlushOne, FlushEnd, shared
  <2>2. freelist = Bufs /\ UNCHANGED <<app, cache, buf>>
    BY <2>1, DestroyedAll DEF DestroyEnd
  <2>3. app = {} /\ \A u \in Threads : cache[u] = {} /\ buf[u] = None
    BY <1>1, <2>2, SMT DEF IndInv, Apart, TypeOK
  <2> QED
    BY <2>2, <2>3
<1>3. CASE ~exists
  <2>1. ~Create(t)
    BY DEF Create
  <2>2. UNCHANGED <<app, cache, buf>>
    BY <1>3, <2>1, GoneSteps DEF TermLocal, HighSeen, HighSet, FlushEnd, shared
  <2> QED
    BY <1>3, <2>2 DEF IndInv, DestroyedWhole
<1> QED
  BY <1>2, <1>3

LEMMA QuietStep ==
  ASSUME IndInv, NEW t \in Threads, Act(t)
  PROVE  QuietInv'
<1> USE PoolAssumption
<1>1. TypeOK /\ CallInv(t) /\ QuietInv /\ \A u \in Threads : CallInv(u)
  BY DEF IndInv
<1>2. \A u \in Threads \ {t} : pc'[u] = pc[u] /\ then'[u] = then[u]
  BY <1>1, OthersStay DEF Own
<1>3. CASE Create(t)
  BY <1>3 DEF Create, QuietInv
<1>4. CASE Destroy(t)
  <2>1. \A u \in Threads : pc[u] = "idle" /\ then[u] = None
    BY <1>1, <1>4 DEF Destroy, CallInv, Returning
  <2>2. pc'[t] = "flush" /\ UNCHANGED <<then, app, exists>> /\ app = {} /\ exists
    BY <1>1, <1>4 DEF Destroy, Goto, TypeOK
  <2> QED
    BY <1>2, <2>1, <2>2 DEF QuietInv, Allocating
<1>5. CASE DestroyEnd(t)
  <2>1. lock = t /\ lock # None /\ lock' = None
    BY <1>1, <1>5 DEF CallInv, DestroyEnd, Goto
  <2>2. \A u \in Threads : pc'[u] \notin Allocating /\ then'[u] \in {"flush", None}
    BY <1>1, <1>2, <1>5, <2>1 DEF QuietInv, DestroyEnd, Goto, TypeOK, Allocating
  <2>3. ASSUME ~exists', NEW u \in Threads PROVE pc'[u] # "inc"
    <3>1. At({"inc"}) = {}
      BY <1>5, <2>3, DestroyedAll
    <3>2. pc[u] # "inc"
      BY <3>1 DEF At
    <3> QED
      BY <1>1, <1>2, <1>5, <3>2 DEF DestroyEnd, Goto, TypeOK
  <2> QED
    BY <2>1, <2>2, <2>3 DEF QuietInv
<1>0. t \in DOMAIN pc /\ t \in DOMAIN then
  BY <1>1 DEF TypeOK
<1>6. ASSUME pc[t] \in Returning, then[t] \in {"flush", None}, Resume(t)
      PROVE  pc'[t] = "flush" /\ then'[t] = None
  <2>1. then[t] = "flush"
    BY <1>1, <1>6 DEF CallInv
  <2> QED
    BY <1>1, <1>6, <2>1, SMT DEF Resume, TypeOK
<1>7. CASE lock # None /\ ~DestroyEnd(t)
  <2>1. app = {} /\ exists /\ pc[t] \notin Allocating /\ then[t] \in {"flush", None}
    BY <1>1, <1>7 DEF QuietInv
  <2>2. \/ TermLocal(t) \/ RetBlk(t) \/ RetPush(t) \/ Inc(t) \/ HighSeen(t) \/ HighSet(t)
        \/ FlushOne(t) \/ FlushEnd(t)
    BY <1>7, DestroySteps
  <2>3. UNCHANGED <<lock, exists, app>>
    BY <2>2 DEF TermLocal, RetBlk, RetPush, Inc, HighSeen, HighSet, FlushOne, FlushEnd, shared
  <2>4. pc'[t] \notin Allocating /\ then'[t] \in {"flush", None}
    <3>1. CASE TermLocal(t) \/ RetBlk(t) \/ RetPush(t)
      BY <1>0, <2>1, <3>1 DEF TermLocal, RetBlk, RetPush, Goto, Allocating
    <3>2. CASE Inc(t)
      BY <1>1, <1>6, <2>1, <3>2 DEF Inc, Goto, TypeOK, Allocating, Returning
    <3>3. CASE HighSeen(t) \/ HighSet(t)
      BY <1>0, <1>6, <2>1, <3>3 DEF HighSeen, HighSet, Goto, Allocating, Returning
    <3>4. CASE FlushOne(t)
      BY <1>1, <2>1, <3>4 DEF FlushOne, Goto, TypeOK, Allocating
    <3>5. CASE FlushEnd(t)
      <4>1. pc'[t] \in {"destroy", "idle"} /\ then' = then
        BY <1>1, <3>5 DEF FlushEnd, Goto, TypeOK
      <4> QED
        BY <2>1, <4>1 DEF Allocating
    <3> QED
      BY <2>2, <3>1, <3>2, <3>3, <3>4, <3>5
  <2> QED
    BY <1>1, <1>2, <1>7, <2>1, <2>3, <2>4 DEF QuietInv
<1>8. CASE lock = None /\ ~exists /\ ~Create(t)
  <2>1. pc[t] \notin Allocating /\ pc[t] # "inc" /\ then[t] \in {"flush", None}
    BY <1>1, <1>8 DEF QuietInv
  <2>2. TermLocal(t) \/ HighSeen(t) \/ HighSet(t) \/ FlushEnd(t)
    BY <1>8, GoneSteps
  <2>3. UNCHANGED <<lock, exists>>
    BY <2>2 DEF TermLocal, HighSeen, HighSet, FlushEnd, shared
  <2>4. pc'[t] \notin Allocating /\ then'[t] \in {"flush", None} /\ pc'[t] # "inc"
    <3>1. CASE TermLocal(t) \/ FlushEnd(t)
      BY <1>0, <2>1, <3>1, SMT DEF TermLocal, FlushEnd, Goto, Allocating
    <3>2. CASE HighSeen(t) \/ HighSet(t)
      BY <1>0, <1>6, <2>1, <3>2 DEF HighSeen, HighSet, Goto, Allocating, Returning
    <3> QED
      BY <2>2, <3>1, <3>2
  <2> QED
    BY <1>1, <1>2, <1>8, <2>3, <2>4 DEF QuietInv
<1>9. CASE lock = None /\ exists /\ ~Create(t) /\ ~Destroy(t) /\ ~DestroyEnd(t)
  <2>1. UNCHANGED <<lock, exists>>
    BY <1>9 DEF Act, Step, TermLocal, AllocCached, AllocStart, Free, GetBuf, GetBufEmpty,
       Dec, LowSeen, LowSet, GetBlk, BlkEmpty, RetBlk, RetPush, Inc, HighSeen, HighSet,
       FlushOne, FlushEnd, shared
  <2> QED
    BY <1>9, <2>1 DEF QuietInv
<1> QED
  BY <1>3, <1>4, <1>5, <1>7, <1>8, <1>9

-----------------------------------------------------------------------------
LEMMA InitInd == Init => IndInv
<1> SUFFICES ASSUME Init PROVE IndInv
  OBVIOUS
<1> USE PoolAssumption DEF Init
<1>1. TypeOK
  <2>1. bufcount \in 0 .. W - 1 /\ net \in Int /\ 0 \in 0 .. MaxSeg /\ 0 \in Int /\ 0 \in Nat
    BY FS_CardinalityType, SMT
  <2>2. /\ need \in [Threads -> 0 .. MaxSeg] /\ lnet \in [Threads -> Int]
        /\ flushed \in [Threads -> Nat]
    BY <2>1
  <2> QED
    BY <2>1, <2>2 DEF TypeOK
<1>2. ASSUME NEW t \in Threads PROVE CallInv(t) /\ LocalInv(t)
  <2>1. cache[t] = {} /\ lnet[t] = 0 /\ flushed[t] = 0 /\ pc[t] = "idle" /\ then[t] = None
        /\ buf[t] = None
    OBVIOUS
  <2>2. CallInv(t)
    BY <2>1 DEF CallInv, Holding, Returning
  <2>3. LocalInv(t)
    BY <2>1, FS_EmptySet, SMT DEF LocalInv, Uncounted
  <2> QED
    BY <2>2, <2>3
<1>3. QuietInv /\ DestroyedWhole /\ Apart
  BY DEF QuietInv, DestroyedWhole, Apart, Allocating
<1>4. Found /\ BlocksConserved /\ BufcountExact /\ CountInv
  BY DEF Found, BlocksConserved, BufcountExact, CountInv
<1> QED
  BY <1>1, <1>2, <1>3, <1>4 DEF IndInv

LEMMA StepInd == IndInv /\ [Next]_vars => IndInv'
<1> SUFFICES ASSUME IndInv, [Next]_vars PROVE IndInv'
  OBVIOUS
<1>1. CASE UNCHANGED vars
  <2>1. TypeOK' /\ QuietInv' /\ DestroyedWhole'
    BY <1>1 DEF vars, IndInv, TypeOK, QuietInv, DestroyedWhole
  <2>2. \A t \in Threads : CallInv(t)' /\ LocalInv(t)'
    BY <1>1 DEF vars, IndInv, CallInv, LocalInv, Uncounted
  <2>3. Apart' /\ Found'
    BY <1>1 DEF vars, IndInv, Apart, Found
  <2>4. BlocksConserved'
    BY <1>1, SMT DEF vars, IndInv, BlocksConserved
  <2>5. BufcountExact' /\ CountInv'
    BY <1>1 DEF vars, IndInv, BufcountExact, CountInv, Counted, At
  <2> QED
    BY <2>1, <2>2, <2>3, <2>4, <2>5 DEF IndInv
<1>2. CASE Next
  <2>1. PICK t \in Threads : Act(t)
    BY <1>2, NextAct DEF IndInv, TypeOK
  <2>2. \A u \in Threads : CallInv(u)' /\ LocalInv(u)'
    BY <2>1, CallStep, LocalStep
  <2> QED
    BY <2>1, <2>2, TypeStep, QuietStep, DestroyedStep, PlaceStep, BlockStep, CountStep DEF IndInv
<1> QED
  BY <1>1, <1>2

(* The sets of places a buffer is in have one element between them.        *)
LEMMA InOnePlace == IndInv => BufferInOnePlace
<1> SUFFICES ASSUME IndInv, exists, NEW b \in Bufs
             PROVE  Cardinality({p \in {"pool", "app"} : b \in IF p = "pool" THEN freelist ELSE app})
                      + Cardinality({t \in Threads : b \in cache[t]})
                      + Cardinality({t \in Threads : buf[t] = b}) = 1
  BY DEF BufferInOnePlace
<1> DEFINE P == {p \in {"pool", "app"} : b \in IF p = "pool" THEN freelist ELSE app}
           C == {t \in Threads : b \in cache[t]}
           H == {t \in Threads : buf[t] = b}
<1> SUFFICES Cardinality(P) + Cardinality(C) + Cardinality(H) = 1
  OBVIOUS
<1>1. b # None /\ Apart /\ Found
  BY PoolAssumption DEF IndInv
<1>2. Cardinality({}) = 0 /\ \A x : Cardinality({x}) = 1
  BY FS_EmptySet, FS_Singleton
<1>3. CASE b \in freelist
  <2>1. P = {"pool"} /\ C = {} /\ H = {}
    BY <1>1, <1>3, SMT DEF Apart
  <2>2. Cardinality(P) = 1 /\ Cardinality(C) = 0 /\ Cardinality(H) = 0
    BY <1>2, <2>1
  <2> HIDE DEF P, C, H
  <2> QED
    BY <2>2, SMT
<1>4. CASE b \in app
  <2>1. P = {"app"} /\ C = {} /\ H = {}
    BY <1>1, <1>4, SMT DEF Apart
  <2>2. Cardinality(P) = 1 /\ Cardinality(C) = 0 /\ Cardinality(H) = 0
    BY <1>2, <2>1
  <2> HIDE DEF P, C, H
  <2> QED
    BY <2>2, SMT
<1>5. ASSUME NEW t \in Threads, b \in cache[t]
      PROVE  Cardinality(P) + Cardinality(C) + Cardinality(H) = 1
  <2>1. P = {} /\ C = {t} /\ H = {}
    BY <1>1, <1>5, SMT DEF Apart
  <2>2. Cardinality(P) = 0 /\ Cardinality(C) = 1 /\ Cardinality(H) = 0
    BY <1>2, <2>1
  <2> HIDE DEF P, C, H
  <2> QED
    BY <2>2, SMT
<1>6. ASSUME NEW t \in Threads, buf[t] = b
      PROVE  Cardinality(P) + Cardinality(C) + Cardinality(H) = 1
  <2>1. P = {} /\ C = {} /\ H = {t}
    BY <1>1, <1>6, SMT DEF Apart
  <2>2. Cardinality(P) = 0 /\ Cardinality(C) = 0 /\ Cardinality(H) = 1
    BY <1>2, <2>1
  <2> HIDE DEF P, C, H
  <2> QED
    BY <2>2, SMT
<1> QED
  BY <1>1, <1>3, <1>4, <1>5, <1>6 DEF Found

LEMMA Balance == IndInv => StatsBalance
<1> SUFFICES ASSUME IndInv, exists, At({"idle"}) = Threads
             PROVE  /\ net = Cardinality(app \cup UNION {cache[t] : t \in Threads})
                    /\ \A t \in Threads : lnet[t] = -Cardinality(cache[t])
  BY DEF StatsBalance
<1> USE PoolAssumption
<1>1. TypeOK /\ Apart /\ Found /\ \A t \in Threads : pc[t] = "idle"
  BY DEF IndInv, At
<1>2. \A t \in Threads : buf[t] = None /\ then[t] = None /\ flushed[t] = 0 /\ LocalInv(t)
  BY <1>1, ZenonT(40) DEF IndInv, CallInv, Holding, Returning, TypeOK
<1>3. ASSUME NEW t \in Threads PROVE lnet[t] = -Cardinality(cache[t])
  <2>1. Cardinality(cache[t]) \in Nat
    BY <1>1, CacheFinite
  <2> QED
    BY <1>1, <1>2, <2>1, SMT DEF LocalInv, Uncounted
<1>4. app \cup UNION {cache[t] : t \in Threads} = Bufs \ freelist
  BY <1>1, <1>2, SMT DEF Apart, Found, TypeOK
<1>5. At({"dec"}) = {} /\ At({"inc"}) = {}
  BY <1>1 DEF At
<1>6. Counted = Cardinality(freelist) + 0 - 0
  BY <1>5, FS_EmptySet DEF Counted
<1>7. Cardinality(Bufs \ freelist) = Cardinality(Bufs) - Cardinality(freelist)
  <2>1. Bufs \cap freelist = freelist
    BY <1>1 DEF TypeOK
  <2>2. Cardinality(Bufs \ freelist) = Cardinality(Bufs) - Cardinality(Bufs \cap freelist)
    BY FS_Difference
  <2> QED
    BY <2>1, <2>2
<1>8. net = buf_num - Cardinality(freelist)
  BY <1>1, <1>6, CountBounds, SMT DEF IndInv, CountInv
<1> QED
  BY <1>3, <1>4, <1>7, <1>8 DEF buf_num

LEMMA Inductive == Spec => []IndInv
  BY InitInd, StepInd, PTL DEF Spec

(* Nothing of a pool is lost or in two places, and its counters are right, *)
(* whatever the threads do: buffer_alloc, odp_buffer_free, flush_cache and *)
(* odp_pool_destroy conserve the buffers and the blocks, also when blocks  *)
(* run out in the middle of an allocation, and a pool that is destroyed is *)
(* complete although destruction looks at the counter only.                *)
THEOREM PoolIsConserved == Spec => []Conserved
<1>1. IndInv => Conserved
  BY InOnePlace, Balance DEF IndInv, Conserved
<1> QED
  BY <1>1, Inductive, PTL

-----------------------------------------------------------------------------
(* The water marks, when only thread t uses the pool.                      *)

(* Threads that do not use the pool make no calls.                         *)
IdleInv == \A u \in Threads \ users : pc[u] = "idle"

Watched == {"low", "lowset", "high", "highset"}

(* Between the change of the counter and that of the condition the counter *)
(* is at the mark.                                                         *)
Marks(t) ==
  /\ Counted >= 0
  /\ pc[t] \in {"low", "lowset"} => bufcount = low_wm
  /\ pc[t] \in {"high", "highset"} => bufcount = high_wm
  /\ pc[t] \notin Watched =>
       /\ bufcount <= low_wm => low_wm_assert
       /\ low_wm_assert => bufcount < high_wm

WaterInv == \A t \in Threads : exists /\ users = {t} => Marks(t)

LEMMA MarksApart ==
  ASSUME buf_num > 1
  PROVE  low_wm \in Nat /\ high_wm \in Nat /\ low_wm < high_wm /\ high_wm < buf_num
<1>1. buf_num \in Nat
  BY PoolAssumption, FS_CardinalityType DEF buf_num
<1> HIDE DEF buf_num
<1> QED
  BY <1>1, SMT DEF low_wm, high_wm

(* The counter of a pool that one thread uses does not wrap.               *)
LEMMA NoWrap ==
  ASSUME IndInv, NEW t \in Threads, exists, Counted >= 0
  PROVE  bufcount = Counted /\ bufcount \in Nat /\ bufcount < W
<1>1. bufcount = IF Counted < 0 THEN Counted + W ELSE Counted
  BY DEF IndInv, BufcountExact, Counted
<1>2. Counted \in Int /\ bufcount \in 0 .. W - 1
  BY CountBounds, SMT DEF IndInv, TypeOK
<1> QED
  BY <1>1, <1>2, PoolAssumption, SMT

LEMMA MarksStep ==
  ASSUME buf_num > 1, IndInv, IdleInv, NEW t \in Threads, users = {t}, exists => Marks(t), Act(t),
         exists'
  PROVE  Marks(t)'
<1> USE PoolAssumption
<1>1. TypeOK /\ CallInv(t) /\ TypeOK'
  BY TypeStep DEF IndInv
<1>0. t \in DOMAIN pc
  BY <1>1 DEF TypeOK
<1>2. /\ low_wm \in Nat /\ high_wm \in Nat /\ low_wm < high_wm /\ high_wm < buf_num
         /\ buf_num \in Nat
      /\ low_wm' = low_wm /\ high_wm' = high_wm
  BY <1>1, MarksApart, CountBounds DEF low_wm, high_wm, buf_num
<1> HIDE DEF buf_num, low_wm, high_wm
<1>3. CASE Create(t)
  <2>1. Counted' = buf_num /\ bufcount' = buf_num /\ low_wm_assert' = FALSE /\ pc'[t] = "idle"
    BY <1>3, CreateCount DEF Create, Fresh
  <2> QED
    BY <1>2, <2>1, SMT DEF Marks, Watched
<1>4. CASE ~Create(t)
  <2>1. exists
    <3>1. CASE ~exists
      BY <1>4, <3>1, GoneSteps DEF TermLocal, HighSeen, HighSet, FlushEnd, shared
    <3> QED
      BY <3>1
  <2>2. Marks(t) /\ bufcount = Counted /\ bufcount \in Nat /\ bufcount < W
    BY <2>1, NoWrap DEF Marks
  <2>3. CASE Dec(t)
    <3>1. Counted > 0
      <4>1. At({"dec"}) = {t} /\ At({"inc"}) = {}
        BY <2>3 DEF Dec, At, IdleInv
      <4>2. Counted = Cardinality(freelist) + 1 - 0
        BY <4>1, FS_EmptySet, FS_Singleton DEF Counted
      <4> QED
        BY <1>1, <4>2, CountBounds, SMT
    <3>2. bufcount' = bufcount - 1 /\ Counted' = Counted - 1
      <4>1. Counted' = Counted - 1
        BY <1>4, <2>3, CountedStep DEF Dec, Inc
      <4>2. bufcount' = Minus1(bufcount)
        BY <2>3 DEF Dec
      <4> QED
        BY <2>2, <3>1, <4>1, <4>2, SMT DEF Minus1
    <3>3. low_wm_assert' = low_wm_assert /\ pc[t] \notin Watched
      BY <2>3 DEF Dec, Watched
    <3>4. IF bufcount' = low_wm THEN pc'[t] = "low" ELSE pc'[t] \in {"blk", "idle"}
      BY <1>0, <2>3 DEF Dec, Goto, GotBuf, Deliver
    <3> QED
      BY <1>2, <2>2, <3>1, <3>2, <3>3, <3>4, SMT DEF Marks, Watched
  <2>4. CASE LowSeen(t)
    <3>1. UNCHANGED <<bufcount, low_wm_assert>> /\ pc[t] = "low"
      BY <2>4 DEF LowSeen
    <3>2. IF low_wm_assert THEN pc'[t] \in {"blk", "idle"} ELSE pc'[t] = "lowset"
      BY <1>0, <2>4 DEF LowSeen, Goto, GotBuf, Deliver
    <3>3. Counted' = Counted
      BY <1>4, <3>1, CountedStep DEF Dec, Inc
    <3> QED
      BY <1>2, <2>2, <3>1, <3>2, <3>3, SMT DEF Marks, Watched
  <2>5. CASE LowSet(t)
    <3>1. bufcount' = bufcount /\ low_wm_assert' = TRUE /\ pc[t] = "lowset"
      BY <2>5 DEF LowSet
    <3>2. pc'[t] \in {"blk", "idle"}
      BY <1>0, <2>5 DEF LowSet, GotBuf, Deliver
    <3>3. Counted' = Counted
      BY <1>4, <3>1, CountedStep DEF Dec, Inc
    <3> QED
      BY <1>2, <2>2, <3>1, <3>2, <3>3, SMT DEF Marks, Watched
  <2>6. ASSUME pc[t] \in Returning, Resume(t) PROVE pc'[t] \in {"get", "idle", "flush"}
    <3>1. then[t] \in {"idle", "retry", "flush"}
      BY <1>1, <2>6 DEF CallInv, TypeOK
    <3> QED
      BY <1>0, <2>6, <3>1 DEF Resume
  <2>7. CASE Inc(t)
    <3>1. Counted' = Counted + 1
      BY <1>4, <2>7, CountedStep DEF Dec, Inc
    <3>2. bufcount' = bufcount + 1
      <4>1. Counted + 1 < W
        BY <1>1, <2>7, CountRoom DEF Inc
      <4>2. bufcount' = Plus1(bufcount)
        BY <2>7 DEF Inc
      <4> QED
        BY <2>2, <3>1, <4>1, <4>2, SMT DEF Plus1
    <3>3. low_wm_assert' = low_wm_assert /\ pc[t] \notin Watched
      BY <2>7 DEF Inc, Watched
    <3>4. IF bufcount' = high_wm THEN pc'[t] = "high" ELSE pc'[t] \in {"get", "idle", "flush"}
      BY <1>0, <2>6, <2>7 DEF Inc, Goto, Returning
    <3> QED
      BY <1>2, <2>2, <3>1, <3>2, <3>3, <3>4, SMT DEF Marks, Watched
  <2>8. CASE HighSeen(t)
    <3>1. UNCHANGED <<bufcount, low_wm_assert>> /\ pc[t] = "high"
      BY <2>8 DEF HighSeen, shared
    <3>2. IF low_wm_assert THEN pc'[t] = "highset" ELSE pc'[t] \in {"get", "idle", "flush"}
      BY <1>0, <2>6, <2>8 DEF HighSeen, Goto, Returning
    <3>3. Counted' = Counted
      BY <1>4, <3>1, CountedStep DEF Dec, Inc
    <3> QED
      BY <1>2, <2>2, <3>1, <3>2, <3>3, SMT DEF Marks, Watched
  <2>9. CASE HighSet(t)
    <3>1. bufcount' = bufcount /\ low_wm_assert' = FALSE /\ pc[t] = "highset"
      BY <2>9 DEF HighSet
    <3>2. pc'[t] \in {"get", "idle", "flush"}
      BY <2>6, <2>9 DEF HighSet, Returning
    <3>3. Counted' = Counted
      BY <1>4, <3>1, CountedStep DEF Dec, Inc
    <3> QED
      BY <1>2, <2>2, <3>1, <3>2, <3>3, SMT DEF Marks, Watched
  <2>10. ASSUME ~Dec(t), ~Inc(t), UNCHANGED <<bufcount, low_wm_assert>>, pc[t] \notin Watched,
                pc'[t] \notin Watched
         PROVE  Marks(t)'
    <3>1. Counted' = Counted
      BY <1>4, <2>10, CountedStep
    <3> QED
      BY <1>2, <2>2, <2>10, <3>1 DEF Marks, Watched
  <2>11. CASE Destroy(t) \/ TermLocal(t)
    <3>1. pc[t] = "idle" /\ pc'[t] = "flush" /\ UNCHANGED <<bufcount, low_wm_assert>>
      BY <1>0, <2>11 DEF Destroy, TermLocal, Goto, shared
    <3> QED
      BY <2>10, <3>1 DEF Watched, Dec, Inc
  <2>12. ASSUME NEW k, AllocCached(t, k) \/ AllocStart(t, k) PROVE Marks(t)'
    <3>1. pc[t] = "idle" /\ pc'[t] \in {"idle", "lblk", "get"}
          /\ UNCHANGED <<bufcount, low_wm_assert>>
      BY <1>0, <2>12 DEF AllocCached, AllocStart, Deliver, Goto, shared
    <3> QED
      BY <2>10, <3>1 DEF Watched, Dec, Inc
  <2>13. ASSUME NEW b \in Bufs, Free(t, b) PROVE Marks(t)'
    <3>1. pc[t] = "idle" /\ pc'[t] \in {"idle", "ret"} /\ UNCHANGED <<bufcount, low_wm_assert>>
      BY <1>0, <2>13 DEF Free, Goto
    <3> QED
      BY <2>10, <3>1 DEF Watched, Dec, Inc
  <2>14. CASE GetBuf(t) \/ GetBufEmpty(t)
    <3>1. pc[t] = "get" /\ pc'[t] \in {"dec", "idle"} /\ UNCHANGED <<bufcount, low_wm_assert>>
      BY <1>0, <2>14 DEF GetBuf, GetBufEmpty, Goto, shared
    <3> QED
      BY <2>10, <3>1 DEF Watched, Dec, Inc
  <2>15. CASE GetBlk(t)
    <3>1. pc[t] \in {"blk", "lblk"} /\ pc'[t] \in {"blk", "lblk", "idle"}
          /\ UNCHANGED <<bufcount, low_wm_assert>>
      BY <1>0, <2>15 DEF GetBlk, Deliver
    <3> QED
      BY <2>10, <3>1 DEF Watched, Dec, Inc
  <2>16. CASE BlkEmpty(t) \/ RetBlk(t) \/ RetPush(t)
    <3>1. pc[t] \in {"blk", "lblk", "ret"} /\ pc'[t] \in {"ret", "inc"}
          /\ UNCHANGED <<bufcount, low_wm_assert>>
      BY <1>0, <2>16 DEF BlkEmpty, RetBlk, RetPush, Goto, shared
    <3> QED
      BY <2>10, <3>1 DEF Watched, Dec, Inc
  <2>17. CASE FlushOne(t) \/ FlushEnd(t) \/ DestroyEnd(t)
    <3>1. /\ pc[t] \in {"flush", "destroy"} /\ pc'[t] \in {"ret", "destroy", "idle"}
          /\ UNCHANGED <<bufcount, low_wm_assert>>
      BY <1>0, <2>17 DEF FlushOne, FlushEnd, DestroyEnd, Goto, shared
    <3> QED
      BY <2>10, <3>1 DEF Watched, Dec, Inc
  <2> QED
    BY <1>4, <2>3, <2>4, <2>5, <2>7, <2>8, <2>9, <2>11, <2>12, <2>13, <2>14, <2>15, <2>16, <2>17
    DEF Act, Step
<1> QED
  BY <1>3, <1>4

LEMMA WaterStep ==
  ASSUME buf_num > 1, IndInv, IdleInv, WaterInv, [Next]_vars
  PROVE  IdleInv' /\ WaterInv'
<1>1. CASE UNCHANGED vars
  BY <1>1 DEF vars, IdleInv, WaterInv, Marks, Counted, At, low_wm, high_wm, buf_num
<1>2. CASE Next
  <2>1. PICK t \in users : Act(t)
    BY <1>2 DEF Next, Act
  <2>2. t \in Threads /\ TypeOK
    BY <2>1 DEF IndInv, TypeOK
  <2>3. users' = users
    BY <2>1 DEF Act, Step, Create, Destroy, TermLocal, AllocCached, AllocStart, Free, GetBuf, GetBufEmpty,
       Dec, LowSeen, LowSet, GetBlk, BlkEmpty, RetBlk, RetPush, Inc, HighSeen, HighSet,
       FlushOne, FlushEnd, DestroyEnd, shared
  <2>4. IdleInv'
    <3>1. \A u \in Threads \ {t} : pc'[u] = pc[u]
      BY <2>1, <2>2, OthersStay DEF Own
    <3> QED
      BY <2>1, <2>3, <3>1 DEF IdleInv
  <2>5. ASSUME NEW u \in Threads, exists', users = {u} PROVE Marks(u)'
    <3>1. u = t
      BY <2>1, <2>5
    <3> QED
      BY <2>1, <2>5, <3>1, MarksStep DEF WaterInv
  <2> QED
    BY <2>3, <2>4, <2>5 DEF WaterInv
<1> QED
  BY <1>1, <1>2

(* With one thread the low water condition is a hysteresis, whatever the   *)
(* size of the pool, if it has two buffers: get_buf sets it when the       *)
(* counter comes down to low_wm, ret_buf clears it at high_wm, and none of *)
(* the ways in and out of the cache makes them miss a mark.  The marks of  *)
(* a pool of one buffer are both 0, which a free never brings it back to.  *)
THEOREM LowWaterIsHysteresis ==
  ASSUME buf_num > 1
  PROVE  Spec => []Hysteresis
<1>1. Init => IdleInv /\ WaterInv
  BY DEF Init, IdleInv, WaterInv
<1>2. IndInv /\ IdleInv /\ WaterInv /\ [Next]_vars => IdleInv' /\ WaterInv'
  BY WaterStep
<1>3. IndInv /\ WaterInv => Hysteresis
  <2> SUFFICES ASSUME IndInv, WaterInv, exists, Cardinality(users) = 1, At({"idle"}) = Threads
               PROVE  /\ bufcount <= low_wm => low_wm_assert
                      /\ low_wm_assert => bufcount < high_wm
    BY DEF Hysteresis
  <2>1. users \in SUBSET Threads
    BY DEF IndInv, TypeOK
  <2>2. IsFiniteSet(users)
    BY <2>1, PoolAssumption, FS_Subset
  <2>3. PICK t : users = {t}
    BY <2>2, FS_Singleton
  <2>4. t \in Threads /\ pc[t] = "idle"
    BY <2>1, <2>3 DEF At
  <2> QED
    BY <2>3, <2>4 DEF WaterInv, Marks, Watched
<1> QED
  BY <1>1, <1>2, <1>3, Inductive, PTL DEF Spec
=============================================================================
