----------------------------- MODULE RingProofs -----------------------------
(***************************************************************************)
(* The ring keeps the claims of its calls and is a bounded queue, given    *)
(* that a call loads its own head before the other side's tail.            *)
(***************************************************************************)
EXTENDS Ring, TLAPS

(* Zenon proves what does not name SMT.                                    *)
USE Zenon

HeadFirst == Orders = {"head_first"}

-----------------------------------------------------------------------------
(* Arithmetic of indices that wrap.                                        *)
LEMMA Sizes ==
  /\ Size \in Nat \ {0} /\ W \in Nat \ {0} /\ 2 * Size <= W
  /\ Mask \in Nat /\ Mask + 1 = Size /\ MaxBurst \in 1 .. Size
BY SizeAssumption, SMT DEF Mask

LEMMA IndexType ==
  ASSUME NEW a \in Index, NEW b \in Index
  PROVE  Plus(a, b) \in Index /\ Minus(a, b) \in Index
BY Sizes, SMT DEF Plus, Minus, Index

(* An index that moves on by k is k further from any other...              *)
LEMMA MoveOn ==
  ASSUME NEW a \in Index, NEW c \in Index, NEW k \in Index, Minus(a, c) + k < W
  PROVE  Minus(Plus(a, k), c) = Minus(a, c) + k
BY Sizes, SMT DEF Plus, Minus, Index

(* ... and k nearer to one that was ahead of it by as much.                *)
LEMMA CatchUp ==
  ASSUME NEW a \in Index, NEW c \in Index, NEW k \in Index, k <= Minus(a, c)
  PROVE  Minus(a, Plus(c, k)) = Minus(a, c) - k
BY Sizes, SMT DEF Plus, Minus, Index

(* Distances from a third index subtract.                                  *)
LEMMA Between ==
  ASSUME NEW a \in Index, NEW b \in Index, NEW c \in Index, Minus(b, c) <= Minus(a, c)
  PROVE  Minus(a, b) = Minus(a, c) - Minus(b, c)
BY Sizes, SMT DEF Minus, Index

LEMMA SamePlace ==
  ASSUME NEW a \in Index, NEW b \in Index, NEW c \in Index
  PROVE  (Minus(a, c) = Minus(b, c) <=> a = b) /\ (Minus(a, b) = 0 <=> a = b)
BY Sizes, SMT DEF Minus, Index

LEMMA Adds ==
  ASSUME NEW a \in Index, NEW j \in Nat, NEW k \in Nat, j + k < W
  PROVE  Plus(Plus(a, j), k) = Plus(a, j + k)
BY Sizes, SMT DEF Plus, Index

(* The consumers' tail and head, the producers' tail and head: one after   *)
(* the other, and less than the ring in all.  Each may move on as far as   *)
(* the next, the last one as far as there is room.                         *)
Ordered(tc, hc, tp, hp) ==
  Minus(hc, tc) <= Minus(tp, tc) /\ Minus(tp, tc) <= Minus(hp, tc) /\ Minus(hp, tc) <= Mask

LEMMA ProducersClaim ==
  ASSUME NEW tc \in Index, NEW hc \in Index, NEW tp \in Index, NEW hp \in Index,
         Ordered(tc, hc, tp, hp), NEW k \in Nat, k <= Mask - Minus(hp, tc)
  PROVE  /\ Ordered(tc, hc, tp, Plus(hp, k)) /\ Minus(Plus(hp, k), tp) = Minus(hp, tp) + k
         /\ Minus(Plus(hp, k), tc) = Minus(hp, tc) + k
BY Sizes, SMT DEF Ordered, Plus, Minus, Index

LEMMA ConsumersClaim ==
  ASSUME NEW tc \in Index, NEW hc \in Index, NEW tp \in Index, NEW hp \in Index,
         Ordered(tc, hc, tp, hp), NEW k \in Nat, k <= Minus(tp, hc)
  PROVE  /\ Ordered(tc, Plus(hc, k), tp, hp) /\ Minus(Plus(hc, k), tc) = Minus(hc, tc) + k
         /\ Minus(tp, Plus(hc, k)) = Minus(tp, hc) - k
BY Sizes, SMT DEF Ordered, Plus, Minus, Index

LEMMA ProducersPublish ==
  ASSUME NEW tc \in Index, NEW hc \in Index, NEW tp \in Index, NEW hp \in Index,
         Ordered(tc, hc, tp, hp), NEW k \in Nat, k <= Minus(hp, tp)
  PROVE  /\ Ordered(tc, hc, Plus(tp, k), hp) /\ Minus(hp, Plus(tp, k)) = Minus(hp, tp) - k
         /\ Minus(Plus(tp, k), hc) = Minus(tp, hc) + k
BY Sizes, SMT DEF Ordered, Plus, Minus, Index

LEMMA ConsumersPublish ==
  ASSUME NEW tc \in Index, NEW hc \in Index, NEW tp \in Index, NEW hp \in Index,
         Ordered(tc, hc, tp, hp), NEW k \in Nat, k <= Minus(hc, tc)
  PROVE  /\ Ordered(Plus(tc, k), hc, tp, hp) /\ Minus(hc, Plus(tc, k)) = Minus(hc, tc) - k
         /\ Minus(hp, Plus(tc, k)) = Minus(hp, tc) - k
BY Sizes, SMT DEF Ordered, Plus, Minus, Index

(* The j-th entry of a producer's claim, seen from the consumers' tail.    *)
LEMMA ClaimedAt ==
  ASSUME NEW tc \in Index, NEW tp \in Index, NEW hp \in Index, NEW a \in Index,
         Minus(tp, tc) <= Minus(hp, tc), Minus(hp, tc) <= Mask,
         NEW j \in Nat, Minus(a, tp) + j < Minus(hp, tp)
  PROVE  /\ Minus(Plus(a, j), tc) = Minus(tp, tc) + Minus(a, tp) + j
         /\ Minus(Plus(a, j), tc) < Size
BY Sizes, SMT DEF Plus, Minus, Index

(* The mask tells apart any indices less than Size apart.                  *)
LEMMA EntryType == \A a \in Index : Entry(a) \in 0 .. Mask
BY Sizes, SMT DEF Entry, Index

LEMMA Divides ==
  ASSUME NEW a \in Nat
  PROVE  a = Size * (a \div Size) + (a % Size) /\ a \div Size \in Int
BY Sizes, SMT

LEMMA OnlyZero ==
  ASSUME NEW k \in Int, Size * k \in 0 .. Size - 1
  PROVE  k = 0
BY Sizes, SMT

LEMMA EntryNear ==
  ASSUME NEW a \in Index, NEW b \in Index, Minus(b, a) < Size, Entry(a) = Entry(b)
  PROVE  a = b
<1> DEFINE p == a \div Size
           q == b \div Size
           m == W \div Size
           ap == Size * p
           bq == Size * q
           wm == Size * m
<1>1. a \in Nat /\ b \in Nat /\ W \in Nat
  BY Sizes, SMT DEF Index
<1>2. /\ p \in Int /\ q \in Int /\ m \in Int
      /\ a = ap + Entry(a) /\ b = bq + Entry(b) /\ W = wm
  BY <1>1, Divides, SizeAssumption, SMT DEF Entry
<1> HIDE DEF p, q, m
<1>3. ap \in Int /\ bq \in Int /\ wm \in Int /\ Entry(a) \in Int
  BY <1>2, EntryType, Sizes, SMT
<1>4. Size * (q - p) = bq - ap /\ Size * (q - p + m) = bq - ap + wm
  BY <1>2, Sizes, SMT
<1> HIDE DEF ap, bq, wm
<1>5. Minus(b, a) \in Nat /\ (Minus(b, a) = bq - ap \/ Minus(b, a) = bq - ap + wm)
  <2>1. b - a = bq - ap
    BY <1>2, <1>3, SMT
  <2>2. Minus(b, a) = b - a \/ Minus(b, a) = (b - a) + W
    BY <1>1 DEF Minus
  <2> QED
    BY <1>2, <2>1, <2>2, IndexType, SMT DEF Index
<1>6. \E k \in Int : Size * k = Minus(b, a)
  BY <1>2, <1>4, <1>5, SMT
<1>7. Minus(b, a) = 0
  BY <1>5, <1>6, OnlyZero, Sizes, SMT
<1> QED
  BY <1>7, SamePlace

LEMMA EntryDistinct ==
  ASSUME NEW a \in Index, NEW b \in Index, NEW c \in Index,
         Minus(a, c) < Size, Minus(b, c) < Size, Entry(a) = Entry(b)
  PROVE  a = b
<1>1. CASE Minus(a, c) <= Minus(b, c)
  BY <1>1, Between, EntryNear, IndexType, Sizes, SMT DEF Index
<1>2. CASE Minus(b, c) <= Minus(a, c)
  BY <1>2, Between, EntryNear, IndexType, Sizes, SMT DEF Index
<1> QED
  BY <1>1, <1>2, IndexType, Sizes, SMT DEF Index

-----------------------------------------------------------------------------
(* The inductive invariant.                                                *)

(* From the consumers' tail on: what consumers have claimed, what they may *)
(* claim, what producers have claimed; less than the ring in all.          *)
Order == Ordered(tail["cons"], head["cons"], tail["prod"], head["prod"])

(* What there is for a side to claim.                                      *)
Avail(s) ==
  IF s = "prod" THEN Mask - Minus(head["prod"], tail["cons"])
                ELSE Minus(tail["prod"], head["cons"])

(* A call that may still move the head sees no more room than there is.    *)
CallInv ==
  \A t \in Threads :
    /\ pc[t] # "load" => h[t] \in Index /\ n[t] > 0
    /\ pc[t] = "load" /\ o[t] # None => h[t] # None
    /\ Loaded(t) /\ head[Side(t)] = h[t] => Room(t) <= Avail(Side(t))
    /\ Side(t) \in single /\ Calling(t) =>
         /\ \A u \in Threads \ {t} : Side(u) = Side(t) => ~Calling(u)
         /\ pc[t] = "load" => h[t] = head[Side(t)]

First(t) == Minus(h[t], tail[Side(t)])

(* The claims of a side tile what lies between its tail and its head.      *)
Tiling ==
  \A s \in Sides :
    /\ \A t \in InProgress(s) : First(t) + n[t] <= Minus(head[s], tail[s])
    /\ \A t, u \in InProgress(s) :
         t = u \/ First(t) + n[t] <= First(u) \/ First(u) + n[u] <= First(t)
    /\ \A j \in Index : j < Minus(head[s], tail[s]) => \E t \in InProgress(s) : Owns(t, j)

DueInv == \A t \in Consumers : pc[t] = "copy" => Entries(h[t], n[t]) = due[t]

IndInv == TypeOK /\ Order /\ CallInv /\ Tiling /\ DueInv

-----------------------------------------------------------------------------
(* A thread is on one side; the other side is another one.                 *)
LEMMA TwoSides ==
  /\ Other("prod") = "cons" /\ Other("cons") = "prod" /\ Sides = {"prod", "cons"}
  /\ \A t \in Threads : Side(t) \in Sides
  /\ \A t \in Consumers : t \in Threads /\ Side(t) = "cons"
  /\ None \notin Index
BY SidesAssumption, Sizes, SMT DEF Other, Sides, Side, Threads, Index

LEMMA RoomType ==
  ASSUME TypeOK, NEW t \in Threads, Loaded(t)
  PROVE  Room(t) \in Index /\ h[t] \in Index /\ o[t] \in Index
<1>1. h[t] \in Index /\ o[t] \in Index /\ Mask \in Index
  BY Sizes, SMT DEF TypeOK, Loaded, Index
<1> QED
  BY <1>1, IndexType DEF Room

LEMMA AvailType == ASSUME TypeOK, NEW s \in Sides PROVE Avail(s) \in Int
<1>1. /\ Minus(head["prod"], tail["cons"]) \in Index
      /\ Minus(tail["prod"], head["cons"]) \in Index
  BY IndexType DEF TypeOK, Sides
<1> QED
  BY <1>1, Sizes, SMT DEF Avail, Index

LEMMA InitInd == Init => IndInv
<1> SUFFICES ASSUME Init PROVE IndInv
  BY SMT
<1>1. TypeOK
  BY Sizes, SidesAssumption, SMT DEF Init, TypeOK, Index
<1>2. Minus(0, 0) = 0
  BY Sizes, SMT DEF Minus
<1>3. Order /\ CallInv /\ DueInv
  BY <1>2, Sizes, TwoSides, SMT DEF Init, Order, Ordered, CallInv, DueInv, Loaded, Calling, Sides
<1>4. Tiling
  BY <1>2, Sizes, TwoSides, SMT DEF Init, Tiling, InProgress, Index
<1> QED
  BY <1>1, <1>3, <1>4 DEF IndInv

(* Steps that move no index and touch no call in progress.                 *)
LEMMA LocalStep ==
  ASSUME IndInv, UNCHANGED <<head, tail, ring>>, pc' = pc,
         \A t \in Threads : pc[t] # "load" => UNCHANGED <<h[t], n[t], due[t]>>
  PROVE  Order' /\ Tiling' /\ DueInv'
<1>1. Order'
  BY DEF IndInv, Order, Ordered
<1>2. /\ \A s \in Sides : InProgress(s)' = InProgress(s)
      /\ \A s \in Sides : \A t \in InProgress(s) :
           First(t)' = First(t) /\ n'[t] = n[t] /\ \A j \in Index : Owns(t, j)' = Owns(t, j)
  BY DEF InProgress, First, Owns
<1>3. Tiling'
  BY <1>2, SMT DEF IndInv, Tiling
<1>4. DueInv'
  BY TwoSides DEF IndInv, DueInv, Entries
<1> QED
  BY <1>1, <1>3, <1>4

(* Loading the head, then the other side's tail: right after the second    *)
(* load, if the head has not moved, the room computed is what there is.    *)
LEMMA LoadStep ==
  ASSUME HeadFirst, IndInv, NEW t \in Threads, LoadHead(t) \/ LoadTail(t)
  PROVE  IndInv'
<1>0. head[Side(t)] \in Index /\ tail[Other(Side(t))] \in Index /\ head[Side(t)] # None
  BY TwoSides, SMT DEF IndInv, TypeOK
<1>1. TypeOK'
  BY <1>0 DEF IndInv, TypeOK, LoadHead, LoadTail
<1>2. Order' /\ Tiling' /\ DueInv'
  <2>1. \A u \in Threads : pc[u] # "load" => UNCHANGED <<h[u], n[u], due[u]>>
    BY DEF LoadHead, LoadTail, IndInv, TypeOK
  <2> QED
    BY <2>1, LocalStep DEF LoadHead, LoadTail
<1>3. CASE LoadHead(t)
  <2>1. /\ pc[t] = "load" /\ o[t] = None /\ Uses(t) /\ h' = [h EXCEPT ![t] = head[Side(t)]]
        /\ UNCHANGED <<head, tail, pc, o, n, single>>
    BY <1>3 DEF LoadHead, IndInv, CallInv
  <2>3. \A u \in Threads : u # t => h'[u] = h[u]
    BY <2>1 DEF IndInv, TypeOK
  <2>4. h'[t] = head[Side(t)]
    BY <2>1 DEF IndInv, TypeOK
  <2>5. CallInv'
    BY <1>0, <2>1, <2>3, <2>4, SMT DEF IndInv, CallInv, Loaded, Room, Avail, Calling, Uses
  <2> QED
    BY <1>1, <1>2, <2>5 DEF IndInv
<1>4. CASE LoadTail(t)
  <2>1. /\ pc[t] = "load" /\ h[t] # None /\ Uses(t)
        /\ o' = [o EXCEPT ![t] = tail[Other(Side(t))]]
        /\ UNCHANGED <<head, tail, pc, h, n, single>>
    BY <1>4 DEF LoadTail, HeadFirst
  <2>2. /\ \A u \in Threads : u # t => o'[u] = o[u]
        /\ o'[t] = tail[Other(Side(t))]
    BY <2>1 DEF IndInv, TypeOK
  <2>3. head[Side(t)] = h[t] => Room(t)' = Avail(Side(t))
    <3>1. Side(t) = "prod" \/ Side(t) = "cons"
      BY DEF Side
    <3>2. Minus(Plus(Mask, tail["cons"]), head["prod"]) = Mask - Minus(head["prod"], tail["cons"])
      <4>1. tail["cons"] \in Index /\ head["prod"] \in Index /\ Mask \in Index
        BY Sizes, SMT DEF IndInv, TypeOK, Index, Sides
      <4>2. Minus(head["prod"], tail["cons"]) <= Mask
        BY DEF IndInv, Order, Ordered
      <4> QED
        BY <4>1, <4>2, Sizes, SMT DEF Minus, Plus, Index
    <3> QED
      BY <2>1, <2>2, <3>1, <3>2, TwoSides, SMT DEF Room, Avail
  <2>4. /\ \A u \in Threads : Calling(u)' <=> Calling(u)
        /\ \A u \in Threads : u # t => Loaded(u)' = Loaded(u) /\ Room(u)' = Room(u)
        /\ \A s \in Sides : Avail(s)' = Avail(s)
    BY <2>1, <2>2, SMT DEF Calling, Loaded, Room, Avail
  <2>5. CallInv'
    BY <2>1, <2>2, <2>3, <2>4, TwoSides, AvailType, SMT DEF IndInv, CallInv
  <2> QED
    BY <1>1, <1>2, <2>5, SMT DEF IndInv
<1> QED
  BY <1>3, <1>4

(* A call that returns forgets its locals.                                 *)
LEMMA ReturnType ==
  ASSUME TypeOK, NEW t \in Threads, Return(t), UNCHANGED <<ring, watermark, single>>,
         head' \in [Sides -> Index], tail' \in [Sides -> Index]
  PROVE  TypeOK'
<1>1. 0 \in 0 .. MaxBurst /\ <<>> \in Seq(Values)
  BY Sizes, SMT
<1> QED
  BY <1>1 DEF TypeOK, Return

(* A call that is refused ends, one that lost its compare-and-exchange     *)
(* starts over; the water mark is nobody's business but the caller's.      *)
LEMMA BackStep ==
  ASSUME IndInv, NEW t \in Threads, Refuse(t) \/ Retry(t)
  PROVE  IndInv'
<1>1. /\ pc[t] = "load" /\ pc' = pc /\ UNCHANGED <<head, tail, ring, single>>
      /\ h' = [h EXCEPT ![t] = None] /\ o' = [o EXCEPT ![t] = None]
  BY SMT DEF Refuse, Retry, Loaded, Return, IndInv, TypeOK
<1>2. TypeOK'
  <2>1. CASE Refuse(t)
    <3>1. head' \in [Sides -> Index] /\ tail' \in [Sides -> Index] /\ TypeOK
      BY <1>1 DEF IndInv, TypeOK
    <3> QED
      BY <2>1, <3>1, ReturnType DEF Refuse
  <2>2. CASE Retry(t)
    BY <2>2 DEF IndInv, TypeOK, Retry
  <2> QED
    BY <2>1, <2>2
<1>3. \A u \in Threads : u # t => UNCHANGED <<h[u], o[u], n[u], due[u]>>
  BY DEF Refuse, Retry, Return, IndInv, TypeOK
<1>4. Order' /\ Tiling' /\ DueInv'
  BY <1>1, <1>3, LocalStep
<1>5. /\ \A u \in Threads : u # t => /\ Calling(u)' <=> Calling(u)
                                     /\ Loaded(u)' = Loaded(u) /\ Room(u)' = Room(u)
      /\ \A s \in Sides : Avail(s)' = Avail(s)
      /\ ~Calling(t)' /\ ~Loaded(t)' /\ o'[t] = None
  BY <1>1, <1>3 DEF Calling, Loaded, Room, Avail, IndInv, TypeOK
<1>6. CallInv'
  BY <1>1, <1>3, <1>5, TwoSides, SMT DEF IndInv, CallInv
<1> QED
  BY <1>2, <1>4, <1>6 DEF IndInv

(* What a call is granted is no more than it asked for and than there is.  *)
LEMMA GrantBound ==
  ASSUME TypeOK, NEW t \in Threads, Loaded(t), NEW k \in Grants(t) \ {0}
  PROVE  k \in 1 .. MaxBurst /\ k <= Room(t) /\ k \in Index
BY RoomType, Sizes, SMT DEF Grants, Granted, Index

(* A call moves its side's head over k entries that are there to claim: it *)
(* claims what no other call has, and a call that has loaded the head will *)
(* see that it moved.                                                      *)
LEMMA ReserveStep ==
  ASSUME IndInv, NEW t \in Threads, Loaded(t), NEW k \in Grants(t) \ {0}, Reserve(t, k)
  PROVE  IndInv'
<1> DEFINE s == Side(t)
<1>1. /\ k \in 1 .. MaxBurst /\ k <= Avail(s) /\ k \in Index /\ s \in Sides
      /\ h[t] \in Index /\ head[s] = h[t] /\ Room(t) \in Index
  <2>1. head[s] = h[t]
    BY TwoSides DEF Reserve, Moved, IndInv, CallInv, Loaded, Calling
  <2>2. Room(t) <= Avail(s)
    BY <2>1 DEF IndInv, CallInv
  <2> QED
    BY <2>1, <2>2, GrantBound, RoomType, AvailType, TwoSides, SMT DEF IndInv, Index
<1>2. /\ UNCHANGED <<tail, ring, single, h>>
      /\ \A u \in Threads : u # t => UNCHANGED <<pc[u], n[u], o[u], due[u]>>
      /\ pc'[t] = "copy" /\ n'[t] = k /\ pc[t] = "load"
      /\ \A r \in Sides : r # s => head'[r] = head[r]
      /\ head'[s] = Plus(head[s], k)
  BY <1>1 DEF Reserve, Loaded, IndInv, TypeOK
<1>3. TypeOK'
  <2>1. Plus(head[s], k) \in Index
    BY <1>1, IndexType
  <2>2. Entries(h[t], k) \in Seq(Values)
    <3>1. \A i \in 1 .. k : ring[Entry(Plus(h[t], i - 1))] \in Values
      <4>1. TAKE i \in 1 .. k
      <4>2. i - 1 \in Index
        BY <1>1, <4>1, Sizes, SMT DEF Index
      <4> QED
        BY <1>1, <4>2, IndexType, EntryType DEF IndInv, TypeOK
    <3> QED
      BY <1>1, <3>1, SMT DEF Entries
  <2> QED
    BY <1>1, <2>1, <2>2, SMT DEF Reserve, IndInv, TypeOK
<1>4. /\ Minus(head'[s], tail[s]) = Minus(head[s], tail[s]) + k
      /\ Order'
  <2>1. /\ head["prod"] \in Index /\ head["cons"] \in Index
        /\ tail["prod"] \in Index /\ tail["cons"] \in Index
    BY DEF IndInv, TypeOK, Sides
  <2>2. Ordered(tail["cons"], head["cons"], tail["prod"], head["prod"]) /\ k \in Nat
    BY <1>1, SMT DEF IndInv, Order
  <2>3. CASE s = "prod"
    <3>1. k <= Mask - Minus(head["prod"], tail["cons"])
      BY <1>1, <2>3 DEF Avail
    <3>2. head'["prod"] = Plus(head["prod"], k) /\ head'["cons"] = head["cons"] /\ tail' = tail
      BY <1>2, <2>3, TwoSides
    <3>3. /\ Ordered(tail["cons"], head["cons"], tail["prod"], Plus(head["prod"], k))
          /\ Minus(Plus(head["prod"], k), tail["prod"]) = Minus(head["prod"], tail["prod"]) + k
      BY <2>1, <2>2, <3>1, ProducersClaim, SMT
    <3> QED
      BY <2>3, <3>2, <3>3 DEF Order, Ordered
  <2>4. CASE s = "cons"
    <3>1. k <= Minus(tail["prod"], head["cons"])
      BY <1>1, <2>4 DEF Avail
    <3>2. head'["cons"] = Plus(head["cons"], k) /\ head'["prod"] = head["prod"] /\ tail' = tail
      BY <1>2, <2>4, TwoSides
    <3>3. /\ Ordered(tail["cons"], Plus(head["cons"], k), tail["prod"], head["prod"])
          /\ Minus(Plus(head["cons"], k), tail["cons"]) = Minus(head["cons"], tail["cons"]) + k
      BY <2>1, <2>2, <3>1, ConsumersClaim, SMT
    <3> QED
      BY <2>4, <3>2, <3>3 DEF Order, Ordered
  <2> QED
    BY <2>3, <2>4, <1>1, TwoSides
<1>5. Tiling'
  <2>1. /\ InProgress(s)' = InProgress(s) \cup {t} /\ t \notin InProgress(s)
        /\ \A r \in Sides : r # s => InProgress(r)' = InProgress(r) /\ t \notin InProgress(r)
    BY <1>2 DEF InProgress
  <2>2. /\ \A u \in Threads : First(u)' = First(u) /\ (u # t => n'[u] = n[u])
        /\ \A u \in Threads, j \in Index : u # t => Owns(u, j)' = Owns(u, j)
    BY <1>2 DEF First, Owns
  <2>3. /\ First(t) = Minus(head[s], tail[s]) /\ First(t) \in Index
        /\ \A u \in InProgress(s) : First(u) \in Index
    BY <1>1, IndexType DEF First, IndInv, TypeOK, CallInv, InProgress
  <2>4. \A j \in Index : First(t) <= j /\ j < First(t) + k => Owns(t, j)'
    BY <1>2, <2>2 DEF First, Owns
  <2>5. \A r \in Sides : r # s => Minus(head[r], tail[r])' = Minus(head[r], tail[r])
    BY <1>2
  <2>6. \A u \in InProgress(s) : First(u) + n[u] <= First(t) /\ n[u] \in Nat
    BY <2>3, <1>1, SMT DEF IndInv, Tiling, TypeOK, InProgress
  <2>7. /\ \A u \in InProgress(s)' : First(u)' + n'[u] <= Minus(head[s], tail[s])'
        /\ \A u, v \in InProgress(s)' :
             u = v \/ First(u)' + n'[u] <= First(v)' \/ First(v)' + n'[v] <= First(u)'
    <3>1. /\ First(t)' = First(t) /\ n'[t] = k /\ k \in Nat /\ First(t) \in Nat
          /\ Minus(head[s], tail[s])' = First(t) + k
      BY <1>1, <1>2, <1>4, <2>2, <2>3, SMT DEF Index
    <3>2. \A u \in InProgress(s) :
            /\ First(u)' = First(u) /\ n'[u] = n[u] /\ First(u) \in Nat /\ n[u] \in Nat
            /\ First(u) + n[u] <= First(t)
      BY <2>1, <2>2, <2>3, <2>6, SMT DEF InProgress, Index
    <3>3. \A u, v \in InProgress(s) :
            u = v \/ First(u) + n[u] <= First(v) \/ First(v) + n[v] <= First(u)
      BY <1>1 DEF IndInv, Tiling
    <3> QED
      BY <2>1, <3>1, <3>2, <3>3, SMT
  <2>8. \A j \in Index : j < Minus(head[s], tail[s])' => \E u \in InProgress(s)' : Owns(u, j)'
    <3>1. TAKE j \in Index
    <3>2. HAVE j < Minus(head[s], tail[s])'
    <3>3. CASE j < Minus(head[s], tail[s])
      BY <1>1, <2>1, <2>2, <3>3, SMT DEF IndInv, Tiling, InProgress
    <3>4. CASE j >= First(t)
      BY <1>2, <1>4, <2>1, <2>3, <2>4, <3>2, <3>4
    <3> QED
      BY <2>3, <3>3, <3>4, SMT DEF Index
  <2> QED
    BY <2>1, <2>2, <2>5, <2>7, <2>8, SMT DEF IndInv, Tiling, InProgress
<1>6. CallInv'
  <2>1. \A u \in Threads : u # t /\ Loaded(u) /\ Side(u) = s => head'[s] # h[u]
    <3>1. ASSUME NEW u \in Threads, u # t, Loaded(u), Side(u) = s
          PROVE  head'[s] # h[u]
      <4>1. h[u] \in Index /\ Minus(head[s], h[u]) + k < W
        <5>1. h[u] \in Index /\ Minus(head[s], h[u]) + k <= MaxLag
          BY <3>1, RoomType DEF Reserve, NoHeadLap, Loaded, IndInv
        <5>2. Minus(head[s], h[u]) \in Index
          BY <1>1, <5>1, IndexType
        <5> QED
          BY <1>1, <5>1, <5>2, SizeAssumption, SMT DEF Index
      <4>2. Minus(Plus(h[t], k), h[u]) = Minus(h[t], h[u]) + k
        BY <1>1, <4>1, MoveOn
      <4>3. Minus(h[u], h[u]) = 0 /\ Minus(h[t], h[u]) \in Index
        BY <1>1, <4>1, SamePlace, IndexType
      <4> QED
        BY <1>1, <1>2, <4>2, <4>3, SMT DEF Index
    <3> QED
      BY <3>1
  <2>2. /\ \A u \in Threads : u # t => /\ Loaded(u)' <=> Loaded(u)
                                       /\ Room(u)' = Room(u)
      /\ \A u \in Threads : Calling(u)' <=> Calling(u)
      /\ \A r \in Sides : r # s => Avail(r)' = Avail(r)
    BY <1>1, <1>2, TwoSides DEF Loaded, Calling, Room, Avail
  <2>3. Calling(t) /\ ~Loaded(t)'
    BY <1>2 DEF Loaded, Calling
  <2>4. \A u \in Threads : /\ pc'[u] # "load" => h'[u] \in Index /\ n'[u] > 0
                           /\ pc'[u] = "load" /\ o'[u] # None => h'[u] # None
    <3>1. k > 0
      BY <1>1, SMT
    <3> QED
      BY <1>1, <1>2, <3>1 DEF IndInv, CallInv
  <2>5. \A u \in Threads : Loaded(u)' /\ head'[Side(u)] = h'[u] => Room(u)' <= Avail(Side(u))'
    <3>1. TAKE u \in Threads
    <3>2. HAVE Loaded(u)' /\ head'[Side(u)] = h'[u]
    <3>3. u # t /\ Loaded(u) /\ Side(u) # s /\ Side(u) \in Sides
      BY <1>2, <2>1, <2>2, <2>3, <3>2, TwoSides
    <3>4. head[Side(u)] = h[u] /\ Room(u)' = Room(u) /\ Avail(Side(u))' = Avail(Side(u))
      BY <1>2, <2>2, <3>2, <3>3, TwoSides DEF Avail
    <3> QED
      BY <3>3, <3>4 DEF IndInv, CallInv
  <2>6. \A u \in Threads : Side(u) \in single' /\ Calling(u)' =>
          /\ \A v \in Threads \ {u} : Side(v) = Side(u) => ~Calling(v)'
          /\ pc'[u] = "load" => h'[u] = head'[Side(u)]
    BY <1>2, <2>2, <2>3, TwoSides, SMT DEF IndInv, CallInv
  <2> QED
    BY <2>4, <2>5, <2>6 DEF CallInv
<1>7. DueInv'
  <2>1. \A u \in Threads : u # t => Entries(h[u], n[u])' = Entries(h[u], n[u])
    BY <1>2 DEF Entries
  <2>2. s = "cons" => due'[t] = Entries(h[t], n[t])'
    BY <1>2 DEF Reserve, Entries, IndInv, TypeOK
  <2> QED
    BY <1>2, <2>1, <2>2, TwoSides DEF IndInv, DueInv
<1> QED
  BY <1>3, <1>4, <1>5, <1>6, <1>7 DEF IndInv

(* No entry a producer has claimed is one that lies before the producers'  *)
(* tail: claimed by a consumer or waiting for one.                         *)
LEMMA Untouched ==
  ASSUME IndInv, NEW t \in InProgress("prod"), NEW x \in Index,
         Minus(x, tail["cons"]) < Minus(tail["prod"], tail["cons"]),
         NEW i \in 1 .. n[t]
  PROVE  Entry(x) # Entry(Plus(h[t], i - 1)) /\ Plus(h[t], i - 1) \in Index
<1> DEFINE tc == tail["cons"]
           tp == tail["prod"]
           hp == head["prod"]
           y == Plus(h[t], i - 1)
<1>1. /\ tc \in Index /\ tp \in Index /\ hp \in Index /\ h[t] \in Index
      /\ n[t] \in 0 .. MaxBurst
  BY DEF IndInv, TypeOK, CallInv, InProgress, Sides
<1>2. i - 1 \in Nat /\ i - 1 \in Index
  BY <1>1, Sizes, SMT DEF Index
<1>3. /\ Minus(tp, tc) <= Minus(hp, tc) /\ Minus(hp, tc) <= Mask
      /\ Minus(h[t], tp) + n[t] <= Minus(hp, tp)
  BY DEF IndInv, Order, Ordered, Tiling, Sides, First, InProgress
<1>4. /\ Minus(h[t], tp) \in Nat /\ Minus(tp, tc) \in Nat /\ Minus(hp, tp) \in Nat
      /\ Minus(x, tc) \in Nat /\ Minus(hp, tc) \in Nat
  BY <1>1, Sizes, SMT DEF Minus, Index
<1>5. Minus(h[t], tp) + (i - 1) < Minus(hp, tp)
  BY <1>1, <1>2, <1>3, <1>4, SMT
<1>6. Minus(y, tc) = Minus(tp, tc) + Minus(h[t], tp) + (i - 1) /\ Minus(y, tc) < Size
  BY <1>1, <1>2, <1>3, <1>5, ClaimedAt
<1>7. y \in Index
  BY <1>1, <1>2, IndexType
<1>8. Minus(x, tc) < Size /\ Minus(x, tc) # Minus(y, tc)
  BY <1>2, <1>3, <1>4, <1>6, Sizes, SMT
<1> QED
  BY <1>1, <1>6, <1>7, <1>8, EntryDistinct

(* So that a producer's copy leaves those entries as they were.            *)
LEMMA CopyLeaves ==
  ASSUME IndInv, NEW t \in Threads, Copy(t), NEW x \in Index,
         Minus(x, tail["cons"]) < Minus(tail["prod"], tail["cons"])
  PROVE  ring'[Entry(x)] = ring[Entry(x)]
<1>1. Entry(x) \in 0 .. Mask
  BY EntryType
<1>2. CASE Side(t) = "prod"
  <2>1. t \in InProgress("prod")
    BY <1>2 DEF InProgress, Copy
  <2>2. ~ \E i \in 1 .. n[t] : Entry(x) = Entry(Plus(h[t], i - 1))
    BY <2>1, Untouched
  <2> QED
    BY <1>1, <1>2, <2>2 DEF Copy
<1>3. CASE Side(t) # "prod"
  BY <1>3 DEF Copy
<1> QED
  BY <1>2, <1>3

-----------------------------------------------------------------------------
(* The pointers are copied while the call owns the entries.                *)
LEMMA CopyStep ==
  ASSUME IndInv, NEW t \in Threads, Copy(t)
  PROVE  IndInv'
<1>1. /\ pc[t] = "copy" /\ pc' = [pc EXCEPT ![t] = "publish"]
      /\ UNCHANGED <<head, tail, single, h, o, n, due>>
  BY DEF Copy
<1>2. pc'[t] = "publish" /\ \A u \in Threads : u # t => pc'[u] = pc[u]
  BY <1>1 DEF IndInv, TypeOK
<1>3. TypeOK'
  <2>1. ring' \in [0 .. Mask -> Values]
    <3>1. CASE Side(t) = "prod"
      <4>1. PICK vs \in [1 .. n[t] -> Values] :
              ring' = [e \in 0 .. Mask |->
                         IF \E i \in 1 .. n[t] : e = Entry(Plus(h[t], i - 1))
                           THEN vs[CHOOSE i \in 1 .. n[t] : e = Entry(Plus(h[t], i - 1))]
                           ELSE ring[e]]
        BY <3>1 DEF Copy
      <4> QED
        BY <4>1 DEF IndInv, TypeOK
    <3>2. CASE Side(t) # "prod"
      BY <3>2 DEF Copy, IndInv, TypeOK
    <3> QED
      BY <3>1, <3>2
  <2>2. quota' \in [Threads -> BOOLEAN]
    <3> DEFINE b == Plus(Minus(Mask + 1, room[t]), n[t]) > watermark
    <3>1. b \in BOOLEAN
      BY SMT
    <3>2. quota' = [quota EXCEPT ![t] = b] \/ quota' = quota
      BY DEF Copy
    <3> HIDE DEF b
    <3> QED
      BY <3>1, <3>2 DEF IndInv, TypeOK
  <2>3. /\ watermark' = watermark /\ room' \in [Threads -> Index \cup {None}]
        /\ pc' \in [Threads -> {"load", "copy", "publish"}]
    BY DEF Copy, IndInv, TypeOK
  <2> QED
    BY <1>1, <2>1, <2>2, <2>3 DEF IndInv, TypeOK
<1>4. Order'
  BY <1>1 DEF IndInv, Order, Ordered
<1>5. CallInv'
  <2>1. /\ \A u \in Threads : Loaded(u)' = Loaded(u) /\ Room(u)' = Room(u)
        /\ \A u \in Threads : Calling(u)' <=> Calling(u)
        /\ \A u \in Threads : pc'[u] = "load" <=> pc[u] = "load"
        /\ \A s \in Sides : Avail(s)' = Avail(s)
    BY <1>1, <1>2 DEF Loaded, Room, Calling, Avail
  <2> QED
    BY <1>1, <2>1, TwoSides DEF IndInv, CallInv
<1>6. Tiling'
  <2>1. /\ \A s \in Sides : InProgress(s)' = InProgress(s)
        /\ \A u \in Threads : First(u)' = First(u) /\ \A j \in Index : Owns(u, j)' = Owns(u, j)
    BY <1>1, <1>2 DEF InProgress, First, Owns
  <2> QED
    BY <1>1, <2>1, SMT DEF IndInv, Tiling, InProgress
<1>7. DueInv'
  <2>1. ASSUME NEW u \in Consumers, pc'[u] = "copy"
        PROVE  Entries(h[u], n[u])' = Entries(h[u], n[u])
    <3>1. /\ pc[u] = "copy" /\ u \in Threads /\ u \in InProgress("cons") /\ Side(u) = "cons"
          /\ h[u] \in Index /\ n[u] \in 0 .. MaxBurst
          /\ tail["cons"] \in Index /\ head["cons"] \in Index /\ tail["prod"] \in Index
      BY <1>2, <2>1, TwoSides DEF InProgress, IndInv, CallInv, TypeOK, Sides
    <3>2. /\ First(u) \in Nat /\ First(u) = Minus(h[u], tail["cons"])
          /\ First(u) + n[u] <= Minus(head["cons"], tail["cons"])
          /\ Minus(head["cons"], tail["cons"]) <= Minus(tail["prod"], tail["cons"])
          /\ Minus(tail["prod"], tail["cons"]) \in 0 .. W - 1
          /\ Minus(head["cons"], tail["cons"]) \in Nat
      <4>1. /\ First(u) = Minus(h[u], tail["cons"])
            /\ First(u) + n[u] <= Minus(head["cons"], tail["cons"])
            /\ Minus(head["cons"], tail["cons"]) <= Minus(tail["prod"], tail["cons"])
        BY <3>1 DEF First, IndInv, Tiling, Order, Ordered, Sides
      <4>2. /\ Minus(h[u], tail["cons"]) \in Index /\ Minus(tail["prod"], tail["cons"]) \in Index
            /\ Minus(head["cons"], tail["cons"]) \in Index
        BY <3>1, IndexType
      <4> QED
        BY <4>1, <4>2, SMT DEF Index
    <3>3. ASSUME NEW i \in 1 .. n[u]
          PROVE  ring'[Entry(Plus(h[u], i - 1))] = ring[Entry(Plus(h[u], i - 1))]
      <4>0. i - 1 \in Index
        BY <3>1, Sizes, SMT DEF Index
      <4>1. i - 1 \in Index /\ Plus(h[u], i - 1) \in Index
        BY <3>1, <4>0, IndexType
      <4>2. Minus(h[u], tail["cons"]) + (i - 1) < Minus(tail["prod"], tail["cons"])
        BY <3>1, <3>2, SMT
      <4>3. Minus(h[u], tail["cons"]) + (i - 1) < W
        BY <3>2, <4>1, <4>2, Sizes, SMT
      <4>4. Minus(Plus(h[u], i - 1), tail["cons"]) = Minus(h[u], tail["cons"]) + (i - 1)
        BY <3>1, <4>1, <4>3, MoveOn, SMT
      <4> QED
        BY <4>1, <4>2, <4>4, CopyLeaves
    <3> QED
      BY <1>1, <3>3 DEF Entries
  <2> QED
    BY <1>1, <1>2, <2>1, TwoSides DEF IndInv, DueInv
<1> QED
  BY <1>3, <1>4, <1>5, <1>6, <1>7 DEF IndInv

(* Whose turn it is to publish: the call whose claim starts at the tail,   *)
(* also on a single-user side, where the code does not look.               *)
LEMMA PublishTurn ==
  ASSUME IndInv, NEW t \in Threads, Publish(t)
  PROVE  /\ tail[Side(t)] = h[t] /\ First(t) = 0 /\ t \in InProgress(Side(t))
         /\ n[t] \in 1 .. MaxBurst /\ n[t] <= Minus(head[Side(t)], tail[Side(t)])
<1> DEFINE s == Side(t)
<1>1. /\ t \in InProgress(s) /\ s \in Sides /\ h[t] \in Index /\ tail[s] \in Index
      /\ head[s] \in Index /\ n[t] \in 1 .. MaxBurst /\ 0 \in Index
  BY TwoSides, Sizes, SMT DEF Publish, InProgress, IndInv, TypeOK, CallInv, Index
<1>2. First(t) \in Index /\ Minus(head[s], tail[s]) \in Index
  BY <1>1, IndexType DEF First
<1>3. First(t) + n[t] <= Minus(head[s], tail[s])
  BY <1>1 DEF IndInv, Tiling
<1>4. tail[s] = h[t]
  <2>1. CASE s \in single
    <3>1. InProgress(s) = {t}
      BY <1>1, <2>1 DEF InProgress, IndInv, CallInv, Calling
    <3>2. 0 < Minus(head[s], tail[s])
      BY <1>1, <1>2, <1>3, Sizes, SMT DEF Index
    <3>3. Owns(t, 0)
      BY <1>1, <3>1, <3>2 DEF IndInv, Tiling
    <3>4. Minus(h[t], tail[s]) = 0
      BY <1>2, <3>3, SMT DEF Owns, First, Index
    <3> QED
      BY <1>1, <3>4, SamePlace
  <2>2. CASE s \notin single
    BY <2>2 DEF Publish
  <2> QED
    BY <2>1, <2>2
<1>5. First(t) = 0
  BY <1>1, <1>4, SamePlace DEF First
<1> QED
  BY <1>1, <1>2, <1>3, <1>4, <1>5, Sizes, SMT DEF Index

LEMMA PublishStep ==
  ASSUME IndInv, NEW t \in Threads, Publish(t)
  PROVE  IndInv'
<1> DEFINE s == Side(t)
           k == n[t]
<1>1. /\ tail[s] = h[t] /\ First(t) = 0 /\ t \in InProgress(s) /\ s \in Sides
      /\ k \in 1 .. MaxBurst /\ k \in Nat /\ k \in Index /\ k <= Minus(head[s], tail[s])
      /\ head[s] \in Index /\ tail[s] \in Index
  <2>1. /\ tail[s] = h[t] /\ First(t) = 0 /\ t \in InProgress(s)
        /\ k \in 1 .. MaxBurst /\ k <= Minus(head[s], tail[s])
    BY PublishTurn
  <2>2. s \in Sides
    BY TwoSides
  <2>3. head[s] \in Index /\ tail[s] \in Index
    BY <2>2 DEF IndInv, TypeOK
  <2>4. k \in Nat /\ k \in Index
    <3> HIDE DEF k
    <3> QED
      BY <2>1, Sizes, SMT DEF Index
  <2> QED
    BY <2>1, <2>2, <2>3, <2>4
<1>2. /\ UNCHANGED <<head, ring, single>> /\ Return(t)
      /\ tail' = [tail EXCEPT ![s] = Plus(tail[s], k)]
      /\ \A u \in Threads : u # t => UNCHANGED <<pc[u], h[u], n[u], o[u], due[u]>>
      /\ pc'[t] = "load" /\ h'[t] = None /\ o'[t] = None
      /\ \A r \in Sides : r # s => tail'[r] = tail[r]
      /\ tail'[s] = Plus(tail[s], k)
  BY <1>1 DEF Publish, Return, IndInv, TypeOK
<1>3. TypeOK'
  <2>1. Plus(tail[s], k) \in Index
    BY <1>1, IndexType
  <2>2. tail' \in [Sides -> Index] /\ head' \in [Sides -> Index] /\ TypeOK
    BY <1>1, <1>2, <2>1 DEF IndInv, TypeOK
  <2>3. UNCHANGED <<ring, watermark, single>>
    BY DEF Publish
  <2> QED
    BY <1>2, <2>2, <2>3, ReturnType
<1>4. /\ Minus(head[s], tail'[s]) = Minus(head[s], tail[s]) - k
      /\ Order'
      /\ \A r \in Sides : Avail(r) \in Int /\ Avail(r)' \in Int /\ Avail(r) <= Avail(r)'
  <2>1. /\ head["prod"] \in Index /\ head["cons"] \in Index
        /\ tail["prod"] \in Index /\ tail["cons"] \in Index
    BY DEF IndInv, TypeOK, Sides
  <2>2. /\ Ordered(tail["cons"], head["cons"], tail["prod"], head["prod"])
        /\ Minus(tail["prod"], head["cons"]) \in Int /\ Minus(head["prod"], tail["cons"]) \in Int
    <3>1. /\ Minus(tail["prod"], head["cons"]) \in Index
          /\ Minus(head["prod"], tail["cons"]) \in Index
      BY <2>1, IndexType
    <3> QED
      BY <3>1, SMT DEF IndInv, Order, Index
  <2>3. CASE s = "prod"
    <3>1. k <= Minus(head["prod"], tail["prod"])
      BY <1>1, <2>3
    <3>2. tail'["prod"] = Plus(tail["prod"], k) /\ tail'["cons"] = tail["cons"] /\ head' = head
      BY <1>2, <2>3, TwoSides
    <3>3. /\ Ordered(tail["cons"], head["cons"], Plus(tail["prod"], k), head["prod"])
          /\ Minus(head["prod"], Plus(tail["prod"], k)) = Minus(head["prod"], tail["prod"]) - k
          /\ Minus(Plus(tail["prod"], k), head["cons"]) = Minus(tail["prod"], head["cons"]) + k
      <4>1. Ordered(tail["cons"], head["cons"], tail["prod"], head["prod"]) /\ k \in Nat
        BY <1>1, <2>2
      <4> QED
        BY <2>1, <3>1, <4>1, ProducersPublish, SMT
    <3>4. \A r \in Sides : Avail(r) \in Int /\ Avail(r)' \in Int /\ Avail(r) <= Avail(r)'
      BY <1>1, <2>2, <3>2, <3>3, Sizes, SMT DEF Avail
    <3> QED
      BY <2>3, <3>2, <3>3, <3>4 DEF Order, Ordered
  <2>4. CASE s = "cons"
    <3>1. k <= Minus(head["cons"], tail["cons"])
      BY <1>1, <2>4
    <3>2. tail'["cons"] = Plus(tail["cons"], k) /\ tail'["prod"] = tail["prod"] /\ head' = head
      BY <1>2, <2>4, TwoSides
    <3>3. /\ Ordered(Plus(tail["cons"], k), head["cons"], tail["prod"], head["prod"])
          /\ Minus(head["cons"], Plus(tail["cons"], k)) = Minus(head["cons"], tail["cons"]) - k
          /\ Minus(head["prod"], Plus(tail["cons"], k)) = Minus(head["prod"], tail["cons"]) - k
      <4>1. Ordered(tail["cons"], head["cons"], tail["prod"], head["prod"]) /\ k \in Nat
        BY <1>1, <2>2
      <4> QED
        BY <2>1, <3>1, <4>1, ConsumersPublish, SMT
    <3>4. \A r \in Sides : Avail(r) \in Int /\ Avail(r)' \in Int /\ Avail(r) <= Avail(r)'
      BY <1>1, <2>2, <3>2, <3>3, Sizes, SMT DEF Avail
    <3> QED
      BY <2>4, <3>2, <3>3, <3>4 DEF Order, Ordered
  <2> QED
    BY <2>3, <2>4, <1>1, TwoSides
<1>5. Tiling'
  <2>1. /\ InProgress(s)' = InProgress(s) \ {t}
        /\ \A r \in Sides : r # s => InProgress(r)' = InProgress(r) /\ t \notin InProgress(r)
    <3>1. pc'[t] = "load" /\ \A u \in Threads : u # t => pc'[u] = pc[u]
      BY <1>2
    <3> QED
      BY <3>1 DEF InProgress
  <2>2. ASSUME NEW u \in InProgress(s), u # t
        PROVE  /\ First(u) \in Nat /\ First(u)' = First(u) - k /\ k <= First(u)
               /\ n'[u] = n[u] /\ n[u] \in Nat
    <3>1. u \in Threads /\ Side(u) = s /\ h[u] \in Index /\ n[u] > 0 /\ n[u] \in 0 .. MaxBurst
      BY <2>2 DEF InProgress, IndInv, CallInv, TypeOK
    <3>2. First(u) \in Index /\ First(u) = Minus(h[u], tail[s])
      BY <1>1, <3>1, IndexType DEF First
    <3>3. k <= First(u)
      <4>1. First(t) + n[t] <= First(u) \/ First(u) + n[u] <= First(t)
        BY <1>1, <2>2 DEF IndInv, Tiling
      <4> QED
        BY <1>1, <3>1, <3>2, <4>1, SMT DEF Index
    <3>4. Minus(h[u], Plus(tail[s], k)) = Minus(h[u], tail[s]) - k
      BY <1>1, <3>1, <3>2, <3>3, CatchUp, SMT
    <3>5. First(u)' = Minus(h[u], Plus(tail[s], k))
      BY <1>2, <2>2, <3>1 DEF First
    <3>6. n'[u] = n[u] /\ n[u] \in Nat
      <4>1. n'[u] = n[u]
        BY <1>2, <2>2, <3>1
      <4> QED
        BY <3>1, <4>1, SMT
    <3>7. First(u) \in Nat
      BY <3>2, SMT DEF Index
    <3> QED
      BY <3>2, <3>3, <3>4, <3>5, <3>6, <3>7
  <2>3. \A r \in Sides : r # s =>
          /\ Minus(head[r], tail[r])' = Minus(head[r], tail[r])
          /\ \A u \in InProgress(r) : First(u)' = First(u) /\ n'[u] = n[u]
                                      /\ \A j \in Index : Owns(u, j)' = Owns(u, j)
    BY <1>2, <2>1 DEF First, Owns, InProgress
  <2>4. /\ \A u \in InProgress(s)' : First(u)' + n'[u] <= Minus(head[s], tail[s])'
        /\ \A u, v \in InProgress(s)' :
             u = v \/ First(u)' + n'[u] <= First(v)' \/ First(v)' + n'[v] <= First(u)'
    <3>0. Minus(head[s], tail[s]) \in Index
      BY <1>1, IndexType
    <3>1. Minus(head[s], tail[s]) \in Int /\ k \in Int
      BY <1>1, <3>0, SMT DEF Index
    <3>2. /\ \A u \in InProgress(s) : First(u) + n[u] <= Minus(head[s], tail[s])
          /\ \A u, v \in InProgress(s) :
               u = v \/ First(u) + n[u] <= First(v) \/ First(v) + n[v] <= First(u)
      BY <1>1 DEF IndInv, Tiling
    <3> HIDE DEF k
    <3> QED
      BY <1>2, <1>4, <2>1, <2>2, <3>1, <3>2, SMT
  <2>5. ASSUME NEW j \in Index, j < Minus(head[s], tail[s])'
        PROVE  \E u \in InProgress(s)' : Owns(u, j)'
    <3>0. Minus(head[s], tail[s]) \in Index
      BY <1>1, IndexType
    <3>1. Minus(head[s], tail[s]) \in Index /\ j \in Nat
      BY <3>0, SMT DEF Index
    <3>2. j + k \in Index /\ j + k < Minus(head[s], tail[s])
      BY <1>1, <1>2, <1>4, <2>5, <3>1, Sizes, SMT DEF Index
    <3>3. PICK u \in InProgress(s) : Owns(u, j + k)
      BY <1>1, <3>2 DEF IndInv, Tiling
    <3>4. Side(u) = s /\ u \in Threads /\ First(u) <= j + k /\ j + k < First(u) + n[u]
      BY <3>3 DEF Owns, First, InProgress
    <3>5. u # t
      BY <1>1, <3>1, <3>4, SMT
    <3>6. First(u)' <= j /\ j < First(u)' + n'[u]
      BY <1>1, <2>2, <3>1, <3>4, <3>5, SMT
    <3>7. Owns(u, j)'
      BY <3>6 DEF Owns, First
    <3> QED
      BY <2>1, <3>5, <3>7
  <2>6. ASSUME NEW r \in Sides, r # s
        PROVE  /\ \A u \in InProgress(r)' : First(u)' + n'[u] <= Minus(head[r], tail[r])'
               /\ \A u, v \in InProgress(r)' :
                    u = v \/ First(u)' + n'[u] <= First(v)' \/ First(v)' + n'[v] <= First(u)'
               /\ \A j \in Index : j < Minus(head[r], tail[r])'
                                    => \E u \in InProgress(r)' : Owns(u, j)'
    <3>1. InProgress(r)' = InProgress(r)
      BY <2>1, <2>6
    <3>2. /\ Minus(head[r], tail[r])' = Minus(head[r], tail[r])
          /\ \A u \in InProgress(r) : First(u)' = First(u) /\ n'[u] = n[u]
                                      /\ \A j \in Index : Owns(u, j)' = Owns(u, j)
      BY <2>3, <2>6
    <3>3. Tiling
      BY DEF IndInv
    <3>4. /\ \A u \in InProgress(r) : First(u) + n[u] <= Minus(head[r], tail[r])
          /\ \A u, v \in InProgress(r) :
               u = v \/ First(u) + n[u] <= First(v) \/ First(v) + n[v] <= First(u)
          /\ \A j \in Index : j < Minus(head[r], tail[r]) => \E u \in InProgress(r) : Owns(u, j)
      BY <3>3, <2>6 DEF Tiling
    <3>5. \A u \in InProgress(r)' : First(u)' + n'[u] <= Minus(head[r], tail[r])'
      BY <3>1, <3>2, <3>4
    <3>6. \A u, v \in InProgress(r)' :
            u = v \/ First(u)' + n'[u] <= First(v)' \/ First(v)' + n'[v] <= First(u)'
      BY <3>1, <3>2, <3>4
    <3>7. \A j \in Index : j < Minus(head[r], tail[r])' => \E u \in InProgress(r)' : Owns(u, j)'
      BY <3>1, <3>2, <3>4
    <3> QED
      BY <3>5, <3>6, <3>7
  <2> QED
    BY <2>4, <2>5, <2>6 DEF Tiling
<1>6. CallInv'
  <2>1. /\ \A u \in Threads : u # t => /\ Loaded(u)' <=> Loaded(u)
                                       /\ Room(u)' = Room(u)
                                       /\ Calling(u)' <=> Calling(u)
        /\ ~Loaded(t)' /\ ~Calling(t)'
    BY <1>2 DEF Loaded, Calling, Room
  <2>2. \A u \in Threads : Loaded(u)' /\ head'[Side(u)] = h'[u] => Room(u)' <= Avail(Side(u))'
    <3>1. TAKE u \in Threads
    <3>2. HAVE Loaded(u)' /\ head'[Side(u)] = h'[u]
    <3>3. u # t /\ Loaded(u) /\ Room(u) <= Avail(Side(u)) /\ Room(u)' = Room(u)
      BY <1>2, <2>1, <3>2 DEF IndInv, CallInv
    <3>4. Room(u) \in Int
      BY <3>3, RoomType, SMT DEF IndInv, Index
    <3>5. PICK r \in Sides : r = Side(u)
      BY TwoSides
    <3>6. Room(u)' <= Avail(r)'
      BY <1>4, <3>3, <3>4, <3>5, SMT
    <3> QED
      BY <3>5, <3>6 DEF Avail
  <2>3. /\ CallInv /\ UNCHANGED <<single, head>> /\ pc'[t] = "load" /\ o'[t] = None
        /\ \A u \in Threads : u # t => UNCHANGED <<pc[u], h[u], n[u], o[u]>>
    BY <1>2 DEF IndInv
  <2>4. \A u \in Threads : /\ pc'[u] # "load" => h'[u] \in Index /\ n'[u] > 0
                           /\ pc'[u] = "load" /\ o'[u] # None => h'[u] # None
    BY <2>3 DEF CallInv
  <2>5. \A u \in Threads : Side(u) \in single' /\ Calling(u)' =>
          /\ \A v \in Threads \ {u} : Side(v) = Side(u) => ~Calling(v)'
          /\ pc'[u] = "load" => h'[u] = head'[Side(u)]
    BY <2>1, <2>3 DEF CallInv
  <2> QED
    BY <2>2, <2>4, <2>5 DEF CallInv
<1>7. DueInv'
  <2>1. \A u \in Threads : u # t => Entries(h[u], n[u])' = Entries(h[u], n[u])
    BY <1>2 DEF Entries
  <2> QED
    BY <1>2, <2>1, TwoSides DEF IndInv, DueInv
<1> QED
  BY <1>3, <1>4, <1>5, <1>6, <1>7 DEF IndInv

LEMMA QuietStep ==
  ASSUME IndInv, (\E c \in Counts : SetWaterMark(c)) \/ UNCHANGED vars
  PROVE  IndInv'
<1>1. UNCHANGED <<head, tail, ring, single, pc, h, o, n, room, quota, due>>
  BY DEF SetWaterMark, locals, vars
<1>2. TypeOK'
  <2>1. watermark' \in 1 .. Size
    BY SizeAssumption, SMT DEF SetWaterMark, vars, IndInv, TypeOK
  <2> QED
    BY <1>1, <2>1 DEF IndInv, TypeOK
<1>3. Order' /\ Tiling' /\ DueInv'
  BY <1>1, LocalStep
<1>4. CallInv'
  BY <1>1 DEF IndInv, CallInv, Loaded, Calling, Room, Avail
<1> QED
  BY <1>2, <1>3, <1>4 DEF IndInv

LEMMA StepInd == ASSUME HeadFirst, IndInv, [Next]_vars PROVE IndInv'
<1>1. ASSUME NEW t \in Threads, Step(t)
      PROVE  IndInv'
  BY <1>1, LoadStep, BackStep, ReserveStep, CopyStep, PublishStep DEF Step
<1> QED
  BY <1>1, QuietStep DEF Next

LEMMA Invariance == ASSUME HeadFirst PROVE Spec => []IndInv
<1>1. IndInv /\ [Next]_vars => IndInv'
  BY StepInd
<1> QED
  BY <1>1, InitInd, PTL DEF Spec

LEMMA IndImplies == IndInv => ClaimsHold
<1> SUFFICES ASSUME IndInv PROVE ClaimsHold
  BY SMT
<1>1. ASSUME NEW s \in Sides, NEW j \in Index
      PROVE  /\ j < Minus(head[s], tail[s]) <=> \E t \in InProgress(s) : Owns(t, j)
             /\ \A t, u \in InProgress(s) : Owns(t, j) /\ Owns(u, j) => t = u
  <2>1. \A t \in InProgress(s) : First(t) \in Index /\ n[t] \in 0 .. MaxBurst
    BY IndexType DEF First, InProgress, IndInv, CallInv, TypeOK
  <2>2. Minus(head[s], tail[s]) \in Index
    BY IndexType DEF IndInv, TypeOK
  <2>3. /\ \A t \in InProgress(s) : Owns(t, j) <=> First(t) <= j /\ j < First(t) + n[t]
        /\ \A t \in InProgress(s) : First(t) + n[t] <= Minus(head[s], tail[s])
        /\ \A t, u \in InProgress(s) :
             t = u \/ First(t) + n[t] <= First(u) \/ First(u) + n[u] <= First(t)
        /\ j < Minus(head[s], tail[s]) => \E t \in InProgress(s) : Owns(t, j)
    BY DEF Owns, First, IndInv, Tiling
  <2> QED
    BY <2>1, <2>2, <2>3, SMT DEF Index
<1> QED
  BY <1>1 DEF ClaimsHold, IndInv, DueInv

(* However the calls of producers and consumers interleave, what a call    *)
(* has claimed by moving the head is its own until it moves the tail.      *)
THEOREM ClaimsAreKept == ASSUME HeadFirst PROVE Spec => []ClaimsHold
BY Invariance, IndImplies, PTL

-----------------------------------------------------------------------------
(* The refinement of the bounded queue.                                    *)
Waiting == Minus(tail["prod"], head["cons"])
Queue == Entries(head["cons"], Waiting)

LEMMA WaitingType ==
  ASSUME IndInv
  PROVE  /\ head["cons"] \in Index /\ tail["cons"] \in Index /\ tail["prod"] \in Index
         /\ Waiting \in 0 .. Mask
         /\ \A i \in 1 .. Waiting :
              /\ Plus(head["cons"], i - 1) \in Index
              /\ Minus(Plus(head["cons"], i - 1), tail["cons"])
                   < Minus(tail["prod"], tail["cons"])
<1>1. /\ head["cons"] \in Index /\ tail["cons"] \in Index
      /\ tail["prod"] \in Index /\ head["prod"] \in Index
  BY DEF IndInv, TypeOK, Sides
<1>2. /\ Minus(head["cons"], tail["cons"]) <= Minus(tail["prod"], tail["cons"])
      /\ Minus(tail["prod"], tail["cons"]) <= Minus(head["prod"], tail["cons"])
      /\ Minus(head["prod"], tail["cons"]) <= Mask
  BY DEF IndInv, Order, Ordered
<1>3. Waiting \in 0 .. Mask
  BY <1>1, <1>2, Sizes, SMT DEF Waiting, Minus, Index
<1>4. ASSUME NEW i \in 1 .. Waiting
      PROVE  /\ Plus(head["cons"], i - 1) \in Index
             /\ Minus(Plus(head["cons"], i - 1), tail["cons"])
                  < Minus(tail["prod"], tail["cons"])
  BY <1>1, <1>2, <1>3, Sizes, SMT DEF Waiting, Plus, Minus, Index
<1> QED
  BY <1>1, <1>3, <1>4

(* What is in the queue, and what type it has.                             *)
LEMMA QueueIs ==
  ASSUME IndInv
  PROVE  /\ Queue = [i \in 1 .. Waiting |-> ring[Entry(Plus(head["cons"], i - 1))]]
         /\ Queue \in Seq(Values) /\ Len(Queue) = Waiting
<1>1. \A i \in 1 .. Waiting : ring[Entry(Plus(head["cons"], i - 1))] \in Values
  BY WaitingType, EntryType DEF IndInv, TypeOK
<1>2. Waiting \in Nat
  BY WaitingType, Sizes, SMT
<1> QED
  BY <1>1, <1>2, SMT DEF Queue, Entries

QueueShape ==
  /\ Queue = [i \in 1 .. Waiting |-> ring[Entry(Plus(head["cons"], i - 1))]]
  /\ Len(Queue) = Waiting /\ Waiting \in 0 .. Mask /\ Queue \in Seq(Values)

LEMMA QueueIsNext == IndInv' => QueueShape'
<1>1. IndInv => QueueShape
  BY QueueIs, WaitingType DEF QueueShape
<1> QED
  BY <1>1, PTL

LEMMA DropFront ==
  ASSUME NEW S, NEW q \in Seq(S), NEW r \in Seq(S), NEW k \in Nat, k <= Len(q),
         Len(r) = Len(q) - k, \A i \in 1 .. Len(r) : r[i] = q[k + i]
  PROVE  r = SubSeq(q, k + 1, Len(q))
<1>1. Len(SubSeq(q, k + 1, Len(q))) = Len(q) - k /\ SubSeq(q, k + 1, Len(q)) \in Seq(S)
  BY SMT
<1>2. \A i \in 1 .. Len(q) - k : SubSeq(q, k + 1, Len(q))[i] = q[k + i]
  BY SMT
<1> QED
  BY <1>1, <1>2, SMT

LEMMA KeepFront ==
  ASSUME NEW S, NEW q \in Seq(S), NEW r \in Seq(S), Len(q) <= Len(r),
         \A i \in 1 .. Len(q) : r[i] = q[i]
  PROVE  SubSeq(r, 1, Len(q)) = q
<1>1. Len(SubSeq(r, 1, Len(q))) = Len(q) /\ SubSeq(r, 1, Len(q)) \in Seq(S)
  BY SMT
<1>2. \A i \in 1 .. Len(q) : SubSeq(r, 1, Len(q))[i] = r[i]
  BY SMT
<1> QED
  BY <1>1, <1>2, SMT

LEMMA SameQueue ==
  ASSUME UNCHANGED <<head["cons"], tail["prod"], ring>>
  PROVE  Queue' = Queue
BY DEF Queue, Waiting, Entries

(* A producer that moves the tail puts its burst at the end.               *)
LEMMA PublishPuts ==
  ASSUME IndInv, IndInv', NEW t \in Threads, Publish(t), Side(t) = "prod"
  PROVE  /\ Len(Queue') \in Len(Queue) + 1 .. Len(Queue) + MaxBurst /\ Len(Queue') <= Mask
         /\ SubSeq(Queue', 1, Len(Queue)) = Queue
         /\ \A i \in DOMAIN Queue' : Queue'[i] \in Values
<1>1. /\ Queue = [i \in 1 .. Waiting |-> ring[Entry(Plus(head["cons"], i - 1))]]
      /\ Len(Queue) = Waiting /\ Waiting \in Nat /\ Queue \in Seq(Values)
  BY QueueIs, WaitingType, Sizes, SMT
<1>2. /\ Queue' = [i \in 1 .. Waiting' |-> ring'[Entry(Plus(head'["cons"], i - 1))]]
      /\ Len(Queue') = Waiting' /\ Waiting' \in 0 .. Mask /\ Queue' \in Seq(Values)
  BY QueueIsNext DEF QueueShape
<1>3. ring' = ring /\ head' = head /\ tail'["prod"] = Plus(tail["prod"], n[t])
  BY PublishTurn DEF Publish, IndInv, TypeOK, Sides
<1>4. Waiting' = Waiting + n[t] /\ n[t] \in 1 .. MaxBurst
  <2>1. /\ head["prod"] \in Index /\ head["cons"] \in Index
        /\ tail["prod"] \in Index /\ tail["cons"] \in Index
        /\ Ordered(tail["cons"], head["cons"], tail["prod"], head["prod"])
    BY DEF IndInv, TypeOK, Sides, Order
  <2>2. n[t] \in 1 .. MaxBurst /\ n[t] \in Nat /\ n[t] <= Minus(head["prod"], tail["prod"])
    BY PublishTurn, Sizes, SMT
  <2>3. Minus(Plus(tail["prod"], n[t]), head["cons"]) = Minus(tail["prod"], head["cons"]) + n[t]
    BY <2>1, <2>2, ProducersPublish, SMT
  <2> QED
    BY <1>3, <2>2, <2>3 DEF Waiting
<1> HIDE DEF Queue, Waiting
<1>5. SubSeq(Queue', 1, Len(Queue)) = Queue
  <2>1. Queue \in Seq(Values) /\ Queue' \in Seq(Values) /\ Len(Queue) <= Len(Queue')
    BY <1>1, <1>2, <1>4, Sizes, SMT
  <2>2. \A i \in 1 .. Len(Queue) : Queue'[i] = Queue[i]
    BY <1>1, <1>2, <1>3, <1>4, Sizes, SMT
  <2> QED
    BY <2>1, <2>2, KeepFront
<1>6. Len(Queue') \in Len(Queue) + 1 .. Len(Queue) + MaxBurst /\ Len(Queue') <= Mask
  <2>1. Waiting + n[t] \in Waiting + 1 .. Waiting + MaxBurst /\ Waiting' <= Mask
    BY <1>1, <1>2, <1>4, Sizes, SMT
  <2> QED
    BY <1>1, <1>2, <1>4, <2>1
<1>7. \A i \in DOMAIN Queue' : Queue'[i] \in Values
  <2>1. Queue' \in Seq(Values)
    BY <1>2
  <2> QED
    BY <2>1, SMT
<1> QED
  BY <1>1, <1>5, <1>6, <1>7

(* A consumer that moves the head takes its burst from the front.          *)
LEMMA ReserveGets ==
  ASSUME IndInv, IndInv', NEW t \in Threads, Loaded(t), NEW k \in Grants(t) \ {0},
         Reserve(t, k), Side(t) = "cons"
  PROVE  /\ Len(Queue) - Len(Queue') = k /\ k \in 1 .. MaxBurst
         /\ Queue' = SubSeq(Queue, k + 1, Len(Queue))
<1>1. /\ Queue = [i \in 1 .. Waiting |-> ring[Entry(Plus(head["cons"], i - 1))]]
      /\ Len(Queue) = Waiting /\ Waiting \in 0 .. Mask /\ Queue \in Seq(Values)
      /\ head["cons"] \in Index
  BY QueueIs, WaitingType
<1>2. /\ Queue' = [i \in 1 .. Waiting' |-> ring'[Entry(Plus(head'["cons"], i - 1))]]
      /\ Len(Queue') = Waiting' /\ Waiting' \in 0 .. Mask /\ Queue' \in Seq(Values)
  BY QueueIsNext DEF QueueShape
<1>3. /\ ring' = ring /\ tail' = tail /\ head'["cons"] = Plus(head["cons"], k)
      /\ k \in 1 .. MaxBurst /\ k \in Nat /\ k <= Minus(tail["prod"], head["cons"])
  <2>1. head["cons"] = h[t]
    BY DEF Reserve, Moved, IndInv, CallInv, Loaded, Calling
  <2>2. Room(t) <= Avail("cons") /\ Room(t) \in Nat /\ Avail("cons") \in Int
    <3>1. "cons" \in Sides /\ TypeOK
      BY DEF Sides, IndInv
    <3>2. Room(t) \in Index /\ Avail("cons") \in Int
      BY <3>1, RoomType, AvailType
    <3>3. Room(t) <= Avail("cons")
      BY <2>1 DEF IndInv, CallInv
    <3> QED
      BY <3>2, <3>3, SMT DEF Index
  <2>3. k \in 1 .. MaxBurst /\ k <= Room(t) /\ k \in Nat
    BY GrantBound, Sizes, SMT DEF IndInv
  <2>4. /\ ring' = ring /\ tail' = tail /\ head'["cons"] = Plus(h[t], k)
        /\ Avail("cons") = Minus(tail["prod"], head["cons"])
    BY TwoSides DEF Reserve, Avail, IndInv, TypeOK, Sides
  <2>5. k <= Minus(tail["prod"], head["cons"])
    BY <2>2, <2>3, <2>4, SMT
  <2> QED
    BY <2>1, <2>3, <2>4, <2>5
<1>4. Waiting' = Waiting - k
  <2>1. /\ head["prod"] \in Index /\ head["cons"] \in Index
        /\ tail["prod"] \in Index /\ tail["cons"] \in Index
        /\ Ordered(tail["cons"], head["cons"], tail["prod"], head["prod"])
    BY DEF IndInv, TypeOK, Sides, Order
  <2>2. Minus(tail["prod"], Plus(head["cons"], k)) = Minus(tail["prod"], head["cons"]) - k
    BY <1>3, <2>1, ConsumersClaim, SMT
  <2> QED
    BY <1>3, <2>2 DEF Waiting
<1>5. \A i \in 1 .. Waiting' :
        Plus(Plus(head["cons"], k), i - 1) = Plus(head["cons"], (k + i) - 1)
  <2>1. TAKE i \in 1 .. Waiting'
  <2>2. i - 1 \in Nat /\ k + (i - 1) < W /\ k + (i - 1) = (k + i) - 1
    BY <1>1, <1>2, <1>3, <1>4, Sizes, SMT
  <2> QED
    BY <1>1, <1>3, <2>2, Adds, SMT
<1>6. \A i \in 1 .. Waiting' : Queue'[i] = Queue[k + i]
  BY <1>1, <1>2, <1>3, <1>4, <1>5, Sizes, SMT
<1> HIDE DEF Queue, Waiting
<1>7. k <= Len(Queue) /\ Len(Queue') = Len(Queue) - k
  BY <1>1, <1>2, <1>3, <1>4, Sizes, SMT
<1>8. Queue' = SubSeq(Queue, k + 1, Len(Queue))
  <2>1. Queue \in Seq(Values) /\ Queue' \in Seq(Values) /\ k \in Nat
    BY <1>1, <1>2, <1>3
  <2>2. \A i \in 1 .. Len(Queue') : Queue'[i] = Queue[k + i]
    BY <1>2, <1>6
  <2> QED
    BY <1>7, <2>1, <2>2, DropFront
<1>9. Len(Queue) - Len(Queue') = k
  BY <1>1, <1>3, <1>7, Sizes, SMT
<1> QED
  BY <1>3, <1>8, <1>9

(* No other step changes what is in the queue.                             *)
LEMMA OtherKeeps ==
  ASSUME IndInv, NEW t \in Threads,
         \/ LoadHead(t) \/ LoadTail(t) \/ Refuse(t) \/ Retry(t) \/ Copy(t)
         \/ Publish(t) /\ Side(t) # "prod"
         \/ \E k \in Grants(t) : Reserve(t, k) /\ Side(t) # "cons"
  PROVE  Queue' = Queue
<1>1. CASE Copy(t)
  <2>1. head' = head /\ tail' = tail
    BY <1>1 DEF Copy
  <2>2. \A i \in 1 .. Waiting :
          ring'[Entry(Plus(head["cons"], i - 1))] = ring[Entry(Plus(head["cons"], i - 1))]
    BY <1>1, WaitingType, CopyLeaves
  <2> QED
    BY <2>1, <2>2 DEF Queue, Waiting, Entries
<1>2. CASE Publish(t) /\ Side(t) # "prod"
  <2>1. UNCHANGED <<head["cons"], tail["prod"], ring>>
    BY <1>2 DEF Publish, IndInv, TypeOK, Sides
  <2> QED
    BY <2>1, SameQueue
<1>3. CASE \E k \in Grants(t) : Reserve(t, k) /\ Side(t) # "cons"
  <2>1. UNCHANGED <<head["cons"], tail["prod"], ring>>
    BY <1>3 DEF Reserve, IndInv, TypeOK, Sides
  <2> QED
    BY <2>1, SameQueue, SMT
<1>4. CASE LoadHead(t) \/ LoadTail(t) \/ Refuse(t) \/ Retry(t)
  <2>1. UNCHANGED <<head["cons"], tail["prod"], ring>>
    BY <1>4 DEF LoadHead, LoadTail, Refuse, Retry
  <2> QED
    BY <2>1, SameQueue, SMT
<1> QED
  BY <1>1, <1>2, <1>3, <1>4

LEMMA StepRefines ==
  ASSUME IndInv, IndInv', [Next]_vars
  PROVE  [Fifo!Put \/ Fifo!Get]_Queue
<1>1. ASSUME NEW t \in Threads, Publish(t), Side(t) = "prod"
      PROVE  Fifo!Put
  BY <1>1, PublishPuts DEF Fifo!Put, Queue, Waiting
<1>2. ASSUME NEW t \in Threads, Loaded(t), NEW k \in Grants(t) \ {0},
             Reserve(t, k), Side(t) = "cons"
      PROVE  Fifo!Get
  BY <1>2, ReserveGets DEF Fifo!Get, Queue, Waiting
<1>3. ASSUME (\E c \in Counts : SetWaterMark(c)) \/ UNCHANGED vars
      PROVE  Queue' = Queue
  BY <1>3, SameQueue DEF SetWaterMark, vars
<1> QED
  BY <1>1, <1>2, <1>3, OtherKeeps DEF Next, Step

(* The ring implements the bounded queue: an enqueue takes effect when the *)
(* tail passes its entries, a dequeue when the head does.                  *)
THEOREM RingIsFifo == ASSUME HeadFirst PROVE Spec => IsFifo
<1>1. Init => Queue = <<>>
  <2>1. ASSUME Init PROVE Queue = <<>>
    <3>1. Waiting = 0
      BY <2>1, Sizes, SMT DEF Init, Waiting, Minus, Sides
    <3> QED
      BY <3>1, SMT DEF Queue, Entries
  <2> QED
    BY <2>1
<1>2. Init => Fifo!Init
  BY <1>1 DEF Fifo!Init, Queue, Waiting
<1>3. IndInv /\ IndInv' /\ [Next]_vars => [Fifo!Put \/ Fifo!Get]_Queue
  BY StepRefines
<1>4. IndInv /\ IndInv' /\ [Next]_vars =>
        [Fifo!Put \/ Fifo!Get]_(Entries(head["cons"], Minus(tail["prod"], head["cons"])))
  BY <1>3 DEF Queue, Waiting
<1> QED
  BY <1>2, <1>4, Invariance, PTL DEF Spec, IsFifo, Fifo!Spec
=============================================================================
