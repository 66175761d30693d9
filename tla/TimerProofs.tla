---------------------------- MODULE TimerProofs -----------------------------
(***************************************************************************)
(* Timeouts are in one place, never early and go to their own queue, and   *)
(* the timers' memory is used as what it is, for any number of timers,     *)
(* timeouts, threads that use them and notifications that overlap.         *)
(***************************************************************************)
EXTENDS TimerCalls, FiniteSetTheorems

(* Zenon proves what does not name SMT.                                    *)
USE Zenon

-----------------------------------------------------------------------------
(* While a timer is being freed it counts as allocated: there are no N     *)
(* other ones.                                                             *)
LEMMA LinkCounts ==
  ASSUME IndInv
  PROVE  Linkable
<1> SUFFICES ASSUME NEW u \in Users, Freeing(u), num_alloc = 0 PROVE FALSE
  BY Setup, SMT DEF IndInv, TypeOK, Linkable
<1>1. Free0 = N
  BY Setup, SMT DEF IndInv, TypeOK, Free0
<1>2. PICK chain \in [0 .. Free0 -> 0 .. N] : FreeList(chain)
  BY DEF IndInv, FreeInv
<1>3. /\ \A d \in 0 .. N - 1 : chain[d] \in Timers /\ i[u] # chain[d]
      /\ \A d, e \in 0 .. N : chain[d] = chain[e] => d = e
  BY <1>1, <1>2 DEF FreeList
<1> DEFINE f == [d \in 0 .. N - 1 |-> chain[d]]
           T == (0 .. N - 1) \ {i[u]}
<1>4. N \in Nat /\ N > 0 /\ Timers = 0 .. N - 1 /\ i[u] \in Timers
  BY Setup, Indices DEF IndInv, TypeOK
<1>5. IsFiniteSet(0 .. N - 1) /\ Cardinality(0 .. N - 1) = N
  BY <1>4, FS_Interval, SMT
<1>6. IsFiniteSet(T) /\ Cardinality(T) = N - 1
  <2>1. i[u] \in 0 .. N - 1
    BY <1>4
  <2>2. IsFiniteSet(T) /\ Cardinality(T) = Cardinality(0 .. N - 1) - 1
    BY <1>5, <2>1, FS_RemoveElement
  <2> QED
    BY <1>5, <2>2
<1>7. f \in [0 .. N - 1 -> T]
  BY <1>3, <1>4
<1>8. \E x, y \in 0 .. N - 1 : x # y /\ f[x] = f[y]
  <2>1. Cardinality(T) < Cardinality(0 .. N - 1)
    BY <1>4, <1>5, <1>6, SMT
  <2> HIDE DEF f, T
  <2> QED
    BY <1>5, <1>6, <1>7, <2>1, FS_PigeonHole
<1> QED
  BY <1>3, <1>4, <1>8, SMT

-----------------------------------------------------------------------------
(* The calls that leave the free list alone.                               *)
LEMMA FreeKept ==
  ASSUME IndInv, setup' = setup, UNCHANGED <<num_alloc, first_free, high_wm>>,
         handles' \subseteq handles,
         \A k \in Timers \ handles : exp'[k] = exp[k],
         \A u \in Users : Freeing(u)' => (Freeing(u) /\ i'[u] = i[u]) \/ i'[u] \in handles,
         \A u \in Users : (pc'[u] = "hwm" <=> pc[u] = "hwm") /\ (pc[u] = "hwm" => i'[u] = i[u]),
         \A k \in Timers \ handles : (\A u \in Users : Freeing(u) => i[u] # k) => queue'[k] = queue[k]
  PROVE  FreeInv'
<1>1. PICK chain \in [0 .. Free0 -> 0 .. N] : FreeList(chain)
  BY DEF IndInv, FreeInv
<1>2. N' = N /\ Free0' = Free0 /\ Timers' = Timers /\ Users' = Users
  BY Fixed DEF Free0
<1>3. FreeList(chain)'
  BY <1>1, <1>2, SMT DEF FreeList, TMO_UNUSED
<1>4. HighWmCovers'
  BY DEF IndInv, FreeInv, HighWmCovers
<1>5. WaterInv'
  BY <1>2 DEF IndInv, FreeInv, WaterInv
<1> QED
  BY <1>2, <1>3, <1>4, <1>5 DEF FreeInv

(* timer_alloc takes the first timer of the list.                          *)
LEMMA FreePop ==
  ASSUME IndInv, setup' = setup, NEW u \in Users, NEW q \in Queues, Alloc(u, q)
  PROVE  FreeInv'
<1>1. PICK chain \in [0 .. Free0 -> 0 .. N] : FreeList(chain)
  BY DEF IndInv, FreeInv
<1>2. /\ N' = N /\ Timers' = Timers /\ Users' = Users /\ Timers = 0 .. N - 1
      /\ N \in Nat /\ num_alloc \in 0 .. N - 1 /\ high_wm \in 0 .. N /\ num_alloc <= high_wm
      /\ num_alloc' = num_alloc + 1 /\ high_wm' = high_wm
      /\ Free0 = N - num_alloc /\ Free0' = Free0 - 1
  <2>1. N' = N /\ Timers' = Timers /\ Users' = Users /\ Timers = 0 .. N - 1 /\ N \in Nat
    BY Fixed, Setup DEF IndInv, TypeOK
  <2>2. /\ num_alloc \in 0 .. N /\ num_alloc < N /\ high_wm \in 0 .. N /\ num_alloc <= high_wm
        /\ num_alloc' = num_alloc + 1 /\ high_wm' = high_wm
    BY DEF Alloc, LockFree, IndInv, TypeOK, FreeInv, WaterInv
  <2> QED
    BY <2>1, <2>2, SMT DEF Free0
<1> DEFINE k == chain[0]
<1>3. /\ k = first_free /\ k \in Timers \ handles /\ queue[k] = chain[1]
      /\ IF num_alloc >= high_wm THEN k = num_alloc ELSE k < high_wm
  BY <1>1, <1>2, SMT DEF FreeList
<1>4. /\ first_free' = queue[k] /\ handles' = handles
      /\ \A j \in Timers : j # k => queue'[j] = queue[j] /\ exp'[j] = exp[j]
      /\ \A v \in Users : Freeing(v)' => Freeing(v) /\ i'[v] = i[v]
      /\ \A v \in Users : pc[v] # "hwm" /\ (pc'[v] = "hwm" => i'[v] = k)
      /\ pc'[u] = "hwm"
  <2>1. first_free' = queue[k] /\ handles' = handles
    BY <1>3 DEF Alloc
  <2>2. \A j \in Timers : j # k => queue'[j] = queue[j] /\ exp'[j] = exp[j]
    BY <1>3 DEF Alloc, IndInv, TypeOK
  <2>3. /\ pc' = [pc EXCEPT ![u] = "hwm"] /\ i' = [i EXCEPT ![u] = k]
        /\ \A v \in Users : pc[v] # "hwm"
    BY <1>3 DEF Alloc, Goto, LockFree
  <2>4. \A v \in Users : v \in DOMAIN pc /\ v \in DOMAIN i
    BY DEF IndInv, TypeOK, Threads
  <2> QED
    BY <2>1, <2>2, <2>3, <2>4 DEF Freeing
<1>5. WaterInv'
  <2>1. num_alloc' <= high_wm' + 1 /\ (k < high_wm' \/ k < num_alloc')
    BY <1>2, <1>3, SMT
  <2> HIDE DEF k
  <2> QED
    BY <1>2, <1>4, <2>1 DEF WaterInv
<1>6. HighWmCovers'
  BY <1>2, <1>4 DEF IndInv, FreeInv, HighWmCovers
<1>7. PICK rest \in [0 .. Free0' -> 0 .. N] :
        rest[0] = first_free' /\ rest[Free0'] = N /\ \A d \in 0 .. Free0' : rest[d] = chain[d + 1]
  <2> DEFINE r == [d \in 0 .. Free0' |-> chain[d + 1]]
  <2>1. r \in [0 .. Free0' -> 0 .. N] /\ r[0] = first_free' /\ r[Free0'] = N
    BY <1>1, <1>2, <1>3, <1>4, SMT DEF FreeList
  <2> QED
    BY <2>1
<1>8. ASSUME NEW d \in 0 .. Free0' - 1
      PROVE  /\ rest[d] \in Timers \ handles' /\ exp'[rest[d]] = TMO_UNUSED
             /\ queue'[rest[d]] = rest[d + 1]
             /\ IF num_alloc' + d >= high_wm' THEN rest[d] = num_alloc' + d ELSE rest[d] < high_wm'
             /\ \A v \in Users : Freeing(v)' => i'[v] # rest[d]
  <2>1. /\ d \in Nat /\ d + 1 \in 0 .. Free0 - 1 /\ d + 1 \in 0 .. Free0 /\ 0 \in 0 .. Free0
        /\ d + 1 # 0 /\ rest[d] = chain[d + 1] /\ rest[d + 1] = chain[(d + 1) + 1]
    BY <1>2, <1>7, <1>8, SMT
  <2> DEFINE c == chain[d + 1]
  <2>2. /\ c \in Timers \ handles /\ exp[c] = TMO_UNUSED /\ queue[c] = chain[(d + 1) + 1] /\ c # k
        /\ IF num_alloc + (d + 1) >= high_wm THEN c = num_alloc + (d + 1) ELSE c < high_wm
        /\ \A v \in Users : Freeing(v) => i[v] # c
    BY <1>1, <2>1 DEF FreeList
  <2>3. IF num_alloc' + d >= high_wm' THEN c = num_alloc' + d ELSE c < high_wm'
    <3>1. num_alloc' + d = num_alloc + (d + 1) /\ high_wm' = high_wm
      BY <1>2, <2>1, SMT
    <3> QED
      BY <2>2, <3>1
  <2> QED
    BY <1>4, <2>1, <2>2, <2>3
<1>9. \A d, e \in 0 .. Free0' : rest[d] = rest[e] => d = e
  BY <1>1, <1>2, <1>7, SMT DEF FreeList
<1>10. FreeList(rest)'
  BY <1>2, <1>7, <1>8, <1>9 DEF FreeList, TMO_UNUSED
<1> QED
  BY <1>2, <1>5, <1>6, <1>7, <1>10 DEF FreeInv

(* ... and then high_wm covers it.                                         *)
LEMMA FreeRaise ==
  ASSUME IndInv, setup' = setup, NEW u \in Users, AllocDone(u)
  PROVE  FreeInv'
<1>1. PICK chain \in [0 .. Free0 -> 0 .. N] : FreeList(chain)
  BY DEF IndInv, FreeInv
<1>2. /\ N' = N /\ Free0' = Free0 /\ Timers' = Timers /\ Users' = Users /\ Timers = 0 .. N - 1
      /\ N \in Nat /\ num_alloc \in 0 .. N /\ high_wm \in 0 .. N /\ num_alloc <= high_wm + 1
  BY Fixed, Setup DEF AllocDone, Free0, IndInv, TypeOK, FreeInv, WaterInv
<1>3. /\ pc[u] = "hwm" /\ UNCHANGED <<exp, queue, num_alloc, first_free>>
      /\ high_wm' = IF num_alloc > high_wm THEN num_alloc ELSE high_wm
      /\ handles' = handles \cup {i[u]}
      /\ \A v \in Users : Freeing(v)' => Freeing(v) /\ i'[v] = i[v]
      /\ \A v \in Users : pc'[v] # "hwm"
  <2>1. /\ pc[u] = "hwm" /\ UNCHANGED <<exp, queue, num_alloc, first_free>>
        /\ high_wm' = IF num_alloc > high_wm THEN num_alloc ELSE high_wm
        /\ handles' = handles \cup {i[u]}
        /\ pc' = [pc EXCEPT ![u] = "idle"] /\ i' = [i EXCEPT ![u] = None]
    BY DEF AllocDone, Goto, timers
  <2>2. \A v \in Users : v \in DOMAIN pc /\ v \in DOMAIN i
    BY DEF IndInv, TypeOK, Threads
  <2>3. \A v \in Users : pc[v] = "hwm" => v = u
    BY <2>1 DEF IndInv, UserInv
  <2> QED
    BY <2>1, <2>2, <2>3 DEF Freeing
<1>4. i[u] \in Timers /\ exp[i[u]] # TMO_UNUSED /\ (i[u] < high_wm \/ i[u] < num_alloc)
  BY <1>3, Bounds, SMT DEF IndInv, UserInv, FreeInv, WaterInv, TMO_UNUSED, TMO_INACTIVE
<1>5. WaterInv'
  BY <1>2, <1>3, SMT DEF WaterInv
<1>6. HighWmCovers'
  <2>1. \A j \in handles : j < high_wm /\ j \in Int
    BY <1>2, SMT DEF IndInv, TypeOK, FreeInv, HighWmCovers
  <2>2. i[u] \in Int
    BY <1>2, <1>4, SMT
  <2> QED
    BY <1>2, <1>3, <1>4, <2>1, <2>2, SMT DEF HighWmCovers
<1>7. ASSUME NEW d \in 0 .. Free0 - 1
      PROVE  /\ chain[d] \in Timers \ handles'
             /\ IF num_alloc' + d >= high_wm' THEN chain[d] = num_alloc' + d ELSE chain[d] < high_wm'
  <2>1. /\ chain[d] \in Timers \ handles /\ exp[chain[d]] = TMO_UNUSED
        /\ IF num_alloc + d >= high_wm THEN chain[d] = num_alloc + d ELSE chain[d] < high_wm
    BY <1>1 DEF FreeList
  <2>2. d \in Nat
    BY <1>2, SMT
  <2> DEFINE c == chain[d]
  <2>3. IF num_alloc' + d >= high_wm' THEN c = num_alloc' + d ELSE c < high_wm'
    <3> HIDE DEF c
    <3> QED
      BY <1>2, <1>3, <2>1, <2>2, SMT DEF c
  <2> QED
    BY <1>3, <1>4, <2>1, <2>3
<1>8. FreeList(chain)'
  <2>1. chain[0] = first_free' /\ chain[Free0'] = N' /\ \A d, e \in 0 .. Free0' : chain[d] = chain[e] => d = e
    BY <1>1, <1>2, <1>3 DEF FreeList
  <2>2. \A d \in 0 .. Free0' - 1 :
          /\ exp'[chain[d]] = TMO_UNUSED /\ queue'[chain[d]] = chain[d + 1]
          /\ \A v \in Users : Freeing(v)' => i'[v] # chain[d]
    <3> HIDE DEF Freeing
    <3> QED
      BY <1>1, <1>2, <1>3, SMT DEF FreeList
  <2> QED
    BY <1>2, <1>7, <2>1, <2>2 DEF FreeList, TMO_UNUSED
<1> QED
  BY <1>2, <1>5, <1>6, <1>8 DEF FreeInv

(* odp_timer_free puts its timer before the list.                          *)
LEMMA FreePush ==
  ASSUME IndInv, setup' = setup, NEW u \in Users, Link(u)
  PROVE  FreeInv'
<1>1. PICK chain \in [0 .. Free0 -> 0 .. N] : FreeList(chain)
  BY DEF IndInv, FreeInv
<1>2. Freeing(u)
  BY DEF Link, Goto, Freeing
<1>3. /\ N' = N /\ Timers' = Timers /\ Users' = Users /\ Timers = 0 .. N - 1
      /\ N \in Nat /\ num_alloc \in 1 .. N /\ high_wm \in 0 .. N /\ num_alloc <= high_wm
      /\ num_alloc' = num_alloc - 1 /\ high_wm' = high_wm
      /\ Free0 = N - num_alloc /\ Free0' = Free0 + 1
  <2>1. N' = N /\ Timers' = Timers /\ Users' = Users /\ Timers = 0 .. N - 1 /\ N \in Nat
    BY Fixed, Setup DEF IndInv, TypeOK
  <2>2. /\ num_alloc \in 0 .. N /\ high_wm \in 0 .. N /\ num_alloc <= high_wm
        /\ num_alloc' = num_alloc - 1 /\ high_wm' = high_wm
    BY DEF Link, LockFree, IndInv, TypeOK, FreeInv, WaterInv
  <2> QED
    BY <1>2, <2>1, <2>2, LinkCounts, SMT DEF Free0, Linkable
<1> DEFINE k == i[u]
<1>4. /\ k \in Timers \ handles /\ k < high_wm /\ exp[k] = TMO_UNUSED
      /\ \A v \in Users : Freeing(v) /\ i[v] = k => v = u
  BY <1>2 DEF IndInv, UserInv
<1>5. /\ first_free' = k /\ UNCHANGED <<handles, exp>>
      /\ queue'[k] = first_free /\ \A j \in Timers : j # k => queue'[j] = queue[j]
      /\ \A v \in Users : Freeing(v)' => v # u /\ Freeing(v) /\ i'[v] = i[v]
  BY <1>4, Fixed DEF Link, Goto, Freeing, timers, IndInv, TypeOK
<1>6. \A d \in 0 .. Free0 : chain[d] # k
  <2>1. \A d \in 0 .. Free0 - 1 : chain[d] # k
    BY <1>1, <1>2 DEF FreeList
  <2>2. chain[Free0] = N /\ N # k
    BY <1>1, <1>3, <1>4, SMT DEF FreeList
  <2> QED
    BY <1>3, <2>1, <2>2, SMT
<1>7. PICK more \in [0 .. Free0' -> 0 .. N] :
        /\ more[0] = k /\ more[Free0'] = N
        /\ \A d \in 0 .. Free0' : d # 0 => more[d] = chain[d - 1]
  <2> DEFINE r == [d \in 0 .. Free0' |-> IF d = 0 THEN k ELSE chain[d - 1]]
  <2>1. r \in [0 .. Free0' -> 0 .. N] /\ r[0] = k /\ r[Free0'] = N
    BY <1>1, <1>3, <1>4, SMT DEF FreeList
  <2> QED
    BY <2>1
<1>8. ASSUME NEW d \in 0 .. Free0' - 1
      PROVE  /\ more[d] \in Timers \ handles' /\ exp'[more[d]] = TMO_UNUSED
             /\ queue'[more[d]] = more[d + 1]
             /\ IF num_alloc' + d >= high_wm' THEN more[d] = num_alloc' + d ELSE more[d] < high_wm'
             /\ \A v \in Users : Freeing(v)' => i'[v] # more[d]
  <2>1. more[d + 1] = chain[d] /\ d \in 0 .. Free0
    BY <1>3, <1>7, <1>8, SMT
  <2>2. CASE d = 0
    <3>1. more[d] = k /\ chain[d] = first_free /\ ~(num_alloc' + d >= high_wm')
      BY <1>1, <1>3, <1>7, <2>2, SMT DEF FreeList
    <3> QED
      BY <1>3, <1>4, <1>5, <2>1, <3>1
  <2>3. CASE d # 0
    <3> DEFINE b == d - 1
               c == chain[b]
    <3>1. more[d] = c /\ b \in 0 .. Free0 - 1 /\ b + 1 = d /\ num_alloc' + d = num_alloc + b
      BY <1>3, <1>7, <1>8, <2>3, SMT
    <3>2. /\ c \in Timers \ handles /\ exp[c] = TMO_UNUSED /\ queue[c] = chain[d] /\ c # k
          /\ IF num_alloc + b >= high_wm THEN c = num_alloc + b ELSE c < high_wm
          /\ \A v \in Users : Freeing(v) => i[v] # c
      <4> HIDE DEF b
      <4>1. b \in 0 .. Free0
        BY <1>3, <3>1, SMT
      <4> QED
        BY <1>1, <1>6, <3>1, <4>1 DEF FreeList
    <3> HIDE DEF b
    <3> QED
      BY <1>3, <1>5, <2>1, <3>1, <3>2
  <2> QED
    BY <2>2, <2>3
<1>9. \A d, e \in 0 .. Free0' : more[d] = more[e] => d = e
  <2>1. \A d \in 0 .. Free0' : d # 0 => d - 1 \in 0 .. Free0 /\ more[d] = chain[d - 1]
    BY <1>3, <1>7, SMT
  <2>2. \A d \in 0 .. Free0' : d # 0 => more[d] # more[0]
    BY <1>6, <1>7, <2>1
  <2>3. \A d, e \in 0 .. Free0' : d # 0 /\ e # 0 /\ more[d] = more[e] => d - 1 = e - 1
    BY <1>1, <2>1, SMT DEF FreeList
  <2> QED
    BY <1>3, <2>2, <2>3, SMT
<1>10. FreeList(more)'
  BY <1>3, <1>5, <1>7, <1>8, <1>9 DEF FreeList, TMO_UNUSED
<1>11. HighWmCovers'
  BY <1>3, <1>5 DEF IndInv, FreeInv, HighWmCovers
<1>12. WaterInv'
  <2>1. \A v \in Users : pc'[v] # "hwm"
    BY Fixed DEF Link, LockFree, Goto, IndInv, TypeOK
  <2> QED
    BY <1>3, <2>1, SMT DEF WaterInv
<1> QED
  BY <1>3, <1>7, <1>10, <1>11, <1>12 DEF FreeInv

LEMMA FreeStep ==
  ASSUME IndInv, Next
  PROVE  FreeInv'
<1>1. setup' = setup /\ setup \in Setups
  BY SMT DEF Next, IndInv, TypeOK
<1>2. /\ pc \in [Threads -> {"idle", "hwm", "fini", "link", "set", "del", "try", "scan", "expire", "enq"}]
      /\ i \in [Threads -> 0 .. N \cup {None}] /\ \A v \in Users : v \in Threads
      /\ exp \in [Timers -> Ticks \cup {TMO_UNUSED}]
      /\ queue \in [Timers -> Queues \cup {None} \cup 0 .. N]
  BY Fixed, <1>1 DEF IndInv, TypeOK
<1>3. ASSUME NEW n \in Notifiers, Notify(n) PROVE FreeInv'
  <2>1. \A v \in Users : UNCHANGED <<pc[v], i[v]>>
    BY <1>2, <1>3, NotifierLeaves, Setup, <1>1
  <2>2. UNCHANGED <<exp, queue, num_alloc, first_free, high_wm, handles>>
    BY <1>3, NotifierLeaves DEF table
  <2> QED
    BY <1>1, <2>1, <2>2, FreeKept DEF Freeing
<1>4. ASSUME NEW e \in Events, Receive(e) PROVE FreeInv'
  BY <1>1, <1>4, FreeKept DEF Receive, timers, table, locals, Freeing
<1>5. ASSUME NEW u \in Users, User(u) PROVE FreeInv'
  <2>1. \A v \in Users : v # u => UNCHANGED <<pc[v], i[v]>>
    BY <1>2, <1>5, UserLeaves
  <2>2. CASE Del(u) \/ DelFree(u) \/ \E k \in Timers, t \in Ticks : SetCheck(u, k, t)
    <3>1. /\ UNCHANGED <<exp, queue, num_alloc, first_free, high_wm, handles>>
          /\ pc'[u] \in {"del", "idle", "set"} /\ pc[u] # "hwm"
      BY <1>2, <2>2 DEF Del, DelFree, SetCheck, Goto, timers, table
    <3> QED
      BY <1>1, <2>1, <3>1, FreeKept DEF Freeing
  <2>3. ASSUME NEW k \in Timers, Cancel(u, k) \/ Free(u, k) PROVE FreeInv'
    <3>1. /\ UNCHANGED <<queue, num_alloc, first_free, high_wm>> /\ handles' \subseteq handles
          /\ \A j \in Timers \ handles : exp'[j] = exp[j]
          /\ (pc' = pc /\ i' = i) \/ (i'[u] \in handles /\ pc'[u] # "hwm" /\ pc[u] # "hwm")
      BY <1>2, <2>3 DEF Cancel, Free, TimerCancel, table, locals
    <3> QED
      BY <1>1, <2>1, <3>1, FreeKept DEF Freeing
  <2>4. CASE Fini(u)
    <3>1. /\ UNCHANGED <<exp, num_alloc, first_free, high_wm, handles, i>> /\ Freeing(u)
          /\ pc'[u] # "hwm"
          /\ \A k \in Timers : k # i[u] => queue'[k] = queue[k]
      BY <1>2, <2>4 DEF Fini, Goto, timers, Freeing
    <3> QED
      BY <1>1, <2>1, <3>1, FreeKept DEF Freeing
  <2>5. CASE SetOld(u) \/ \E e \in Events : SetNew(u, e)
    <3>1. i[u] \in handles
      BY <2>5 DEF SetOld, SetNew, SetDone, Goto, IndInv, UserInv
    <3>2. /\ UNCHANGED <<queue, num_alloc, first_free, high_wm, handles>> /\ pc'[u] = "idle" /\ pc[u] = "set"
          /\ \A j \in Timers \ handles : exp'[j] = exp[j]
      BY <1>2, <2>5, <3>1 DEF SetOld, SetNew, SetDone, Arm, Goto, table
    <3> QED
      BY <1>1, <2>1, <3>2, FreeKept DEF Freeing
  <2> QED
    BY <1>1, <1>5, <2>2, <2>3, <2>4, <2>5, FreePop, FreeRaise, FreePush DEF User
<1> QED
  BY <1>3, <1>4, <1>5 DEF Next

-----------------------------------------------------------------------------
LEMMA InitInd ==
  ASSUME Init
  PROVE  IndInv
<1>1. setup \in Setups
  BY DEF Init
<1>2. /\ N \in Nat /\ N > 0 /\ Timers = 0 .. N - 1 /\ Free0 = N
      /\ \A u \in Users : u \in Threads /\ \A n \in Notifiers : n \in Threads
  BY <1>1, Setup, SMT DEF Init, Free0, Threads
<1>3. TypeOK
  BY <1>1, <1>2, Bounds, SMT DEF Init, TypeOK, Headers, TMO_UNUSED
<1>4. UserInv
  BY <1>2 DEF Init, UserInv, Freeing
<1>5. NotifierInv
  BY <1>2 DEF Init, NotifierInv, Scanning, Threads
<1>6. PlaceInv
  BY <1>1, Setup DEF Init, PlaceInv, InTimer, InHand, InQueue
<1>7. QueueInv
  BY <1>2 DEF Init, QueueInv, OwnQueue, Threads
<1>8. FreeInv
  <2> DEFINE chain == [d \in 0 .. Free0 |-> d]
  <2>1. chain \in [0 .. Free0 -> 0 .. N] /\ \A d \in 0 .. Free0 : chain[d] = d
    BY <1>2
  <2> HIDE DEF chain
  <2>2. \A u \in Users : ~Freeing(u)
    BY <1>2 DEF Init, Freeing
  <2>3. FreeList(chain)
    BY <1>2, <2>1, <2>2, SMT DEF Init, FreeList
  <2> QED
    <3>1. WaterInv /\ HighWmCovers
      BY <1>2, SMT DEF Init, WaterInv, HighWmCovers
    <3> QED
      BY <2>1, <2>3, <3>1 DEF FreeInv
<1>9. EarlyInv
  BY <1>1, Setup DEF Init, EarlyInv, InHand, InQueue
<1>10. FaultsKnown
  BY DEF Init, FaultsKnown
<1> QED
  BY <1>3, <1>4, <1>5, <1>6, <1>7, <1>8, <1>9, <1>10 DEF IndInv

LEMMA Quiet ==
  ASSUME IndInv, UNCHANGED vars
  PROVE  IndInv'
<1>1. N' = N /\ Timers' = Timers /\ Users' = Users /\ Events' = Events /\ Threads' = Threads
      /\ Headers' = Headers /\ Free0' = Free0
  BY Fixed DEF vars, table, Free0
<1> USE <1>1 DEF vars, timers, table, events, locals, ghost
<1>2. TypeOK' /\ UserInv' /\ NotifierInv'
  BY SMT DEF IndInv, TypeOK, UserInv, Freeing, NotifierInv, Scanning
<1>3. PlaceInv' /\ EarlyInv'
  BY DEF IndInv, PlaceInv, EarlyInv, InTimer, InHand, InQueue
<1>4. QueueInv'
  BY DEF IndInv, QueueInv, OwnQueue
<1>5. FreeInv'
  BY FreeKept DEF Freeing
<1>6. FaultsKnown'
  BY DEF IndInv, FaultsKnown
<1> QED
  BY <1>2, <1>3, <1>4, <1>5, <1>6 DEF IndInv

LEMMA StepInd == IndInv /\ [Next]_vars => IndInv'
<1> SUFFICES ASSUME IndInv, Next PROVE IndInv'
  BY Quiet
<1> QED
  BY LinkCounts, TypeStep, UserStep, NotifierStep, PlaceStep, QueueStep, FreeStep, EarlyStep, FaultStep
     DEF IndInv

LEMMA Invariance == Spec => []IndInv
BY InitInd, StepInd, PTL DEF Spec

-----------------------------------------------------------------------------
(* A set none of whose members has the event, or just one, counts so.      *)
LEMMA NoneHave ==
  ASSUME NEW S, S = {}
  PROVE  Cardinality(S) = 0
BY FS_EmptySet

LEMMA OneHas ==
  ASSUME NEW S, NEW x \in S, \A y \in S : y = x
  PROVE  Cardinality(S) = 1
<1>1. S = {x}
  BY SMT
<1> QED
  BY <1>1, FS_Singleton

(* However setting, cancelling, freeing and expiry interleave, an event is *)
(* with the application, in one timer, with one notifier or in one queue,  *)
(* and a timer is armed exactly while it has one.                          *)
THEOREM EventsAreInOnePlace == Spec => []EventInOnePlace
<1>1. ASSUME IndInv PROVE EventInOnePlace
  <2>1. TypeOK /\ PlaceInv /\ \A k \in Timers : active[k] <=> tmo_buf[k] # None
    BY <1>1 DEF IndInv, QueueInv
  <2>2. ASSUME NEW e \in Events
        PROVE  (IF e \in app THEN 1 ELSE 0)
                 + Cardinality({k \in Timers : tmo_buf[k] = e})
                 + Cardinality({n \in Notifiers : hand[n] = e})
                 + Cardinality({q \in Queues : e \in inq[q]}) = 1
    <3> DEFINE T == {k \in Timers : tmo_buf[k] = e}
               H == {n \in Notifiers : hand[n] = e}
               Q == {q \in Queues : e \in inq[q]}
    <3>1. e # None
      BY <2>1, Setup DEF TypeOK
    <3>2. /\ InTimer(e) => \E x \in T : \A y \in T : y = x
          /\ InHand(e) => \E x \in H : \A y \in H : y = x
          /\ InQueue(e) => \E x \in Q : \A y \in Q : y = x
      BY <2>1, <3>1, SMT DEF PlaceInv, InTimer, InHand, InQueue
    <3>3. (~InTimer(e) => T = {}) /\ (~InHand(e) => H = {}) /\ (~InQueue(e) => Q = {})
      BY DEF InTimer, InHand, InQueue
    <3> HIDE DEF T, H, Q
    <3>4. /\ Cardinality(T) = IF InTimer(e) THEN 1 ELSE 0
          /\ Cardinality(H) = IF InHand(e) THEN 1 ELSE 0
          /\ Cardinality(Q) = IF InQueue(e) THEN 1 ELSE 0
      BY <3>2, <3>3, NoneHave, OneHas
    <3>5. (IF e \in app THEN 1 ELSE 0) + Cardinality(T) + Cardinality(H) + Cardinality(Q) = 1
      BY <2>1, <3>4, SMT DEF PlaceInv
    <3> QED
      BY <3>5 DEF T, H, Q
  <2> QED
    BY <2>1, <2>2 DEF EventInOnePlace
<1> QED
  BY <1>1, Invariance, PTL

(* A timeout that a notifier has grabbed or a queue holds was set for a    *)
(* tick that has passed.                                                   *)
THEOREM TimeoutsAreNotEarly == Spec => []NotEarly
<1>1. IndInv => NotEarly
  BY DEF IndInv, EarlyInv, NotEarly, InQueue, InHand
<1> QED
  BY <1>1, Invariance, PTL

(* The scan covers the timers in use, the free list threaded through the   *)
(* queue fields is whole, timeouts go to the queue their timer was made    *)
(* with unless it is freed between the grab and the enqueue, also when     *)
(* scans, allocations and frees overlap, and no scan touches a pool that   *)
(* odp_timer_pool_del has freed.                                           *)
THEOREM TimerMemoryIsIntact == Spec => []MemoryIntact
<1>1. ASSUME IndInv PROVE MemoryIntact
  <2>1. HighWmCovers /\ OwnQueue /\ FaultsKnown
    BY <1>1 DEF IndInv, FreeInv, QueueInv
  <2>2. FreeListIntact
    BY <1>1 DEF IndInv, FreeInv, FreeList, Free0, FreeListIntact
  <2>3. NoScanAfterFree
    BY <1>1, Setup DEF IndInv, TypeOK, NotifierInv, Scanning, NoScanAfterFree
  <2> QED
    BY <2>1, <2>2, <2>3 DEF MemoryIntact
<1> QED
  BY <1>1, Invariance, PTL
=============================================================================
