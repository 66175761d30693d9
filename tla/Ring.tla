-------------------------------- MODULE Ring --------------------------------
(***************************************************************************)
(* helper/ring.c: a ring of Size object pointers between producers and     *)
(* consumers.  The two sides are mirror images, and so are the functions   *)
(* __odph_ring_{mp,sp}_do_enqueue and __odph_ring_{mc,sc}_do_dequeue: both *)
(* load their side's head and the other side's tail, move the head with a  *)
(* compare-and-exchange (a plain store on a single-user side), copy the    *)
(* pointers and, in turn, move the tail.                                   *)
(*                                                                         *)
(* Indices are uint32_t in the code and wrap; here they count modulo W.    *)
(* The two loads are plain loads of ordinary memory that other threads     *)
(* write: Orders says in which order the build performs them.              *)
(***************************************************************************)
EXTENDS Integers, Sequences, FiniteSets

CONSTANTS
  Producers, Consumers,  \* threads that enqueue, threads that dequeue
  Size,                  \* r->prod.size, a power of two
  W,                     \* indices hold 0..W-1 (2^32 in the code)
  Values, Marked,        \* object pointers, and the one that is followed
  MaxBurst,              \* most objects of one call
  MaxLag,                \* see NoHeadLap
  Flags,                 \* sets of sides created with SP_ENQ, SC_DEQ
  Orders,                \* subset of {"head_first", "tail_first"}
  Counts,                \* what odph_ring_set_water_mark is called with
  None

Sides == {"prod", "cons"}
Threads == Producers \cup Consumers
Mask == Size - 1

ASSUME SizeAssumption ==
  /\ Size \in Nat \ {0} /\ W \in Nat \ {0} /\ W % Size = 0 /\ 2 * Size <= W
  /\ MaxBurst \in 1 .. Size /\ MaxLag \in 0 .. W - 1 /\ Counts \subseteq Nat
ASSUME SidesAssumption ==
  /\ Producers \cap Consumers = {}
  /\ Flags \subseteq SUBSET Sides
  /\ Orders \subseteq {"head_first", "tail_first"}
  /\ None \notin 0 .. W

VARIABLES
  head, tail,       \* r->prod.head, r->cons.head; r->prod.tail, r->cons.tail
  ring,             \* r->ring
  watermark,        \* r->prod.watermark
  single,           \* r->prod.sp_enqueue, r->cons.sc_dequeue
  pc,
  h, o,             \* prod_head and cons_tail, or cons_head and prod_tail
  n,                \* n, once the head has been moved
  room,             \* free_entries, which the water mark check uses later
  quota,            \* the call will report that the water mark is exceeded
  due               \* history: what was in the entries a dequeue claimed

locals == <<h, o, n, room, quota, due>>
vars == <<head, tail, ring, watermark, single, pc, h, o, n, room, quota, due>>

Side(t) == IF t \in Producers THEN "prod" ELSE "cons"
Other(s) == IF s = "prod" THEN "cons" ELSE "prod"

(* uint32_t arithmetic: of two numbers in 0..W-1                           *)
Plus(a, b) == IF a + b < W THEN a + b ELSE a + b - W
Minus(a, b) == IF a >= b THEN a - b ELSE a - b + W

Entry(i) == i % Size                      \* index & mask
Entries(from, k) == [i \in 1 .. k |-> ring[Entry(Plus(from, i - 1))]]

Init ==
  /\ head = [s \in Sides |-> 0] /\ tail = [s \in Sides |-> 0]
  /\ \E v \in Values \ {Marked} : ring = [e \in 0 .. Mask |-> v]
  /\ watermark = Size
  /\ single \in Flags
  /\ pc = [t \in Threads |-> "load"]
  /\ h = [t \in Threads |-> None] /\ o = [t \in Threads |-> None]
  /\ n = [t \in Threads |-> 0]
  /\ room = [t \in Threads |-> None] /\ quota = [t \in Threads |-> FALSE]
  /\ due = [t \in Threads |-> <<>>]

SetWaterMark(c) ==
  /\ c < Size
  /\ watermark' = IF c = 0 THEN Size ELSE c
  /\ UNCHANGED <<head, tail, ring, single, pc, locals>>

Calling(t) == pc[t] # "load" \/ h[t] # None \/ o[t] # None

(* The application makes one call at a time on a single-user side.         *)
Uses(t) ==
  Side(t) \in single =>
    \A u \in Threads \ {t} : Side(u) = Side(t) => ~Calling(u)

(* A thread with neither index loaded is about to call, or to try again.   *)
LoadHead(t) ==
  /\ pc[t] = "load" /\ h[t] = None
  /\ Uses(t) /\ ("head_first" \in Orders \/ o[t] # None)
  /\ h' = [h EXCEPT ![t] = head[Side(t)]]
  /\ UNCHANGED <<head, tail, ring, watermark, single, pc, o, n, room, quota, due>>

LoadTail(t) ==
  /\ pc[t] = "load" /\ o[t] = None
  /\ Uses(t) /\ ("tail_first" \in Orders \/ h[t] # None)
  /\ o' = [o EXCEPT ![t] = tail[Other(Side(t))]]
  /\ UNCHANGED <<head, tail, ring, watermark, single, pc, h, n, room, quota, due>>

Loaded(t) == pc[t] = "load" /\ h[t] # None /\ o[t] # None

(* free_entries, entries                                                   *)
Room(t) ==
  IF Side(t) = "prod" THEN Minus(Plus(Mask, o[t]), h[t]) ELSE Minus(o[t], h[t])

Return(t) ==
  /\ pc' = [pc EXCEPT ![t] = "load"]
  /\ h' = [h EXCEPT ![t] = None] /\ o' = [o EXCEPT ![t] = None]
  /\ n' = [n EXCEPT ![t] = 0] /\ room' = [room EXCEPT ![t] = None]
  /\ quota' = [quota EXCEPT ![t] = FALSE]
  /\ due' = [due EXCEPT ![t] = <<>>]

(* How many entries a call with n = max gets: max, or what there is room   *)
(* for; 0 when it is refused, a burst with no room or a bulk (fixed) with  *)
(* too little.  Nothing of the call is used before, so that it is chosen   *)
(* here.                                                                   *)
Granted(t, max, fixed) ==
  IF max <= Room(t) THEN max ELSE IF fixed THEN 0 ELSE Room(t)

Grants(t) ==
  {Granted(t, max, fixed) : max \in 1 .. MaxBurst, fixed \in BOOLEAN}

(* -ENOBUFS or -ENOENT for a bulk, 0 for a burst.                          *)
Refuse(t) ==
  /\ Loaded(t) /\ 0 \in Grants(t)
  /\ Return(t)
  /\ UNCHANGED <<head, tail, ring, watermark, single>>

(***************************************************************************)
(* Named bound: while a thread has loaded an index, that index moves on by *)
(* at most MaxLag, so that it does not come round (2^32 entries during one *)
(* call, in the code).                                                     *)
(***************************************************************************)
NoHeadLap(s, k) ==
  \A t \in Threads :
    pc[t] = "load" /\ h[t] # None /\ Side(t) = s => Minus(head[s], h[t]) + k <= MaxLag
NoTailLap(s, k) ==
  \A t \in Threads :
    pc[t] = "load" /\ o[t] # None /\ Side(t) # s => Minus(tail[s], o[t]) + k <= MaxLag

Moved(t) == Side(t) \in single \/ head[Side(t)] = h[t]

Reserve(t, k) ==
  LET s == Side(t)
  IN /\ Moved(t) /\ NoHeadLap(s, k)
     /\ head' = [head EXCEPT ![s] = Plus(h[t], k)]
     /\ pc' = [pc EXCEPT ![t] = "copy"]
     /\ n' = [n EXCEPT ![t] = k]
     /\ o' = [o EXCEPT ![t] = None]
     /\ room' = [room EXCEPT ![t] = IF s = "prod" THEN Room(t) ELSE None]
     /\ due' = [due EXCEPT ![t] = IF s = "cons" THEN Entries(h[t], k) ELSE <<>>]
     /\ UNCHANGED <<tail, ring, watermark, single, h, quota>>

(* The compare-and-exchange failed: load again.                            *)
Retry(t) ==
  /\ Loaded(t) /\ Grants(t) # {0}
  /\ ~Moved(t)
  /\ h' = [h EXCEPT ![t] = None] /\ o' = [o EXCEPT ![t] = None]
  /\ UNCHANGED <<head, tail, ring, watermark, single, pc, n, room, quota, due>>

(***************************************************************************)
(* Named bound: the array holds Marked at most once.  The ring moves the   *)
(* pointers without looking at them, so that any one object may be taken   *)
(* for it and all the others for one another.                              *)
(***************************************************************************)
OneMarked(array) == Cardinality({e \in 0 .. Mask : array[e] = Marked}) <= 1

(* ENQUEUE_PTRS, in two parts where the entries wrap, and the check of the *)
(* water mark; DEQUEUE_PTRS.                                               *)
Copy(t) ==
  /\ pc[t] = "copy"
  /\ pc' = [pc EXCEPT ![t] = "publish"]
  /\ IF Side(t) = "prod"
       THEN /\ \E vs \in [1 .. n[t] -> Values] :
                 ring' = [e \in 0 .. Mask |->
                            IF \E i \in 1 .. n[t] : e = Entry(Plus(h[t], i - 1))
                              THEN vs[CHOOSE i \in 1 .. n[t] : e = Entry(Plus(h[t], i - 1))]
                              ELSE ring[e]]
            /\ OneMarked(ring')
            /\ quota' = [quota EXCEPT ![t] = Plus(Minus(Mask + 1, room[t]), n[t]) > watermark]
       ELSE UNCHANGED <<ring, quota>>
  /\ room' = [room EXCEPT ![t] = None]
  /\ UNCHANGED <<head, tail, watermark, single, h, o, n, due>>

(* Wait for the calls that came first, then move the tail.                 *)
PublishMutant(t) ==
  LET s == Side(t)
  IN /\ pc[t] = "publish"
     /\ NoTailLap(s, n[t])
     /\ tail' = [tail EXCEPT ![s] = Plus(h[t], n[t])]
     /\ Return(t)
     /\ UNCHANGED <<head, ring, watermark, single>>

PublishStuckMutant(t) ==
  LET s == Side(t)
  IN /\ pc[t] = "publish"
     /\ s \in single \/ tail[s] = h[t]
     /\ NoTailLap(s, n[t])
     /\ Return(t)
     /\ UNCHANGED <<head, tail, ring, watermark, single>>

Publish(t) ==
  LET s == Side(t)
  IN /\ pc[t] = "publish"
     /\ s \in single \/ tail[s] = h[t]
     /\ NoTailLap(s, n[t])
     /\ tail' = [tail EXCEPT ![s] = Plus(h[t], n[t])]
     /\ Return(t)
     /\ UNCHANGED <<head, ring, watermark, single>>

Step(t) ==
  \/ LoadHead(t) \/ LoadTail(t)
  \/ Refuse(t) \/ Retry(t)
  \/ Loaded(t) /\ \E k \in Grants(t) \ {0} : Reserve(t, k)
  \/ Copy(t) \/ Publish(t)

Next ==
  \/ \E t \in Threads : Step(t)
  \/ \E c \in Counts : SetWaterMark(c)

Spec == Init /\ [][Next]_vars

-----------------------------------------------------------------------------
Index == 0 .. W - 1

TypeOK ==
  /\ head \in [Sides -> Index] /\ tail \in [Sides -> Index]
  /\ ring \in [0 .. Mask -> Values]
  /\ watermark \in 1 .. Size /\ single \subseteq Sides
  /\ pc \in [Threads -> {"load", "copy", "publish"}]
  /\ h \in [Threads -> Index \cup {None}] /\ o \in [Threads -> Index \cup {None}]
  /\ n \in [Threads -> 0 .. MaxBurst] /\ room \in [Threads -> Index \cup {None}]
  /\ quota \in [Threads -> BOOLEAN] /\ due \in [Threads -> Seq(Values)]

(* What is in the ring: published by producers, not claimed by consumers.  *)
Fifo == INSTANCE BoundedFifo
          WITH Capacity <- Mask,
               queue <- Entries(head["cons"], Minus(tail["prod"], head["cons"]))

(* The ring is a bounded first-in first-out queue: an enqueue takes effect *)
(* when the tail passes its entries, a dequeue when the head does, and     *)
(* nothing else changes what is in between.                                *)
IsFifo == Fifo!Spec

InProgress(s) == {t \in Threads : Side(t) = s /\ pc[t] # "load"}

(* The j-th of the entries claimed and not yet published on its side       *)
(* (counted from 0 at the side's tail) is one of those t has claimed.      *)
Owns(t, j) ==
  LET first == Minus(h[t], tail[Side(t)]) IN first <= j /\ j < first + n[t]

(* What a call has claimed stays its own until it publishes, however long  *)
(* it sleeps between the two (ENQUEUE_PTRS and DEQUEUE_PTRS run without a  *)
(* lock).  Each entry claimed and not yet published on a side is that of   *)
(* one call in progress, so that one of these calls is next to move the    *)
(* tail and waits for nobody; and a dequeue copies the objects that were   *)
(* there when it moved the head.                                           *)
ClaimsHold ==
  /\ TypeOK
  /\ \A s \in Sides, j \in Index :
       /\ j < Minus(head[s], tail[s]) <=> \E t \in InProgress(s) : Owns(t, j)
       /\ \A t, u \in InProgress(s) : Owns(t, j) /\ Owns(u, j) => t = u
  /\ \A t \in Consumers : pc[t] = "copy" => Entries(h[t], n[t]) = due[t]
=============================================================================
