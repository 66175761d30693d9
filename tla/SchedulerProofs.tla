-------------------------- MODULE SchedulerProofs ---------------------------
(***************************************************************************)
(* The scheduler keeps every queue's command in one place, for any number  *)
(* of threads, queues, events and priorities.  The inductive invariant     *)
(* says what each thread in a call and each entry of the queue table can   *)
(* rely on; commands may move in a few ways without breaking it; then each *)
(* call keeps it: creating and destroying queues, enqueueing, and the      *)
(* steps of schedule(), meanwhile queues may be destroyed.                 *)
(***************************************************************************)
EXTENDS Scheduler, TLAPS

(* Zenon proves what does not name SMT.                                    *)
USE Zenon

InSched == {"SCHED", "DESTROYED"}

(* What a thread inside a call relies on.                                  *)
CreateInv(t) ==
  pc[t] = "create" =>
    /\ cur[t] \in Queues
    /\ status[cur[t]] = "NOTSCHED"
    /\ pri_queue[cur[t]] = None /\ cur[t] \notin handles
    /\ \A u \in Threads : pc[u] = "create" /\ cur[u] = cur[t] => u = t

CurInv(t) ==
  /\ pc[t] \in {"sched", "got", "final", "reenq"} => cur[t] \in Queues
  /\ pc[t] \in {"got", "final", "reenq"} => pri_queue[cur[t]] = SlotAt(t)
  /\ pc[t] = "final" => status[cur[t]] = "DESTROYED"

HeldInv(t) ==
  /\ held[t] # None => pc[t] \in {"idle", "create", "sched"}
  /\ held[t] # None /\ pc[t] = "sched" => cur[t] # held[t]

CallInv(t) == CreateInv(t) /\ CurInv(t) /\ HeldInv(t)

(* How the status of a queue goes with the rest of its entry.              *)
EntryInv(q) ==
  /\ status[q] \in InSched => pri_queue[q] # None
  /\ status[q] \in {"FREE", "READY"} => pri_queue[q] = None
  /\ q \in handles => status[q] \in Usable
  /\ q \in handles /\ status[q] # "READY" => pri_queue[q] # None

(* The part of TypeOK that the commands' journey depends on.               *)
PosType == [i : Prios, j : Ids, id : Ids]

CoreType ==
  /\ QueueType /\ ThreadType
  /\ param \in [Queues -> ParamType]
  /\ priq \in [Slots -> Seq(Queues)]
  /\ pos \in [Threads -> PosType]

IndInv ==
  /\ CoreType
  /\ CmdInOnePlace
  /\ \A t \in Threads : CallInv(t)
  /\ \A q \in Queues : EntryInv(q)

-----------------------------------------------------------------------------

(* Appending a new element to, and removing the head of, a sequence        *)
(* without repetitions.                                                    *)
LEMMA AppendRange ==
  ASSUME NEW S, NEW s \in Seq(S), NEW e \in S
  PROVE  /\ Append(s, e) \in Seq(S)
         /\ Range(Append(s, e)) = Range(s) \cup {e}
         /\ IsInjective(s) /\ e \notin Range(s) => IsInjective(Append(s, e))
<1> DEFINE r == Append(s, e)
<1>1. /\ r \in Seq(S) /\ Len(r) = Len(s) + 1 /\ Len(s) \in Nat
      /\ \A i \in 1 .. Len(s) : r[i] = s[i]
      /\ r[Len(s) + 1] = e
      /\ DOMAIN r = 1 .. Len(r) /\ DOMAIN s = 1 .. Len(s)
  BY SMT
<1> HIDE DEF r
<1>2. Range(r) = Range(s) \cup {e}
  BY <1>1, SMT DEF Range
<1>3. IsInjective(s) /\ e \notin Range(s) => IsInjective(r)
  BY <1>1, SMT DEF IsInjective, Range
<1> QED
  BY <1>2, <1>3, SMT DEF r

LEMMA TailRange ==
  ASSUME NEW S, NEW s \in Seq(S), s # <<>>, IsInjective(s)
  PROVE  /\ Tail(s) \in Seq(S) /\ Head(s) \in S
         /\ Head(s) \in Range(s)
         /\ Range(Tail(s)) = Range(s) \ {Head(s)}
         /\ IsInjective(Tail(s))
<1> DEFINE r == Tail(s)
<1>1. /\ r \in Seq(S) /\ Len(r) = Len(s) - 1 /\ Len(s) \in Nat \ {0}
      /\ \A i \in 1 .. Len(r) : r[i] = s[i + 1]
      /\ DOMAIN r = 1 .. Len(r) /\ DOMAIN s = 1 .. Len(s)
      /\ Head(s) \in S /\ Head(s) = s[1]
  BY SMT
<1> HIDE DEF r
<1>2. Range(r) = Range(s) \ {s[1]}
  <2>1. \A i \in DOMAIN r : i + 1 \in DOMAIN s /\ i + 1 # 1
    BY <1>1, SMT
  <2>2. \A i \in DOMAIN s : i # 1 => i - 1 \in DOMAIN r /\ r[i - 1] = s[i]
    BY <1>1, SMT
  <2>4. Range(r) \subseteq Range(s) \ {s[1]}
    BY <1>1, <2>1, SMT DEF Range, IsInjective
  <2>5. Range(s) \ {s[1]} \subseteq Range(r)
    BY <2>2, SMT DEF Range
  <2> QED
    BY <2>4, <2>5
<1>3. IsInjective(r)
  <2>1. SUFFICES ASSUME NEW a \in DOMAIN r, NEW b \in DOMAIN r, r[a] = r[b]
                 PROVE  a = b
    BY DEF IsInjective
  <2>2. a + 1 \in DOMAIN s /\ b + 1 \in DOMAIN s /\ s[a + 1] = s[b + 1]
    BY <1>1, <2>1, SMT
  <2>3. a + 1 = b + 1
    BY <2>2 DEF IsInjective
  <2> QED
    BY <2>3, SMT
<1>4. s[1] \in Range(s)
  BY SMT DEF Range
<1> QED
  BY <1>2, <1>3, <1>4, SMT DEF r

-----------------------------------------------------------------------------
(* The ways in which a command moves.                                      *)

SameSched == \A q \in Queues : status'[q] \in InSched <=> status[q] \in InSched

(* Not at all.                                                             *)
LEMMA CmdStays ==
  ASSUME CmdInOnePlace, priq' = priq, SameSched,
         \A q \in Queues, t \in Threads : Carries(t, q)' <=> Carries(t, q),
         priq \in [Slots -> Seq(Queues)],
         \A q \in Queues : InPri(q) => pri_queue'[q] = pri_queue[q]
  PROVE  CmdInOnePlace'
<1>1. \A q \in Queues : InPri(q)' <=> InPri(q)
  BY DEF InPri
<1>2. \A s \in Slots : \A q \in Range(priq[s]) : q \in Queues /\ InPri(q)
  BY SMT DEF InPri, Range
<1>3. \A s \in Slots : \A q \in Range(priq'[s]) : pri_queue'[q] = s
  BY <1>2 DEF CmdInOnePlace
<1>5. \A q \in Queues : \A t \in Threads :
        Carries(t, q)' => ~InPri(q)' /\ \A u \in Threads : Carries(u, q)' => u = t
  BY <1>1 DEF CmdInOnePlace
<1>6. \A q \in Queues :
        InPri(q)' \/ (\E t \in Threads : Carries(t, q)') <=> status'[q] \in InSched
  BY <1>1 DEF CmdInOnePlace, InSched, SameSched
<1> QED
  BY <1>3, <1>5, <1>6 DEF CmdInOnePlace, InSched

(* From a thread into its priority queue.                                  *)
LEMMA CmdPut ==
  ASSUME CmdInOnePlace, SameSched, pri_queue' = pri_queue,
         priq \in [Slots -> Seq(Queues)],
         NEW p \in Queues, NEW t \in Threads, Carries(t, p), pri_queue[p] \in Slots,
         Insert(p, pri_queue[p]),
         \A q \in Queues, u \in Threads : Carries(u, q)' <=> Carries(u, q) /\ q # p
  PROVE  CmdInOnePlace'
<1> DEFINE x == pri_queue[p]
<1>1. priq[x] \in Seq(Queues) /\ p \notin Range(priq[x]) /\ IsInjective(priq[x])
  BY DEF CmdInOnePlace, InPri
<1>2. /\ Range(Append(priq[x], p)) = Range(priq[x]) \cup {p}
      /\ IsInjective(Append(priq[x], p))
  BY <1>1, AppendRange, SMT
<1>3. priq' = [priq EXCEPT ![x] = Append(priq[x], p)]
  BY DEF Insert
<1>4. /\ Range(priq'[x]) = Range(priq[x]) \cup {p} /\ IsInjective(priq'[x])
      /\ \A s \in Slots : s # x => priq'[s] = priq[s]
  BY <1>2, <1>3
<1> HIDE DEF x
<1>5. \A q \in Queues : InPri(q)' <=> InPri(q) \/ q = p
  BY <1>4 DEF x, InPri
<1>6. \A s \in Slots : \A q \in Range(priq'[s]) : pri_queue'[q] = s
  BY <1>4 DEF CmdInOnePlace, x
<1>7. \A s \in Slots : IsInjective(priq'[s])
  BY <1>4 DEF CmdInOnePlace
<1>8. \A q \in Queues : \A v \in Threads :
        Carries(v, q)' => ~InPri(q)' /\ \A u \in Threads : Carries(u, q)' => u = v
  BY <1>5, SMT DEF CmdInOnePlace
<1>9. \A q \in Queues :
        InPri(q)' \/ (\E v \in Threads : Carries(v, q)') <=> status'[q] \in InSched
  BY <1>5 DEF CmdInOnePlace, InSched, SameSched
<1> QED
  BY <1>6, <1>7, <1>8, <1>9 DEF CmdInOnePlace, InSched

(* From the head of a priority queue to a thread.                          *)
LEMMA CmdTake ==
  ASSUME CmdInOnePlace, SameSched, pri_queue' = pri_queue,
         priq \in [Slots -> Seq(Queues)],
         NEW x \in Slots, NEW t \in Threads, priq[x] # <<>>,
         priq' = [priq EXCEPT ![x] = Tail(priq[x])],
         \A q \in Queues, u \in Threads :
           Carries(u, q)' <=> Carries(u, q) \/ (u = t /\ q = Head(priq[x]))
  PROVE  CmdInOnePlace' /\ Head(priq[x]) \in Queues
         /\ pri_queue[Head(priq[x])] = x /\ priq' \in [Slots -> Seq(Queues)]
<1>1. priq[x] \in Seq(Queues) /\ IsInjective(priq[x])
  BY DEF CmdInOnePlace
<1>0. PICK p \in Queues : p = Head(priq[x])
  BY SMT
<1>2. /\ p \in Queues /\ p \in Range(priq[x]) /\ Tail(priq[x]) \in Seq(Queues)
      /\ Range(Tail(priq[x])) = Range(priq[x]) \ {p}
      /\ IsInjective(Tail(priq[x]))
  BY <1>0, <1>1, TailRange
<1>3. /\ Range(priq'[x]) = Range(priq[x]) \ {p} /\ IsInjective(priq'[x])
      /\ \A s \in Slots : s # x => priq'[s] = priq[s]
  BY <1>2
<1>4. pri_queue[p] = x
  BY <1>2 DEF CmdInOnePlace
<1>5. InPri(p) /\ ~InPri(p)'
  BY <1>4, <1>2, SMT DEF CmdInOnePlace, InPri
<1>6. \A q \in Queues : InPri(q)' <=> InPri(q) /\ q # p
  BY <1>3, <1>5 DEF InPri
<1>7. \A s \in Slots : \A q \in Range(priq'[s]) : pri_queue'[q] = s
  BY <1>3 DEF CmdInOnePlace
<1>8. \A s \in Slots : IsInjective(priq'[s])
  BY <1>3 DEF CmdInOnePlace
<1>9. \A q \in Queues, u \in Threads : Carries(u, q)' <=> Carries(u, q) \/ (u = t /\ q = p)
  BY <1>0
<1>10. \A u \in Threads : ~Carries(u, p)
  BY <1>5 DEF CmdInOnePlace
<1>11. \A q \in Queues : \A v \in Threads :
        Carries(v, q)' => ~InPri(q)' /\ \A u \in Threads : Carries(u, q)' => u = v
  BY <1>6, <1>9, <1>10, SMT DEF CmdInOnePlace
<1>12. \A q \in Queues :
        InPri(q)' \/ (\E v \in Threads : Carries(v, q)') <=> status'[q] \in InSched
  BY <1>5, <1>6, <1>9 DEF CmdInOnePlace, InSched, SameSched
<1>14. CmdInOnePlace'
  BY <1>7, <1>8, <1>11, <1>12 DEF CmdInOnePlace, InSched
<1> QED
  BY <1>0, <1>4, <1>14, SMT

(* Out of scheduling, from a thread that drops it.                         *)
LEMMA CmdDrop ==
  ASSUME CmdInOnePlace, priq' = priq, priq \in [Slots -> Seq(Queues)],
         NEW p \in Queues, NEW t \in Threads, Carries(t, p),
         status'[p] \notin InSched,
         \A q \in Queues : q # p =>
           status'[q] = status[q] /\ pri_queue'[q] = pri_queue[q],
         \A q \in Queues, u \in Threads : Carries(u, q)' <=> Carries(u, q) /\ q # p
  PROVE  CmdInOnePlace'
<1>1. \A q \in Queues : InPri(q)' <=> InPri(q)
  BY DEF InPri
<1>2. ~InPri(p)
  BY DEF CmdInOnePlace
<1>3. \A s \in Slots : \A q \in Range(priq[s]) : q \in Queues /\ q # p
  BY <1>2, SMT DEF InPri, Range
<1>4. \A s \in Slots : \A q \in Range(priq'[s]) : pri_queue'[q] = s
  BY <1>3 DEF CmdInOnePlace
<1>6. \A q \in Queues : \A v \in Threads :
        Carries(v, q)' => ~InPri(q)' /\ \A u \in Threads : Carries(u, q)' => u = v
  BY <1>1 DEF CmdInOnePlace
<1>7. \A q \in Queues :
        InPri(q)' \/ (\E v \in Threads : Carries(v, q)') <=> status'[q] \in InSched
  BY <1>1, SMT DEF CmdInOnePlace, InSched
<1> QED
  BY <1>4, <1>6, <1>7 DEF CmdInOnePlace, InSched

(* Into scheduling, with the thread that will insert it.                   *)
LEMMA CmdBirth ==
  ASSUME CmdInOnePlace, priq' = priq, pri_queue' = pri_queue,
         NEW p \in Queues, NEW t \in Threads,
         status[p] \notin InSched, status'[p] \in InSched,
         \A q \in Queues : q # p => status'[q] = status[q],
         \A q \in Queues, u \in Threads :
           Carries(u, q)' <=> Carries(u, q) \/ (u = t /\ q = p)
  PROVE  CmdInOnePlace'
<1>1. \A q \in Queues : InPri(q)' <=> InPri(q)
  BY DEF InPri
<1>2. ~InPri(p) /\ \A u \in Threads : ~Carries(u, p)
  BY DEF CmdInOnePlace, InSched
<1>6. \A q \in Queues : \A v \in Threads :
        Carries(v, q)' => ~InPri(q)' /\ \A u \in Threads : Carries(u, q)' => u = v
  BY <1>1, <1>2, SMT DEF CmdInOnePlace
<1>7. \A q \in Queues :
        InPri(q)' \/ (\E v \in Threads : Carries(v, q)') <=> status'[q] \in InSched
  BY <1>1 DEF CmdInOnePlace, InSched
<1> QED
  BY <1>6, <1>7 DEF CmdInOnePlace, InSched

-----------------------------------------------------------------------------
(* Types of the helpers.                                                   *)

LEMMA IdType == \A n \in Nat : n % QPP \in Ids
BY SizesAssumption, SMT DEF Ids

LEMMA StartType ==
  ASSUME NEW t \in Threads
  PROVE  Start(t) \in PosType
<1>1. t % QPP \in Ids
  BY IdType, SetsAssumption
<1>2. 0 \in Prios /\ 0 \in Ids
  BY SizesAssumption, SMT DEF Prios, Ids
<1> QED
  BY <1>1, <1>2 DEF Start, PosType

LEMMA SlotType ==
  ASSUME CoreType, NEW t \in Threads
  PROVE  SlotAt(t) \in Slots
BY DEF CoreType, PosType, SlotAt, Slots

LEMMA ContinueType ==
  ASSUME CoreType, NEW t \in Threads, NEW from, Continue(t, from)
  PROVE  /\ pc[t] = from
         /\ \E to \in {"idle", "scan"} : pc' = [pc EXCEPT ![t] = to]
         /\ cur' = [cur EXCEPT ![t] = None]
         /\ pos' \in [Threads -> PosType]
         /\ \A u \in Threads : u # t => pos'[u] = pos[u]
<1> DEFINE p == After(t, pos[t])
<1>1. pos[t] \in PosType /\ t % QPP \in Ids
  BY IdType, SetsAssumption DEF CoreType, PosType
<1>2. p.i < NumPrio => p \in PosType
  BY <1>1, SizesAssumption, SMT DEF After, PosType, Prios, Ids
<1>3. p.i \in Int
  BY <1>1, SMT DEF After, PosType, Prios
<1>4. pos' = [pos EXCEPT ![t] = IF p.i >= NumPrio THEN Start(t) ELSE p]
  BY DEF Continue
<1>5. pos' \in [Threads -> PosType]
  BY <1>2, <1>3, StartType, SizesAssumption, <1>4, SMT DEF CoreType
<1>6. \A u \in Threads : u # t => pos'[u] = pos[u]
  BY <1>4, SMT
<1>7. /\ pc[t] = from
      /\ \E to \in {"idle", "scan"} : pc' = [pc EXCEPT ![t] = to]
      /\ cur' = [cur EXCEPT ![t] = None]
  BY Zenon DEF Continue, Goto
<1> QED
  BY <1>5, <1>6, <1>7

(* A thread that carries a command has the only copy, of a queue that is   *)
(* in scheduling.                                                          *)
LEMMA CarryFacts ==
  ASSUME IndInv, NEW t \in Threads, NEW q \in Queues, Carries(t, q)
  PROVE  /\ status[q] \in InSched
         /\ pri_queue[q] \in Slots
         /\ ~InPri(q)
         /\ \A u \in Threads : Carries(u, q) => u = t
<1>1. /\ status[q] \in InSched /\ ~InPri(q)
      /\ \A u \in Threads : Carries(u, q) => u = t
  BY DEF IndInv, CmdInOnePlace, InSched
<1>2. pri_queue[q] \in Slots
  BY <1>1 DEF IndInv, EntryInv, CoreType, QueueType
<1> QED
  BY <1>1, <1>2

-----------------------------------------------------------------------------
(* The calls of the application.                                           *)

(* A step that leaves the commands and the queue table alone.              *)
LEMMA QuietStep ==
  ASSUME IndInv, CoreType', \A u \in Threads : CallInv(u)',
         UNCHANGED <<status, pri_queue, handles, priq>>,
         \A q \in Queues, u \in Threads : Carries(u, q)' <=> Carries(u, q)
  PROVE  IndInv'
<1>1. CmdInOnePlace'
  BY CmdStays DEF SameSched, IndInv, CoreType
<1>3. \A q \in Queues : EntryInv(q)'
  BY DEF IndInv, EntryInv
<1> QED
  BY <1>1, <1>3 DEF IndInv

(* A step that only moves events, or pauses a thread.                      *)
LEMMA EventStep ==
  ASSUME IndInv, UNCHANGED <<status, param, pri_queue, handles, priq, pc, cur, pos, held>>
  PROVE  IndInv'
<1>1. CoreType'
  BY DEF IndInv, CoreType, QueueType, ThreadType
<1>2. \A r \in Queues, u \in Threads : Carries(u, r)' <=> Carries(u, r)
  BY DEF Carries
<1>3. \A u \in Threads : CallInv(u)'
  BY DEF IndInv, CallInv, SlotAt, CreateInv, CurInv, HeldInv
<1> QED
  BY <1>1, <1>2, <1>3, QuietStep

LEMMA CreateStep ==
  ASSUME IndInv, NEW t \in Threads, NEW q \in Queues, NEW par \in Params, Create(t, q, par)
  PROVE  IndInv'
<1>0. /\ pc[t] = "idle" /\ status[q] = "FREE" /\ par \in ParamType
      /\ pri_queue[q] = None /\ pri_queue' = pri_queue /\ q \notin handles
      /\ \A u \in Threads : pc[u] = "create" => cur[u] # q
  BY SetsAssumption
  DEF Create, Goto, IndInv, EntryInv, CallInv, CoreType, QueueType, CreateInv
<1> DEFINE Sched == /\ status' = [status EXCEPT ![q] = "NOTSCHED"] /\ handles' = handles
                    /\ pc' = [pc EXCEPT ![t] = "create"] /\ cur' = [cur EXCEPT ![t] = q]
           Poll  == /\ status' = [status EXCEPT ![q] = "READY"] /\ handles' = handles \cup {q}
                    /\ pc' = pc /\ cur' = cur
<1>1. /\ param' = [param EXCEPT ![q] = par] /\ evq' = [evq EXCEPT ![q] = <<>>]
      /\ UNCHANGED <<priq, pos, held, lbuf>>
      /\ Sched \/ Poll
  BY Zenon DEF Create, Goto, pris, local
<1>2. CoreType'
  <2>2. /\ status' \in [Queues -> Usable \cup {"FREE", "DESTROYED"}]
        /\ handles' \subseteq Queues
        /\ pc' \in [Threads -> PC] /\ cur' \in [Threads -> Queues \cup {None}]
    <3>1. CASE Sched
      BY <3>1 DEF IndInv, CoreType, QueueType, ThreadType, Usable, PC
    <3>2. CASE Poll
      BY <3>2 DEF IndInv, CoreType, QueueType, ThreadType, Usable
    <3> QED
      BY <1>1, <3>1, <3>2
  <2> QED
    BY <1>0, <1>1, <2>2 DEF IndInv, CoreType, QueueType, ThreadType
<1>3. CmdInOnePlace'
  BY <1>0, <1>1, CmdStays, SMT
  DEF SameSched, InSched, IndInv, CoreType, QueueType, Carries, ThreadType
<1>6. \A u \in Threads : CallInv(u)'
  <2>2. CASE Sched
    BY <1>0, <1>1, <2>2, SMT
    DEF IndInv, CoreType, QueueType, ThreadType, CallInv, SlotAt, CreateInv, CurInv, HeldInv
  <2>3. CASE Poll
    BY <1>0, <1>1, <2>3, SMT DEF IndInv, CallInv, SlotAt, CreateInv, CurInv, HeldInv
  <2> QED
    BY <1>1, <2>2, <2>3
<1>7. \A r \in Queues : EntryInv(r)'
  BY <1>0, <1>1 DEF IndInv, CoreType, QueueType, EntryInv, InSched, Usable
<1> QED
  BY <1>2, <1>3, <1>6, <1>7 DEF IndInv

LEMMA CreateInitStep ==
  ASSUME IndInv, NEW t \in Threads, CreateInit(t)
  PROVE  IndInv'
<1> DEFINE s == <<param[cur[t]].prio, IdOf(cur[t])>>
<1>0. PICK q \in Queues : q = cur[t]
  BY DEF CreateInit, Goto, IndInv, CallInv, CreateInv
<1>1. /\ pc[t] = "create" /\ status[q] = "NOTSCHED" /\ pri_queue[q] = None /\ q \notin handles
      /\ \A u \in Threads : pc[u] = "create" /\ cur[u] = q => u = t
  BY <1>0 DEF CreateInit, Goto, IndInv, CallInv, CreateInv
<1>2. PICK x \in Slots : x = s
  BY <1>0, IdType, SetsAssumption DEF IndInv, CoreType, ParamType, IdOf, Slots
<1>3. /\ pri_queue' = [pri_queue EXCEPT ![q] = x] /\ pri_set(x)
      /\ handles' = handles \cup {q} /\ pc' = [pc EXCEPT ![t] = "idle"]
      /\ cur' = [cur EXCEPT ![t] = None]
      /\ UNCHANGED <<status, param, priq, pos, held, lbuf>>
  BY <1>0, <1>2 DEF CreateInit, Goto, local
<1>4. CoreType'
  BY <1>3 DEF IndInv, CoreType, QueueType, ThreadType, pri_set, PC
<1>5. ~InPri(q) /\ \A u \in Threads : ~Carries(u, q)
  BY <1>1 DEF IndInv, CmdInOnePlace
<1>6. CmdInOnePlace'
  BY <1>1, <1>3, <1>5, CmdStays, SMT DEF Carries, SameSched, IndInv, CoreType
<1>9. \A u \in Threads : CallInv(u)'
  BY <1>5, <1>1, <1>3, SMT
  DEF Carries, IndInv, CoreType, ThreadType, CallInv, CreateInv, CurInv, SlotAt, HeldInv
<1>10. \A r \in Queues : EntryInv(r)'
  BY <1>1, <1>3, SetsAssumption DEF IndInv, CoreType, QueueType, EntryInv
<1> QED
  BY <1>4, <1>6, <1>9, <1>10 DEF IndInv

LEMMA CreateFailStep ==
  ASSUME IndInv, NEW t \in Threads, CreateFail(t)
  PROVE  IndInv'
<1>1. /\ pc[t] = "create" /\ pc' = [pc EXCEPT ![t] = "idle"] /\ cur' = [cur EXCEPT ![t] = None]
      /\ UNCHANGED <<status, param, pri_queue, handles, priq, pos, held, lbuf>>
  BY DEF CreateFail, Goto, table, pris, local
<1>2. CoreType'
  BY <1>1 DEF IndInv, CoreType, QueueType, ThreadType, PC
<1>3. \A q \in Queues, u \in Threads : Carries(u, q)' <=> Carries(u, q)
  BY <1>1, SMT DEF Carries
<1>4. \A u \in Threads : CallInv(u)'
  BY <1>1, SMT DEF IndInv, CoreType, ThreadType, CallInv, CreateInv, CurInv, SlotAt, HeldInv
<1> QED
  BY <1>1, <1>2, <1>3, <1>4, QuietStep

LEMMA InitLocalStep ==
  ASSUME IndInv, NEW t \in Threads, InitLocal(t)
  PROVE  IndInv'
<1>1. /\ pc[t] = "gone" /\ pc' = [pc EXCEPT ![t] = "idle"]
      /\ UNCHANGED <<status, param, pri_queue, handles, priq, cur, pos, held, lbuf>>
  BY DEF InitLocal, Goto, table, pris, local
<1>2. CoreType'
  BY <1>1 DEF IndInv, CoreType, QueueType, ThreadType, PC
<1>3. \A r \in Queues, u \in Threads : Carries(u, r)' <=> Carries(u, r)
  BY <1>1, SMT DEF Carries
<1>4. \A u \in Threads : CallInv(u)'
  BY <1>1, SMT DEF IndInv, CallInv, SlotAt, CreateInv, CurInv, HeldInv
<1> QED
  BY <1>1, <1>2, <1>3, <1>4, QuietStep

(* Enqueueing: to a queue already in scheduling, or to one that this       *)
(* thread takes into scheduling.                                           *)
LEMMA EnqStep ==
  ASSUME IndInv, NEW t \in Threads, NEW q \in Queues, NEW evs \in EventLists, Enq(t, q, evs)
  PROVE  IndInv'
<1>1. /\ pc[t] = "idle" /\ q \in handles /\ status[q] \in Usable
      /\ UNCHANGED <<param, pri_queue, handles, priq, pos, held>>
  BY DEF Enq, Usable, pris, local
<1>3. CASE status[q] = "NOTSCHED"
  <2>1. /\ status' = [status EXCEPT ![q] = "SCHED"]
        /\ pc' = [pc EXCEPT ![t] = "sched"] /\ cur' = [cur EXCEPT ![t] = q]
    BY <1>3 DEF Enq, Goto
  <2>2. \A u \in Threads : ~Carries(u, q)
    BY <1>3, CarryFacts DEF InSched
  <2>3. CoreType'
    BY <1>1, <2>1 DEF IndInv, CoreType, QueueType, ThreadType, PC, Usable
  <2>4. CmdInOnePlace'
    <3>1. \A r \in Queues, u \in Threads : Carries(u, r)' <=> Carries(u, r) \/ (u = t /\ r = q)
      BY <1>1, <2>1 DEF Carries, IndInv, CoreType, ThreadType
    <3>2. /\ status[q] \notin InSched /\ status'[q] \in InSched
          /\ \A r \in Queues : r # q => status'[r] = status[r]
      BY <1>3, <2>1 DEF InSched, IndInv, CoreType, QueueType
    <3> QED
      BY <1>1, <3>1, <3>2, CmdBirth DEF IndInv
  <2>7. \A u \in Threads : CallInv(u)'
    BY <2>2, <1>1, <2>1, SMT
    DEF Carries, IndInv, CallInv, CreateInv, CoreType, ThreadType, CurInv, SlotAt, HeldInv
  <2>8. \A r \in Queues : EntryInv(r)'
    BY <1>1, <1>3, <2>1, SMT DEF IndInv, EntryInv, Usable
  <2> QED
    BY <2>3, <2>4, <2>7, <2>8 DEF IndInv
<1>4. CASE status[q] # "NOTSCHED"
  <2>1. UNCHANGED <<status, pc, cur>>
    BY <1>4 DEF Enq
  <2> QED
    BY <1>1, <2>1, EventStep
<1> QED
  BY <1>3, <1>4

LEMMA DestroyStep ==
  ASSUME IndInv, NEW t \in Threads, NEW q \in Queues, Destroy(t, q)
  PROVE  IndInv'
<1>0. /\ pc[t] = "idle" /\ q \in handles /\ evq[q] = <<>> /\ handles' = handles \ {q}
      /\ UNCHANGED <<param, priq, pc, cur, pos, held, lbuf>>
  BY DEF Destroy, local
<1>1. \A u \in Threads : pc[u] = "create" => cur[u] # q
  BY <1>0 DEF IndInv, CallInv, CreateInv
<1>2. \A r \in Queues, u \in Threads : Carries(u, r)' <=> Carries(u, r)
  BY <1>0 DEF Carries
<1>3. CASE status[q] = "READY"
  <2>1. status' = [status EXCEPT ![q] = "FREE"] /\ UNCHANGED <<pri_queue>>
    BY <1>3 DEF Destroy
  <2>3. CoreType'
    BY <1>0, <2>1 DEF IndInv, CoreType, QueueType, ThreadType
  <2>4. CmdInOnePlace'
    BY <1>3, <2>1, <1>0, <1>2, CmdStays, SMT DEF SameSched, InSched, IndInv, CoreType
  <2>7. \A u \in Threads : CallInv(u)'
    BY <1>0, <1>1, <1>3, <2>1, SMT DEF IndInv, CallInv, SlotAt, CreateInv, CurInv, HeldInv
  <2>8. \A r \in Queues : EntryInv(r)'
    BY <1>0, <1>3, <2>1, SMT DEF IndInv, EntryInv, InSched
  <2> QED
    BY <2>3, <2>4, <2>7, <2>8 DEF IndInv
<1>4. CASE status[q] = "NOTSCHED"
  <2>1. status' = [status EXCEPT ![q] = "FREE"] /\ schedule_queue_destroy(q)
    BY <1>4 DEF Destroy
  <2>1a. pri_queue' = [pri_queue EXCEPT ![q] = None] /\ pri_queue[q] \in Slots
    BY <1>0, <1>4, <2>1 DEF schedule_queue_destroy, IndInv, EntryInv, CoreType, QueueType
  <2>2. ~InPri(q) /\ \A u \in Threads : ~Carries(u, q)
    BY <1>4 DEF IndInv, CmdInOnePlace
  <2>3. CoreType'
    BY <1>0, <2>1, <2>1a
    DEF IndInv, CoreType, QueueType, ThreadType, schedule_queue_destroy,
        pri_clr
  <2>4. CmdInOnePlace'
    BY <1>4, <2>1, <2>1a, <2>2, <1>0, <1>2, CmdStays, SMT
    DEF SameSched, InSched, IndInv, CoreType
  <2>7. \A u \in Threads : CallInv(u)'
    BY <2>2, <1>0, <2>1, <2>1a, SMT
    DEF Carries, IndInv, CallInv, CreateInv, CoreType, ThreadType, CurInv, SlotAt, HeldInv
  <2>8. \A r \in Queues : EntryInv(r)'
    BY <1>0, <2>1, <2>1a DEF IndInv, CoreType, QueueType, EntryInv, InSched
  <2> QED
    BY <2>3, <2>4, <2>7, <2>8, SMT DEF IndInv
<1>5. CASE status[q] = "SCHED"
  <2>1. status' = [status EXCEPT ![q] = "DESTROYED"] /\ UNCHANGED <<pri_queue>>
    BY <1>5 DEF Destroy
  <2>3. CoreType'
    BY <1>0, <2>1 DEF IndInv, CoreType, QueueType, ThreadType
  <2>4. CmdInOnePlace'
    BY <1>5, <2>1, <1>0, <1>2, CmdStays, SMT DEF SameSched, InSched, IndInv, CoreType
  <2>7. \A u \in Threads : CallInv(u)'
    BY <1>0, <2>1, SMT DEF IndInv, CallInv, SlotAt, CreateInv, CurInv, HeldInv
  <2>8. \A r \in Queues : EntryInv(r)'
    BY <1>0, <1>5, <2>1, SMT DEF IndInv, EntryInv
  <2> QED
    BY <2>3, <2>4, <2>7, <2>8, SMT DEF IndInv
<1> QED
  BY <1>3, <1>4, <1>5 DEF Destroy

-----------------------------------------------------------------------------
(* A step that puts a command a thread carries into its priority queue.    *)
LEMMA PutStep ==
  ASSUME IndInv, CoreType', \A u \in Threads : CallInv(u)',
         UNCHANGED <<status, pri_queue, handles>>,
         NEW p \in Queues, NEW t \in Threads, Carries(t, p), Insert(p, pri_queue[p]),
         \A q \in Queues, u \in Threads : Carries(u, q)' <=> Carries(u, q) /\ q # p
  PROVE  IndInv'
<1>1. CmdInOnePlace'
  BY CarryFacts, CmdPut DEF SameSched, IndInv, CoreType
<1>3. \A q \in Queues : EntryInv(q)'
  BY DEF IndInv, EntryInv
<1> QED
  BY <1>1, <1>3 DEF IndInv

LEMMA InsertType ==
  ASSUME CoreType, NEW p \in Queues, NEW s \in Slots, Insert(p, s)
  PROVE  priq' \in [Slots -> Seq(Queues)]
<1> QED
  BY SMT DEF CoreType, Insert

LEMMA EnqScheduleStep ==
  ASSUME IndInv, NEW t \in Threads, EnqSchedule(t)
  PROVE  IndInv'
<1>0. PICK q \in Queues : q = cur[t]
  BY DEF EnqSchedule, Goto, IndInv, CallInv, CurInv
<1>1. /\ pc[t] = "sched" /\ pc' = [pc EXCEPT ![t] = "idle"] /\ cur' = [cur EXCEPT ![t] = None]
      /\ Insert(q, pri_queue[q])
      /\ UNCHANGED <<status, param, pri_queue, handles, pos, held, lbuf>>
  BY <1>0 DEF EnqSchedule, Goto, table, local
<1>2. Carries(t, q) /\ pri_queue[q] \in Slots /\ \A u \in Threads : Carries(u, q) => u = t
  BY <1>0, <1>1, CarryFacts DEF Carries
<1>3. CoreType'
  BY <1>1, <1>2, InsertType
  DEF IndInv, CoreType, QueueType, ThreadType, PC
<1>4. \A r \in Queues, u \in Threads : Carries(u, r)' <=> Carries(u, r) /\ r # q
  BY <1>0, <1>1, SetsAssumption, <1>2
  DEF IndInv, CallInv, HeldInv, Carries, CoreType, ThreadType
<1>5. \A u \in Threads : CallInv(u)'
  BY <1>1, SMT DEF IndInv, CallInv, CreateInv, CoreType, ThreadType, CurInv, SlotAt, HeldInv
<1> QED
  BY <1>1, <1>2, <1>3, <1>4, <1>5, PutStep

LEMMA ReenqueueStep ==
  ASSUME IndInv, NEW t \in Threads, Reenqueue(t)
  PROVE  IndInv'
<1>0. PICK q \in Queues : q = cur[t]
  BY DEF Reenqueue
<1>1. /\ pc[t] = "reenq" /\ pc' = [pc EXCEPT ![t] = "idle"] /\ cur' = [cur EXCEPT ![t] = None]
      /\ pri_queue[q] = SlotAt(t) /\ Insert(q, pri_queue[q])
      /\ pos' = [pos EXCEPT ![t] = Start(t)]
      /\ UNCHANGED <<status, param, pri_queue, handles, held, lbuf>>
  BY <1>0 DEF Reenqueue, Goto, table, local, IndInv, CallInv, CurInv
<1>2. Carries(t, q) /\ pri_queue[q] \in Slots /\ \A u \in Threads : Carries(u, q) => u = t
  BY <1>0, <1>1, CarryFacts DEF Carries
<1>3. CoreType'
  BY <1>1, StartType, <1>2, InsertType
  DEF IndInv, CoreType, PosType, QueueType, ThreadType, PC
<1>4. \A r \in Queues, u \in Threads : Carries(u, r)' <=> Carries(u, r) /\ r # q
  BY <1>1, SetsAssumption, <1>2 DEF IndInv, CallInv, HeldInv, Carries, CoreType, ThreadType
<1>5. \A u \in Threads : CallInv(u)'
  BY <1>1, SMT DEF IndInv, CallInv, CreateInv, CoreType, ThreadType, CurInv, SlotAt, HeldInv
<1> QED
  BY <1>1, <1>2, <1>3, <1>4, <1>5, PutStep

(* release_atomic and its callers: the held command goes back, or nothing  *)
(* happens because there is none or events remain.                         *)
LEMMA ReleaseStep ==
  ASSUME IndInv, NEW t \in Threads, release_atomic(t),
         NEW to \in {"idle", "scan", "gone"}, pc[t] = "idle",
         pc' = [pc EXCEPT ![t] = to], to # "idle" => lbuf[t] = <<>>,
         UNCHANGED <<status, param, pri_queue, handles, cur, pos, lbuf>>
  PROVE  IndInv'
<1>2. CASE held[t] # None /\ lbuf[t] = <<>>
  <2>0. PICK q \in Queues : q = held[t]
    BY <1>2 DEF IndInv, CoreType, ThreadType
  <2>1. Insert(q, pri_queue[q]) /\ held' = [held EXCEPT ![t] = None]
    BY <1>2, <2>0 DEF release_atomic
  <2>2. Carries(t, q) /\ pri_queue[q] \in Slots /\ \A u \in Threads : Carries(u, q) => u = t
    BY <2>0, CarryFacts DEF Carries
  <2>3. CoreType'
    BY <2>1, <2>2, InsertType
    DEF IndInv, CoreType, QueueType, ThreadType, PC
  <2>4. \A r \in Queues, u \in Threads : Carries(u, r)' <=> Carries(u, r) /\ r # q
    BY <2>1, SetsAssumption, <2>2 DEF Carries, IndInv, CoreType, ThreadType
  <2>5. \A u \in Threads : CallInv(u)'
    BY <2>1, SMT DEF IndInv, CallInv, CreateInv, CurInv, SlotAt, CoreType, ThreadType, HeldInv
  <2> QED
    BY <2>1, <2>2, <2>3, <2>4, <2>5, PutStep
<1>3. CASE ~(held[t] # None /\ lbuf[t] = <<>>)
  <2>1. UNCHANGED <<priq, held>>
    BY <1>3 DEF release_atomic
  <2>2. CoreType'
    BY <2>1 DEF IndInv, CoreType, QueueType, ThreadType, PC
  <2>3. \A r \in Queues, u \in Threads : Carries(u, r)' <=> Carries(u, r)
    BY <2>1, SMT DEF Carries
  <2>4. \A u \in Threads : CallInv(u)'
    BY <1>3, <2>1, SMT DEF IndInv, CallInv, CreateInv, CurInv, SlotAt, HeldInv
  <2> QED
    BY <2>1, <2>2, <2>3, <2>4, QuietStep
<1> QED
  BY <1>2, <1>3

LEMMA ReleaseAtomicStep ==
  ASSUME IndInv, NEW t \in Threads,
         ReleaseAtomic(t) \/ ScheduleBegin(t) \/ TermLocal(t)
  PROVE  IndInv'
<1>1. CASE ReleaseAtomic(t)
  BY <1>1, ReleaseStep DEF ReleaseAtomic, IndInv, CoreType, ThreadType, table
<1>2. CASE ScheduleBegin(t)
  BY <1>2, ReleaseStep DEF ScheduleBegin, Goto, IndInv, CoreType, ThreadType, table
<1>3. CASE TermLocal(t)
  BY <1>3, ReleaseStep DEF TermLocal, Goto, IndInv, CoreType, table
<1> QED
  BY <1>1, <1>2, <1>3

(* The loops of schedule(): nothing found, or a command taken.             *)
LEMMA ScanSkipStep ==
  ASSUME IndInv, NEW t \in Threads, ScanSkip(t)
  PROVE  IndInv'
<1>1. /\ UNCHANGED <<status, param, pri_queue, handles, priq, held, lbuf>>
      /\ Continue(t, "scan")
  BY DEF ScanSkip, table, pris, local
<1>2. PICK to \in {"idle", "scan"} :
        /\ pc[t] = "scan" /\ pc' = [pc EXCEPT ![t] = to] /\ cur' = [cur EXCEPT ![t] = None]
        /\ pos' \in [Threads -> PosType]
        /\ \A u \in Threads : u # t => pos'[u] = pos[u]
  BY <1>1, ContinueType DEF IndInv
<1>3. CoreType'
  BY <1>1, <1>2 DEF IndInv, CoreType, QueueType, ThreadType, PC, PosType
<1>4. \A r \in Queues, u \in Threads : Carries(u, r)' <=> Carries(u, r)
  BY <1>1, <1>2, SMT DEF Carries
<1>5. \A u \in Threads : CallInv(u)'
  BY <1>1, <1>2, SMT DEF IndInv, CallInv, CreateInv, ThreadType, CurInv, SlotAt, HeldInv
<1> QED
  BY <1>1, <1>3, <1>4, <1>5, QuietStep

LEMMA ScanTakeStep ==
  ASSUME IndInv, NEW t \in Threads, ScanTake(t)
  PROVE  IndInv'
<1>0. PICK x \in Slots : x = SlotAt(t)
  BY SlotType DEF IndInv
<1>1. /\ pc[t] = "scan" /\ pc' = [pc EXCEPT ![t] = "got"]
      /\ priq[x] # <<>> /\ cur' = [cur EXCEPT ![t] = Head(priq[x])]
      /\ priq' = [priq EXCEPT ![x] = Tail(priq[x])]
      /\ UNCHANGED <<status, param, pri_queue, handles, pos, held, lbuf>>
  BY <1>0 DEF ScanTake, Goto, table, local
<1>2. /\ CmdInOnePlace' /\ Head(priq[x]) \in Queues
      /\ pri_queue[Head(priq[x])] = x /\ priq' \in [Slots -> Seq(Queues)]
  <2>1. \A q \in Queues, u \in Threads :
          Carries(u, q)' <=> Carries(u, q) \/ (u = t /\ q = Head(priq[x]))
    BY <1>1 DEF Carries, IndInv, CoreType, ThreadType
  <2>2. SameSched
    BY <1>1 DEF SameSched
  <2> QED
    BY <1>1, <2>1, <2>2, CmdTake DEF IndInv, CoreType
<1>3. CoreType'
  BY <1>1, SMT DEF IndInv, CoreType, QueueType, ThreadType, PC
<1>6. \A u \in Threads : CallInv(u)'
  <2>1. SlotAt(t)' = x
    BY <1>0, <1>1 DEF SlotAt
  <2> QED
    BY <1>1, <1>2, <2>1, SMT
    DEF IndInv, CallInv, CreateInv, CoreType, ThreadType, CurInv, SlotAt, HeldInv
<1>7. \A q \in Queues : EntryInv(q)'
  BY <1>1 DEF IndInv, EntryInv
<1> QED
  BY <1>2, <1>3, <1>6, <1>7 DEF IndInv

(* queue_deq_multi for the scheduler.                                      *)
LEMMA DeqDestroyedStep ==
  ASSUME IndInv, NEW t \in Threads, DeqDestroyed(t)
  PROVE  IndInv'
<1>0. PICK q \in Queues : q = cur[t]
  BY DEF DeqDestroyed
<1>1. /\ pc[t] = "got" /\ pc' = [pc EXCEPT ![t] = "final"] /\ status[q] \notin Usable
      /\ UNCHANGED <<status, param, pri_queue, handles, priq, cur, pos, held, lbuf>>
  BY <1>0 DEF DeqDestroyed, Goto, table, pris, local
<1>2. status[q] = "DESTROYED"
  BY <1>0, <1>1, CarryFacts DEF Carries, InSched, Usable
<1>3. CoreType'
  BY <1>1 DEF IndInv, CoreType, QueueType, ThreadType, PC
<1>4. \A r \in Queues, u \in Threads : Carries(u, r)' <=> Carries(u, r)
  BY <1>1, SMT DEF Carries
<1>5. \A u \in Threads : CallInv(u)'
  BY <1>0, <1>1, <1>2, SMT DEF IndInv, CallInv, SlotAt, CreateInv, CurInv, HeldInv
<1> QED
  BY <1>1, <1>3, <1>4, <1>5, QuietStep

LEMMA DeqEmptyStep ==
  ASSUME IndInv, NEW t \in Threads, DeqEmpty(t)
  PROVE  IndInv'
<1>0. PICK q \in Queues : q = cur[t]
  BY DEF DeqEmpty
<1>1. /\ status[q] \in Usable /\ evq[q] = <<>> /\ Continue(t, "got")
      /\ UNCHANGED <<param, pri_queue, handles, priq, held, lbuf>>
  BY <1>0 DEF DeqEmpty, pris, local
<1>2. PICK to \in {"idle", "scan"} :
        /\ pc[t] = "got" /\ pc' = [pc EXCEPT ![t] = to] /\ cur' = [cur EXCEPT ![t] = None]
        /\ pos' \in [Threads -> PosType]
        /\ \A u \in Threads : u # t => pos'[u] = pos[u]
  BY <1>1, ContinueType DEF IndInv
<1>3. Carries(t, q) /\ status[q] \in InSched /\ \A u \in Threads : Carries(u, q) => u = t
  BY <1>0, <1>2, CarryFacts DEF Carries
<1>4. status[q] = "SCHED" /\ status' = [status EXCEPT ![q] = "NOTSCHED"]
  BY <1>0, <1>3 DEF DeqEmpty, InSched, Usable
<1>5. CoreType'
  BY <1>1, <1>2, <1>4
  DEF IndInv, CoreType, QueueType, ThreadType, PC, PosType, Usable
<1>6. CmdInOnePlace'
  <2>1. held[t] = None
    BY <1>2 DEF IndInv, CallInv, HeldInv
  <2>2. \A r \in Queues : Carries(t, r)' <=> Carries(t, r) /\ r # q
    BY <1>0, <1>1, <1>2, <2>1, SetsAssumption DEF Carries, IndInv, CoreType, ThreadType
  <2>3. \A r \in Queues, u \in Threads : u # t => (Carries(u, r)' <=> Carries(u, r))
    BY <1>1, <1>2, SMT DEF Carries
  <2>4. /\ status'[q] \notin InSched
        /\ \A r \in Queues : r # q => status'[r] = status[r] /\ pri_queue'[r] = pri_queue[r]
    BY <1>1, <1>4 DEF InSched, IndInv, CoreType, QueueType
  <2>5. \A r \in Queues, u \in Threads : Carries(u, r)' <=> Carries(u, r) /\ r # q
    BY <1>3, <2>2, <2>3
  <2>6. CmdInOnePlace /\ priq \in [Slots -> Seq(Queues)]
    BY DEF IndInv, CoreType
  <2> QED
    BY <1>1, <1>3, <2>4, <2>5, <2>6, CmdDrop
<1>7. pc'[t] \in {"idle", "scan"} /\ held'[t] = None
  BY <1>1, <1>2 DEF IndInv, CallInv, HeldInv, CoreType, ThreadType
<1>8. \A u \in Threads : u # t =>
        pc'[u] = pc[u] /\ cur'[u] = cur[u] /\ held'[u] = held[u] /\ SlotAt(u)' = SlotAt(u)
  <2>1. \A u \in Threads : u # t => pc'[u] = pc[u] /\ cur'[u] = cur[u]
    BY <1>2 DEF IndInv, CoreType, ThreadType
  <2>2. \A u \in Threads : u # t => SlotAt(u)' = SlotAt(u)
    BY <1>2 DEF SlotAt
  <2> QED
    BY <1>1, <2>1, <2>2
<1>9. ASSUME NEW u \in Threads PROVE CallInv(u)'
  <2>1. CASE u = t
    BY <1>7, <2>1 DEF CallInv, CreateInv, CurInv, HeldInv
  <2>2. CASE u # t
    <3>1. \A r \in Queues : status[r] # "SCHED" => status'[r] = status[r]
      BY <1>4 DEF IndInv, CoreType, QueueType
    <3>2. CreateInv(u) /\ CurInv(u) /\ HeldInv(u)
      BY DEF IndInv, CallInv
    <3>3. CreateInv(u)'
      BY <1>1, <1>7, <1>8, <2>2, <3>1, <3>2 DEF CreateInv
    <3>4. CurInv(u)'
      BY <1>1, <1>8, <2>2, <3>1, <3>2 DEF CurInv
    <3>5. HeldInv(u)'
      BY <1>8, <2>2, <3>2 DEF HeldInv
    <3> QED
      BY <3>3, <3>4, <3>5 DEF CallInv
  <2> QED
    BY <2>1, <2>2
<1>10. \A r \in Queues : EntryInv(r)'
  BY <1>1, <1>4, SMT DEF IndInv, EntryInv, InSched, Usable
<1> QED
  BY <1>5, <1>6, <1>9, <1>10 DEF IndInv

LEMMA DeqEventsStep ==
  ASSUME IndInv, NEW t \in Threads, NEW n \in 1 .. MaxDeq, NEW k \in 1 .. MaxNum,
         DeqEvents(t, n, k)
  PROVE  IndInv'
<1>0. PICK q \in Queues : q = cur[t]
  BY DEF DeqEvents
<1> DEFINE Hold == /\ pc' = [pc EXCEPT ![t] = "idle"] /\ held' = [held EXCEPT ![t] = q]
                   /\ cur' = [cur EXCEPT ![t] = None] /\ pos' = [pos EXCEPT ![t] = Start(t)]
           Pass == /\ pc' = [pc EXCEPT ![t] = "reenq"] /\ UNCHANGED <<held, cur, pos>>
<1>1. /\ pc[t] = "got" /\ UNCHANGED <<status, param, pri_queue, handles, priq>>
      /\ Hold \/ Pass
  BY <1>0 DEF DeqEvents, Goto, pris
<1>4. held[t] = None /\ Carries(t, q)
  BY <1>0, <1>1 DEF IndInv, CallInv, Carries, HeldInv
<1>5. CoreType'
  <2>2. CASE Hold
    BY <2>2, StartType, <1>1 DEF IndInv, CoreType, PosType, QueueType, ThreadType, PC
  <2>3. CASE Pass
    BY <1>1, <2>3 DEF IndInv, CoreType, QueueType, ThreadType, PC
  <2> QED
    BY <1>1, <2>2, <2>3
<1>6. \A r \in Queues, u \in Threads : Carries(u, r)' <=> Carries(u, r)
  BY <1>4, SetsAssumption, <1>1, SMT DEF Carries, IndInv, CoreType, ThreadType
<1>7. \A u \in Threads : CallInv(u)'
  <2>1. /\ \A u \in Threads : u # t => UNCHANGED <<pc[u], cur[u], held[u], pos[u]>>
        /\ pc'[t] = "idle" \/ (pc'[t] = "reenq" /\ UNCHANGED <<held, cur, pos>>)
    <3>1. /\ pc \in [Threads -> PC] /\ cur \in [Threads -> Queues \cup {None}]
          /\ held \in [Threads -> Queues \cup {None}] /\ pos \in [Threads -> PosType]
      BY DEF IndInv, CoreType, ThreadType
    <3>2. CASE Hold
      BY <3>1, <3>2
    <3>3. CASE Pass
      BY <3>1, <3>3
    <3> QED
      BY <1>1, <3>2, <3>3
  <2>2. CallInv(t)'
    <3>1. CreateInv(t)'
      BY <2>1 DEF CreateInv
    <3>2. CurInv(t)'
      BY <1>1, <2>1, SMT DEF IndInv, CallInv, CurInv, SlotAt
    <3>3. HeldInv(t)'
      BY <1>1, <1>4, <2>1 DEF HeldInv
    <3> QED
      BY <3>1, <3>2, <3>3 DEF CallInv
  <2>3. ASSUME NEW u \in Threads, u # t PROVE CallInv(u)'
    <3>1. UNCHANGED <<pc[u], cur[u], held[u]>> /\ SlotAt(u)' = SlotAt(u)
      BY <1>1, <2>1, <2>3 DEF SlotAt
    <3>2. \A v \in Threads : pc'[v] = "create" => pc[v] = "create" /\ cur'[v] = cur[v]
      BY <2>1
    <3>3. CreateInv(u)'
      BY <1>1, <3>1, <3>2, SMT DEF IndInv, CallInv, CreateInv
    <3>4. CurInv(u)'
      BY <1>1, <3>1 DEF IndInv, CallInv, CurInv
    <3>5. HeldInv(u)'
      BY <3>1 DEF IndInv, CallInv, HeldInv
    <3> QED
      BY <3>3, <3>4, <3>5 DEF CallInv
  <2> QED
    BY <2>2, <2>3
<1> QED
  BY <1>1, <1>5, <1>6, <1>7, QuietStep

LEMMA FinalizeStep ==
  ASSUME IndInv, NEW t \in Threads, Finalize(t)
  PROVE  IndInv'
<1>1. PICK to \in {"idle", "scan"} :
        /\ pc[t] = "final" /\ pc' = [pc EXCEPT ![t] = to] /\ cur' = [cur EXCEPT ![t] = None]
        /\ pos' \in [Threads -> PosType]
        /\ \A u \in Threads : u # t => pos'[u] = pos[u]
  BY ContinueType DEF IndInv, Finalize
<1>0. PICK q \in Queues : q = cur[t]
  BY <1>1 DEF IndInv, CallInv, CurInv
<1>2. /\ status[q] = "DESTROYED" /\ status' = [status EXCEPT ![q] = "FREE"]
      /\ schedule_queue_destroy(q) /\ pri_queue' = [pri_queue EXCEPT ![q] = None]
      /\ UNCHANGED <<param, handles, priq, held, lbuf>>
  BY <1>0, <1>1 DEF Finalize, IndInv, CallInv, schedule_queue_destroy, local, CurInv
<1>3. Carries(t, q) /\ pri_queue[q] \in Slots /\ \A u \in Threads : Carries(u, q) => u = t
  BY <1>0, <1>1, CarryFacts DEF Carries
<1>4. CoreType'
  BY <1>2, <1>3, <1>1
  DEF IndInv, CoreType, schedule_queue_destroy, pri_clr, QueueType,
      ThreadType, PC, PosType
<1>5. CmdInOnePlace'
  <2>1. held[t] = None
    BY <1>1 DEF IndInv, CallInv, HeldInv
  <2>2. \A r \in Queues : Carries(t, r)' <=> Carries(t, r) /\ r # q
    BY <1>0, <1>1, <1>2, <2>1, SetsAssumption DEF Carries, IndInv, CoreType, ThreadType
  <2>3. \A r \in Queues, u \in Threads : u # t => (Carries(u, r)' <=> Carries(u, r))
    BY <1>1, <1>2, SMT DEF Carries
  <2>4. /\ status'[q] \notin InSched
        /\ \A r \in Queues : r # q => status'[r] = status[r] /\ pri_queue'[r] = pri_queue[r]
    BY <1>2 DEF InSched, IndInv, CoreType, QueueType
  <2>5. \A r \in Queues, u \in Threads : Carries(u, r)' <=> Carries(u, r) /\ r # q
    BY <1>3, <2>2, <2>3
  <2>6. CmdInOnePlace /\ priq \in [Slots -> Seq(Queues)]
    BY DEF IndInv, CoreType
  <2> QED
    BY <1>2, <1>3, <2>4, <2>5, <2>6, CmdDrop
<1>8. \A u \in Threads : CallInv(u)'
  <2>1. \A u \in Threads : u # t /\ pc[u] \in {"sched", "got", "final", "reenq"} => cur[u] # q
    BY <1>3 DEF Carries
  <2>3. CallInv(t)'
    BY <1>1, <1>2 DEF IndInv, CoreType, ThreadType, CallInv, CreateInv, CurInv, HeldInv
  <2>4. ASSUME NEW u \in Threads, u # t PROVE CallInv(u)'
    <3>1. /\ pc'[u] = pc[u] /\ cur'[u] = cur[u] /\ held'[u] = held[u]
          /\ SlotAt(u)' = SlotAt(u)
      BY <1>1, <1>2, <2>4, SMT DEF SlotAt
    <3>2. pc[u] \in {"create", "sched", "got", "final", "reenq"} =>
            /\ cur[u] # q /\ cur[u] \in Queues
            /\ pri_queue'[cur[u]] = pri_queue[cur[u]] /\ status'[cur[u]] = status[cur[u]]
      BY <1>2, <2>1, <2>4, SMT DEF IndInv, CallInv, CreateInv, CurInv
    <3>3. \A v \in Threads : pc'[v] = "create" => pc[v] = "create" /\ cur'[v] = cur[v]
      BY <1>1 DEF IndInv, CoreType, ThreadType
    <3>4. CreateInv(u)'
      BY <1>2, <3>1, <3>2, <3>3, SMT DEF IndInv, CallInv, CreateInv
    <3>5. CurInv(u)' /\ HeldInv(u)'
      BY <3>1, <3>2 DEF IndInv, CallInv, CurInv, HeldInv
    <3> QED
      BY <3>4, <3>5 DEF CallInv
  <2> QED
    BY <2>3, <2>4
<1>9. \A r \in Queues : EntryInv(r)'
  BY <1>2 DEF IndInv, CoreType, QueueType, EntryInv, InSched, Usable
<1> QED
  BY <1>4, <1>5, <1>8, <1>9 DEF IndInv

LEMMA InitInd == Init => IndInv
<1> SUFFICES ASSUME Init PROVE IndInv
  BY SMT
<1>0. \A s \in Slots : priq[s] = <<>> /\ Range(priq[s]) = {} /\ IsInjective(priq[s])
  BY SMT DEF Init, Range, IsInjective
<1>1. CoreType
  <2>1. pos \in [Threads -> PosType]
    BY StartType DEF Init
  <2>2. 0 \in Prios
    BY SizesAssumption, SMT DEF Prios
  <2>3. priq \in [Slots -> Seq(Queues)]
    BY SMT DEF Init
  <2> QED
    BY <2>1, <2>2, <2>3 DEF Init, CoreType, QueueType, ThreadType, ParamType, PC
<1>2. CmdInOnePlace
  BY <1>0, SetsAssumption DEF Init, CmdInOnePlace, InPri, Carries
<1>5. \A t \in Threads : CallInv(t)
  BY DEF Init, CallInv, CreateInv, CurInv, HeldInv
<1>6. \A q \in Queues : EntryInv(q)
  BY DEF Init, EntryInv, InSched
<1> QED
  BY <1>1, <1>2, <1>5, <1>6 DEF IndInv

LEMMA StepInd == IndInv /\ [Next]_vars => IndInv'
<1> SUFFICES ASSUME IndInv, [Next]_vars PROVE IndInv'
  BY SMT
<1>0. ASSUME UNCHANGED <<status, param, pri_queue, handles, priq, pc, cur, pos, held>>
      PROVE  IndInv'
  BY <1>0, EventStep
<1>1. ASSUME NEW t \in Threads, Call(t) PROVE IndInv'
  <2>1. ASSUME NEW q \in Queues, NEW n \in 1 .. MaxNum, Deq(t, q, n) PROVE IndInv'
    BY <2>1, <1>0 DEF Deq, pris, local
  <2> QED
    BY <1>1, <2>1, CreateStep, DestroyStep, EnqStep, ReleaseAtomicStep DEF Call
<1>2. ASSUME NEW t \in Threads, Leave(t) PROVE IndInv'
  <2>1. CASE Pause(t) \/ Resume(t)
    BY <2>1, <1>0 DEF Pause, Resume, table, pris
  <2> QED
    BY <1>2, <2>1, ReleaseAtomicStep, InitLocalStep DEF Leave
<1>3. ASSUME NEW t \in Threads, Schedule(t) PROVE IndInv'
  <2>1. ASSUME NEW k \in 1 .. MaxNum, ScheduleLocal(t, k) PROVE IndInv'
    BY <2>1, <1>0 DEF ScheduleLocal, table, pris
  <2> QED
    BY <1>3, <2>1, ReleaseAtomicStep DEF Schedule
<1>4. ASSUME NEW t \in Threads, Run(t) PROVE IndInv'
  BY <1>4, CreateInitStep, CreateFailStep, EnqScheduleStep, ScanSkipStep, ScanTakeStep,
     DeqDestroyedStep, DeqEmptyStep, DeqEventsStep, ReenqueueStep, FinalizeStep DEF Run
<1>5. CASE UNCHANGED vars
  BY <1>5, <1>0 DEF vars
<1> QED
  BY <1>1, <1>2, <1>3, <1>4, <1>5 DEF Next
=============================================================================
