----------------------------- MODULE SyncProofs -----------------------------
(***************************************************************************)
(* The locks exclude and the barrier keeps its rounds, for any number of   *)
(* threads and any width of the ticket words and of the reader/writer      *)
(* lock's word that exceeds it, wrap-around included.  Each lock has its   *)
(* inductive invariant; the last section puts them together.               *)
(***************************************************************************)
EXTENDS MCSync, FiniteSetTheorems, TLAPS

(* Zenon proves what does not name SMT.                                    *)
USE Zenon

(* The locks' modules count with the same Cardinality as this one.         *)
LEMMA CardinalityInst ==
  /\ \A X : R!Cardinality(X) = Cardinality(X)
  /\ \A X : B!Cardinality(X) = Cardinality(X)
  /\ \A X : T!Cardinality(X) = Cardinality(X)
BY DEF R!Cardinality, B!Cardinality, T!Cardinality, Cardinality

-----------------------------------------------------------------------------
(* The ticket lock.                                                        *)
TicketlockInv == T!TypeOK /\ T!TicketInv

(* The threads with a ticket are finitely many, fewer than there are       *)
(* tickets.                                                                *)
LEMMA HoldersCount ==
  /\ W \in Nat \ {0}
  /\ IsFiniteSet(T!Holders) /\ Cardinality(T!Holders) \in Nat
  /\ Cardinality(T!Holders) < W
<1>1. T!Holders \subseteq Threads
  BY DEF T!Holders
<1> QED
  BY <1>1, ThreadsAssumption, TicketsAssumption, FS_Subset, FS_CardinalityType, SMT

LEMMA TicketInit == T!Init => TicketlockInv
<1> SUFFICES ASSUME T!Init PROVE TicketlockInv
  BY SMT
<1>1. T!TypeOK
  BY HoldersCount, SMT DEF T!Init, T!TypeOK, T!Ticket, T!PC
<1>2. T!Holders = {}
  BY DEF T!Init, T!Holders, T!HasTicket
<1>3. T!TicketInv
  BY <1>2, FS_EmptySet, CardinalityInst, SMT
     DEF T!Init, T!TicketInv, T!Ahead, T!HasTicket, T!InCS
<1> QED
  BY <1>1, <1>3 DEF TicketlockInv

(* Taking a ticket, by lock() or by a successful trylock(): the tickets    *)
(* out are one more, and the bound |Threads| < W keeps them distinct.      *)
LEMMA TakeStep ==
  ASSUME TicketlockInv, NEW t \in Threads, ~T!HasTicket(t), T!NoLapDuringTrylock(t),
         NEW to \in {"spin", "cs"},
         to = "cs" => cur_ticket = next_ticket,
         tpc' = [tpc EXCEPT ![t] = to],
         ticket' = [ticket EXCEPT ![t] = next_ticket],
         next_ticket' = T!Inc(next_ticket),
         UNCHANGED <<cur_ticket, ucur>>,
         \A s \in Threads \ {t} : tcur'[s] = tcur[s]
  PROVE  T!TicketInv'
<1> USE HoldersCount, CardinalityInst DEF TicketlockInv, T!TypeOK, T!Ticket
<1>1. T!Holders' = T!Holders \cup {t} /\ t \notin T!Holders
  BY DEF T!Holders, T!HasTicket
<1>2. Cardinality(T!Holders') = Cardinality(T!Holders) + 1
  BY <1>1, FS_AddElement
<1>3. T!Holders' \subseteq Threads
  BY DEF T!Holders
<1>4. T!Ahead(next_ticket) + 1 < W
  <2>1. Cardinality(T!Holders') <= Cardinality(Threads) /\ Cardinality(Threads) \in Nat
    BY <1>3, ThreadsAssumption, FS_Subset, FS_CardinalityType
  <2> QED
    BY <1>2, <2>1, TicketsAssumption, SMT DEF T!TicketInv
<1>5. /\ T!Ahead(next_ticket)' = T!Ahead(next_ticket) + 1
      /\ \A x \in T!Ticket : T!Ahead(x)' = T!Ahead(x)
  BY <1>4, SMT DEF T!Ahead, T!Inc
<1>6. \A s \in T!Holders : /\ s \in Threads /\ s # t /\ ticket'[s] = ticket[s]
                           /\ ticket[s] # next_ticket
  BY <1>1, SMT DEF T!TicketInv, T!Ahead, T!Holders
<1>7. \A s \in T!Holders' : T!Ahead(ticket[s])' < T!Ahead(next_ticket)'
  <2>1. \A s \in T!Holders : T!Ahead(ticket[s]) < T!Ahead(next_ticket)
    BY DEF T!TicketInv
  <2> QED
    BY <1>1, <1>5, <1>6, <2>1, SMT DEF T!Ahead
<1>8. \A r, s \in T!Holders' : ticket'[r] = ticket'[s] => r = s
  BY <1>1, <1>6, SMT DEF T!TicketInv
<1>9. /\ \A s \in Threads : T!InCS(s)' => ticket'[s] = cur_ticket'
      /\ \A s \in Threads : tpc'[s] = "unlock" => ucur'[s] = cur_ticket'
      /\ \A s \in Threads :
           tpc'[s] \in {"try_c", "try_nc"} /\ next_ticket' = tcur'[s]
             => cur_ticket' = next_ticket'
  BY DEF T!TicketInv, T!InCS, T!NoLapDuringTrylock
<1> QED
  BY <1>2, <1>5, <1>7, <1>8, <1>9 DEF T!TicketInv

(* The owner advances cur_ticket: every other ticket comes one closer.     *)
LEMMA ReleaseStep ==
  ASSUME TicketlockInv, NEW t \in Threads, T!UnlockStore(t)
  PROVE  T!TicketInv'
<1> USE HoldersCount, CardinalityInst DEF TicketlockInv, T!TypeOK, T!Ticket
<1>1. /\ t \in T!Holders /\ ucur[t] = cur_ticket /\ ticket[t] = cur_ticket
      /\ cur_ticket' = T!Inc(cur_ticket) /\ next_ticket' = next_ticket
      /\ T!Holders' = T!Holders \ {t} /\ next_ticket # cur_ticket
  BY SMT DEF T!UnlockStore, T!Goto, T!Holders, T!HasTicket, T!TicketInv, T!InCS, T!Ahead
<1>2. Cardinality(T!Holders') = Cardinality(T!Holders) - 1
  BY <1>1, FS_RemoveElement
<1>3. \A x \in T!Ticket : x # cur_ticket => T!Ahead(x)' = T!Ahead(x) - 1
  BY <1>1, SMT DEF T!Ahead, T!Inc
<1>4. \A s \in T!Holders' : s # t /\ s \in T!Holders /\ ticket'[s] = ticket[s]
                            /\ ticket[s] \in T!Ticket /\ ticket[s] # cur_ticket
  BY <1>1 DEF T!UnlockStore, T!TicketInv, T!Holders
<1>5. T!Ahead(next_ticket)' = T!Ahead(next_ticket) - 1
  BY <1>1, <1>3 DEF T!Ahead
<1>6. \A s \in T!Holders' : T!Ahead(ticket[s])' < T!Ahead(next_ticket)'
  <2>1. TAKE s \in T!Holders'
  <2>2. T!Ahead(ticket[s]) < T!Ahead(next_ticket)
    BY <1>4 DEF T!TicketInv
  <2>3. T!Ahead(ticket[s])' = T!Ahead(ticket[s]) - 1
    BY <1>4, <1>3 DEF T!Ahead
  <2> QED
    BY <1>4, <1>5, <2>2, <2>3, SMT DEF T!Ahead
<1>7. \A s \in Threads : ~T!InCS(s)'
  BY <1>1, SMT DEF T!UnlockStore, T!Goto, T!TicketInv, T!InCS, T!Holders, T!HasTicket
<1>8. \A s \in Threads :
         tpc'[s] \in {"try_c", "try_nc"} /\ next_ticket' = tcur'[s]
           => cur_ticket' = next_ticket'
  BY <1>1 DEF T!UnlockStore, T!Goto, T!TicketInv
<1>9. (Cardinality(T!Holders) = T!Ahead(next_ticket))'
  BY <1>2, <1>5, SMT DEF T!TicketInv
<1>10. \A r, s \in T!Holders' : ticket'[r] = ticket'[s] => r = s
  BY <1>4 DEF T!TicketInv
<1>11. \A s \in Threads : tpc'[s] # "unlock"
  BY <1>7 DEF T!InCS
<1> QED
  BY <1>6, <1>7, <1>8, <1>9, <1>10, <1>11 DEF T!TicketInv

LEMMA TicketStep == TicketlockInv /\ [T!Next]_(T!vars) => TicketlockInv'
<1> SUFFICES ASSUME TicketlockInv, [T!Next]_(T!vars) PROVE TicketlockInv'
  BY SMT
<1> USE DEF TicketlockInv, T!TypeOK
<1>1. ASSUME NEW t \in Threads, T!Lock(t) PROVE TicketlockInv'
  <2>1. T!TypeOK'
    BY <1>1, HoldersCount, SMT DEF T!Lock, T!Goto, T!Inc, T!Ticket, T!PC
  <2> QED
    BY <1>1, <2>1, TakeStep DEF T!Lock, T!Goto, T!HasTicket
<1>2. ASSUME NEW t \in Threads, T!TryTake(t) PROVE TicketlockInv'
  <2>1. T!TypeOK'
    BY <1>2, HoldersCount, SMT DEF T!TryTake, T!Goto, T!Inc, T!ForgetTry, T!Ticket, T!PC
  <2>2. cur_ticket = next_ticket
    BY <1>2 DEF T!TryTake, T!Goto, T!TicketInv
  <2> QED
    BY <1>2, <2>1, <2>2, TakeStep DEF T!TryTake, T!Goto, T!HasTicket, T!ForgetTry
<1>3. ASSUME NEW t \in Threads, T!UnlockStore(t) PROVE TicketlockInv'
  <2>1. T!TypeOK'
    BY <1>3, HoldersCount, SMT DEF T!UnlockStore, T!Goto, T!Inc, T!Ticket, T!PC
  <2> QED
    BY <1>3, <2>1, ReleaseStep
<1>4. ASSUME NEW t \in Threads,
             \/ T!Spin(t) \/ T!TryLoadNext(t) \/ T!TryLoadCur(t) \/ T!TryFail(t)
             \/ T!UnlockLoad(t)
      PROVE  TicketlockInv'
  <2> USE DEF T!Spin, T!TryLoadNext, T!TryLoadCur, T!TryFail, T!UnlockLoad,
              T!Goto, T!ForgetTry, T!shared
  <2>1. T!TypeOK' /\ T!Holders' = T!Holders
    BY <1>4, HoldersCount, SMT DEF T!Ticket, T!PC, T!Holders, T!HasTicket
  <2>2. next_ticket' = next_ticket /\ cur_ticket' = cur_ticket /\ ticket' = ticket
    BY <1>4
  <2>3. /\ \A s \in Threads : T!InCS(s)' => ticket'[s] = cur_ticket'
        /\ \A s \in Threads : tpc'[s] = "unlock" => ucur'[s] = cur_ticket'
    BY <1>4, SMT DEF T!TicketInv, T!InCS
  <2>4. \A s \in Threads :
          tpc'[s] \in {"try_c", "try_nc"} /\ next_ticket' = tcur'[s]
            => cur_ticket' = next_ticket'
    BY <1>4, SMT DEF T!TicketInv
  <2> QED
    BY <2>1, <2>2, <2>3, <2>4 DEF T!TicketInv, T!Ahead
<1>5. CASE UNCHANGED T!vars
  BY <1>5 DEF T!vars, T!TicketInv, T!Holders, T!HasTicket, T!InCS, T!Ahead
<1> QED
  BY <1>1, <1>2, <1>3, <1>4, <1>5 DEF T!Next

-----------------------------------------------------------------------------
(* The reader/writer lock.                                                 *)
RwInv == R!TypeOK /\ R!CntInv

(* There are no more readers than threads, so counting them cannot reach   *)
(* the values that stand for a writer.                                     *)
LEMMA ReadersCount ==
  /\ IsFiniteSet(R!Readers) /\ Cardinality(R!Readers) \in Nat
  /\ R!Readers = {} <=> Cardinality(R!Readers) = 0
  /\ CntW \in Nat /\ 2 * (Cardinality(R!Readers) + 1) < CntW
<1>1. R!Readers \subseteq Threads
  BY DEF R!Readers
<1>2. /\ IsFiniteSet(R!Readers) /\ Cardinality(R!Readers) <= Cardinality(Threads)
      /\ Cardinality(R!Readers) \in Nat /\ Cardinality(Threads) \in Nat
  BY <1>1, ThreadsAssumption, FS_Subset, FS_CardinalityType
<1> QED
  BY <1>2, FS_EmptySet, CntAssumption, SMT

LEMMA RwInit == R!Init => RwInv
<1> SUFFICES ASSUME R!Init PROVE RwInv
  BY SMT
<1>1. R!Readers = {} /\ R!Writers = {}
  BY DEF R!Init, R!Readers, R!Writers
<1> QED
  BY <1>1, ReadersCount, CardinalityInst, SMT DEF R!Init, RwInv, R!TypeOK, R!CntInv

(* A reader comes when the word it saw is still there, a writer when it is *)
(* still 0; each takes back what it added.                                 *)
LEMMA RwStep == RwInv /\ [R!Next]_(R!vars) => RwInv'
<1> SUFFICES ASSUME RwInv, [R!Next]_(R!vars) PROVE RwInv'
  BY SMT
<1> USE ReadersCount, CardinalityInst DEF RwInv, R!TypeOK, R!Goto
<1>1. ASSUME NEW t \in Threads, R!Call(t) \/ R!ReadLoad(t) \/ R!WriteLoad(t)
      PROVE  RwInv'
  <2>1. /\ R!TypeOK' /\ cnt' = cnt
        /\ R!Readers' = R!Readers /\ R!Writers' = R!Writers
    BY <1>1 DEF R!Call, R!ReadLoad, R!WriteLoad, R!Readers, R!Writers
  <2> QED
    BY <1>1, <2>1 DEF R!CntInv, R!Call, R!ReadLoad, R!WriteLoad
<1>2. ASSUME NEW t \in Threads, R!ReadCas(t) PROVE RwInv'
  <2>1. /\ rpc[t] = "read_cas" /\ ~R!Negative(seen[t])
        /\ cnt = seen[t] => R!Writers = {} /\ cnt = Cardinality(R!Readers)
    BY <1>2, SMT DEF R!ReadCas, R!CntInv, R!Negative
  <2>2. CASE cnt = seen[t]
    <3>0. cnt' = cnt + 1 /\ rpc' = [rpc EXCEPT ![t] = "reader"]
      BY <1>2, <2>1, <2>2, SMT DEF R!ReadCas, R!Inc
    <3>1. /\ R!TypeOK' /\ R!Writers' = {}
          /\ R!Readers' = R!Readers \cup {t} /\ t \notin R!Readers
      BY <1>2, <2>1, <2>2, <3>0, SMT DEF R!ReadCas, R!Readers, R!Writers
    <3>2. Cardinality(R!Readers') = Cardinality(R!Readers) + 1
      BY <3>1, FS_AddElement
    <3> QED
      BY <1>2, <2>1, <2>2, <3>0, <3>1, <3>2 DEF R!CntInv, R!ReadCas
  <2>3. CASE cnt # seen[t]
    <3>1. /\ R!TypeOK' /\ cnt' = cnt
          /\ R!Readers' = R!Readers /\ R!Writers' = R!Writers
      BY <1>2, <2>1, <2>3, SMT DEF R!ReadCas, R!Readers, R!Writers
    <3> QED
      BY <1>2, <2>3, <3>1 DEF R!CntInv, R!ReadCas
  <2> QED
    BY <2>2, <2>3
<1>3. ASSUME NEW t \in Threads, R!WriteCas(t) PROVE RwInv'
  <2>1. R!TypeOK'
    BY <1>3, SMT DEF R!WriteCas
  <2>2. CASE cnt = 0
    <3>1. R!Readers = {} /\ R!Writers = {}
      BY <2>2, SMT DEF R!CntInv
    <3>2. R!Readers' = {} /\ R!Writers' = {t}
      BY <1>3, <2>2, <3>1 DEF R!WriteCas, R!Readers, R!Writers
    <3> QED
      BY <1>3, <2>1, <2>2, <3>2 DEF R!CntInv, R!WriteCas
  <2>3. CASE cnt # 0
    <3>1. R!Readers' = R!Readers /\ R!Writers' = R!Writers
      BY <1>3, <2>3 DEF R!WriteCas, R!Readers, R!Writers
    <3> QED
      BY <1>3, <2>1, <2>3, <3>1 DEF R!CntInv, R!WriteCas
  <2> QED
    BY <2>2, <2>3
<1>4. ASSUME NEW t \in Threads, R!ReadUnlock(t) PROVE RwInv'
  <2>1. t \in R!Readers /\ R!Writers = {} /\ cnt = Cardinality(R!Readers)
    BY <1>4 DEF R!ReadUnlock, R!CntInv, R!Readers
  <2>2. /\ R!TypeOK' /\ cnt' = cnt - 1
        /\ R!Readers' = R!Readers \ {t} /\ R!Writers' = {}
    BY <1>4, <2>1, SMT DEF R!ReadUnlock, R!Dec, R!Readers, R!Writers
  <2>3. Cardinality(R!Readers') = Cardinality(R!Readers) - 1
    BY <2>1, <2>2, FS_RemoveElement
  <2> QED
    BY <1>4, <2>1, <2>2, <2>3 DEF R!ReadUnlock, R!CntInv
<1>5. ASSUME NEW t \in Threads, R!WriteUnlock(t) PROVE RwInv'
  <2>1. R!Writers = {t} /\ R!Readers = {}
    BY <1>5 DEF R!WriteUnlock, R!CntInv, R!Writers
  <2>2. R!TypeOK' /\ R!Readers' = {} /\ R!Writers' = {}
    BY <1>5, <2>1, SMT DEF R!WriteUnlock, R!Readers, R!Writers
  <2>3. Cardinality(R!Readers') = 0
    BY <2>2, FS_EmptySet
  <2> QED
    BY <1>5, <2>2, <2>3 DEF R!WriteUnlock, R!CntInv
<1>6. CASE UNCHANGED R!vars
  BY <1>6 DEF R!vars, R!CntInv, R!Readers, R!Writers, R!Negative
<1> QED
  BY <1>1, <1>2, <1>3, <1>4, <1>5, <1>6 DEF R!Next, R!Continue
-----------------------------------------------------------------------------
(* The barrier.                                                            *)
BarInv == B!TypeOK /\ B!BarCounts

(* How many have arrived, and that all but one have is to be all others.   *)
LEMMA ArrivedCount ==
  /\ B!count \in Nat /\ B!count > 0
  /\ IsFiniteSet(B!Arrived) /\ Cardinality(B!Arrived) \in Nat
  /\ B!Arrived = {} <=> Cardinality(B!Arrived) = 0
  /\ \A t \in Threads : t \notin B!Arrived =>
       /\ Cardinality(B!Arrived) = B!count - 1 => B!Arrived = Threads \ {t}
       /\ B!Arrived \cup {t} = Threads => Cardinality(B!Arrived) = B!count - 1
<1> USE CardinalityInst DEF B!count
<1>1. B!Arrived \subseteq Threads
  BY DEF B!Arrived
<1>2. /\ IsFiniteSet(B!Arrived) /\ Cardinality(B!Arrived) \in Nat
      /\ B!count \in Nat /\ B!count > 0
  BY <1>1, ThreadsAssumption, FS_Subset, FS_CardinalityType, FS_EmptySet, SMT
<1>3. ASSUME NEW t \in Threads, t \notin B!Arrived
      PROVE  /\ Cardinality(B!Arrived) = B!count - 1 => B!Arrived = Threads \ {t}
             /\ B!Arrived \cup {t} = Threads => Cardinality(B!Arrived) = B!count - 1
  <2>1. IsFiniteSet(Threads \ {t}) /\ Cardinality(Threads \ {t}) = B!count - 1
    BY ThreadsAssumption, FS_RemoveElement
  <2>2. B!Arrived \subseteq Threads \ {t}
    BY <1>1, <1>3
  <2>3. B!Arrived \cup {t} = Threads => B!Arrived = Threads \ {t}
    BY <1>3
  <2> QED
    BY <2>1, <2>2, <2>3, FS_Subset
<1> QED
  BY <1>2, <1>3, FS_EmptySet

LEMMA BarInit == B!Init => BarInv /\ B!Rounds!Init
<1> SUFFICES ASSUME B!Init PROVE BarInv /\ B!Rounds!Init
  BY SMT
<1>1. B!Arrived = {} /\ B!Leaving = {}
  BY DEF B!Init, B!Arrived, B!Leaving
<1> QED
  BY <1>1, ArrivedCount, CardinalityInst, SMT
     DEF B!Init, BarInv, B!TypeOK, B!BarCounts, B!Rounds!Init

(* What an arrival does to the word and to the two sets of RoundBarrier:   *)
(* the last of a round's first half lets all go; the last of the second    *)
(* half leaves that to its Wrap.                                           *)
LEMMA ArriveStep ==
  ASSUME BarInv, NEW t \in Threads, B!Arrive(t)
  PROVE  BarInv' /\ [B!Rounds!Arrive(t)]_(B!Rounds!vars)
<1> USE ArrivedCount, CardinalityInst DEF BarInv, B!TypeOK
<1>1. /\ t \notin B!Arrived /\ t \notin B!Leaving
      /\ bar \in 0 .. 2 * B!count - 1 /\ \A u \in Threads : bpc[u] # "wrap"
  BY SMT DEF B!Arrive, B!Arrived, B!Leaving, B!BarCounts
<1>2. /\ B!TypeOK' /\ bar' = bar + 1
      /\ wasless' = [wasless EXCEPT ![t] = bar < B!count]
      /\ bpc' = [bpc EXCEPT ![t] = IF bar = 2 * B!count - 1 THEN "wrap" ELSE "spin"]
  BY <1>1, SMT DEF B!Arrive
<1>3. CASE bar # B!count - 1 /\ bar # 2 * B!count - 1
  <2>1. (bar' < B!count) <=> (bar < B!count)
    BY <1>1, <1>2, <1>3, SMT
  <2>2. B!Arrived' = B!Arrived \cup {t} /\ B!Leaving' = B!Leaving
    BY <1>1, <1>2, <1>3, <2>1, SMT DEF B!Arrived, B!Leaving
  <2>3. Cardinality(B!Arrived') = Cardinality(B!Arrived) + 1
    BY <1>1, <2>2, FS_AddElement
  <2>4. B!BarCounts' /\ B!Arrived \cup {t} # Threads
    BY <1>1, <1>2, <1>3, <2>3, SMT DEF B!BarCounts
  <2> QED
    BY <1>1, <1>2, <2>2, <2>4 DEF B!Rounds!Arrive
<1>4. CASE bar = B!count - 1
  <2>1. B!Arrived = Threads \ {t} /\ bar < B!count /\ ~(bar' < B!count)
    BY <1>1, <1>2, <1>4, SMT DEF B!BarCounts
  <2>2. \A u \in Threads : bpc'[u] = "spin" /\ wasless'[u] # (bar' < B!count)
    BY <1>2, <1>4, <2>1, SMT DEF B!Arrived
  <2>3. B!Arrived' = {} /\ B!Leaving' = Threads
    BY <2>2 DEF B!Arrived, B!Leaving, B!count
  <2>4. B!BarCounts'
    BY <1>2, <1>4, <2>2, <2>3, FS_EmptySet, SMT DEF B!BarCounts
  <2> QED
    BY <1>1, <1>2, <2>1, <2>3, <2>4, SMT DEF B!Rounds!Arrive
<1>5. CASE bar = 2 * B!count - 1
  <2>1. B!Arrived = Threads \ {t} /\ ((bar' < B!count) <=> (bar < B!count))
    BY <1>1, <1>2, <1>5, SMT DEF B!BarCounts
  <2>2. B!Arrived' = B!Arrived /\ B!Leaving' = B!Leaving
    BY <1>1, <1>2, <1>5, <2>1, SMT DEF B!Arrived, B!Leaving
  <2> QED
    BY <1>2, <1>5, <2>1, <2>2, SMT DEF B!BarCounts, B!Rounds!vars
<1> QED
  BY <1>3, <1>4, <1>5

(* The thread that wraps the word is the last of its round, and lets all go.*)
LEMMA WrapStep ==
  ASSUME BarInv, NEW t \in Threads, B!Wrap(t)
  PROVE  BarInv' /\ B!Rounds!Arrive(t)
<1> USE ArrivedCount, CardinalityInst DEF BarInv, B!TypeOK
<1>1. bar = 2 * B!count /\ B!Arrived = Threads \ {t} /\ t \notin B!Leaving
  BY DEF B!BarCounts, B!Wrap, B!Arrived, B!Leaving
<1>2. \A u \in Threads \ {t} : bpc[u] = "spin" /\ wasless[u] = FALSE
  BY <1>1, SMT DEF B!Arrived
<1>3. /\ bar' = 0 /\ B!TypeOK' /\ bpc'[t] = "done"
      /\ \A u \in Threads \ {t} : bpc'[u] = "spin" /\ wasless'[u] = FALSE
  BY <1>1, <1>2, SMT DEF B!Wrap
<1>4. B!Arrived' = {} /\ B!Leaving' = Threads
  BY <1>3 DEF B!Arrived, B!Leaving
<1>5. B!BarCounts'
  BY <1>3, <1>4, FS_EmptySet DEF B!BarCounts
<1> QED
  BY <1>1, <1>3, <1>4, <1>5, SMT DEF B!Rounds!Arrive

LEMMA BarStep ==
  BarInv /\ [B!Next]_(B!vars) => BarInv' /\ [B!Rounds!Next]_(B!Rounds!vars)
<1> SUFFICES ASSUME BarInv, [B!Next]_(B!vars)
             PROVE  BarInv' /\ [B!Rounds!Next]_(B!Rounds!vars)
  BY SMT
<1>1. ASSUME NEW t \in Threads, B!Arrive(t) \/ B!Wrap(t)
      PROVE  BarInv' /\ [B!Rounds!Next]_(B!Rounds!vars)
  BY <1>1, ArriveStep, WrapStep DEF B!Rounds!Next
<1>2. ASSUME NEW t \in Threads, B!Spin(t) \/ B!Return(t)
      PROVE  BarInv' /\ [B!Rounds!Next]_(B!Rounds!vars)
  <2>1. B!TypeOK' /\ \A u \in Threads : bpc'[u] = "wrap" <=> bpc[u] = "wrap"
    BY <1>2 DEF BarInv, B!TypeOK, B!Spin, B!Return
  <2>2. B!Spin(t) => UNCHANGED <<bar, B!Arrived, B!Leaving>>
    BY DEF BarInv, B!TypeOK, B!Spin, B!Arrived, B!Leaving
  <2>3. B!Return(t) =>
          UNCHANGED <<bar, B!Arrived>> /\ t \in B!Leaving /\ B!Leaving' = B!Leaving \ {t}
    BY DEF BarInv, B!TypeOK, B!Return, B!Arrived, B!Leaving
  <2> QED
    BY <1>2, <2>1, <2>2, <2>3 DEF BarInv, B!BarCounts, B!Rounds!Next, B!Rounds!Leave, B!Rounds!vars
<1>3. CASE UNCHANGED B!vars
  BY <1>3 DEF B!vars, BarInv, B!TypeOK, B!BarCounts, B!Arrived, B!Leaving, B!Rounds!vars
<1> QED
  BY <1>1, <1>2, <1>3 DEF B!Next
-----------------------------------------------------------------------------
(* The spinlock, and the four together.                                    *)
SpinInv == S!TypeOK /\ S!Exclusion

(* Whoever finds the flag clear sets it in the same step, and only the     *)
(* owner clears it.                                                        *)
LEMMA SpinStep == SpinInv /\ [S!Next]_(S!vars) => SpinInv'
<1> SUFFICES ASSUME SpinInv, [S!Next]_(S!vars) PROVE SpinInv'
  BY SMT
<1> USE DEF SpinInv, S!TypeOK, S!Exclusion, S!Goto
<1>1. ASSUME NEW t \in Threads, NEW from \in {"idle", "retry"},
             NEW taken \in {"idle", "spin"}, S!Tas(t, from, taken)
      PROVE  SpinInv'
  <2>1. CASE flag
    BY <1>1, <2>1 DEF S!Tas
  <2>2. CASE ~flag
    <3>1. flag' = TRUE /\ spc' = [spc EXCEPT ![t] = "cs"] /\ \A u \in Threads : spc[u] # "cs"
      BY <1>1, <2>2 DEF S!Tas
    <3> QED
      BY <3>1
  <2> QED
    BY <2>1, <2>2
<1>2. ASSUME NEW t \in Threads, S!Spin(t) \/ S!Unlock(t) PROVE SpinInv'
  <2>1. CASE S!Spin(t)
    <3>1. flag' = flag /\ \A u \in Threads : spc'[u] = "cs" <=> spc[u] = "cs"
      BY <2>1 DEF S!Spin
    <3> QED
      BY <2>1, <3>1, SMT DEF S!Spin
  <2>2. CASE S!Unlock(t)
    BY <2>2 DEF S!Unlock
  <2> QED
    BY <1>2, <2>1, <2>2
<1>3. CASE UNCHANGED S!vars
  BY <1>3 DEF S!vars
<1> QED
  BY <1>1, <1>2, <1>3 DEF S!Next, S!Continue, S!Lock, S!Trylock, S!Retry

LEMMA SpinInit == S!Init => SpinInv
BY DEF S!Init, SpinInv, S!TypeOK, S!Exclusion

SyncInv == TicketlockInv /\ SpinInv /\ RwInv /\ BarInv

(* A step of one of them leaves the others alone.                          *)
LEMMA SyncStep ==
  SyncInv /\ [Next]_vars => SyncInv' /\ [B!Rounds!Next]_(B!Rounds!vars)
<1> SUFFICES ASSUME SyncInv, [Next]_vars
             PROVE  SyncInv' /\ [B!Rounds!Next]_(B!Rounds!vars)
  BY SMT
<1>1. /\ [T!Next]_(T!vars) /\ [S!Next]_(S!vars)
      /\ [R!Next]_(R!vars) /\ [B!Next]_(B!vars)
  BY DEF Next, OnlyT, OnlyS, OnlyR, OnlyB, vars, tvars, svars, rvars, bvars,
         T!vars, S!vars, R!vars, B!vars
<1> QED
  BY <1>1, TicketStep, SpinStep, RwStep, BarStep DEF SyncInv

LEMMA SyncInit == Init => SyncInv /\ B!Rounds!Init
BY TicketInit, SpinInit, RwInit, BarInit DEF Init, SyncInv

(* A lock's word says who is inside, and whoever is inside is alone there, *)
(* several readers counting as one: odp_ticketlock_*, odp_spinlock_* and   *)
(* odp_rwlock_* exclude, and the barrier's word counts the arrivals.       *)
THEOREM LocksExclude == FairSpec => []Exclusion
<1>1. TicketlockInv => T!MutualExclusion
  BY DEF TicketlockInv, T!TicketInv, T!MutualExclusion, T!InCS, T!Holders, T!HasTicket
<1>2. RwInv => R!ReadersXorWriter
  BY DEF RwInv, R!CntInv, R!ReadersXorWriter
<1>3. SyncInv => Exclusion
  BY <1>1, <1>2 DEF SyncInv, TicketlockInv, SpinInv, RwInv, BarInv, Exclusion, TypeOK
<1> QED
  BY <1>3, SyncInit, SyncStep, PTL DEF FairSpec

(* odp_barrier_wait implements the abstract barrier: nobody leaves a round *)
(* before all threads have arrived in it.                                  *)
THEOREM ImplementsRounds == FairSpec => RoundsInStep
BY SyncInit, SyncStep, PTL DEF FairSpec, RoundsInStep, B!RoundsInStep, B!Rounds!Safety

(* A ticket lock by itself: at most one thread is between the return of    *)
(* odp_ticketlock_lock (or of a trylock that succeeds) and the end of its  *)
(* unlock, and the tickets out are the interval between the two words.     *)
THEOREM TicketlockExcludes == T!Spec => [](T!TicketInv /\ T!MutualExclusion)
<1>1. TicketlockInv => T!TicketInv /\ T!MutualExclusion
  BY DEF TicketlockInv, T!TicketInv, T!MutualExclusion, T!InCS, T!Holders, T!HasTicket
<1> QED
  BY <1>1, TicketInit, TicketStep, PTL DEF T!Spec

(* A reader/writer lock by itself: several readers or one writer, and the  *)
(* word counts the readers or says -1 for the writer.                      *)
THEOREM RwlockExcludes == R!Spec => [](R!CntInv /\ R!ReadersXorWriter)
<1>1. RwInv => R!CntInv /\ R!ReadersXorWriter
  BY DEF RwInv, R!CntInv, R!ReadersXorWriter
<1> QED
  BY <1>1, RwInit, RwStep, PTL DEF R!Spec
=============================================================================
