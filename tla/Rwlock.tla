------------------------------- MODULE Rwlock -------------------------------
(***************************************************************************)
(* platform/linux-generic/odp_rwlock.c: a reader/writer lock in one word,  *)
(* a count of readers or, as a signed number, -1 for a writer.  One step   *)
(* per access to the word, an unsigned number of 0..CntW-1 (2^32 in the code).*)
(***************************************************************************)
EXTENDS SyncParams

VARIABLES cnt, pc, seen   \* seen: the local cnt

vars == <<cnt, pc, seen>>

(* uint32_t increment and decrement                                        *)
Inc(x) == IF x = CntW - 1 THEN 0 ELSE x + 1
Dec(x) == IF x = 0 THEN CntW - 1 ELSE x - 1

Negative(x) == 2 * x >= CntW          \* (int32_t)cnt < 0

Init ==
  /\ cnt = 0
  /\ pc = [t \in Threads |-> "idle"]
  /\ seen = [t \in Threads |-> 0]

Goto(t, from, to) == pc[t] = from /\ pc' = [pc EXCEPT ![t] = to]

Call(t) ==
  /\ \/ Goto(t, "idle", "read") \/ Goto(t, "idle", "write")
  /\ UNCHANGED <<cnt, seen>>

(* The loads; a value that shows the lock taken is loaded again.           *)
ReadLoad(t) ==
  /\ ~Negative(cnt)
  /\ Goto(t, "read", "read_cas")
  /\ seen' = [seen EXCEPT ![t] = cnt]
  /\ UNCHANGED cnt

WriteLoad(t) ==
  /\ cnt = 0
  /\ Goto(t, "write", "write_cas")
  /\ UNCHANGED <<cnt, seen>>

(* The compare-and-exchanges.                                              *)
ReadCasMutant(t) ==
  /\ IF cnt = seen[t]
       THEN Goto(t, "read_cas", "reader") /\ cnt' = Inc(cnt)
       ELSE Goto(t, "read_cas", "read_cas") /\ UNCHANGED cnt
  /\ UNCHANGED seen

ReadCas(t) ==
  /\ IF cnt = seen[t]
       THEN Goto(t, "read_cas", "reader") /\ cnt' = Inc(cnt)
       ELSE Goto(t, "read_cas", "read") /\ UNCHANGED cnt
  /\ seen' = [seen EXCEPT ![t] = 0]

WriteCas(t) ==
  /\ IF cnt = 0
       THEN Goto(t, "write_cas", "writer") /\ cnt' = CntW - 1
       ELSE Goto(t, "write_cas", "write") /\ UNCHANGED cnt
  /\ UNCHANGED seen

ReadUnlock(t) ==
  /\ Goto(t, "reader", "idle")
  /\ cnt' = Dec(cnt)
  /\ UNCHANGED seen

WriteUnlock(t) ==
  /\ Goto(t, "writer", "idle")
  /\ cnt' = 0
  /\ UNCHANGED seen

(* A call in progress; an owner unlocks.                                   *)
Continue(t) ==
  \/ ReadLoad(t) \/ WriteLoad(t) \/ ReadCas(t) \/ WriteCas(t)
  \/ ReadUnlock(t) \/ WriteUnlock(t)

Next == \E t \in Threads : Call(t) \/ Continue(t)

Spec == Init /\ [][Next]_vars

-----------------------------------------------------------------------------
TypeOK ==
  /\ cnt \in 0 .. CntW - 1
  /\ pc \in [Threads -> {"idle", "read", "read_cas", "reader",
                         "write", "write_cas", "writer"}]
  /\ seen \in [Threads -> 0 .. CntW - 1]

Readers == {t \in Threads : pc[t] = "reader"}
Writers == {t \in Threads : pc[t] = "writer"}

(* Several readers or one writer, also when a count read before a writer   *)
(* came and went is exchanged after it: "allows multiple simultaneous      *)
(* readers but only one writer at a time".                                 *)
ReadersXorWriter ==
  /\ \A t \in Writers : Writers = {t}
  /\ Writers # {} => Readers = {}

(* Why: the word is what its owners made it.                               *)
CntInv ==
  /\ Writers = {} => cnt = Cardinality(Readers)
  /\ Writers # {} => cnt = CntW - 1 /\ Readers = {} /\ \E t \in Threads : Writers = {t}
  /\ \A t \in Threads : pc[t] = "read_cas" => ~Negative(seen[t])

Waiting == {t \in Threads : pc[t] \in {"read", "read_cas", "write", "write_cas"}}

(* Somebody who waits never stalls the lock: while threads wait, again and *)
(* again one gets in (a given writer may starve, as the API says).         *)
SomebodyGetsIn == Waiting # {} ~> Readers \cup Writers # {}
=============================================================================
