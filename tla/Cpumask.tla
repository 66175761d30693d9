------------------------------ MODULE Cpumask -------------------------------
(***************************************************************************)
(* CPU masks, odp_cpumask.c and odp_cpumask_task.c; thread masks,          *)
(* odp_thrmask.c, are the same under other names.  A mask is a set of CPU  *)
(* numbers.  Its text is the sequence of its hexadecimal digits, the last  *)
(* for CPUs 0 to 3: the prefix "0x" and the end of the string are counted  *)
(* in its size only, and both cases of a digit are one value.              *)
(***************************************************************************)
EXTENDS ProcessParams, SequencesExt, FiniteSetsExt

Cpus == 0 .. (CPU_SETSIZE - 1)

VARIABLES
  mask,          \* the mask the application works on
  walk           \* the CPUs an iteration has visited, and where it is

vars == <<mask, walk>>

NotWalking == [cpus |-> <<>>, cpu |-> -1, on |-> FALSE]

Init == mask = {} /\ walk = NotWalking

Bits(v) == {i \in 0 .. 3 : (v \div 2^i) % 2 = 1}
Lowest(s) == IF s = {} THEN -1 ELSE Min(s)

odp_cpumask_first(m) == Lowest(m)
odp_cpumask_last(m) == IF m = {} THEN -1 ELSE Max(m)
odp_cpumask_nextMutant(m, cpu) == Lowest({c \in m : c >= cpu + 2})
odp_cpumask_next(m, cpu) == Lowest({c \in m : c > cpu})

(* Up to CPU_SETSIZE bits, from the last digit on; nothing at all when one *)
(* that is read is no digit.                                               *)
odp_cpumask_from_str(text) ==
  LET n == Min({Len(text), CPU_SETSIZE \div 4})
      digit(k) == text[Len(text) - k] IN      \* for CPUs 4k to 4k + 3
  IF \E k \in 0 .. n - 1 : digit(k) = Bad THEN {}
  ELSE UNION {{4 * k + i : i \in Bits(digit(k))} : k \in 0 .. n - 1}

(* The digits down from the one with the highest bit; none when size has   *)
(* no room for them, the prefix and the end.                               *)
odp_cpumask_to_str(m, size) ==
  LET nibbles == odp_cpumask_last(m) \div 4 + 1 IN
  IF size < 3 + (IF m = {} THEN 1 ELSE nibbles) THEN <<>>
  ELSE IF m = {} THEN <<0>>
  ELSE [d \in 1 .. nibbles |->
          SumSet({2^i : i \in {j \in 0 .. 3 : 4 * (nibbles - d) + j \in m}})]

(* Workers get the highest CPUs the process may use.                       *)
def_worker(affinity, num) ==
  LET n == IF num = 0 \/ num > CPU_SETSIZE THEN Cardinality(affinity) ELSE num IN
  {c \in affinity : Cardinality({d \in affinity : d > c}) < n}

-----------------------------------------------------------------------------
Becomes(m) == mask' = m /\ walk' = NotWalking

SetClr(c) == Becomes(mask \cup {c}) \/ Becomes(mask \ {c})
ZeroAll == Becomes({}) \/ Becomes(Cpus)

(* odp_cpumask_and, or and xor with the mask of a text.                    *)
Combine(t) ==
  LET m == odp_cpumask_from_str(t) IN
  Becomes(mask \cap m) \/ Becomes(mask \cup m) \/ Becomes((mask \cup m) \ (mask \cap m))

FromStr(t) == Becomes(odp_cpumask_from_str(t))

odp_cpumask_def_worker(num) == Becomes(def_worker(mask, num))

(* The loop over a mask of odph_linux_pthread_create: first, then next.    *)
WalkFirst ==
  /\ ~walk.on /\ odp_cpumask_first(mask) # -1
  /\ walk' = [cpus |-> <<odp_cpumask_first(mask)>>, cpu |-> odp_cpumask_first(mask), on |-> TRUE]
  /\ UNCHANGED mask

WalkNext ==
  LET cpu == odp_cpumask_next(mask, walk.cpu) IN
  /\ walk.on
  /\ walk' = IF cpu = -1 THEN [walk EXCEPT !.cpu = -1, !.on = FALSE]
             ELSE [walk EXCEPT !.cpus = Append(@, cpu), !.cpu = cpu]
  /\ UNCHANGED mask

Next ==
  \/ \E c \in Cpus : SetClr(c)
  \/ \E t \in Texts : Combine(t) \/ FromStr(t)
  \/ \E n \in 0 .. CPU_SETSIZE : odp_cpumask_def_worker(n)
  \/ ZeroAll \/ WalkFirst \/ WalkNext

Spec == Init /\ [][Next]_vars

-----------------------------------------------------------------------------
(* The text of a mask, read again, is the mask: at every digit boundary,   *)
(* and for the empty mask; and a text is never longer than its string, nor *)
(* refused when there is room for as many digits as the mask can need      *)
(* (odp_cpumask_to_str, odp_cpumask_from_str).                             *)
TextRoundTrip ==
  \A size \in 0 .. CPU_SETSIZE :
    LET text == odp_cpumask_to_str(mask, size) IN
    /\ text # <<>> => odp_cpumask_from_str(text) = mask /\ Len(text) + 3 <= size
    /\ size >= 3 + CPU_SETSIZE \div 4 => text # <<>>

(* A walk by odp_cpumask_first and odp_cpumask_next sees every CPU of the  *)
(* mask once, in ascending order, so that each worker gets a CPU.          *)
WalkSeesAll ==
  /\ \A i, j \in 1 .. Len(walk.cpus) : i < j => walk.cpus[i] < walk.cpus[j]
  /\ ~walk.on /\ walk.cpus # <<>> => ToSet(walk.cpus) = mask

(* odp_cpumask_def_worker(num) gives num CPUs, or all when there are fewer *)
(* or num is 0, and leaves the lowest, CPU 0 first, to control threads.    *)
WorkersOnTop ==
  \A num \in 0 .. CPU_SETSIZE :
    LET w == def_worker(mask, num) IN
    /\ Cardinality(w) = IF num = 0 THEN Cardinality(mask) ELSE Min({num, Cardinality(mask)})
    /\ \A c \in w, d \in mask \ w : d < c
=============================================================================
