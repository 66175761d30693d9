--------------------------- MODULE Classification ---------------------------
(***************************************************************************)
(* The packet classifier, odp_classification.c: the tables of classes of   *)
(* service (CoS) and of packet matching rules (PMR), the classifier of one *)
(* interface, and packet_classifier, which takes no lock and so runs step  *)
(* by step beside the calls that change the tables.                        *)
(*                                                                         *)
(* A packet is what the rules tell apart: whether it has an error, its     *)
(* header fields (a term matches a packet that has the field) and its      *)
(* layer-2 and layer-3 priority.  A rule and a rule set are one kind of    *)
(* entry: the code uses a pointer to one for a pointer to the other.       *)
(***************************************************************************)
EXTENDS Integers, FiniteSets, Sequences, Functions

CONSTANTS
  NumCos,        \* ODP_COS_MAX_ENTRY
  NumPmr,        \* ODP_PMR_MAX_ENTRY
  NumSet,        \* ODP_PMRSET_MAX_ENTRY
  MaxTerms,      \* ODP_PMRTERM_MAX
  MaxRules,      \* ODP_PKTIO_MAX_PMR
  Queues,
  Apps,          \* the applications, see app
  None

AllOps == {"class", "rule", "apply", "set", "default", "destroy", "error", "l2", "l3", "reopen", "chain"}

ASSUME ClassificationAssumption ==
  /\ {NumCos, MaxTerms, MaxRules} \subseteq Nat \ {0}
  /\ {NumPmr, NumSet} \subseteq Nat
  /\ \A a \in Apps : a.ops \subseteq AllOps /\ a.calls \in Nat /\ a.classes \in 0 .. NumCos /\ Len(a.rules) <= NumPmr
  /\ None \notin Queues \cup Nat

VARIABLE app     \* the application: [configs |-> threads that configure the
                 \*  classifier, ops |-> what they do,
                 \*  fields |-> header fields of its rules and packets,
                 \*  classes, rules |-> classes and rules (the term of each) it
                 \*  has set up before the first packet, the first rule
                 \*  applied to the interface for the first class,
                 \*  calls |-> bound on their calls]; never changes

Configs == app.configs
Fields == app.fields
Ops == app.ops
MaxOps == app.calls

Cos == 1 .. NumCos
Pmrs == 1 .. NumPmr
Sets == NumPmr + 1 .. NumPmr + NumSet
Rules == Pmrs \cup Sets
Orderings == {"l2", "l3"}

(* The term that memory full of zeros is: ODP_PMR_LEN with mask 0.         *)
Zero == "zero"

(* Where the tables of priorities stay empty, packets need no priority,    *)
(* and no error where there is no class for errors (they are dropped).     *)
Packets ==
  [err : {FALSE}, fields : SUBSET Fields, l2 : {FALSE, "l2" \in Ops}, l3 : {FALSE, "l3" \in Ops}]
    \cup [err : {TRUE} \cap {"error" \in Ops}, fields : {{}}, l2 : {FALSE}, l3 : {FALSE}]

VARIABLES
  cos,           \* the CoS table
  pmr,           \* the tables of rules and of rule sets
  cls,           \* the classifier of the interface
  lock,          \* who holds its lock
  call,          \* of each configuring thread: the second half of its call
  run,           \* the packet in packet_classifier and how far it is
  may,           \* what the configurations since it arrived say of the packet
  changes,       \* configuration calls since it arrived
  applied,       \* the rules applied to the interface, in order
  terms,         \* of each rule: the terms its creation accepted
  ops

tables == <<cos, pmr, cls>>
ghosts == <<applied, terms>>
vars == <<app, tables, lock, call, run, may, changes, ghosts, ops>>

NoCos == [valid |-> FALSE, pmr |-> None, linked |-> None, queue |-> None]
NoPmr == [valid |-> FALSE, num |-> 0, slot |-> [i \in 1 .. MaxTerms |-> Zero]]
Waiting == [pc |-> "idle", pkt |-> None, i |-> 0, cos |-> None, pmr |-> None,
            first |-> None, best |-> None]

NoCall == [op |-> "none", src |-> None, pmr |-> None, cos |-> None, terms |-> <<>>, old |-> None]

(* odp_pmr_create of a rule with one term.                                 *)
OneTerm(f) == [NoPmr EXCEPT !.valid = TRUE, !.num = 1, !.slot[1] = f]

(* pktio_classifier_init sets these fields and no others.                  *)
NoRules == [num |-> 0, pmr |-> [i \in 1 .. MaxRules |-> None], cos |-> [i \in 1 .. MaxRules |-> None]]

Init ==
  /\ app \in Apps
  /\ \E q \in Queues :
       cos = [c \in Cos |-> IF c <= app.classes THEN [NoCos EXCEPT !.valid = TRUE, !.queue = q] ELSE NoCos]
  /\ pmr = [p \in Rules |-> IF p <= Len(app.rules) THEN OneTerm(app.rules[p]) ELSE NoPmr]
  /\ applied = IF app.rules = <<>> THEN <<>> ELSE <<<<1, 1>>>>
  /\ cls = [rules |-> IF applied = <<>> THEN NoRules
                      ELSE [NoRules EXCEPT !.num = 1, !.pmr[1] = 1, !.cos[1] = 1],
            error |-> None, default |-> None, l2 |-> None, l3 |-> None, first |-> "l2"]
  /\ lock = None /\ call = [t \in Configs |-> NoCall]
  /\ run = Waiting /\ may = {} /\ changes = 0
  /\ terms = [p \in Rules |-> IF p <= Len(app.rules) THEN {app.rules[p]} ELSE {}]
  /\ ops = 0

-----------------------------------------------------------------------------
(* What the tables say of a packet.                                        *)
verify_pmr(p, pkt) ==
  /\ pmr[p].valid
  /\ \A i \in 1 .. pmr[p].num : pmr[p].slot[i] \in pkt.fields \cup {Zero}

get_cos_entry(c) == c \in Cos /\ cos[c].valid
get_pmr_entry(p) == p \in Rules /\ pmr[p].valid

match_qos_l2_cos(pkt) == IF pkt.l2 THEN cls.l2 ELSE None
match_qos_l3_cos(pkt) == IF pkt.l3 THEN cls.l3 ELSE None
match_qos_cosMutant(first, pkt) ==
  LET two == match_qos_l2_cos(pkt)
      three == match_qos_l3_cos(pkt) IN
  IF two # None THEN two ELSE three
match_qos_cos(first, pkt) ==
  LET two == match_qos_l2_cos(pkt)
      three == match_qos_l3_cos(pkt) IN
  IF first = "l3"
  THEN IF three # None THEN three ELSE two
  ELSE IF two # None THEN two ELSE three

(* The meaning of a configuration (classes cs, classifier cl), against     *)
(* which packet_classifier is checked: the first rule of the interface     *)
(* that matches sends the packet to its CoS, and from there it goes on as  *)
(* long as the rule of the CoS matches, without end when that leads round  *)
(* in a circle.  Priorities and the default CoS follow.                    *)
Hits(p, c, pkt) == p # None /\ c # None /\ cos[c].valid /\ verify_pmr(p, pkt)
Endless == 0          \* no entry of the table
Refined(cs, c, pkt) ==
  LET goesOn(d) == Hits(cs[d].pmr, cs[d].linked, pkt)
      onward(d) == IF goesOn(d) THEN cs[d].linked ELSE d
      last == FoldFunction(LAMBDA n, d : onward(d), c, [n \in 1 .. NumCos |-> n])
  IN IF goesOn(last) THEN Endless ELSE last
Meaning(cs, cl, pkt) ==
  LET r == cl.rules
      hits == {i \in 1 .. r.num : Hits(r.pmr[i], r.cos[i], pkt)}
      qos == IF pkt.l2 /\ cl.l2 # None /\ ~(cl.first = "l3" /\ pkt.l3 /\ cl.l3 # None) THEN cl.l2
             ELSE IF pkt.l3 THEN cl.l3 ELSE None
  IN IF pkt.err THEN cl.error
     ELSE IF hits # {} THEN Refined(cs, r.cos[CHOOSE i \in hits : \A j \in hits : i <= j], pkt)
     ELSE IF qos # None THEN qos ELSE cl.default

-----------------------------------------------------------------------------
(* Configuration.  At most one call overlaps with a classification, so     *)
(* that what the packet may see is the configuration before the call or    *)
(* after it, or what is half of each.                                      *)
Busy == run.pc # "idle"
Begin(t) ==
  /\ call[t] = NoCall /\ ops < MaxOps /\ (Busy => changes = 0)
  /\ ops' = ops + 1
  /\ changes' = IF Busy THEN changes + 1 ELSE 0
Sees == \E pkt \in {run.pkt} : may' = IF Busy THEN may \cup {Meaning(cos, cls, pkt)'} ELSE {}
(* What was read before the call's first store goes with what is read      *)
(* after its second in a configuration (cs, cl) that never was.            *)
SeesMix(cs, cl) ==
  \E pkt \in {run.pkt} :
    may' = IF Busy THEN may \cup {Meaning(cos, cls, pkt)', Meaning(cs, cl, pkt)} ELSE {}
Whole(t) == Begin(t) /\ Sees /\ UNCHANGED <<lock, call, run>>
Half(t, op) == Begin(t) /\ Sees /\ call' = [call EXCEPT ![t] = op] /\ UNCHANGED run
Return(t) == call' = [call EXCEPT ![t] = NoCall] /\ UNCHANGED <<run, changes, ops>>
Rest(t) == Return(t) /\ Sees

(* Named assumption: the application sets a queue before it uses a CoS,    *)
(* destroys nothing while a packet is classified and no CoS that           *)
(* match_pmr_cos does not check, and creates nothing in an entry that      *)
(* rules still refer to.                                                   *)
Usable(c) == get_cos_entry(c) /\ cos[c].queue # None
CosUsed(c) ==
  \/ \E i \in 1 .. cls.rules.num : cls.rules.cos[i] = c
  \/ \E d \in Cos : cos[d].valid /\ cos[d].linked = c
  \/ \E t \in Configs : c \in {call[t].cos, call[t].src}
PmrUsed(p) ==
  \/ \E i \in 1 .. cls.rules.num : cls.rules.pmr[i] = p
  \/ \E d \in Cos : cos[d].valid /\ cos[d].pmr = p
  \/ \E t \in Configs : call[t].pmr = p

(* alloc_pmr and odp_cos_create take the first entry that is not valid.    *)
FirstFree(tbl, S, x) == x \in S /\ ~tbl[x].valid /\ \A y \in S : y < x => tbl[y].valid

odp_cos_create(t) ==
  /\ "class" \in Ops
  /\ \E c \in Cos :
       /\ FirstFree(cos, Cos, c) /\ ~CosUsed(c)
       /\ cos' = [cos EXCEPT ![c] = [NoCos EXCEPT !.valid = TRUE]]
  /\ UNCHANGED <<pmr, cls, ghosts>>
  /\ Whole(t)

odp_cos_destroy(t, c) ==
  /\ "destroy" \in Ops /\ get_cos_entry(c)
  /\ ~Busy /\ c \notin {cls.error, cls.default, cls.l2, cls.l3}
  /\ cos' = [cos EXCEPT ![c].valid = FALSE]
  /\ UNCHANGED <<pmr, cls, ghosts>>
  /\ Whole(t)

odp_cos_set_queue(t, c, q) ==
  /\ "class" \in Ops /\ get_cos_entry(c)
  /\ cos' = [cos EXCEPT ![c].queue = q]
  /\ UNCHANGED <<pmr, cls, ghosts>>
  /\ Whole(t)

odp_pktio_default_cos_set(t, c) ==
  /\ "default" \in Ops /\ Usable(c)
  /\ cls' = [cls EXCEPT !.default = c]
  /\ UNCHANGED <<cos, pmr, ghosts>>
  /\ Whole(t)

odp_pktio_error_cos_set(t, c) ==
  /\ "error" \in Ops /\ Usable(c)
  /\ cls' = [cls EXCEPT !.error = c]
  /\ UNCHANGED <<cos, pmr, ghosts>>
  /\ Whole(t)

odp_cos_with_l2_priority(t, c) ==
  /\ "l2" \in Ops /\ Usable(c)
  /\ cls' = [cls EXCEPT !.l2 = c]
  /\ UNCHANGED <<cos, pmr, ghosts>>
  /\ Whole(t)

(* l3_precedence is set before the lock is taken and the table changed.    *)
PreferL3(t, c, pref) ==
  /\ "l3" \in Ops /\ Usable(c)
  /\ cls' = [cls EXCEPT !.first = pref]
  /\ UNCHANGED <<cos, pmr, lock, ghosts>>
  /\ Half(t, [NoCall EXCEPT !.op = "l3", !.cos = c, !.old = cls.first])

odp_cos_with_l3_qos(t) ==
  /\ call[t].op = "l3"
  /\ cls' = [cls EXCEPT !.l3 = IF get_cos_entry(call[t].cos) THEN call[t].cos ELSE @]
  /\ UNCHANGED <<cos, pmr, lock, ghosts>>
  /\ SeesMix(cos, [cls' EXCEPT !.first = call[t].old])
  /\ Return(t)

(* odp_pmr_create and odp_pmr_match_set_create: alloc_pmr makes an entry   *)
(* without terms valid, and then the terms are stored.  Named assumption:  *)
(* no term is longer than ODP_PMR_TERM_BYTES_MAX (it would leave its slot  *)
(* as it is).                                                              *)
alloc_pmr(t, S, s) ==
  \E p \in Rules :
    /\ FirstFree(pmr, S, p) /\ ~PmrUsed(p)
    /\ pmr' = [pmr EXCEPT ![p].valid = TRUE, ![p].num = 0]
    /\ UNCHANGED <<cos, cls, lock, applied, terms>>
    /\ Half(t, [NoCall EXCEPT !.op = "terms", !.pmr = p, !.terms = s])

StoreTerms(t) ==
  /\ call[t].op = "terms"
  /\ LET p == call[t].pmr
         s == call[t].terms IN
       /\ pmr' = [pmr EXCEPT ![p].num = Len(s),
                             ![p].slot = [i \in 1 .. MaxTerms |-> IF i \in DOMAIN s THEN s[i] ELSE @[i]]]
       /\ terms' = [terms EXCEPT ![p] = {s[i] : i \in DOMAIN s}]
  /\ UNCHANGED <<cos, cls, lock, applied>>
  /\ Rest(t)

odp_pmr_destroy(t, p) ==
  /\ "destroy" \in Ops /\ get_pmr_entry(p)
  /\ ~Busy
  /\ pmr' = [pmr EXCEPT ![p].valid = FALSE]
  /\ UNCHANGED <<cos, cls, ghosts>>
  /\ Whole(t)

(* odp_pktio_pmr_cos and odp_pktio_pmr_match_set_cos, which differ in the  *)
(* table the rule is from.  The classifier's lock is held from the first   *)
(* store to the second; the rule counts from the second on.                *)
Ready(p) == get_pmr_entry(p) /\ \A t \in Configs : ~(call[t].op = "terms" /\ call[t].pmr = p)

PmrCosUnlockedMutant(t, p, c) ==
  /\ "apply" \in Ops /\ Ready(p) /\ Usable(c) /\ cls.rules.num < MaxRules
  /\ cls' = [cls EXCEPT !.rules.pmr[cls.rules.num + 1] = p, !.rules.cos[cls.rules.num + 1] = c]
  /\ UNCHANGED <<cos, pmr, lock, ghosts>>
  /\ Half(t, [NoCall EXCEPT !.op = "rule", !.pmr = p, !.cos = c])

PmrCos(t, p, c) ==
  /\ "apply" \in Ops /\ Ready(p) /\ Usable(c) /\ lock = None /\ cls.rules.num < MaxRules
  /\ lock' = t
  /\ cls' = [cls EXCEPT !.rules.pmr[cls.rules.num + 1] = p, !.rules.cos[cls.rules.num + 1] = c]
  /\ UNCHANGED <<cos, pmr, ghosts>>
  /\ Half(t, [NoCall EXCEPT !.op = "rule", !.pmr = p, !.cos = c])

odp_pktio_pmr_cos(t) ==
  /\ call[t].op = "rule"
  /\ lock' = None
  /\ cls' = [cls EXCEPT !.rules.num = @ + 1]
  /\ applied' = Append(applied, <<call[t].pmr, call[t].cos>>)
  /\ UNCHANGED <<cos, pmr, terms>>
  /\ Rest(t)

(* odp_cos_pmr_cos stores the rule and then the CoS, without a lock.       *)
ChainRule(t, p, c, d) ==
  /\ "chain" \in Ops /\ Ready(p) /\ get_cos_entry(c) /\ Usable(d)
  /\ cos' = [cos EXCEPT ![c].pmr = p]
  /\ UNCHANGED <<pmr, cls, lock, applied, terms>>
  /\ Half(t, [NoCall EXCEPT !.op = "chain", !.src = c, !.cos = d, !.old = cos[c].pmr])

ChainCos(t) ==
  /\ call[t].op = "chain"
  /\ cos' = [cos EXCEPT ![call[t].src].linked = call[t].cos]
  /\ UNCHANGED <<pmr, cls, lock, ghosts>>
  /\ SeesMix([cos' EXCEPT ![call[t].src].pmr = call[t].old], cls)
  /\ Return(t)

(* The interface is closed and opened again: pktio_classifier_init.        *)
Reopen(t) ==
  /\ "reopen" \in Ops /\ ~Busy /\ lock = None /\ (\A u \in Configs : call[u] = NoCall)
  /\ cls' = [cls EXCEPT !.rules = NoRules, !.error = None, !.default = None]
  /\ applied' = <<>>
  /\ UNCHANGED <<cos, pmr, terms>>
  /\ Whole(t)

-----------------------------------------------------------------------------
(* packet_classifier, pktio_select_cos and match_pmr_cos.                  *)
Arrive(pkt) ==
  /\ run = Waiting
  /\ Cardinality({t \in Configs : call[t] # NoCall}) <= 1
  /\ changes' = Cardinality({t \in Configs : call[t] # NoCall})
  /\ may' = {Meaning(cos, cls, pkt)}
  /\ run' = [Waiting EXCEPT !.pkt = pkt, !.pc = IF pkt.err THEN "error" ELSE "scan"]
  /\ UNCHANGED <<tables, lock, call, ghosts, ops>>

Step(r) ==
  /\ run' = r
  /\ UNCHANGED <<tables, lock, call, may, changes, ghosts, ops>>

ErrorCos == run.pc = "error" /\ Step([run EXCEPT !.pc = "enq", !.best = cls.error])

ScanMutant ==
  /\ run.pc = "scan"
  /\ LET i == run.i + 1 IN
       IF run.i < cls.rules.num
       THEN Step([run EXCEPT !.pc = "match", !.cos = cls.rules.cos[i], !.pmr = cls.rules.pmr[i]])
       ELSE Step([run EXCEPT !.pc = "qos"])

Scan ==
  /\ run.pc = "scan"
  /\ LET i == run.i + 1 IN
       IF run.i < cls.rules.num
       THEN Step([run EXCEPT !.pc = "match", !.i = i, !.cos = cls.rules.cos[i], !.pmr = cls.rules.pmr[i]])
       ELSE Step([run EXCEPT !.pc = "qos"])

(* One level of match_pmr_cos; best is the CoS of the level above.         *)
Match ==
  /\ run.pc = "match"
  /\ IF Hits(run.pmr, run.cos, run.pkt)
     THEN Step([run EXCEPT !.pc = "chain", !.best = run.cos])
     ELSE Step([run EXCEPT !.pc = IF run.best = None THEN "scan" ELSE "enq", !.cos = None, !.pmr = None])

(* The arguments of the recursive call are read in either order.           *)
ChainFirst ==
  /\ run.pc = "chain"
  /\ \/ Step([run EXCEPT !.pc = "cos", !.pmr = cos[run.best].pmr])
     \/ Step([run EXCEPT !.pc = "pmr", !.cos = cos[run.best].linked])

ChainSecond ==
  \/ run.pc = "cos" /\ Step([run EXCEPT !.pc = "match", !.cos = cos[run.best].linked])
  \/ run.pc = "pmr" /\ Step([run EXCEPT !.pc = "match", !.pmr = cos[run.best].pmr])

(* match_qos_cos looks at l3_precedence and then at the tables.            *)
Precedence == run.pc = "qos" /\ Step([run EXCEPT !.pc = "prio", !.first = cls.first])

Qos ==
  /\ run.pc = "prio"
  /\ LET c == match_qos_cos(run.first, run.pkt)
     IN Step([run EXCEPT !.pc = IF c = None THEN "default" ELSE "enq", !.best = c])

Default == run.pc = "default" /\ Step([run EXCEPT !.pc = "enq", !.best = cls.default])

(* Without a CoS the packet is dropped, with one it goes to its queue.     *)
Enqueue ==
  /\ run.pc = "enq"
  /\ run' = Waiting /\ may' = {} /\ changes' = 0
  /\ UNCHANGED <<tables, lock, call, ghosts, ops>>

-----------------------------------------------------------------------------
Configure(t) ==
  \/ odp_cos_create(t) \/ Reopen(t)
  \/ \E c \in Cos :
       \/ odp_cos_destroy(t, c) \/ odp_pktio_default_cos_set(t, c) \/ odp_pktio_error_cos_set(t, c)
       \/ odp_cos_with_l2_priority(t, c)
       \/ \E o \in Orderings : PreferL3(t, c, o)
       \/ \E q \in Queues : odp_cos_set_queue(t, c, q)
       \/ \E p \in Rules : PmrCos(t, p, c) \/ \E d \in Cos : ChainRule(t, p, c, d)
  \/ \E p \in Rules : odp_pmr_destroy(t, p)
  \/ "rule" \in Ops /\ \E f \in Fields : alloc_pmr(t, Pmrs, <<f>>)
  \/ "set" \in Ops /\ \E n \in 1 .. MaxTerms : \E s \in [1 .. n -> Fields] : alloc_pmr(t, Sets, s)

Finish(t) == odp_cos_with_l3_qos(t) \/ StoreTerms(t) \/ odp_pktio_pmr_cos(t) \/ ChainCos(t)

Classify == ErrorCos \/ Scan \/ Match \/ ChainFirst \/ ChainSecond \/ Precedence \/ Qos \/ Default \/ Enqueue

Next ==
  /\ UNCHANGED app
  /\ \/ \E t \in Configs : Configure(t) \/ Finish(t)
     \/ \E pkt \in Packets : Arrive(pkt)
     \/ Classify

(* The thread in packet_classifier goes on.                                *)
Spec == Init /\ [][Next]_vars /\ WF_vars(UNCHANGED app /\ Classify)

-----------------------------------------------------------------------------
(* The tables, the calls and the packet have their types; a valid rule has *)
(* at most as many terms as it has room for, and the interface as many     *)
(* rules.                                                                  *)
TypeOK ==
  /\ cos \in [Cos -> [valid : BOOLEAN, pmr : Rules \cup {None}, linked : Cos \cup {None}, queue : Queues \cup {None}]]
  /\ \A p \in Rules : pmr[p].valid \in BOOLEAN /\ pmr[p].num \in 0 .. MaxTerms
  /\ cls.rules.num \in 0 .. MaxRules
  /\ {cls.error, cls.default, cls.l2, cls.l3} \subseteq Cos \cup {None}
  /\ lock \in Configs \cup {None}
  /\ run.i \in 0 .. MaxRules /\ run.best \in Cos \cup {None} /\ may \subseteq Cos \cup {None, Endless}

(* A packet classified while one call changes the configuration gets the   *)
(* CoS that the configuration before the call gives it, the one after it,  *)
(* or one in which a single store of the call is in effect:                *)
(* odp_cos_pmr_cos may show the new rule of a CoS with the old CoS behind  *)
(* it or the old rule with the new CoS, odp_cos_with_l3_qos one precedence *)
(* with the other's table ("intermittent stale data is acceptable"), and   *)
(* nothing else comes of pktio_select_cos taking no lock: no rule is seen  *)
(* half applied, and no other class is ever reached.  (When the call       *)
(* outlasts the classification, look when it returns.)                     *)
OldOrNew == run.pc = "enq" /\ (\A t \in Configs : call[t] = NoCall) => run.best \in may

(* The CoS packet_classifier enqueues to exists and has a queue.           *)
HasQueue ==
  run.pc = "enq" /\ run.best # None => cos[run.best].valid /\ cos[run.best].queue # None

(* odp_pktio_pmr_cos loses no rule and keeps their order, which is their   *)
(* priority, whichever threads apply rules at the same time.               *)
RulesKept ==
  /\ cls.rules.num = Len(applied)
  /\ \A i \in 1 .. Len(applied) : applied[i] = <<cls.rules.pmr[i], cls.rules.cos[i]>>

(* A rule matches the packets that have the terms its creation accepted,   *)
(* and no others: nothing remains of an earlier rule in the same entry.    *)
RuleIsItsTerms ==
  \A p \in Rules : Ready(p) => \A pkt \in Packets : verify_pmr(p, pkt) <=> terms[p] \subseteq pkt.fields

(* packet_classifier comes to an end for each packet, even when rules are  *)
(* applied and links replaced while it follows them, unless the            *)
(* application links classes in a circle whose rules all match the packet, *)
(* which odp_cos_pmr_cos lets it do: then match_pmr_cos goes on for ever.  *)
Circle(pkt) == \E c \in Cos : Refined(cos, c, pkt) = Endless
Decides == Busy ~> (~Busy \/ Circle(run.pkt))

(* What the configuration calls build is whole when a packet meets it: the *)
(* destination exists, no rule applied is lost, and each rule is its own   *)
(* terms.                                                                  *)
DestinationExists == TypeOK /\ HasQueue /\ RulesKept /\ RuleIsItsTerms
=============================================================================
