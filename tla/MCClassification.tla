-------------------------- MODULE MCClassification --------------------------
EXTENDS Classification

CONSTANTS t1, t2, f1, f2

(* Rules that are chained, again and in circles; rules that are destroyed; *)
(* priorities and an interface that is opened again; two threads; rule     *)
(* sets in entries used before.                                            *)
Chains ==
  [configs |-> {t1}, fields |-> {f1, f2}, classes |-> 3, rules |-> <<f1, f2>>, calls |-> 2,
   ops |-> {"chain"}]
Destroyed ==
  [configs |-> {t1}, fields |-> {f1}, classes |-> 2, rules |-> <<f1>>, calls |-> 3,
   ops |-> {"rule", "apply", "default", "chain", "destroy"}]
Priorities ==
  [configs |-> {t1}, fields |-> {}, classes |-> 2, rules |-> <<>>, calls |-> 4,
   ops |-> {"default", "error", "l2", "l3", "reopen"}]
TwoThreads ==
  [configs |-> {t1, t2}, fields |-> {f1}, classes |-> 1, rules |-> <<>>, calls |-> 5,
   ops |-> {"class", "rule", "apply", "default"}]
RuleSets ==
  [configs |-> {t1}, fields |-> {f1, f2}, classes |-> 1, rules |-> <<>>, calls |-> 4,
   ops |-> {"set", "apply", "destroy"}]

AllApps == {Chains, Destroyed, Priorities, TwoThreads, RuleSets}
=============================================================================
