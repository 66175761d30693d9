---------------------------- MODULE MCScheduler -----------------------------
EXTENDS Scheduler

P(type, sync, prio) == [type |-> type, sync |-> sync, prio |-> prio]

MixedPrios == {P("SCHED", "ATOMIC", 0), P("SCHED", "NONE", 1), P("POLL", "NONE", 0)}
AtomicPrios == {P("SCHED", "ATOMIC", 0), P("SCHED", "ATOMIC", 1)}
=============================================================================
