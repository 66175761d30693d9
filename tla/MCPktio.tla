------------------------------ MODULE MCPktio -------------------------------
EXTENDS Pktio

(* Applications that only schedule, that schedule and manage interfaces,   *)
(* and that poll their input queues.                                       *)
ThreeApps ==
  {{"schedule"}, {"close", "stop", "remdef", "schedule"},
   {"close", "stop", "remdef", "deq"}}
=============================================================================
