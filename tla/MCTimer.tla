------------------------------ MODULE MCTimer -------------------------------
EXTENDS Timer

CONSTANTS u1, u2, e1, e2

(* Two timers and one timeout, one timer and two timeouts, two users.      *)
TwoTimers == [num_timers |-> 2, users |-> {u1}, events |-> {e1}]
TwoEvents == [num_timers |-> 1, users |-> {u1}, events |-> {e1, e2}]
TwoUsers == [num_timers |-> 1, users |-> {u1, u2}, events |-> {e1}]
AllSetups == {TwoTimers, TwoEvents, TwoUsers}
=============================================================================
