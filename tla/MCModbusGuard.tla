---------------------------- MODULE MCModbusGuard ----------------------------
(* A bus with normal and priority requesters; the devices report gaps and  *)
(* queue depths beyond the clamps on both sides.                           *)
EXTENDS ModbusGuard

CONSTANTS n1, n2, p1, p2, s1, s2

AllTasks == {n1, n2, p1, p2}
AllPriorityTasks == {p1, p2}
ThreeTasks == {n1, p1, p2}
OneSource == {s1}

TwoSources == {s1, s2}

SomeReports == {0, 3}
=============================================================================
