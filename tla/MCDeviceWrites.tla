--------------------------- MODULE MCDeviceWrites ---------------------------
(* The inverter's entry, which is set up with one of three installations,    *)
(* and another one that has all services; two tasks, and two periods that    *)
(* may follow one another in either order.                                   *)
EXTENDS DeviceWrites

CONSTANTS home, shed, task1, task2, p, q

Installation(emma, battery, peak, writes) ==
    [emma |-> emma, battery |-> battery, peak |-> peak, writes |-> writes]

Ordinary == Installation(FALSE, "LUNA", TRUE, TRUE)

Installations ==
    home :> {Ordinary, Installation(TRUE, "LG", FALSE, TRUE),
             Installation(FALSE, "LUNA", FALSE, FALSE)}
    @@ shed :> {Ordinary}

Tasks == {task1, task2}

ThePeriods == {p, q}
Overlap == {{p}, {q}}

Symmetry == Permutations(Tasks) \cup Permutations(ThePeriods)
=============================================================================
