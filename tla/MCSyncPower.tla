----------------------------- MODULE MCSyncPower -----------------------------
(* Two inverters and a meter. *)
EXTENDS SyncPower

CONSTANTS inv1, meter, inv2

MCReadOrder == <<inv1, meter, inv2>>
=============================================================================
