--------------------------- MODULE MCEntryLifecycle ---------------------------
(* An entry with two inverters, set up twice, while discovery sessions use *)
(* the same endpoint.                                                      *)
EXTENDS EntryLifecycle, TLC

CONSTANTS home, flow, inv1, inv2

MCEntries   == {home}
MCDevicesOf == home :> <<inv1, inv2>>
MCFlows     == {flow}
=============================================================================
