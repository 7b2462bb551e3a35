--------------------------- MODULE MCRegisterCache ---------------------------
(* A register of the NORMAL or the SLOW tier, with a cadence floor, beside *)
(* a STATIC one.  The SLOW base TTL is the option of the config entry and  *)
(* exceeds the cap of its tier.                                            *)
EXTENDS RegisterCache

CONSTANTS yield, serial

MCRegisters == {yield, serial}
MCValues    == {0, 1}
MCClasses   == [n \in MCRegisters |-> IF n = yield THEN {"normal", "slow"} ELSE {"static"}]
MCFloor     == [n \in MCRegisters |-> IF n = yield THEN 2 ELSE 0]
MCCeiling   == [n \in MCRegisters |-> 1]
MCBaseTTL   == [t \in Tiers |-> CASE t = "slow" -> 3 [] t = "static" -> 4 [] OTHER -> 1]
MCCapTTL    == [t \in Tiers |-> CASE t = "normal" -> 3 [] t = "static" -> 4 [] OTHER -> 2]
=============================================================================
