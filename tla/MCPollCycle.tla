----------------------------- MODULE MCPollCycle -----------------------------
(* An energy counter, SLOW tier, and a power reading, FAST tier, in two    *)
(* chunks, with the values the suspicious-zero guard tells apart.          *)
EXTENDS PollCycle, TLC

CONSTANTS power, yield

MCRegisters == {power, yield}
NoStatic    == {}
OneFast     == {power}
NoNormal    == {}
OneEnergy   == {yield}
MCValues    == {0, 1}
YieldFirst  == (yield :> 1 @@ power :> 2)
=============================================================================
