----------------------------- MODULE MCWritePath -----------------------------
(* A setting read in the first chunk of a poll and another register in the *)
(* second; the setting alone for the liveness run.                         *)
EXTENDS WritePath, TLC

CONSTANTS limit, state

SettingAndState == {limit, state}
SettingOnly     == {limit}
NoRegister      == {}
TwoValues       == {0, 1}
SettingAlone    == (limit :> 1)
SettingFirst    == (limit :> 1 @@ state :> 2)
=============================================================================
