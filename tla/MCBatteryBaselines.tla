------------------------- MODULE MCBatteryBaselines -------------------------
EXTENDS BatteryBaselines

Symmetry == Permutations(Ceilings)
=============================================================================
