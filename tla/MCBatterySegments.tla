-------------------------- MODULE MCBatterySegments --------------------------
EXTENDS BatterySegments
=============================================================================
