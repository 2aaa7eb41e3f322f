------------------------- MODULE MCHydraulicSupport -------------------------
(* One zone that can give support and two that cannot.  Levels are halves  *)
(* of a percent: 0 is no demand, 2 confirms a support, 6 is the most.      *)
EXTENDS HydraulicSupport

MCCandidates == {"1p_chodba"}
MCOthers == {"1p_kuchyn", "2p_mama"}
MCLevel == {0, 2, 3, 4, 6}
=============================================================================
