--------------------------- MODULE MCZoneDispatch ---------------------------
(* Two zones, one of which can give support. *)
EXTENDS ZoneDispatch

MCZoneOrder == <<"1p_chodba", "1p_kuchyn">>
MCSupportZones == {"1p_chodba"}
=============================================================================
