---------------------------- MODULE MCFlowRelief ----------------------------
(* The reports that V4, the restore and the normal start tell apart.       *)
EXTENDS FlowRelief

Calmly == [block |-> "cool", fault |-> FALSE, bus |-> TRUE, gas |-> FALSE,
           confirmed |-> FALSE, wanted |-> TRUE]

MCPlants == {
    Calmly,
    [Calmly EXCEPT !.confirmed = TRUE],
    [Calmly EXCEPT !.block = "warm", !.gas = TRUE],
    [Calmly EXCEPT !.block = "hot"],
    [Calmly EXCEPT !.block = "hot", !.confirmed = TRUE],
    [Calmly EXCEPT !.fault = TRUE, !.confirmed = TRUE],
    [Calmly EXCEPT !.bus = FALSE],
    [Calmly EXCEPT !.wanted = FALSE]}
=============================================================================
