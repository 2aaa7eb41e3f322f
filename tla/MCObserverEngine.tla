------------------------- MODULE MCObserverEngine -------------------------
EXTENDS ObserverEngine

Calm == [gas |-> "off", relay |-> "on", code |-> NoFault,
         bad |-> FALSE, intervention |-> FALSE, warn |-> FALSE]

MCSamples ==
    {Calm,
     [Calm EXCEPT !.relay = "off"],
     [Calm EXCEPT !.gas = "unknown", !.relay = "unknown"],
     [Calm EXCEPT !.warn = TRUE],
     [Calm EXCEPT !.code = "2964"],
     [Calm EXCEPT !.gas = "on", !.relay = "off"],
     [Calm EXCEPT !.gas = "on", !.warn = TRUE],
     [Calm EXCEPT !.gas = "on", !.code = "2964"],
     [Calm EXCEPT !.intervention = TRUE]}

MCTimes == 0..4
MCSteps == {-2, 1, 2}
MCFaultCodes == {"2964"}
=============================================================================
