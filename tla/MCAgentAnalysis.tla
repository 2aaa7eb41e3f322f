---------------------------- MODULE MCAgentAnalysis --------------------------
(***************************************************************************)
(* A small installation for TLC: the shipped manifest, reduced to what the *)
(* worker needs, and a release that spoils it.                             *)
(***************************************************************************)
EXTENDS AgentAnalysis

Needs(a) == {d[2] : d \in {x \in Duties \cup Reviewing : x[1] = a}}
Agents == {d[1] : d \in Duties \cup Reviewing}
Forbidden == {"ha.control", "git.write", "deployment.execute"}

Shipped ==
    [agents |-> [a \in Agents \cup {"analysis-root"} |->
        [parent |-> IF a \in {"analysis-root", "release-gate-v1"} THEN None
                    ELSE "analysis-root",
         allow |-> IF a = "analysis-root" THEN UNION {Needs(x) : x \in Agents}
                   ELSE Needs(a),
         deny |-> Forbidden]],
     deployment |-> FALSE]

\* An orchestrator that may no longer manage and a watchdog that may write.
Careless ==
    [Shipped EXCEPT
        !.agents["opportunity-orchestrator-v1"].allow = {},
        !.agents["watchdog-v1"].allow = @ \cup {"knowledge.write"}]

MCManifests == [old |-> Shipped, new |-> Shipped, bad |-> Careless]
MCExtends == {<<"safety", "safety.evaluate">>}

Rest == [relay |-> FALSE, gas |-> FALSE, service |-> FALSE, master |-> TRUE,
         pump |-> FALSE, relief |-> FALSE,
         fault |-> FALSE, fresh |-> TRUE, away |-> FALSE]

\* At rest; and a fault, of which the sentinel warns and which it finds a
\* violation when it lasts, in a plant of which the guard knows too little.
MCPlants == {Rest,
             [Rest EXCEPT !.relay = TRUE, !.gas = TRUE, !.pump = TRUE,
                          !.fault = TRUE, !.service = None, !.relief = None,
                          !.away = TRUE]}

Cold == [outside |-> 2, gas24h |-> 20, price |-> 2, zones |-> <<>>,
         single |-> None, relaySamples |-> 0, startsPercent |-> None,
         cycles |-> 0, unhealthy |-> None]
Mild ==
    [outside |-> 12, gas24h |-> 20, price |-> None,
     zones |-> [kitchen |-> [comfort |-> 12, over |-> 40, under |-> 0],
                hall |-> [comfort |-> 11, over |-> 0, under |-> 50]],
     single |-> 45, relaySamples |-> 20, startsPercent |-> 150, cycles |-> 4,
     unhealthy |-> 1]
MCSummaries == {Cold}

\* Mild meets five limits of optimization.py exactly or amply and misses two
\* by one: a zone with 11 samples, and 4 cycles.
ASSUME LimitsAreInclusive ==
    Reported(Mild, [status |-> "OK", warnings |-> FALSE], Rest) =
        {<<"energy", "mild-weather-gas">>, <<"cost", "missing-gas-tariff">>,
         <<"comfort_energy", "kitchen">>,
         <<"schedule", "single-zone-overlap">>,
         <<"maintenance", "unhealthy-valves">>}

MCRules == {"pi10", "rise", "both"}
MCComposite == {"both"}
Fault(n, warned, timely) ==
    [outcome |-> "fault", incident |-> n, warned |-> warned,
     timely |-> timely, traced |-> TRUE]
Control(warned) ==
    [outcome |-> "observed_no_fault", incident |-> None, warned |-> warned,
     timely |-> {}, traced |-> TRUE]
MCRetained ==
    {<<Fault(1, {"pi10", "both"}, {"pi10"}), Control({}), Control({"rise"}),
       Fault(1, {"pi10"}, {"pi10"})>>}
MCLessons == {Fault(2, {"pi10", "both"}, {"pi10", "both"})}
=============================================================================
