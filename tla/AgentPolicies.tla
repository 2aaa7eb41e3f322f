---------------------------- MODULE AgentPolicies ---------------------------
(***************************************************************************)
(* The deterministic agents of custom_components/heating_observer: what    *)
(* each computes from its inputs, with no state of its own.  AgentAnalysis *)
(* is the worker that calls them, stores what they say and shows it.       *)
(*                                                                         *)
(* Numbers that are only compared with a limit are represented by the      *)
(* outcome of the comparison: a lead is timely or late, a zone overshoots  *)
(* or does not.  The minimum sizes of the data sets are CONSTANTS.         *)
(***************************************************************************)
EXTENDS Integers, FiniteSets, Sequences, FiniteSetsExt

CONSTANTS Rules,           \* RULES of engine.py and the composite rules
          Composite,       \* the rules that need traced features
          MinFaults,       \* 3: distinct fault incidents to choose from
          MinNormal,       \* 20: controls to choose from
          MinHeldFaults,   \* 1: incidents held out
          MinHeldNormal,   \* 10: controls held out
          Extends,         \* <<p, c>>: capability c starts with p and a dot
          None

ASSUME PolicyAssumption ==
    /\ IsFiniteSet(Rules) /\ Composite \subseteq Rules /\ Composite # Rules
    /\ {MinFaults, MinNormal, MinHeldFaults, MinHeldNormal} \subseteq Nat

-----------------------------------------------------------------------------
(***************************************************************************)
(* permissions.py.  A manifest has an entry for every agent: its parent    *)
(* (or None), the capabilities it is allowed and those it is denied.       *)
(***************************************************************************)
Covers(p, c) == p = c \/ <<p, c>> \in Extends

\* A denied prefix wins over an allowed one; an agent without an entry may
\* do nothing, default_deny being true in the shipped manifest.
Allowed(manifest, agent, capability) ==
    /\ agent \in DOMAIN manifest.agents
    /\ ~\E d \in manifest.agents[agent].deny : Covers(d, capability)
    /\ \E a \in manifest.agents[agent].allow : Covers(a, capability)

Dangerous == {"ha.control", "deployment.execute", "git.write"}

ExceedsParent(manifest, agent) ==
    LET parent == manifest.agents[agent].parent
    IN /\ parent # None
       /\ \/ parent \notin DOMAIN manifest.agents
          \/ ~(manifest.agents[agent].allow \subseteq
                 manifest.agents[parent].allow)

Audit(manifest) ==
    IF \/ \E a \in DOMAIN manifest.agents : ExceedsParent(manifest, a)
       \/ manifest.deployment
       \/ \E a \in DOMAIN manifest.agents, c \in Dangerous :
             Allowed(manifest, a, c)
    THEN "FAIL"
    ELSE "PASS"

-----------------------------------------------------------------------------
(***************************************************************************)
(* replay.py and intelligence.py.  Episodes are in the order of their      *)
(* start; a set of their indices is a data set.                            *)
(***************************************************************************)
Episode == [outcome: {"fault", "observed_no_fault", "censored"},
            incident: Nat \cup {None},   \* the incident of a fault
            warned: SUBSET Rules,        \* before the fault, or at all
            timely: SUBSET Rules,        \* of these, at least the lead budget
            traced: BOOLEAN]             \* it has the quantized features

\* Mistake: an incident is counted as often as it was seen.
FaultsWithRepeats(episodes) ==
    {i \in DOMAIN episodes :
        episodes[i].outcome = "fault" /\ episodes[i].incident # None}

\* The first episode of every incident: one fault is counted once.
Faults(episodes) ==
    {i \in DOMAIN episodes :
        /\ episodes[i].outcome = "fault"
        /\ episodes[i].incident # None
        /\ \A j \in 1..(i - 1) :
              ~ /\ episodes[j].outcome = "fault"
                /\ episodes[j].incident = episodes[i].incident}

Normal(episodes) ==
    {i \in DOMAIN episodes : episodes[i].outcome = "observed_no_fault"}

\* _split_holdout: the last quarter, at least one, is held out.
HeldOut(items) ==
    IF Cardinality(items) < 2 THEN {}
    ELSE LET size == Max({1, Cardinality(items) \div 4})
         IN {i \in items : Cardinality({j \in items : j > i}) < size}

Evidence(episodes) ==
    [faults |-> Faults(episodes) \ HeldOut(Faults(episodes)),
     normal |-> Normal(episodes) \ HeldOut(Normal(episodes))]

Validation(episodes) ==
    [faults |-> HeldOut(Faults(episodes)),
     normal |-> HeldOut(Normal(episodes))]

\* Only traced episodes can be matched against a composite rule.
Usable(episodes, items, rule) ==
    {i \in items : rule \in Composite => episodes[i].traced}

Score(episodes, rule, data) ==
    LET faults == Usable(episodes, data.faults, rule)
        normal == Usable(episodes, data.normal, rule)
        detected == {i \in faults : rule \in episodes[i].warned}
        timely == {i \in detected : rule \in episodes[i].timely}
    IN [faults   |-> Cardinality(faults),
        detected |-> Cardinality(detected),
        timely   |-> Cardinality(timely),
        normal   |-> Cardinality(normal),
        warned   |-> Cardinality({i \in normal :
                                    rule \in episodes[i].warned})]

\* Most timely first, then fewest missed, then fewest controls warned.
Better(a, b) ==
    LET missed(s) == s.faults - s.detected
    IN \/ a.timely > b.timely
       \/ /\ a.timely = b.timely
          /\ \/ missed(a) < missed(b)
             \/ missed(a) = missed(b) /\ a.warned < b.warned

\* The candidate is chosen by its score on the evidence alone.
Best(episodes, rules) ==
    CHOOSE r \in rules : \A s \in rules :
        ~Better(Score(episodes, s, Evidence(episodes)),
                Score(episodes, r, Evidence(episodes)))

EnoughFor(episodes, rule) ==
    LET counted(d) == [faults |-> Usable(episodes, d.faults, rule),
                       normal |-> Usable(episodes, d.normal, rule)]
        evidence == counted(Evidence(episodes))
        held == counted(Validation(episodes))
    IN /\ Cardinality(evidence.faults) >= MinFaults
       /\ Cardinality(evidence.normal) >= MinNormal
       /\ Cardinality(held.faults) >= MinHeldFaults
       /\ Cardinality(held.normal) >= MinHeldNormal

\* review_failures: a score a person may be asked to look at.
PassesReview(s) ==
    /\ s.faults >= 1 /\ s.timely = s.faults
    /\ s.normal >= MinHeldNormal /\ s.normal > 0 /\ s.warned * 10 <= s.normal

Candidacy == {"INSUFFICIENT_EVIDENCE", "PROPOSED_FOR_HUMAN_REVIEW",
              "VALIDATION_FAILED_OR_INCOMPLETE"}

Compositing == {"INSUFFICIENT_FEATURE_EVIDENCE", "PROMISING_SHADOW_CANDIDATE",
                "CANDIDATE_NEEDS_REFINEMENT"}

\* propose: the status of the candidate made from a replay.
Proposal(episodes) ==
    LET base == Rules \ Composite
        best == Best(episodes, base)
    IN IF ~EnoughFor(episodes, best) THEN "INSUFFICIENT_EVIDENCE"
       ELSE IF PassesReview(Score(episodes, best, Validation(episodes)))
            THEN "PROPOSED_FOR_HUMAN_REVIEW"
            ELSE "VALIDATION_FAILED_OR_INCOMPLETE"

\* _composite_search: the evidence must pass the same review as well.
CompositeSearch(episodes) ==
    LET best == Best(episodes, Composite)
        evidence == Score(episodes, best, Evidence(episodes))
    IN IF Composite = {} \/ ~EnoughFor(episodes, best) \/ evidence.detected = 0
       THEN "INSUFFICIENT_FEATURE_EVIDENCE"
       ELSE IF /\ PassesReview(evidence)
               /\ PassesReview(Score(episodes, best, Validation(episodes)))
            THEN "PROMISING_SHADOW_CANDIDATE"
            ELSE "CANDIDATE_NEEDS_REFINEMENT"

\* What run() and propose() return; release is the version whose policy
\* made it, which the reports do not carry.
Replay(episodes, release) ==
    [generation |-> Len(episodes), release |-> release,
     enough |-> EnoughFor(episodes, Best(episodes, Rules \ Composite)),
     candidate |-> Proposal(episodes),
     composite |-> CompositeSearch(episodes)]

-----------------------------------------------------------------------------
(***************************************************************************)
(* safety.py.  A plant is what one snapshot says; None is unknown.         *)
(***************************************************************************)
Tri == BOOLEAN \cup {None}

\* Master off also stands for the mode Off.
\* The pump and the confirmed flow relief are for the release guard alone.
Plant == [relay: Tri, gas: Tri, service: Tri, master: Tri,
          pump: Tri, relief: Tri,
          fault: BOOLEAN,   \* the service code is one of FAULTS
          fresh: BOOLEAN,   \* block and flow are present and not stale
          away: BOOLEAN]    \* a context the optimizer misses is unknown

FaultStreak(plant, streak) ==
    IF plant.fault /\ plant.relay = TRUE THEN Min({streak + 1, 2}) ELSE 0

Violated(plant, streak, manifest, audit, appendOnly) ==
    \/ plant.relay = TRUE /\ (plant.service = TRUE \/ plant.master = FALSE)
    \/ FaultStreak(plant, streak) >= 2
    \/ manifest.deployment
    \/ ~appendOnly
    \/ audit # "PASS"

Warned(plant, streak, storageError) ==
    \/ FaultStreak(plant, streak) = 1
    \/ /\ plant.relay = TRUE \/ plant.gas = TRUE
       /\ \/ ~plant.fresh
          \/ None \in {plant.relay, plant.master, plant.service}
    \/ plant.gas = TRUE /\ plant.relay = FALSE
    \/ storageError

Safety(plant, streak, manifest, audit, appendOnly, storageError) ==
    [status |-> IF Violated(plant, streak, manifest, audit, appendOnly)
                THEN "VIOLATION"
                ELSE IF Warned(plant, streak, storageError) THEN "WARNING"
                ELSE "OK",
     warnings |-> Warned(plant, streak, storageError)]

(***************************************************************************)
(* watchdog.py: silent is that no batch was written for 180 seconds.       *)
(***************************************************************************)
Watchdog(safety, audit, journalError, storageError, silent) ==
    IF safety = "VIOLATION" THEN "CRITICAL"
    ELSE IF journalError \/ storageError \/ audit # "PASS" \/ silent
    THEN "DEGRADED"
    ELSE "HEALTHY"

(***************************************************************************)
(* gates.py: the runtime is never told the result of the CI and plans no   *)
(* change, so only a violation moves its gate.                             *)
(***************************************************************************)
RuntimeGate(safety) ==
    IF safety = "VIOLATION" THEN "BLOCKED" ELSE "AWAITING_CI"

-----------------------------------------------------------------------------
(***************************************************************************)
(* optimization.py.  A summary is what optimization_summary measured over  *)
(* the last day, fractions in percent; None is not measured.  An           *)
(* opportunity is identified by its category and key.                      *)
(***************************************************************************)
Measured(x, limit) == x # None /\ x >= limit

EnergyFindings(s) ==
    {f \in {<<"energy", "mild-weather-gas">>} :
        Measured(s.outside, 10) /\ Measured(s.gas24h, 10)}
    \cup {f \in {<<"cost", "missing-gas-tariff">>} : s.price = None}

ComfortFindings(s) ==
    LET active == {z \in DOMAIN s.zones : s.zones[z].comfort >= 12}
    IN {<<"comfort_energy", z>> : z \in {z \in active : s.zones[z].over >= 35}}
       \cup {<<"comfort", z>> : z \in {z \in active : s.zones[z].under >= 35}}

ScheduleFindings(s) ==
    {f \in {<<"schedule", "single-zone-overlap">>} :
        Measured(s.single, 45) /\ s.relaySamples >= 20}

\* composite-flow-risk-rule needs a replay without the composite search,
\* which run() no longer makes.
HydraulicsFindings(s) ==
    {f \in {<<"hydraulics", "internal-restarts">>} :
        Measured(s.startsPercent, 150) /\ s.cycles >= 5}

MaintenanceFindings(s, safety) ==
    {f \in {<<"maintenance", "unhealthy-valves">>} : Measured(s.unhealthy, 1)}
    \cup {f \in {<<"maintenance", "safety-warning-followup">>} :
            safety.warnings}

DataQualityFindings(plant) ==
    {f \in {<<"data_quality", "missing-optimization-context">>} : plant.away}

\* What the six agents report; equal fingerprints are one opportunity.
Reported(s, safety, plant) ==
    EnergyFindings(s) \cup ComfortFindings(s) \cup ScheduleFindings(s)
    \cup HydraulicsFindings(s) \cup MaintenanceFindings(s, safety)
    \cup DataQualityFindings(plant)
=============================================================================
