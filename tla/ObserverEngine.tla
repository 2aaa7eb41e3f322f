--------------------------- MODULE ObserverEngine ---------------------------
(***************************************************************************)
(* Observer of custom_components/heating_observer/engine.py.               *)
(*                                                                         *)
(* The observer is fed one snapshot at a time and cuts the stream into     *)
(* episodes, one per burner start or per fault that arrives without one.   *)
(* A finished episode is either scored, as a fault or as a quiet window,   *)
(* or censored.  Fault codes are gathered into incidents.                  *)
(*                                                                         *)
(* A snapshot keeps what these decisions look at.  "unknown" is Python's   *)
(* None of a switch.  bad stands for any other problem _quality reports,   *)
(* intervention for service mode or a master that is not on, and warn for  *)
(* the 15 rules, taken as one: what they compute from demands and block    *)
(* temperature is data.  Traces, peaks and shadow features are left out.   *)
(***************************************************************************)
EXTENDS Integers, FiniteSetsExt

CONSTANTS Samples,         \* the snapshots that can arrive, without their time
          Times,           \* the readings of the clock
          Steps,           \* how far the clock moves between two snapshots
          TelemetryGap,    \* the longest silence that is not a gap: 45 s
          WarnWindow,      \* how far back a warning counts: 180 s
          RingSpacing,     \* least distance of two ring entries: 5 s
          Postrun,         \* observation after the burner went off: 300 s
          IncidentWindow,  \* quiet time that separates incidents: 600 s
          DurationCap,     \* longest episode: 7200 s
          MaxIncidents,    \* bound on the incident counter, for TLC
          FaultCodes,      \* FAULTS
          NoFault,         \* any other service code, or an unknown one
          None

Tri == {"on", "off", "unknown"}

Snapshot == [gas: Tri, relay: Tri, code: FaultCodes \cup {NoFault},
             bad: BOOLEAN, intervention: BOOLEAN, warn: BOOLEAN]

Kind == {"request_start", "internal_restart", "unattributed",
         "unknown_request_history"}

Reason == {"restart_gap", "next_burner_start", "postrun_window",
           "duration_cap", "stop"}

\* What the documentation excludes from the scored episodes.
Defect == {"unseen_start", "no_request", "unseen_request", "blurred_request",
           "bad_data", "intervention", "standing_fault", "silent_end"}

Fact == Defect \cup {"fired_before"}

\* The part of a snapshot that is kept until the next one arrives.
Reading == [t: Times, gas: Tri, relay: Tri, code: FaultCodes \cup {NoFault}]

Episode == [start: Times, incomplete: BOOLEAN, kind: Kind, observed: BOOLEAN,
            warnings: SUBSET Times, fault_at: Times \cup {None},
            incident: 1..MaxIncidents \cup {None},
            lead: 1..WarnWindow \cup {None}, bad: BOOLEAN,
            intervention: BOOLEAN, gas_off_at: Times \cup {None}]

Result == [reason: Reason, kind: Kind, lead: 1..WarnWindow \cup {None},
           outcome: {"fault", "observed_no_fault",
                     "censored_fault", "censored"}]

Opening == [incident: 1..MaxIncidents, t: Times,
            lead: 1..WarnWindow \cup {None}]

ASSUME ObserverAssumption ==
    /\ Samples \subseteq Snapshot
    /\ Times \subseteq Int
    /\ Steps \subseteq Int \ {0}
    /\ {TelemetryGap, WarnWindow, RingSpacing, Postrun, IncidentWindow,
        DurationCap, MaxIncidents} \subseteq Nat \ {0}
    /\ NoFault \notin FaultCodes
    /\ None \notin Int \cup Reading \cup Episode \cup Result \cup Opening

VARIABLES
    previous,  \* the last snapshot fed, or None
    request,   \* request_known, request_burns > 0 and request_started_at
    ring,      \* the recent snapshots, the part a new episode looks at
    active,    \* the episode in progress, or None
    incidents, \* incident_sequence and last_fault_at
    finished,  \* the episode the last call finished, or None
    opened,    \* the incident_open event of the last call, or None
    (***********************************************************************)
    (* What really happened, recorded from the snapshots alone.            *)
    (***********************************************************************)
    demand,    \* what the readings say of the present heat request
    fired,     \* the burner already started in this request
    shown,     \* when warnings showed: in this request, in this episode,
               \* and in any since the last restart or clock jump
    seen,      \* facts about the episode in progress
    closed,    \* facts about the episode the last call finished
    lastOpen   \* the latest incident_open event without its lead, or None

vars == <<previous, request, ring, active, incidents, finished, opened,
          demand, fired, shown, seen, closed, lastOpen>>

-----------------------------------------------------------------------------
(***************************************************************************)
(* Reading a snapshot.  A clock that runs backwards makes the observer     *)
(* forget everything that came before: Last and Standing are previous and  *)
(* active after that check, a missing snapshot being one that knows        *)
(* nothing.                                                                *)
(***************************************************************************)
Rewound(t) == IF previous = None THEN FALSE ELSE t < previous.t

Last(t) == IF previous = None \/ Rewound(t)
           THEN [t |-> t, gas |-> "none", relay |-> "none", code |-> NoFault]
           ELSE previous

Standing(t) == IF Rewound(t) THEN None ELSE active

\* An idle boiler is sampled more slowly, so silence counts only under way.
Silence(t) ==
    /\ t - Last(t).t > TelemetryGap
    /\ "on" \in {Last(t).gas, Last(t).relay} \/ active # None

Quality(s, t) ==
    s.bad \/ "unknown" \in {s.gas, s.relay} \/ Rewound(t) \/ Silence(t)

Fault(s) == s.code \in FaultCodes

Warning(s, t) ==
    /\ s.warn
    /\ ~Fault(s)
    /\ ~Quality(s, t)
    /\ ~s.intervention
    /\ "on" \in {s.relay, s.gas}

NewCode(s, t) == Fault(s) /\ Last(t).code # s.code

NewBurn(s, t) == s.gas = "on" /\ Last(t).gas # "on"

-----------------------------------------------------------------------------
(***************************************************************************)
(* The heat request: when it began and whether it has burned.              *)
(***************************************************************************)
Unasked == [known |-> FALSE, burned |-> FALSE, since |-> None]

\* Mistake: a new request keeps the burns of the one before it.
RequestNotReset(s, t) ==
    IF \/ s.relay = "off"
       \/ s.relay = "on" /\ Last(t).relay = "off"
    THEN [known |-> TRUE,
          burned |-> ~Rewound(t) /\ request.burned,
          since |-> IF s.relay = "on" THEN t ELSE None]
    ELSE IF Rewound(t) THEN Unasked ELSE request

Request(s, t) ==
    IF \/ s.relay = "off"
       \/ s.relay = "on" /\ Last(t).relay = "off"
    THEN [known |-> TRUE, burned |-> FALSE,
          since |-> IF s.relay = "on" THEN t ELSE None]
    ELSE IF Rewound(t) THEN Unasked ELSE request

RingBefore(t) == IF Rewound(t) THEN {} ELSE ring

\* Entries older than WarnWindow are never read again and are dropped.
RingAfter(s, t) ==
    {r \in RingBefore(t) \cup
           (IF \A r \in RingBefore(t) : t - r.t >= RingSpacing
            THEN {[t |-> t, warned |-> Warning(s, t)]} ELSE {}) :
        t - r.t <= WarnWindow}

\* Mistake: the warnings of an earlier request count as prelude.
PreludeUncut(s, t) ==
    {r.t : r \in {e \in RingBefore(t) :
                     e.warned /\ t - WarnWindow <= e.t /\ e.t < t}}

\* Warnings shown between the request and the burner start.
Prelude(s, t) ==
    {r.t : r \in {e \in RingBefore(t) :
        /\ e.warned
        /\ t - WarnWindow <= e.t /\ e.t < t
        /\ Request(s, t).since # None => Request(s, t).since <= e.t}}

-----------------------------------------------------------------------------
(***************************************************************************)
(* One episode.                                                            *)
(***************************************************************************)
StartKind(s, t) ==
    IF s.relay # "on" THEN "unattributed"
    ELSE IF Request(s, t).burned THEN "internal_restart"
    ELSE IF Request(s, t).known THEN "request_start"
    ELSE "unknown_request_history"

Start(s, t, incomplete) ==
    [start |-> t, incomplete |-> incomplete, kind |-> StartKind(s, t),
     observed |-> s.relay = "on", warnings |-> {}, fault_at |-> None,
     incident |-> None, lead |-> None, bad |-> Quality(s, t),
     intervention |-> s.intervention, gas_off_at |-> None]

\* Mistake: any distance separates incidents.
NewIncidentAlways(t) == incidents.at = None \/ t # incidents.at

NewIncident(t) == incidents.at = None \/ t - incidents.at > IncidentWindow

IncidentsAfter(s, t) ==
    IF NewCode(s, t)
    THEN [sequence |-> incidents.sequence + (IF NewIncident(t) THEN 1 ELSE 0),
          at |-> t]
    ELSE incidents

\* Mistake: a warning counts however old it is.
LeadUnbounded(times, t) ==
    LET recent == {x \in times : x < t}
    IN  IF recent = {} THEN None ELSE t - Min(recent)

Lead(times, t) ==
    LET recent == {x \in times : t - WarnWindow <= x /\ x < t}
    IN  IF recent = {} THEN None ELSE t - Min(recent)

\* Up to the first fault the episode collects what could disqualify it.
MergeContext(e, s, t) ==
    IF e.fault_at # None THEN e
    ELSE [e EXCEPT !.bad = @ \/ Quality(s, t),
                   !.intervention = @ \/ s.intervention]

MergeBurner(e, s, t) ==
    IF s.gas = "off" /\ Last(t).gas = "on"
    THEN [e EXCEPT !.gas_off_at = t] ELSE e

MergeWarnings(e, s, t) ==
    IF Fault(s) \/ e.fault_at # None THEN e
    ELSE [e EXCEPT !.warnings =
            {x \in @ \cup (IF Warning(s, t) THEN {t} ELSE {}) :
                x >= t - WarnWindow}]

MergeFault(e, s, t) ==
    IF ~NewCode(s, t) \/ e.fault_at # None THEN e
    ELSE [e EXCEPT !.fault_at = t,
                   !.incident = IncidentsAfter(s, t).sequence,
                   !.lead = Lead(e.warnings, t)]

Merge(e, s, t) ==
    MergeFault(MergeWarnings(MergeBurner(MergeContext(e, s, t), s, t), s, t),
               s, t)

\* Mistake: an episode cut at two hours is scored like a complete one.
CapIsComplete(reason) == reason \in {"restart_gap", "stop"}

CutShort(reason) == reason \in {"restart_gap", "duration_cap", "stop"}

Eligible(e, reason) ==
    ~(e.incomplete \/ ~e.observed \/ e.bad \/ e.intervention
      \/ CutShort(reason))

Finish(e, reason) ==
    [reason |-> reason, kind |-> e.kind, lead |-> e.lead,
     outcome |-> IF Eligible(e, reason)
                 THEN IF e.fault_at # None THEN "fault"
                                           ELSE "observed_no_fault"
                 ELSE IF e.fault_at # None THEN "censored_fault"
                                           ELSE "censored"]

PostrunOver(e, s, t) ==
    s.gas = "off" /\ e.gas_off_at # None /\ t - e.gas_off_at >= Postrun

-----------------------------------------------------------------------------
(***************************************************************************)
(* The episodes as an outside reader of the snapshots sees them.  The heat *)
(* request is off, or on since a reading that saw it begin, or it began    *)
(* between unknown readings, or it was not watched from the start.         *)
(***************************************************************************)
Demand(s, t) ==
    LET d == IF Rewound(t) THEN "unwatched" ELSE demand
    IN  CASE s.relay = "off" -> "off"
          [] s.relay = "on" -> IF d = "off" THEN "watched" ELSE d
          [] OTHER -> IF d = "off" THEN "blurred" ELSE d

FactsAtStart(s, t) == {d \in Fact :
    \/ d = "fired_before" /\ s.relay = "on" /\ fired
    \/ d = "unseen_start"
         /\ (Last(t).gas # "off" \/ s.gas # "on")
    \/ d = "no_request" /\ s.relay # "on"
    \/ d = "unseen_request" /\ s.relay = "on" /\ Demand(s, t) = "unwatched"
    \/ d = "blurred_request" /\ s.relay = "on" /\ Demand(s, t) = "blurred"}

\* What a fault that is already there cannot undo is not looked at after it.
FactsUnderWay(e, s, t) ==
    IF e.fault_at # None THEN {}
    ELSE {d \in Defect :
            \/ d = "bad_data" /\ Quality(s, t)
            \/ d = "intervention" /\ s.intervention
            \/ d = "standing_fault" /\ Fault(s) /\ ~NewCode(s, t)}

\* A silence that only the next burner start ends.
FactsAtEnd(t) == {d \in Defect :
    d = "silent_end" /\ Silence(t) /\ active # None /\ active.fault_at = None}

NothingShown == [request |-> {}, episode |-> {}, recent |-> {}]

Watch(s, t) ==
    /\ demand' = Demand(s, t)
    /\ fired' = (/\ s.relay # "off"
                 /\ fired \/ (NewBurn(s, t) /\ s.relay = "on"))
    /\ shown' = LET now == IF Warning(s, t) THEN {t} ELSE {}
                    kept == IF Rewound(t) THEN NothingShown ELSE shown
                    asked == IF s.relay = "off" THEN {} ELSE kept.request
                    had == IF NewBurn(s, t) THEN asked ELSE kept.episode
                IN  [request |-> {x \in asked \cup now : t - x <= WarnWindow},
                     episode |-> {x \in had \cup now : t - x <= WarnWindow},
                     recent |->
                        {x \in kept.recent \cup now : t - x <= WarnWindow}]
    /\ lastOpen' = IF opened' # None
                   THEN [opened' EXCEPT !.lead = None]
                   ELSE IF lastOpen = None THEN None
                   ELSE IF t - lastOpen.t > IncidentWindow THEN None
                   ELSE lastOpen

-----------------------------------------------------------------------------
(***************************************************************************)
(* feed, by what it does to the episode in progress.                       *)
(***************************************************************************)
\* The incident_open event of the merged episode, if this call opened it.
OpenEvent(e, s, t) ==
    IF NewCode(s, t) /\ e.fault_at = None
    THEN [incident |-> IncidentsAfter(s, t).sequence, t |-> t,
          lead |-> Merge(e, s, t).lead]
    ELSE None

\* The burner starts: whatever was in progress ends here.
BurnerStart(s, t) ==
    LET e == [Start(s, t, \/ Last(t).gas \in {"none", "unknown"}
                          \/ s.relay = "on" /\ ~Request(s, t).known)
              EXCEPT !.warnings = Prelude(s, t)]
    IN  /\ NewBurn(s, t)
        /\ active' = Merge(e, s, t)
        /\ opened' = OpenEvent(e, s, t)
        /\ request' = [Request(s, t) EXCEPT !.burned = @ \/ s.relay = "on"]
        /\ finished' = IF active = None THEN None
                       ELSE Finish(active, IF Rewound(t) THEN "restart_gap"
                                           ELSE "next_burner_start")
        /\ seen' = FactsAtStart(s, t) \cup FactsUnderWay(e, s, t)
        /\ closed' = seen \cup FactsAtEnd(t)

\* Mistake: a fault outside any episode is left to the next burner start.
NoFaultAlone(s, t) == FALSE

FaultAlone(s, t) == ~NewBurn(s, t) /\ Standing(t) = None /\ NewCode(s, t)

\* A fault arrives while no episode is in progress.
FaultOutsideEpisode(s, t) ==
    LET e == Start(s, t, TRUE)
    IN  /\ FaultAlone(s, t)
        /\ active' = Merge(e, s, t)
        /\ opened' = OpenEvent(e, s, t)
        /\ request' = Request(s, t)
        /\ finished' = IF active = None THEN None
                       ELSE Finish(active, "restart_gap")
        /\ seen' = FactsAtStart(s, t) \cup FactsUnderWay(e, s, t)
        /\ closed' = seen

\* The episode in progress takes the snapshot in and may end with it.
EpisodeContinues(s, t) ==
    LET e == Merge(active, s, t)
        now == seen \cup FactsUnderWay(active, s, t)
    IN  /\ ~NewBurn(s, t)
        /\ Standing(t) # None
        /\ opened' = OpenEvent(active, s, t)
        /\ request' = Request(s, t)
        /\ IF PostrunOver(e, s, t) \/ t - e.start > DurationCap
           THEN /\ active' = None
                /\ finished' = Finish(e, IF PostrunOver(e, s, t)
                                         THEN "postrun_window"
                                         ELSE "duration_cap")
                /\ seen' = {}
                /\ closed' = now
           ELSE /\ active' = e
                /\ finished' = None
                /\ seen' = now
                /\ closed' = {}

\* Nothing in progress and nothing begins; a rewound clock may end one.
NothingHappens(s, t) ==
    /\ ~NewBurn(s, t)
    /\ Standing(t) = None
    /\ ~FaultAlone(s, t)
    /\ active' = None
    /\ opened' = None
    /\ request' = Request(s, t)
    /\ finished' = IF active = None THEN None
                   ELSE Finish(active, "restart_gap")
    /\ seen' = {}
    /\ closed' = seen

\* Snapshots are told apart by their time, which has microseconds.
Feed(s, t) ==
    /\ IF previous = None THEN TRUE ELSE t - previous.t \in Steps
    /\ IncidentsAfter(s, t).sequence <= MaxIncidents
    /\ \/ BurnerStart(s, t)
       \/ FaultOutsideEpisode(s, t)
       \/ EpisodeContinues(s, t)
       \/ NothingHappens(s, t)
    /\ incidents' = IncidentsAfter(s, t)
    /\ ring' = RingAfter(s, t)
    /\ previous' = [t |-> t, gas |-> s.gas, relay |-> s.relay, code |-> s.code]
    /\ Watch(s, t)

\* A new observer is built from the saved data; what it saved as active is
\* finished, by stop() when the shutdown was orderly.
Rebuilt(reason) ==
    /\ previous' = None
    /\ request' = Unasked
    /\ ring' = {}
    /\ active' = None
    /\ finished' = IF active = None THEN None ELSE Finish(active, reason)
    /\ opened' = None
    /\ demand' = "unwatched"
    /\ shown' = NothingShown
    /\ seen' = {}
    /\ closed' = seen
    /\ UNCHANGED <<incidents, fired, lastOpen>>

Stop == Rebuilt("stop")

Restart == Rebuilt("restart_gap")

Init ==
    /\ previous = None
    /\ request = Unasked
    /\ ring = {}
    /\ active = None
    /\ incidents = [sequence |-> 0, at |-> None]
    /\ finished = None
    /\ opened = None
    /\ demand = "unwatched"
    /\ fired = FALSE
    /\ shown = NothingShown
    /\ seen = {}
    /\ closed = {}
    /\ lastOpen = None

Next ==
    \/ \E s \in Samples, t \in Times : Feed(s, t)
    \/ Stop
    \/ Restart

Spec == Init /\ [][Next]_vars

-----------------------------------------------------------------------------
(* Every variable keeps its shape; a lead is at least one tick and never   *)
(* reaches back further than the warning window.                           *)
TypeOK ==
    /\ previous = None \/ previous \in Reading
    /\ request \in [known: BOOLEAN, burned: BOOLEAN, since: Times \cup {None}]
    /\ ring \subseteq [t: Times, warned: BOOLEAN]
    /\ active = None \/ active \in Episode
    /\ incidents \in [sequence: 0..MaxIncidents, at: Times \cup {None}]
    /\ finished = None \/ finished \in Result

Scored(f) == f # None /\ f.outcome \in {"fault", "observed_no_fault"}

(* An episode is scored exactly when it was watched from the burner start  *)
(* of a known request to its natural end, with good data and no            *)
(* intervention before a fault, whatever gaps, clock jumps and restarts    *)
(* lay between.  Three defects get past the observer and are excepted: a   *)
(* request that began between unknown readings, a fault code that was      *)
(* standing before the burner started (NoFaultMeansNoFault), and a silence *)
(* that lasts until the next burner start: engine.py:298 finishes the      *)
(* episode before the gap is merged into it.                               *)
ScoredIsClean ==
    finished # None =>
        (Scored(finished) <=>
            /\ closed \cap Defect \subseteq
                 {"blurred_request", "standing_fault", "silent_end"}
            /\ finished.reason \in {"next_burner_start", "postrun_window"})

(* A scored episode is called an internal restart exactly when the burner  *)
(* had already run for the same heat request; restarts of the observer and *)
(* jumps of the clock never turn one kind into the other.                  *)
KindIsHonest ==
    Scored(finished) =>
        finished.kind = IF "fired_before" \in closed THEN "internal_restart"
                                                     ELSE "request_start"

(* The opening credits a lead no longer than the age of a warning shown.   *)
CreditedFrom(times) == \E x \in times : opened.lead <= opened.t - x

(* A hypothesis is credited only with the age of a warning that it really  *)
(* showed, inside the window, since the last restart or clock jump, and    *)
(* not in the fault itself; and of a warning of this request or this       *)
(* episode, except in the two cases where the observer does not know when  *)
(* the request began: the burner started without one (such an episode is   *)
(* never scored) or the request began between unknown readings, when       *)
(* engine.py:307 takes over every warning there is.                        *)
LeadIsHonest ==
    opened # None /\ opened.lead # None =>
        \/ CreditedFrom(shown.episode)
        \/ /\ (seen \cup closed) \cap {"no_request", "blurred_request"} # {}
           /\ CreditedFrom(shown.recent)

(* A fault that shows up is attributed: the episode in progress, or the    *)
(* one this very call finished, carries it, with an incident.              *)
FaultIsAttributed ==
    [][previous' # None /\ NewCode(previous', previous'.t) =>
          IF active' # None
          THEN active'.fault_at # None /\ active'.incident # None
          ELSE /\ finished' # None
               /\ finished'.outcome \in {"fault", "censored_fault"}]_vars

(* Openings that are no further apart than the incident window carry the   *)
(* same incident number, also when episodes and restarts lie between them, *)
(* so that retries of one fault weigh as one incident.                     *)
ClusterIsOneIncident ==
    [][opened' # None /\ lastOpen # None
         /\ opened'.t - lastOpen.t <= IncidentWindow
       => opened'.incident = lastOpen.incident]_vars

(* "observed_no_fault: complete windows without a recorded fault",         *)
(* docs/heating-observer.md:141.                                           *)
NoFaultMeansNoFault ==
    finished # None /\ finished.outcome = "observed_no_fault" =>
        "standing_fault" \notin closed
=============================================================================
