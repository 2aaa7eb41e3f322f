------------------------ MODULE ObserverEngineProofs ------------------------
(***************************************************************************)
(* What the observer decides, for every set of snapshots, every clock and  *)
(* every limit.  The observer's fields are tied to what the snapshots      *)
(* really said: what it knows of the heat request (Asked), what it holds   *)
(* against the episode in progress (Known), which warnings it still counts *)
(* (Counted, Kept) and where its latest incident lies (Clustered).         *)
(***************************************************************************)
EXTENDS ObserverEngine, WellFoundedInduction, TLAPS

Shown == [request: SUBSET Times, episode: SUBSET Times, recent: SUBSET Times]

Types ==
    /\ TypeOK
    /\ opened = None \/ opened \in Opening
    /\ demand \in {"off", "watched", "blurred", "unwatched"}
    /\ fired \in BOOLEAN
    /\ shown \in Shown
    /\ seen \subseteq Fact
    /\ closed \subseteq Fact
    /\ lastOpen = None \/ lastOpen \in Opening

\* The observer knows of a request what an outside reader of it knows.
Asked ==
    /\ request.known <=> demand # "unwatched"
    /\ demand = "off" <=> IF previous = None THEN FALSE
                                             ELSE previous.relay = "off"
    /\ demand = "off" => ~fired
    /\ request.known => (request.burned <=> fired)
    /\ demand = "watched" => request.since # None

\* Episode e is held against exactly the facts of F.
Judges(e, F) ==
    /\ e.incomplete <=> "unseen_start" \in F \/ "unseen_request" \in F
    /\ e.observed <=> "no_request" \notin F
    /\ e.bad <=> "bad_data" \in F
    /\ e.intervention <=> "intervention" \in F
    /\ e.observed /\ ~e.incomplete =>
         e.kind = IF "fired_before" \in F THEN "internal_restart"
                                          ELSE "request_start"

Known ==
    active # None =>
        /\ previous # None
        /\ Judges(active, seen)
        /\ active.fault_at # None =>
             active.incident # None /\ active.fault_at <= previous.t

\* The warnings of an episode really showed, and in it or in its request
\* where the observer knows when that began.
Counted ==
    active # None =>
        \A x \in active.warnings :
            previous.t - x <= WarnWindow =>
                /\ x \in shown.recent
                /\ seen \cap {"no_request", "blurred_request"} = {} =>
                     x \in shown.episode

\* The warnings of the ring really showed, and those that a burner start
\* would count showed in the request.
Kept ==
    \A r \in ring :
        /\ previous # None /\ r.t <= previous.t
        /\ r.warned /\ previous.t - r.t <= WarnWindow =>
             /\ r.t \in shown.recent
             /\ \/ demand = "unwatched"
                \/ demand = "watched" /\ request.since <= r.t
                => r.t \in shown.request

\* The latest opening belongs to the latest incident.
Clustered ==
    /\ incidents.at # None => incidents.sequence >= 1
    /\ lastOpen # None =>
         /\ incidents.at # None
         /\ lastOpen.t <= incidents.at
         /\ lastOpen.incident = incidents.sequence
         /\ active # None =>
              (active.fault_at # None => lastOpen.t = active.fault_at)

IInv == Types /\ Asked /\ Known /\ Counted /\ Kept /\ Clustered

-----------------------------------------------------------------------------
(***************************************************************************)
(* The operators of one episode.                                           *)
(***************************************************************************)
LEMMA LeastNumber ==
    ASSUME NEW S \in SUBSET Nat, S # {}
    PROVE  \E m \in S : \A n \in S : m <= n
<1> DEFINE R == OpToRel(<, Nat)
<1>1. IsWellFoundedOn(R, Nat)
  BY NatLessThanWellFounded
<1>2. \A x, y \in Nat : <<x, y>> \notin R => y <= x
  BY DEF OpToRel
<1> HIDE DEF R
<1>3. PICK m \in S : \A n \in S : <<n, m>> \notin R
  BY <1>1, WFMin
<1> QED
  BY <1>2, <1>3

\* A lead is the age of one of the warnings, within the window.
LEMMA LeadAs ==
    ASSUME NEW S \in SUBSET Times, NEW t \in Times
    PROVE  \/ Lead(S, t) = None
           \/ \E x \in S : /\ t - WarnWindow <= x /\ x < t
                           /\ Lead(S, t) = t - x
                           /\ Lead(S, t) \in 1..WarnWindow
<1> DEFINE recent == {x \in S : t - WarnWindow <= x /\ x < t}
           ages == {x - (t - WarnWindow) : x \in recent}
<1>1. WarnWindow \in Nat /\ Times \subseteq Int
  BY ObserverAssumption
<1>2. CASE recent = {}
  BY <1>2 DEF Lead
<1>3. CASE recent # {}
  <2>1. ages \in SUBSET Nat /\ ages # {}
    <3>1. \A x \in recent : x \in Int /\ t \in Int
                            /\ x - (t - WarnWindow) \in Nat
      BY <1>1
    <3> HIDE DEF recent
    <3> QED
      BY <1>3, <3>1
  <2>2. PICK m \in ages : \A n \in ages : m <= n
    BY <2>1, LeastNumber
  <2>3. PICK x \in recent : m = x - (t - WarnWindow)
    BY <2>2
  <2>4. \A y \in recent : x <= y
    BY <1>1, <2>2, <2>3
  <2>5. /\ Min(recent) \in recent
        /\ \A y \in recent : Min(recent) <= y
    BY <2>4 DEF Min
  <2>6. Lead(S, t) = t - Min(recent)
    BY <1>3 DEF Lead
  <2>7. \A y \in recent : /\ y \in S /\ t - WarnWindow <= y /\ y < t
                          /\ t - y \in 1..WarnWindow
    BY <1>1
  <2> HIDE DEF recent
  <2> QED
    BY <2>5, <2>6, <2>7
<1> QED
  BY <1>2, <1>3

LEMMA NoLead ==
    ASSUME NEW t
    PROVE  Lead({}, t) = None
BY DEF Lead

LEMMA SampleAs ==
    ASSUME NEW s \in Samples
    PROVE  /\ s.gas \in Tri /\ s.relay \in Tri
           /\ s.code \in FaultCodes \cup {NoFault}
           /\ s.bad \in BOOLEAN /\ s.intervention \in BOOLEAN
           /\ s.warn \in BOOLEAN
<1>1. s \in Snapshot
  BY ObserverAssumption
<1> QED
  BY <1>1 DEF Snapshot

\* What feeding an episode does to each of its fields.
LEMMA MergeAs ==
    ASSUME NEW e \in Episode, NEW s \in Samples, NEW t \in Times,
           NewCode(s, t) => IncidentsAfter(s, t).sequence \in 1..MaxIncidents
    PROVE  LET m == Merge(e, s, t)
               hit == NewCode(s, t) /\ e.fault_at = None
           IN  /\ m \in Episode
               /\ m.start = e.start
               /\ m.incomplete <=> e.incomplete
               /\ m.kind = e.kind
               /\ m.observed <=> e.observed
               /\ m.fault_at = IF hit THEN t ELSE e.fault_at
               /\ m.incident = IF hit THEN IncidentsAfter(s, t).sequence
                                      ELSE e.incident
               /\ m.lead = IF hit THEN Lead(e.warnings, t) ELSE e.lead
               /\ m.bad <=> e.bad \/ (e.fault_at = None /\ Quality(s, t))
               /\ m.intervention <=>
                    e.intervention \/ (e.fault_at = None /\ s.intervention)
               /\ Fault(s) => m.warnings = e.warnings
               /\ \A x \in m.warnings :
                     x \in e.warnings \/ (x = t /\ Warning(s, t))
<1> DEFINE a == MergeContext(e, s, t)
           b == MergeBurner(a, s, t)
           c == MergeWarnings(b, s, t)
           m == MergeFault(c, s, t)
           hit == NewCode(s, t) /\ e.fault_at = None
<1>1. /\ a \in Episode
      /\ a.start = e.start /\ a.kind = e.kind /\ a.fault_at = e.fault_at
      /\ a.incident = e.incident /\ a.lead = e.lead
      /\ a.warnings = e.warnings
      /\ a.incomplete = e.incomplete /\ a.observed = e.observed
      /\ a.bad = (e.bad \/ (e.fault_at = None /\ Quality(s, t)))
      /\ a.intervention =
           (e.intervention \/ (e.fault_at = None /\ s.intervention))
  <2>1. CASE e.fault_at # None
    BY <2>1 DEF MergeContext, Episode
  <2>2. CASE e.fault_at = None
    <3>1. a = [e EXCEPT !.bad = @ \/ Quality(s, t),
                        !.intervention = @ \/ s.intervention]
      BY <2>2 DEF MergeContext
    <3>2. (e.bad \/ Quality(s, t)) \in BOOLEAN
          /\ (e.intervention \/ s.intervention) \in BOOLEAN
      OBVIOUS
    <3> QED
      BY <2>2, <3>1, <3>2 DEF Episode
  <2> QED
    BY <2>1, <2>2
<1> HIDE DEF a
<1>2. /\ b \in Episode
      /\ b.start = a.start /\ b.kind = a.kind /\ b.fault_at = a.fault_at
      /\ b.incident = a.incident /\ b.lead = a.lead
      /\ b.warnings = a.warnings
      /\ b.incomplete = a.incomplete /\ b.observed = a.observed
      /\ b.bad = a.bad /\ b.intervention = a.intervention
  BY <1>1 DEF MergeBurner, Episode
<1> HIDE DEF b
<1>3. /\ c \in Episode
      /\ c.start = b.start /\ c.kind = b.kind /\ c.fault_at = b.fault_at
      /\ c.incident = b.incident /\ c.lead = b.lead
      /\ Fault(s) => c.warnings = b.warnings
      /\ \A x \in c.warnings : x \in b.warnings \/ (x = t /\ Warning(s, t))
      /\ c.incomplete = b.incomplete /\ c.observed = b.observed
      /\ c.bad = b.bad /\ c.intervention = b.intervention
  <2>1. CASE Fault(s) \/ b.fault_at # None
    <3>1. c = b
      BY <2>1 DEF MergeWarnings
    <3> QED
      BY <1>2, <3>1
  <2>2. CASE ~(Fault(s) \/ b.fault_at # None)
    <3> DEFINE w == {x \in b.warnings \cup (IF Warning(s, t) THEN {t} ELSE {}) :
                        x >= t - WarnWindow}
    <3>1. c = [b EXCEPT !.warnings = w]
      BY <1>2, <2>2 DEF MergeWarnings, Episode
    <3>2. w \in SUBSET Times
      BY <1>2 DEF Episode
    <3>3. \A x \in w : x \in b.warnings \/ (x = t /\ Warning(s, t))
      OBVIOUS
    <3> HIDE DEF w
    <3>4. c \in Episode /\ c.warnings = w
      BY <1>2, <3>1, <3>2 DEF Episode
    <3> QED
      BY <1>2, <2>2, <3>1, <3>3, <3>4 DEF Episode
  <2> QED
    BY <2>1, <2>2
<1> HIDE DEF c
<1>4. Lead(c.warnings, t) \in 1..WarnWindow \cup {None}
  <2>1. c.warnings \in SUBSET Times
    BY <1>3 DEF Episode
  <2> QED
    BY <2>1, LeadAs
<1>5. /\ m \in Episode
      /\ m.start = c.start /\ m.kind = c.kind /\ m.warnings = c.warnings
      /\ m.fault_at = IF hit THEN t ELSE c.fault_at
      /\ m.incident = IF hit THEN IncidentsAfter(s, t).sequence
                             ELSE c.incident
      /\ m.lead = IF hit THEN Lead(c.warnings, t) ELSE c.lead
      /\ m.incomplete = c.incomplete /\ m.observed = c.observed
      /\ m.bad = c.bad /\ m.intervention = c.intervention
  <2>1. CASE ~hit
    <3>1. m = c
      BY <1>1, <1>2, <1>3, <2>1 DEF MergeFault
    <3> QED
      BY <1>3, <2>1, <3>1
  <2>2. CASE hit
    <3>1. m = [c EXCEPT !.fault_at = t,
                        !.incident = IncidentsAfter(s, t).sequence,
                        !.lead = Lead(c.warnings, t)]
      BY <1>1, <1>2, <1>3, <2>2 DEF MergeFault
    <3>2. IncidentsAfter(s, t).sequence \in 1..MaxIncidents
      BY <2>2
    <3> HIDE DEF m
    <3> QED
      BY <1>3, <1>4, <2>2, <3>1, <3>2 DEF Episode
  <2> QED
    BY <2>1, <2>2
<1> HIDE DEF m
<1>6. NewCode(s, t) => Fault(s)
  BY DEF NewCode
<1>7. Merge(e, s, t) = m
  BY DEF Merge, m, c, b, a
<1>8. hit => c.warnings = e.warnings
  BY <1>1, <1>2, <1>3, <1>6
<1>9. /\ m.incomplete = e.incomplete /\ m.observed = e.observed
      /\ m.bad = (e.bad \/ (e.fault_at = None /\ Quality(s, t)))
      /\ m.intervention =
           (e.intervention \/ (e.fault_at = None /\ s.intervention))
  BY <1>1, <1>2, <1>3, <1>5
<1>10. /\ m.fault_at = IF hit THEN t ELSE e.fault_at
       /\ m.incident = IF hit THEN IncidentsAfter(s, t).sequence
                              ELSE e.incident
       /\ m.lead = IF hit THEN Lead(e.warnings, t) ELSE e.lead
  BY <1>1, <1>2, <1>3, <1>5, <1>8
<1>11. /\ Fault(s) => m.warnings = e.warnings
       /\ \A x \in m.warnings : x \in e.warnings \/ (x = t /\ Warning(s, t))
  BY <1>1, <1>2, <1>3, <1>5
<1>12. m.start = e.start /\ m.kind = e.kind
  BY <1>1, <1>2, <1>3, <1>5
<1> HIDE DEF hit
<1>13. /\ m.incomplete <=> e.incomplete
       /\ m.observed <=> e.observed
       /\ m.bad <=> e.bad \/ (e.fault_at = None /\ Quality(s, t))
       /\ m.intervention <=>
            e.intervention \/ (e.fault_at = None /\ s.intervention)
  BY <1>9
<1> QED
  BY <1>5, <1>7, <1>10, <1>11, <1>12, <1>13, Zenon DEF hit

LEMMA UnderWay ==
    ASSUME NEW e, NEW s, NEW t
    PROVE  LET F == FactsUnderWay(e, s, t)
           IN  /\ F \subseteq {"bad_data", "intervention", "standing_fault"}
               /\ "bad_data" \in F <=> e.fault_at = None /\ Quality(s, t)
               /\ "intervention" \in F <=> e.fault_at = None /\ s.intervention
<1>1. CASE e.fault_at # None
  BY <1>1 DEF FactsUnderWay
<1>2. CASE e.fault_at = None
  <2> DEFINE F == {d \in Defect :
                     \/ d = "bad_data" /\ Quality(s, t)
                     \/ d = "intervention" /\ s.intervention
                     \/ d = "standing_fault" /\ Fault(s) /\ ~NewCode(s, t)}
  <2>1. FactsUnderWay(e, s, t) = F
    BY <1>2 DEF FactsUnderWay
  <2>2. /\ F \subseteq {"bad_data", "intervention", "standing_fault"}
        /\ "bad_data" \in F <=> Quality(s, t)
        /\ "intervention" \in F <=> s.intervention
    BY DEF Defect
  <2> HIDE DEF F
  <2> QED
    BY <1>2, <2>1, <2>2
<1> QED
  BY <1>1, <1>2

\* An episode that took in a snapshot is held against what the snapshot was.
LEMMA MergeJudged ==
    ASSUME NEW e \in Episode, NEW s \in Samples, NEW t \in Times, NEW F,
           NewCode(s, t) => IncidentsAfter(s, t).sequence \in 1..MaxIncidents,
           Judges(e, F)
    PROVE  Judges(Merge(e, s, t), F \cup FactsUnderWay(e, s, t))
<1> DEFINE m == Merge(e, s, t)
           G == FactsUnderWay(e, s, t)
<1>1. /\ m.incomplete <=> e.incomplete
      /\ m.kind = e.kind
      /\ m.observed <=> e.observed
      /\ m.bad <=> e.bad \/ (e.fault_at = None /\ Quality(s, t))
      /\ m.intervention <=>
           e.intervention \/ (e.fault_at = None /\ s.intervention)
  BY MergeAs
<1>2. /\ G \subseteq {"bad_data", "intervention", "standing_fault"}
      /\ "bad_data" \in G <=> e.fault_at = None /\ Quality(s, t)
      /\ "intervention" \in G <=> e.fault_at = None /\ s.intervention
  BY UnderWay
<1> HIDE DEF m, G
<1>3. Judges(m, F \cup G)
  BY <1>1, <1>2 DEF Judges
<1> QED
  BY <1>3 DEF m, G

\* What a finished episode is worth.  A silence at its end is not seen.
LEMMA FinishAs ==
    ASSUME NEW e \in Episode, NEW reason \in Reason,
           NEW F \in SUBSET Fact, NEW C \in SUBSET Fact,
           F \subseteq C, C \subseteq F \cup {"silent_end"},
           Judges(e, F)
    PROVE  LET f == Finish(e, reason)
           IN  /\ f \in Result
               /\ e.fault_at # None => f.outcome \in {"fault", "censored_fault"}
               /\ Scored(f) <=>
                    /\ C \cap Defect \subseteq
                         {"blurred_request", "standing_fault", "silent_end"}
                    /\ reason \in {"next_burner_start", "postrun_window"}
               /\ f.reason = reason
               /\ Scored(f) =>
                    f.kind = IF "fired_before" \in C THEN "internal_restart"
                                                     ELSE "request_start"
<1> DEFINE f == Finish(e, reason)
<1>1. /\ e.kind \in Kind
      /\ e.lead \in 1..WarnWindow \cup {None}
      /\ e.incomplete \in BOOLEAN /\ e.observed \in BOOLEAN
      /\ e.bad \in BOOLEAN /\ e.intervention \in BOOLEAN
  BY DEF Episode
<1>2. /\ f.reason = reason /\ f.kind = e.kind /\ f.lead = e.lead
      /\ f.outcome = IF Eligible(e, reason)
                     THEN IF e.fault_at # None THEN "fault"
                                               ELSE "observed_no_fault"
                     ELSE IF e.fault_at # None THEN "censored_fault"
                                               ELSE "censored"
      /\ f \in Result
  BY <1>1 DEF Finish, Result
<1>3. f # None
  BY <1>2, ObserverAssumption
<1> HIDE DEF f
<1>4. Scored(f) <=> Eligible(e, reason)
  BY <1>2, <1>3 DEF Scored
<1>5. Eligible(e, reason) <=>
        /\ ~e.incomplete /\ e.observed /\ ~e.bad /\ ~e.intervention
        /\ reason \in {"next_burner_start", "postrun_window"}
  BY DEF Eligible, CutShort, Reason
<1>6. ~e.incomplete /\ e.observed /\ ~e.bad /\ ~e.intervention <=>
        C \cap Defect \subseteq
            {"blurred_request", "standing_fault", "silent_end"}
  <2>1. ~e.incomplete /\ e.observed /\ ~e.bad /\ ~e.intervention <=>
          {"unseen_start", "unseen_request", "no_request", "bad_data",
           "intervention"} \cap F = {}
    BY DEF Judges
  <2>2. {"unseen_start", "unseen_request", "no_request", "bad_data",
         "intervention"} \cap F = {} <=>
          C \cap Defect \subseteq
              {"blurred_request", "standing_fault", "silent_end"}
    BY DEF Defect, Fact
  <2> QED
    BY <2>1, <2>2
<1>7. Eligible(e, reason) =>
        f.kind = IF "fired_before" \in C THEN "internal_restart"
                                         ELSE "request_start"
  BY <1>2, <1>5 DEF Judges
<1>8. e.fault_at # None => f.outcome \in {"fault", "censored_fault"}
  BY <1>2
<1>9. Scored(f) <=>
        /\ C \cap Defect \subseteq
             {"blurred_request", "standing_fault", "silent_end"}
        /\ reason \in {"next_burner_start", "postrun_window"}
  BY <1>4, <1>5, <1>6
<1> QED
  BY <1>2, <1>4, <1>7, <1>8, <1>9, Zenon DEF f

-----------------------------------------------------------------------------
(***************************************************************************)
(* What a snapshot says of the time before it.                             *)
(***************************************************************************)
LEMMA LastAs ==
    ASSUME Types, NEW t \in Times
    PROVE  /\ Rewound(t) => previous # None /\ t < previous.t
           /\ previous = None \/ Rewound(t) =>
                Last(t).gas = "none" /\ Last(t).relay = "none"
           /\ previous # None /\ ~Rewound(t) =>
                Last(t) = previous /\ previous.t <= t
           /\ Last(t).gas \in Tri \cup {"none"}
           /\ Last(t).relay \in Tri \cup {"none"}
<1>1. previous = None \/ previous \in Reading
  BY DEF Types, TypeOK
<1>2. Times \subseteq Int
  BY ObserverAssumption
<1>3. CASE previous = None
  BY <1>3 DEF Rewound, Last
<1>4. CASE previous # None
  <2>1. previous.t \in Int /\ t \in Int /\ previous.gas \in Tri
        /\ previous.relay \in Tri
    BY <1>1, <1>2, <1>4 DEF Reading
  <2>2. Rewound(t) <=> t < previous.t
    BY <1>4 DEF Rewound
  <2>3. CASE Rewound(t)
    BY <1>4, <2>2, <2>3 DEF Last
  <2>4. CASE ~Rewound(t)
    BY <1>4, <2>1, <2>2, <2>4 DEF Last
  <2> QED
    BY <2>3, <2>4
<1> QED
  BY <1>3, <1>4

\* The present heat request, as the observer and as a reader see it.
LEMMA RequestAs ==
    ASSUME Types, Asked, NEW s \in Samples, NEW t \in Times
    PROVE  LET r == Request(s, t)
               d == Demand(s, t)
           IN  /\ r \in [known: BOOLEAN, burned: BOOLEAN,
                         since: Times \cup {None}]
               /\ d \in {"off", "watched", "blurred", "unwatched"}
               /\ d = "off" <=> s.relay = "off"
               /\ r.known <=> d # "unwatched"
               /\ r.known => (r.burned <=> s.relay # "off" /\ fired)
               /\ d = "unwatched" => Rewound(t) \/ demand = "unwatched"
               /\ d = "watched" =>
                    \/ r.since = t
                    \/ /\ ~Rewound(t) /\ demand = "watched"
                       /\ r.since = request.since /\ r.since # None
<1>1. /\ s.relay \in {"on", "off", "unknown"}
      /\ request \in [known: BOOLEAN, burned: BOOLEAN,
                      since: Times \cup {None}]
      /\ demand \in {"off", "watched", "blurred", "unwatched"}
      /\ fired \in BOOLEAN
  BY SampleAs DEF Types, TypeOK, Tri
<1>2. Last(t).relay = "off" <=> ~Rewound(t) /\ demand = "off"
  BY LastAs DEF Asked
<1>3. CASE s.relay = "off"
  <2>1. Request(s, t) = [known |-> TRUE, burned |-> FALSE, since |-> None]
    BY <1>3 DEF Request
  <2>2. Demand(s, t) = "off"
    BY <1>3 DEF Demand
  <2> QED
    BY <1>3, <2>1, <2>2
<1>4. CASE s.relay = "on" /\ Last(t).relay = "off"
  <2>1. Request(s, t) = [known |-> TRUE, burned |-> FALSE, since |-> t]
    BY <1>4 DEF Request
  <2>2. Demand(s, t) = "watched"
    BY <1>2, <1>4 DEF Demand
  <2>3. ~fired
    BY <1>2, <1>4 DEF Asked
  <2> QED
    BY <1>4, <2>1, <2>2, <2>3
<1>5. CASE s.relay # "off" /\ ~(s.relay = "on" /\ Last(t).relay = "off")
  <2>1. CASE Rewound(t)
    <3>1. Request(s, t) = [known |-> FALSE, burned |-> FALSE, since |-> None]
      BY <1>5, <2>1 DEF Request, Unasked
    <3>2. Demand(s, t) = "unwatched"
      BY <1>1, <1>5, <2>1 DEF Demand
    <3> QED
      BY <1>5, <2>1, <3>1, <3>2
  <2>2. CASE ~Rewound(t)
    <3>1. Request(s, t) = request
      BY <1>5, <2>2 DEF Request
    <3>2. Demand(s, t) = IF demand = "off" THEN "blurred" ELSE demand
      BY <1>1, <1>2, <1>5, <2>2 DEF Demand
    <3>3. request.known => (request.burned <=> fired)
      BY DEF Asked
    <3> QED
      BY <1>1, <1>5, <2>2, <3>1, <3>2, <3>3 DEF Asked
  <2> QED
    BY <2>1, <2>2
<1> QED
  BY <1>1, <1>3, <1>4, <1>5

LEMMA IncidentsAs ==
    ASSUME Types, Clustered, NEW s \in Samples, NEW t \in Times,
           IncidentsAfter(s, t).sequence <= MaxIncidents
    PROVE  LET i == IncidentsAfter(s, t)
           IN  /\ i \in [sequence: 0..MaxIncidents, at: Times \cup {None}]
               /\ NewCode(s, t) => i.sequence \in 1..MaxIncidents /\ i.at = t
               /\ ~NewCode(s, t) => i = incidents
               /\ NewCode(s, t) /\ ~NewIncident(t) =>
                    i.sequence = incidents.sequence
<1>1. /\ incidents \in [sequence: 0..MaxIncidents, at: Times \cup {None}]
      /\ incidents.sequence \in Nat /\ MaxIncidents \in Nat
  BY ObserverAssumption DEF Types, TypeOK
<1>2. CASE ~NewCode(s, t)
  BY <1>1, <1>2 DEF IncidentsAfter
<1>3. CASE NewCode(s, t)
  <2>1. IncidentsAfter(s, t) =
          [sequence |-> incidents.sequence
                          + (IF NewIncident(t) THEN 1 ELSE 0),
           at |-> t]
    BY <1>3 DEF IncidentsAfter
  <2>2. NewIncident(t) \/ incidents.sequence >= 1
    BY DEF NewIncident, Clustered
  <2>3. incidents.sequence + (IF NewIncident(t) THEN 1 ELSE 0)
          \in 1..MaxIncidents
    BY <1>1, <2>1, <2>2
  <2> QED
    BY <1>1, <1>3, <2>1, <2>3
<1> QED
  BY <1>2, <1>3

\* Which warnings a reader counts after a snapshot.
LEMMA ShownAs ==
    ASSUME NEW s, NEW t, Watch(s, t), NEW x
    PROVE  /\ x \in shown'.request <=>
                /\ t - x <= WarnWindow
                /\ \/ Warning(s, t) /\ x = t
                   \/ s.relay # "off" /\ ~Rewound(t) /\ x \in shown.request
           /\ x \in shown'.episode <=>
                /\ t - x <= WarnWindow
                /\ \/ Warning(s, t) /\ x = t
                   \/ /\ NewBurn(s, t) /\ s.relay # "off" /\ ~Rewound(t)
                      /\ x \in shown.request
                   \/ ~NewBurn(s, t) /\ ~Rewound(t) /\ x \in shown.episode
           /\ x \in shown'.recent <=>
                /\ t - x <= WarnWindow
                /\ \/ Warning(s, t) /\ x = t
                   \/ ~Rewound(t) /\ x \in shown.recent
<1> DEFINE now == IF Warning(s, t) THEN {t} ELSE {}
           kept == IF Rewound(t) THEN NothingShown ELSE shown
           asked == IF s.relay = "off" THEN {} ELSE kept.request
           had == IF NewBurn(s, t) THEN asked ELSE kept.episode
<1>1. shown' = [request |-> {y \in asked \cup now : t - y <= WarnWindow},
                episode |-> {y \in had \cup now : t - y <= WarnWindow},
                recent |->
                   {y \in kept.recent \cup now : t - y <= WarnWindow}]
  BY DEF Watch
<1>2. /\ x \in now <=> Warning(s, t) /\ x = t
      /\ x \in kept.request <=> ~Rewound(t) /\ x \in shown.request
      /\ x \in kept.episode <=> ~Rewound(t) /\ x \in shown.episode
      /\ x \in kept.recent <=> ~Rewound(t) /\ x \in shown.recent
  BY DEF NothingShown
<1> HIDE DEF now, kept
<1>3. /\ x \in asked <=> /\ s.relay # "off" /\ ~Rewound(t)
                         /\ x \in shown.request
      /\ x \in had <=> \/ /\ NewBurn(s, t) /\ s.relay # "off" /\ ~Rewound(t)
                          /\ x \in shown.request
                       \/ ~NewBurn(s, t) /\ ~Rewound(t) /\ x \in shown.episode
  BY <1>2
<1> HIDE DEF asked, had
<1> QED
  BY <1>1, <1>2, <1>3

LEMMA StartTyped ==
    ASSUME Types, NEW s \in Samples, NEW t \in Times, NEW inc \in BOOLEAN
    PROVE  LET e == Start(s, t, inc)
           IN  /\ e \in Episode
               /\ e.start = t /\ e.warnings = {} /\ e.kind = StartKind(s, t)
               /\ e.fault_at = None /\ e.incident = None /\ e.lead = None
               /\ e.gas_off_at = None
               /\ e.incomplete = inc /\ e.observed = (s.relay = "on")
               /\ e.bad = Quality(s, t) /\ e.intervention = s.intervention
<1>1. s.bad \in BOOLEAN /\ s.intervention \in BOOLEAN
  BY SampleAs
<1>2. Quality(s, t) \in BOOLEAN
  BY DEF Quality
<1>3. StartKind(s, t) \in Kind
  BY DEF StartKind, Kind
<1>4. (s.relay = "on") \in BOOLEAN
  OBVIOUS
<1> QED
  BY <1>1, <1>2, <1>3, <1>4 DEF Start, Episode

\* What makes a new episode incomplete from the start, and the new episode
\* with the warnings it begins with.
Doubt(s, t) ==
    NewBurn(s, t) => \/ Last(t).gas \in {"none", "unknown"}
                     \/ s.relay = "on" /\ ~Request(s, t).known

Begun(s, t, w) == [Start(s, t, Doubt(s, t)) EXCEPT !.warnings = w]

LEMMA BegunBare ==
    ASSUME Types, NEW s \in Samples, NEW t \in Times, ~NewBurn(s, t)
    PROVE  Begun(s, t, {}) = Start(s, t, TRUE)
<1> DEFINE e == Start(s, t, TRUE)
<1>1. e \in Episode /\ e.warnings = {}
  BY StartTyped
<1>2. Doubt(s, t) = TRUE
  BY DEF Doubt
<1>3. Begun(s, t, {}) = [e EXCEPT !.warnings = {}]
  BY <1>2 DEF Begun
<1> HIDE DEF e
<1>4. [e EXCEPT !.warnings = {}] = e
  BY <1>1 DEF Episode
<1> QED
  BY <1>3, <1>4 DEF e

\* A new episode, before it takes in the snapshot that began it, is already
\* held against that snapshot.
\* Episode e begins with the warnings w, held against the facts of F.
Begins(e, w, F, s, t) ==
    /\ e \in Episode
    /\ e.start = t /\ e.warnings = w /\ e.fault_at = None
    /\ Judges(e, F)
    /\ F \subseteq Fact
    /\ "no_request" \notin F => s.relay = "on"
    /\ "no_request" \notin F /\ "blurred_request" \notin F =>
         Demand(s, t) # "blurred"

LEMMA BegunAs ==
    ASSUME Types, Asked, NEW s \in Samples, NEW t \in Times,
           NEW w \in SUBSET Times
    PROVE  Begins(Begun(s, t, w), w,
                  FactsAtStart(s, t) \cup FactsUnderWay(Begun(s, t, w), s, t),
                  s, t)
<1> DEFINE inc == Doubt(s, t)
           e == Begun(s, t, w)
           A == FactsAtStart(s, t)
           U == FactsUnderWay(e, s, t)
<1>1. /\ s.gas \in {"on", "off", "unknown"}
      /\ s.relay \in {"on", "off", "unknown"}
      /\ fired \in BOOLEAN
      /\ Last(t).gas \in {"on", "off", "unknown", "none"}
  BY SampleAs, LastAs DEF Types, Tri
<1>6. /\ e \in Episode
      /\ e.start = t /\ e.warnings = w /\ e.kind = StartKind(s, t)
      /\ e.fault_at = None /\ e.incident = None /\ e.lead = None
      /\ e.gas_off_at = None
      /\ e.incomplete = inc /\ e.observed = (s.relay = "on")
      /\ e.bad = Quality(s, t) /\ e.intervention = s.intervention
  <2>1. inc \in BOOLEAN
    BY DEF Doubt
  <2>2. e = [Start(s, t, inc) EXCEPT !.warnings = w]
    BY DEF Begun
  <2> HIDE DEF inc, e
  <2> QED
    BY <2>1, <2>2, StartTyped DEF Episode
<1> HIDE DEF e
<1>7. /\ A \subseteq Fact
      /\ "bad_data" \notin A /\ "intervention" \notin A
      /\ "fired_before" \in A <=> s.relay = "on" /\ fired
      /\ "unseen_start" \in A <=> Last(t).gas # "off" \/ s.gas # "on"
      /\ "no_request" \in A <=> s.relay # "on"
      /\ "unseen_request" \in A <=>
           s.relay = "on" /\ Demand(s, t) = "unwatched"
      /\ "blurred_request" \in A <=>
           s.relay = "on" /\ Demand(s, t) = "blurred"
  BY DEF FactsAtStart, Fact, Defect
<1>8. /\ U \subseteq {"bad_data", "intervention", "standing_fault"}
      /\ "bad_data" \in U <=> Quality(s, t)
      /\ "intervention" \in U <=> s.intervention
  BY <1>6, UnderWay
<1> HIDE DEF A, U
<1>9. /\ Request(s, t).known <=> Demand(s, t) # "unwatched"
      /\ Request(s, t).known =>
           (Request(s, t).burned <=> s.relay # "off" /\ fired)
  BY RequestAs
<1>10. inc <=> "unseen_start" \in A \/ "unseen_request" \in A
  BY <1>1, <1>7, <1>9 DEF NewBurn, Doubt
<1> HIDE DEF inc
<1>11. s.relay = "on" /\ ~inc =>
         e.kind = IF "fired_before" \in A THEN "internal_restart"
                                          ELSE "request_start"
  <2>1. CASE s.relay = "on" /\ ~inc
    <3>1. Request(s, t).known
      BY <1>7, <1>9, <1>10, <2>1
    <3> QED
      BY <1>6, <1>7, <1>9, <2>1, <3>1 DEF StartKind
  <2> QED
    BY <2>1
<1>12. /\ e.incomplete <=> inc
       /\ e.observed <=> s.relay = "on"
       /\ e.bad <=> Quality(s, t)
       /\ e.intervention <=> s.intervention
  BY <1>6
<1>13. Judges(e, A \cup U)
  BY <1>7, <1>8, <1>10, <1>11, <1>12 DEF Judges
<1>14. A \cup U \subseteq Fact
  BY <1>7, <1>8 DEF Fact, Defect
<1>15. "no_request" \notin A \cup U => s.relay = "on"
  BY <1>7
<1>16. "no_request" \notin A \cup U /\ "blurred_request" \notin A \cup U =>
         Demand(s, t) # "blurred"
  BY <1>7
<1>17. Begins(e, w, A \cup U, s, t)
  BY <1>6, <1>13, <1>14, <1>15, <1>16 DEF Begins
<1> QED
  BY <1>17 DEF A, U, e

\* The prelude of a burner start really showed, and in the request that is
\* burning where the observer knows when that began.
LEMMA PreludeShown ==
    ASSUME Types, Asked, Kept, NEW s \in Samples, NEW t \in Times,
           Watch(s, t), NewBurn(s, t)
    PROVE  \A x \in Prelude(s, t) :
               /\ x \in shown'.recent
               /\ s.relay = "on" /\ Demand(s, t) # "blurred" =>
                    x \in shown'.episode
<1> SUFFICES ASSUME NEW r \in RingBefore(t),
                    r.warned, t - WarnWindow <= r.t, r.t < t,
                    Request(s, t).since # None => Request(s, t).since <= r.t
             PROVE  /\ r.t \in shown'.recent
                    /\ s.relay = "on" /\ Demand(s, t) # "blurred" =>
                         r.t \in shown'.episode
  BY DEF Prelude
<1>1. ~Rewound(t) /\ r \in ring
  BY DEF RingBefore
<1>2. previous # None /\ previous.t <= t /\ r.t <= previous.t
  BY <1>1, LastAs DEF Kept
<1>3. /\ r.t \in Int /\ t \in Int /\ previous.t \in Int /\ WarnWindow \in Int
      /\ None \notin Int
  <2>1. r \in [t: Times, warned: BOOLEAN] /\ previous \in Reading
    BY <1>1, <1>2 DEF Types, TypeOK
  <2>2. r.t \in Times /\ previous.t \in Times
    BY <2>1 DEF Reading
  <2>3. Times \subseteq Int /\ WarnWindow \in Int /\ None \notin Int
    BY ObserverAssumption
  <2> QED
    BY <2>2, <2>3
<1>4. previous.t - r.t <= WarnWindow /\ t - r.t <= WarnWindow
  BY <1>2, <1>3
<1>5. r.t \in shown'.recent
  <2>1. r.t \in shown.recent
    BY <1>1, <1>4 DEF Kept
  <2> QED
    BY <1>1, <1>4, <2>1, ShownAs
<1>6. ASSUME s.relay = "on", Demand(s, t) # "blurred"
      PROVE  r.t \in shown'.episode
  <2>1. /\ Demand(s, t) \in {"watched", "unwatched"}
        /\ Demand(s, t) = "unwatched" => demand = "unwatched"
        /\ Demand(s, t) = "watched" =>
             \/ Request(s, t).since = t
             \/ /\ demand = "watched"
                /\ Request(s, t).since = request.since
                /\ Request(s, t).since # None
    BY <1>1, <1>6, RequestAs
  <2>2. Request(s, t).since # t
    BY <1>3
  <2>3. \/ demand = "unwatched"
        \/ demand = "watched" /\ request.since <= r.t
    BY <2>1, <2>2
  <2>4. r.t \in shown.request
    BY <1>1, <1>4, <2>3 DEF Kept
  <2> QED
    BY <1>1, <1>4, <1>6, <2>4, ShownAs
<1> QED
  BY <1>5, <1>6

-----------------------------------------------------------------------------
(***************************************************************************)
(* What a snapshot leaves behind: the episode in progress and its opening, *)
(* and the episode that it ended.                                          *)
(***************************************************************************)
Appeared(x, facts, times) ==
    /\ x \in times.recent
    /\ facts \cap {"no_request", "blurred_request"} = {} => x \in times.episode

Lands(s, t) ==
    /\ active' = None \/ active' \in Episode
    /\ opened' = None \/ opened' \in Opening
    /\ seen' \in SUBSET Fact
    /\ active' # None =>
         /\ Judges(active', seen')
         /\ active'.fault_at # None =>
              active'.incident # None /\ active'.fault_at <= t
         /\ NewCode(s, t) => active'.fault_at # None
         /\ \A x \in active'.warnings :
              t - x <= WarnWindow => Appeared(x, seen', shown')
    /\ opened' # None =>
         /\ NewCode(s, t)
         /\ opened'.t = t
         /\ opened'.incident = IncidentsAfter(s, t).sequence
         /\ active' # None => active'.fault_at = t
    /\ opened' = None =>
         /\ NewCode(s, t) =>
              active # None /\ ~Rewound(t) /\ active.fault_at # None
         /\ active' # None /\ active'.fault_at # None =>
              active # None /\ ~Rewound(t) /\ active.fault_at = active'.fault_at
    /\ LeadIsHonest'

Ends(s, t) ==
    /\ finished' = None \/ finished' \in Result
    /\ closed' \in SUBSET Fact
    /\ ScoredIsClean'
    /\ KindIsHonest'
    /\ NewCode(s, t) /\ active' = None =>
         finished' # None /\ finished'.outcome \in {"fault", "censored_fault"}

LEMMA OpensAs ==
    ASSUME NEW e \in Episode, NEW s \in Samples, NEW t \in Times,
           NewCode(s, t) => IncidentsAfter(s, t).sequence \in 1..MaxIncidents
    PROVE  LET o == OpenEvent(e, s, t)
           IN  /\ o = None <=> ~(NewCode(s, t) /\ e.fault_at = None)
               /\ o # None =>
                    /\ o \in Opening /\ o.t = t
                    /\ o.incident = IncidentsAfter(s, t).sequence
                    /\ o.lead = Lead(e.warnings, t)
<1> DEFINE o == OpenEvent(e, s, t)
           i == IncidentsAfter(s, t).sequence
           l == Merge(e, s, t).lead
<1>1. CASE ~(NewCode(s, t) /\ e.fault_at = None)
  BY <1>1 DEF OpenEvent
<1>2. CASE NewCode(s, t) /\ e.fault_at = None
  <2>1. o = [incident |-> i, t |-> t, lead |-> l]
    BY <1>2 DEF OpenEvent
  <2>2. /\ l \in 1..WarnWindow \cup {None} /\ l = Lead(e.warnings, t)
        /\ i \in 1..MaxIncidents
    <3>1. Merge(e, s, t) \in Episode /\ l = Lead(e.warnings, t)
      BY <1>2, MergeAs
    <3> QED
      BY <1>2, <3>1 DEF Episode
  <2> HIDE DEF o, i, l
  <2>3. o \in Opening
    BY <2>1, <2>2 DEF Opening
  <2>4. o # None
    BY <2>3, ObserverAssumption
  <2> QED
    BY <1>2, <2>1, <2>2, <2>3, <2>4 DEF o, i, l
<1> QED
  BY <1>1, <1>2

\* The three ways an episode takes in a snapshot: it began with it, it goes
\* on with it, or it ends with it.
LEMMA TakenIn ==
    ASSUME NEW e \in Episode, NEW s \in Samples, NEW t \in Times,
           NEW G \in SUBSET Fact,
           NewCode(s, t) => IncidentsAfter(s, t).sequence \in 1..MaxIncidents,
           e.fault_at = None \/ (active # None /\ e = active /\ ~Rewound(t)),
           e.fault_at # None => e.incident # None /\ e.fault_at <= t,
           Judges(Merge(e, s, t), G),
           \A x \in e.warnings :
               t - x <= WarnWindow => Appeared(x, G, shown'),
           Watch(s, t),
           opened' = OpenEvent(e, s, t),
           \/ active' = Merge(e, s, t) /\ seen' = G
           \/ active' = None /\ seen' = {} /\ closed' = G
    PROVE  Lands(s, t)
<1> DEFINE m == Merge(e, s, t)
           hit == NewCode(s, t) /\ e.fault_at = None
           i == IncidentsAfter(s, t).sequence
<1>1. /\ Times \subseteq Int /\ t \in Int /\ WarnWindow \in Nat
      /\ None \notin Int /\ None \notin Episode
  BY ObserverAssumption
<1>2. /\ m \in Episode
      /\ m.fault_at = IF hit THEN t ELSE e.fault_at
      /\ m.incident = IF hit THEN i ELSE e.incident
      /\ \A x \in m.warnings :
            x \in e.warnings \/ (x = t /\ Warning(s, t))
  BY MergeAs
<1>3. /\ opened' = None <=> ~hit
      /\ opened' # None =>
           /\ opened' \in Opening /\ opened'.t = t
           /\ opened'.incident = i
           /\ opened'.lead = Lead(e.warnings, t)
  BY OpensAs
<1>4. i \in 1..MaxIncidents \/ ~hit
  OBVIOUS
<1>5. m # None
  BY <1>1, <1>2
<1>6. Judges(m, G)
  OBVIOUS
<1>7. active' # None => active' = m /\ seen' = G
  OBVIOUS
<1> HIDE DEF m, i
<1>8. m.fault_at # None => m.incident # None /\ m.fault_at <= t
  BY <1>1, <1>2, <1>4
<1>9. NewCode(s, t) => m.fault_at # None
  BY <1>1, <1>2
<1>10. \A x \in m.warnings : t - x <= WarnWindow => Appeared(x, G, shown')
  <2> SUFFICES ASSUME NEW x \in m.warnings, t - x <= WarnWindow
               PROVE  Appeared(x, G, shown')
    OBVIOUS
  <2>1. CASE x \in e.warnings
    BY <2>1
  <2>2. CASE x = t /\ Warning(s, t)
    BY <2>2, ShownAs DEF Appeared
  <2> QED
    BY <1>2, <2>1, <2>2
<1>11. opened' # None /\ active' # None => active'.fault_at = t
  BY <1>2, <1>3, <1>7
<1>12. opened' = None /\ NewCode(s, t) =>
         active # None /\ ~Rewound(t) /\ active.fault_at # None
  BY <1>3
<1>13. opened' = None /\ active' # None /\ active'.fault_at # None =>
         active # None /\ ~Rewound(t) /\ active.fault_at = active'.fault_at
  BY <1>2, <1>3, <1>7
<1>14. LeadIsHonest'
  <2> SUFFICES ASSUME opened' # None, opened'.lead # None
               PROVE  \/ \E x \in shown'.episode :
                           opened'.lead <= opened'.t - x
                      \/ /\ (seen' \cup closed')
                              \cap {"no_request", "blurred_request"} # {}
                         /\ \E x \in shown'.recent :
                              opened'.lead <= opened'.t - x
    BY DEF LeadIsHonest, CreditedFrom
  <2>1. G \subseteq seen' \cup closed'
    OBVIOUS
  <2>2. e.warnings \in SUBSET Times
    BY DEF Episode
  <2>3. PICK x \in e.warnings : /\ t - WarnWindow <= x /\ x < t
                                /\ Lead(e.warnings, t) = t - x
    BY <1>3, <2>2, LeadAs
  <2>4. x \in Int /\ t - x <= WarnWindow
    <3>1. x \in Int
      BY <1>1, <2>2
    <3> QED
      BY <1>1, <2>3, <3>1
  <2>5. /\ x \in shown'.recent
        /\ G \cap {"no_request", "blurred_request"} = {} =>
             x \in shown'.episode
    BY <2>4 DEF Appeared
  <2>6. opened'.lead <= opened'.t - x
    BY <1>1, <1>3, <2>3, <2>4
  <2>7. CASE G \cap {"no_request", "blurred_request"} = {}
    BY <2>5, <2>6, <2>7
  <2>8. CASE G \cap {"no_request", "blurred_request"} # {}
    <3>1. (seen' \cup closed') \cap {"no_request", "blurred_request"} # {}
      BY <2>1, <2>8
    <3> QED
      BY <2>5, <2>6, <3>1
  <2> QED
    BY <2>7, <2>8
<1>15. active' = None \/ active' \in Episode
  BY <1>2, <1>7
<1>16. seen' \in SUBSET Fact
  OBVIOUS
<1>17. opened' = None \/ opened' \in Opening
  BY <1>3
<1>18. opened' # None =>
         /\ NewCode(s, t) /\ opened'.t = t
         /\ opened'.incident = IncidentsAfter(s, t).sequence
  BY <1>3 DEF i
<1>19. active' # None => /\ Judges(active', seen')
                         /\ active'.fault_at # None =>
                              active'.incident # None /\ active'.fault_at <= t
                         /\ NewCode(s, t) => active'.fault_at # None
  BY <1>6, <1>7, <1>8, <1>9
<1>20. active' # None =>
         \A x \in active'.warnings :
             t - x <= WarnWindow => Appeared(x, seen', shown')
  BY <1>7, <1>10
<1> QED
  BY <1>11, <1>12, <1>13, <1>14, <1>15, <1>16, <1>17, <1>18, <1>19, <1>20,
     ZenonT(60) DEF Lands

LEMMA Ended ==
    ASSUME NEW e \in Episode, NEW reason \in Reason, NEW s, NEW t,
           NEW F \in SUBSET Fact, NEW C \in SUBSET Fact,
           F \subseteq C, C \subseteq F \cup {"silent_end"},
           Judges(e, F),
           finished' = Finish(e, reason), closed' = C,
           NewCode(s, t) /\ active' = None => e.fault_at # None
    PROVE  Ends(s, t)
<1>1. /\ finished' \in Result
      /\ e.fault_at # None => finished'.outcome \in {"fault", "censored_fault"}
      /\ Scored(finished') <=>
           /\ closed' \cap Defect \subseteq
                {"blurred_request", "standing_fault", "silent_end"}
           /\ reason \in {"next_burner_start", "postrun_window"}
      /\ finished'.reason = reason
      /\ Scored(finished') =>
           finished'.kind = IF "fired_before" \in closed'
                            THEN "internal_restart" ELSE "request_start"
  BY FinishAs
<1>2. finished' # None
  BY <1>1, ObserverAssumption
<1>3. ScoredIsClean'
  BY <1>1 DEF ScoredIsClean, Scored
<1>4. KindIsHonest'
  BY <1>1 DEF KindIsHonest, Scored
<1> QED
  BY <1>1, <1>2, <1>3, <1>4 DEF Ends

LEMMA NotEnded ==
    ASSUME NEW s, NEW t, finished' = None, closed' \in SUBSET Fact,
           ~(NewCode(s, t) /\ active' = None)
    PROVE  Ends(s, t)
BY DEF Ends, ScoredIsClean, KindIsHonest, Scored

LEMMA BurnerStarts ==
    ASSUME IInv, NEW s \in Samples, NEW t \in Times, Watch(s, t),
           IncidentsAfter(s, t).sequence <= MaxIncidents,
           BurnerStart(s, t)
    PROVE  Lands(s, t) /\ Ends(s, t)
<1> USE DEF IInv
<1> DEFINE w == Prelude(s, t)
           e == Begun(s, t, w)
           G == FactsAtStart(s, t) \cup FactsUnderWay(e, s, t)
<1>1. /\ NewBurn(s, t)
      /\ active' = Merge(e, s, t)
      /\ opened' = OpenEvent(e, s, t)
      /\ finished' = IF active = None THEN None
                     ELSE Finish(active, IF Rewound(t) THEN "restart_gap"
                                         ELSE "next_burner_start")
      /\ seen' = G
      /\ closed' = seen \cup FactsAtEnd(t)
  <2> DEFINE inc == \/ Last(t).gas \in {"none", "unknown"}
                    \/ s.relay = "on" /\ ~Request(s, t).known
  <2>1. NewBurn(s, t)
    BY DEF BurnerStart
  <2>2. Doubt(s, t) = inc
    BY <2>1 DEF Doubt
  <2>3. e = [Start(s, t, inc) EXCEPT !.warnings = w]
    BY <2>2 DEF Begun
  <2> QED
    BY <2>1, <2>3 DEF BurnerStart
<1>2. NewCode(s, t) => IncidentsAfter(s, t).sequence \in 1..MaxIncidents
  BY IncidentsAs
<1>3. w \in SUBSET Times
  <2>1. RingBefore(t) \subseteq [t: Times, warned: BOOLEAN]
    BY DEF RingBefore, Types, TypeOK
  <2> QED
    BY <2>1 DEF Prelude
<1> HIDE DEF w
<1>4. Begins(e, w, G, s, t)
  BY <1>3, BegunAs
<1>6. FactsUnderWay(e, s, t) \subseteq G
  OBVIOUS
<1> HIDE DEF e, G
<1>5. /\ e \in Episode /\ e.warnings = w /\ e.fault_at = None
      /\ Judges(e, G) /\ G \subseteq Fact
      /\ "no_request" \notin G => s.relay = "on"
      /\ "no_request" \notin G /\ "blurred_request" \notin G =>
           Demand(s, t) # "blurred"
  BY <1>4 DEF Begins
<1>7. Judges(Merge(e, s, t), G)
  <2>1. Judges(Merge(e, s, t), G \cup FactsUnderWay(e, s, t))
    BY <1>2, <1>5, MergeJudged
  <2>2. G \cup FactsUnderWay(e, s, t) = G
    BY <1>6
  <2> QED
    BY <2>1, <2>2
<1>8. \A x \in e.warnings : Appeared(x, G, shown')
  BY <1>1, <1>5, PreludeShown DEF w, Appeared
<1>9. Lands(s, t)
  BY <1>1, <1>2, <1>5, <1>7, <1>8, TakenIn
<1>10. Ends(s, t)
  <2>1. closed' \in SUBSET Fact /\ seen \in SUBSET Fact
        /\ closed' \subseteq seen \cup {"silent_end"} /\ seen \subseteq closed'
    BY <1>1 DEF FactsAtEnd, Fact, Types
  <2>2. active' # None
    <3>1. Merge(e, s, t) \in Episode
      BY <1>2, <1>5, MergeAs
    <3> QED
      BY <1>1, <3>1, ObserverAssumption
  <2>3. CASE active = None
    BY <1>1, <2>1, <2>2, <2>3, NotEnded
  <2>4. CASE active # None
    <3> DEFINE reason == IF Rewound(t) THEN "restart_gap"
                                       ELSE "next_burner_start"
    <3>1. reason \in Reason
      BY DEF Reason
    <3>2. finished' = Finish(active, reason)
      BY <1>1, <2>4
    <3>3. active \in Episode /\ Judges(active, seen)
      BY <2>4 DEF Types, TypeOK, Known
    <3> HIDE DEF reason
    <3> QED
      BY <2>1, <2>2, <3>1, <3>2, <3>3, Ended
  <2> QED
    BY <2>3, <2>4
<1> QED
  BY <1>9, <1>10

LEMMA FaultsAlone ==
    ASSUME IInv, NEW s \in Samples, NEW t \in Times, Watch(s, t),
           IncidentsAfter(s, t).sequence <= MaxIncidents,
           FaultOutsideEpisode(s, t)
    PROVE  Lands(s, t) /\ Ends(s, t)
<1> USE DEF IInv
<1> DEFINE e == Start(s, t, TRUE)
           G == FactsAtStart(s, t) \cup FactsUnderWay(e, s, t)
<1>1. /\ ~NewBurn(s, t) /\ NewCode(s, t)
      /\ active' = Merge(e, s, t)
      /\ opened' = OpenEvent(e, s, t)
      /\ finished' = IF active = None THEN None
                     ELSE Finish(active, "restart_gap")
      /\ seen' = G
      /\ closed' = seen
  BY DEF FaultOutsideEpisode, FaultAlone
<1>2. NewCode(s, t) => IncidentsAfter(s, t).sequence \in 1..MaxIncidents
  BY IncidentsAs
<1>3. {} \in SUBSET Times /\ e = Begun(s, t, {})
  BY <1>1, BegunBare
<1>4. /\ e \in Episode /\ e.warnings = {} /\ e.fault_at = None
      /\ Judges(e, G) /\ G \subseteq Fact
  <2> DEFINE f == Begun(s, t, {})
             H == FactsAtStart(s, t) \cup FactsUnderWay(f, s, t)
  <2>1. Begins(f, {}, H, s, t)
    BY <1>3, BegunAs
  <2>2. Begins(e, {}, G, s, t)
    BY <1>3, <2>1
  <2> HIDE DEF e, G
  <2> QED
    BY <2>2 DEF Begins
<1>5. FactsUnderWay(e, s, t) \subseteq G
  OBVIOUS
<1> HIDE DEF e, G
<1>6. Judges(Merge(e, s, t), G)
  <2>1. Judges(Merge(e, s, t), G \cup FactsUnderWay(e, s, t))
    BY <1>2, <1>4, MergeJudged
  <2>2. G \cup FactsUnderWay(e, s, t) = G
    BY <1>5
  <2> QED
    BY <2>1, <2>2
<1>7. Lands(s, t)
  BY <1>1, <1>2, <1>4, <1>6, TakenIn
<1>8. Ends(s, t)
  <2>1. active' # None
    <3>1. Merge(e, s, t) \in Episode
      BY <1>2, <1>4, MergeAs
    <3> QED
      BY <1>1, <3>1, ObserverAssumption
  <2>2. seen \in SUBSET Fact /\ closed' \in SUBSET Fact
    BY <1>1 DEF Types
  <2>3. CASE active = None
    BY <1>1, <2>1, <2>2, <2>3, NotEnded
  <2>4. CASE active # None
    <3>1. active \in Episode /\ Judges(active, seen)
      BY <2>4 DEF Types, TypeOK, Known
    <3>2. "restart_gap" \in Reason /\ finished' = Finish(active, "restart_gap")
      BY <1>1, <2>4 DEF Reason
    <3> QED
      BY <1>1, <2>1, <2>2, <3>1, <3>2, Ended
  <2> QED
    BY <2>3, <2>4
<1> QED
  BY <1>7, <1>8

LEMMA EpisodeGoesOn ==
    ASSUME IInv, NEW s \in Samples, NEW t \in Times, Watch(s, t),
           IncidentsAfter(s, t).sequence <= MaxIncidents,
           EpisodeContinues(s, t)
    PROVE  Lands(s, t) /\ Ends(s, t)
<1> USE DEF IInv
<1> DEFINE m == Merge(active, s, t)
           G == seen \cup FactsUnderWay(active, s, t)
           over == PostrunOver(m, s, t) \/ t - m.start > DurationCap
           reason == IF PostrunOver(m, s, t) THEN "postrun_window"
                                             ELSE "duration_cap"
<1>1. /\ ~NewBurn(s, t) /\ Standing(t) # None
      /\ opened' = OpenEvent(active, s, t)
      /\ over => /\ active' = None /\ finished' = Finish(m, reason)
                 /\ seen' = {} /\ closed' = G
      /\ ~over => /\ active' = m /\ finished' = None
                  /\ seen' = G /\ closed' = {}
  BY DEF EpisodeContinues
<1>2. reason \in Reason
  BY DEF Reason
<1> HIDE DEF over, reason
<1>3. active # None /\ active \in Episode /\ ~Rewound(t)
  BY <1>1 DEF Standing, Types, TypeOK
<1>4. /\ previous # None /\ previous.t <= t
      /\ Judges(active, seen)
      /\ active.fault_at # None =>
           active.incident # None /\ active.fault_at <= previous.t
  BY <1>3, LastAs DEF Known
<1>5. /\ Times \subseteq Int /\ t \in Int /\ None \notin Int
      /\ previous.t \in Int /\ WarnWindow \in Int
  <2>1. previous \in Reading
    BY <1>4 DEF Types, TypeOK
  <2>2. previous.t \in Times
    BY <2>1 DEF Reading
  <2>3. Times \subseteq Int /\ None \notin Int /\ WarnWindow \in Int
    BY ObserverAssumption
  <2> QED
    BY <2>2, <2>3
<1>6. NewCode(s, t) => IncidentsAfter(s, t).sequence \in 1..MaxIncidents
  BY IncidentsAs
<1>7. active.fault_at # None =>
        active.incident # None /\ active.fault_at <= t
  <2>1. active.fault_at \in Times \cup {None}
    BY <1>3 DEF Episode
  <2> DEFINE f == active.fault_at
  <2>2. f # None => f \in Int
    BY <1>5, <2>1
  <2>3. f # None => active.incident # None /\ f <= previous.t
    BY <1>4
  <2> HIDE DEF f
  <2>4. f # None => active.incident # None /\ f <= t
    BY <1>4, <1>5, <2>2, <2>3
  <2> QED
    BY <2>4 DEF f
<1>8. \A x \in active.warnings :
        t - x <= WarnWindow => Appeared(x, G, shown')
  <2> SUFFICES ASSUME NEW x \in active.warnings, t - x <= WarnWindow
               PROVE  Appeared(x, G, shown')
    OBVIOUS
  <2>1. G \cap {"no_request", "blurred_request"} = {} =>
          seen \cap {"no_request", "blurred_request"} = {}
    OBVIOUS
  <2>2. x \in Int
    <3>1. active.warnings \in SUBSET Times
      BY <1>3 DEF Episode
    <3> QED
      BY <1>5, <3>1
  <2>3. previous.t - x <= WarnWindow
    BY <1>4, <1>5, <2>2
  <2>4. /\ x \in shown.recent
        /\ seen \cap {"no_request", "blurred_request"} = {} =>
             x \in shown.episode
    BY <1>3, <2>3 DEF Counted
  <2>5. x \in shown'.recent /\ (x \in shown.episode => x \in shown'.episode)
    BY <1>1, <1>3, <2>4, ShownAs
  <2> HIDE DEF G
  <2> QED
    BY <2>1, <2>4, <2>5 DEF Appeared
<1>9. Judges(m, G)
  BY <1>3, <1>4, <1>6, MergeJudged
<1>10. G \in SUBSET Fact
  <2>1. FactsUnderWay(active, s, t)
          \subseteq {"bad_data", "intervention", "standing_fault"}
    BY UnderWay
  <2> QED
    BY <2>1 DEF Types, Fact, Defect
<1>11. /\ m \in Episode /\ m # None
       /\ NewCode(s, t) => m.fault_at # None
  <2>1. /\ m \in Episode
        /\ m.fault_at = IF NewCode(s, t) /\ active.fault_at = None
                        THEN t ELSE active.fault_at
    BY <1>3, <1>6, MergeAs
  <2> QED
    BY <1>5, <2>1, ObserverAssumption
<1>12. Lands(s, t)
  <2>1. \/ active' = Merge(active, s, t) /\ seen' = G
        \/ active' = None /\ seen' = {} /\ closed' = G
    BY <1>1
  <2>2. Judges(Merge(active, s, t), G)
    BY <1>9
  <2> HIDE DEF m, G
  <2> QED
    BY <1>1, <1>3, <1>6, <1>7, <1>8, <1>10, <2>1, <2>2, TakenIn
<1> HIDE DEF m, G
<1>13. Ends(s, t)
  <2>1. CASE over
    <3>1. /\ finished' = Finish(m, reason) /\ closed' = G
          /\ G \subseteq G /\ G \subseteq G \cup {"silent_end"}
      BY <1>1, <2>1
    <3> QED
      BY <1>2, <1>9, <1>10, <1>11, <3>1, Ended
  <2>2. CASE ~over
    <3>1. finished' = None /\ closed' \in SUBSET Fact /\ active' # None
      BY <1>1, <1>11, <2>2
    <3> QED
      BY <3>1, NotEnded
  <2> QED
    BY <2>1, <2>2
<1> QED
  BY <1>12, <1>13

LEMMA NothingGoesOn ==
    ASSUME IInv, NEW s \in Samples, NEW t \in Times, NothingHappens(s, t)
    PROVE  Lands(s, t) /\ Ends(s, t)
<1> USE DEF IInv
<1>1. /\ ~NewBurn(s, t) /\ Standing(t) = None /\ ~FaultAlone(s, t)
      /\ active' = None /\ opened' = None
      /\ finished' = IF active = None THEN None
                     ELSE Finish(active, "restart_gap")
      /\ seen' = {} /\ closed' = seen
  BY DEF NothingHappens
<1>2. ~NewCode(s, t)
  BY <1>1 DEF FaultAlone
<1>3. Lands(s, t)
  BY <1>1, <1>2 DEF Lands, LeadIsHonest
<1>4. Ends(s, t)
  <2>1. closed' \in SUBSET Fact
    BY <1>1 DEF Types
  <2>2. CASE active = None
    BY <1>1, <1>2, <2>1, <2>2, NotEnded
  <2>3. CASE active # None
    <3>1. active \in Episode /\ Judges(active, seen) /\ seen \in SUBSET Fact
      BY <2>3 DEF Types, TypeOK, Known
    <3>2. "restart_gap" \in Reason /\ finished' = Finish(active, "restart_gap")
      BY <1>1, <2>3 DEF Reason
    <3> QED
      BY <1>1, <1>2, <3>1, <3>2, Ended
  <2> QED
    BY <2>2, <2>3
<1> QED
  BY <1>3, <1>4

\* What every snapshot does, whatever becomes of the episode.
LEMMA FeedAs ==
    ASSUME IInv, NEW s \in Samples, NEW t \in Times, Feed(s, t)
    PROVE  /\ Lands(s, t) /\ Ends(s, t) /\ Watch(s, t)
           /\ previous = None \/ t # previous.t
           /\ IncidentsAfter(s, t).sequence <= MaxIncidents
           /\ incidents' = IncidentsAfter(s, t)
           /\ ring' = RingAfter(s, t)
           /\ previous' = [t |-> t, gas |-> s.gas, relay |-> s.relay,
                           code |-> s.code]
           /\ request' = IF NewBurn(s, t)
                         THEN [Request(s, t) EXCEPT !.burned = @ \/ s.relay = "on"]
                         ELSE Request(s, t)
<1>1. /\ Watch(s, t)
      /\ IncidentsAfter(s, t).sequence <= MaxIncidents
      /\ incidents' = IncidentsAfter(s, t)
      /\ ring' = RingAfter(s, t)
      /\ previous' = [t |-> t, gas |-> s.gas, relay |-> s.relay,
                      code |-> s.code]
  BY DEF Feed
<1>2. previous = None \/ t # previous.t
  <2>1. previous = None \/ t - previous.t \in Steps
    BY DEF Feed
  <2>2. previous = None \/ previous.t \in Times
    BY DEF IInv, Types, TypeOK, Reading
  <2> QED
    BY <2>1, <2>2, ObserverAssumption
<1>3. CASE BurnerStart(s, t)
  <2>1. /\ NewBurn(s, t)
        /\ request' = [Request(s, t) EXCEPT !.burned = @ \/ s.relay = "on"]
    BY <1>3 DEF BurnerStart
  <2> QED
    BY <1>1, <1>2, <1>3, <2>1, BurnerStarts
<1>4. CASE FaultOutsideEpisode(s, t)
  <2>1. ~NewBurn(s, t) /\ request' = Request(s, t)
    BY <1>4 DEF FaultOutsideEpisode, FaultAlone
  <2> QED
    BY <1>1, <1>2, <1>4, <2>1, FaultsAlone
<1>5. CASE EpisodeContinues(s, t)
  <2>1. ~NewBurn(s, t) /\ request' = Request(s, t)
    BY <1>5 DEF EpisodeContinues
  <2> QED
    BY <1>1, <1>2, <1>5, <2>1, EpisodeGoesOn
<1>6. CASE NothingHappens(s, t)
  <2>1. ~NewBurn(s, t) /\ request' = Request(s, t)
    BY <1>6 DEF NothingHappens
  <2> QED
    BY <1>1, <1>2, <1>6, <2>1, NothingGoesOn
<1> QED
  BY <1>3, <1>4, <1>5, <1>6 DEF Feed

-----------------------------------------------------------------------------
(***************************************************************************)
(* The invariant.                                                          *)
(***************************************************************************)
LEMMA Initially == Init => IInv
<1> SUFFICES ASSUME Init
             PROVE  IInv
  OBVIOUS
<1> USE DEF Init
<1>1. Types
  <2>1. MaxIncidents \in Nat
    BY ObserverAssumption
  <2>2. request \in [known: BOOLEAN, burned: BOOLEAN, since: Times \cup {None}]
    BY DEF Unasked
  <2>3. shown \in Shown
    BY DEF NothingShown, Shown
  <2>4. incidents \in [sequence: 0..MaxIncidents, at: Times \cup {None}]
    BY <2>1
  <2>5. fired \in BOOLEAN
    BY Zenon
  <2>6. TypeOK
    BY <2>2, <2>4 DEF TypeOK
  <2> QED
    BY <2>3, <2>5, <2>6 DEF Types
<1>2. Asked
  BY DEF Asked, Unasked
<1>3. Known /\ Counted /\ Kept
  BY DEF Known, Counted, Kept
<1>4. Clustered
  BY DEF Clustered
<1> QED
  BY <1>1, <1>2, <1>3, <1>4 DEF IInv

LEMMA FeedTypes ==
    ASSUME IInv, NEW s \in Samples, NEW t \in Times, Feed(s, t)
    PROVE  Types'
<1>0. Types /\ Asked /\ Clustered
  BY DEF IInv
<1>1. /\ Lands(s, t) /\ Ends(s, t) /\ Watch(s, t)
      /\ IncidentsAfter(s, t).sequence <= MaxIncidents
      /\ incidents' = IncidentsAfter(s, t)
      /\ ring' = RingAfter(s, t)
      /\ previous' = [t |-> t, gas |-> s.gas, relay |-> s.relay,
                      code |-> s.code]
      /\ request' = IF NewBurn(s, t)
                    THEN [Request(s, t) EXCEPT !.burned = @ \/ s.relay = "on"]
                    ELSE Request(s, t)
  BY FeedAs
<1>2. previous' \in Reading
  BY <1>1, SampleAs DEF Reading
<1>3. request' \in [known: BOOLEAN, burned: BOOLEAN, since: Times \cup {None}]
  <2> DEFINE r == Request(s, t)
  <2>1. r \in [known: BOOLEAN, burned: BOOLEAN, since: Times \cup {None}]
    BY <1>0, RequestAs
  <2> HIDE DEF r
  <2>2. (r.burned \/ s.relay = "on") \in BOOLEAN
    OBVIOUS
  <2>3. CASE NewBurn(s, t)
    <3>1. request' = [r EXCEPT !.burned = @ \/ s.relay = "on"]
      BY <1>1, <2>3 DEF r
    <3> QED
      BY <2>1, <2>2, <3>1
  <2>4. CASE ~NewBurn(s, t)
    BY <1>1, <2>1, <2>4 DEF r
  <2> QED
    BY <2>3, <2>4
<1>4. ring' \subseteq [t: Times, warned: BOOLEAN]
  <2>1. RingBefore(t) \subseteq [t: Times, warned: BOOLEAN]
    BY <1>0 DEF RingBefore, Types, TypeOK
  <2>2. Warning(s, t) \in BOOLEAN
    BY SampleAs DEF Warning
  <2>3. [t |-> t, warned |-> Warning(s, t)] \in [t: Times, warned: BOOLEAN]
    BY <2>2
  <2> QED
    BY <1>1, <2>1, <2>3 DEF RingAfter
<1>5. active' = None \/ active' \in Episode
  BY <1>1 DEF Lands
<1>6. incidents' \in [sequence: 0..MaxIncidents, at: Times \cup {None}]
  BY <1>0, <1>1, IncidentsAs
<1>7. finished' = None \/ finished' \in Result
  BY <1>1 DEF Ends
<1>8. opened' = None \/ opened' \in Opening
  BY <1>1 DEF Lands
<1>9. demand' \in {"off", "watched", "blurred", "unwatched"}
  BY <1>0, <1>1, RequestAs DEF Watch
<1>10. fired' \in BOOLEAN
  BY <1>1 DEF Watch
<1>11. shown' \in Shown
  <2> DEFINE now == IF Warning(s, t) THEN {t} ELSE {}
             kept == IF Rewound(t) THEN NothingShown ELSE shown
             asked == IF s.relay = "off" THEN {} ELSE kept.request
             had == IF NewBurn(s, t) THEN asked ELSE kept.episode
             a == {x \in asked \cup now : t - x <= WarnWindow}
             b == {x \in had \cup now : t - x <= WarnWindow}
             c == {x \in kept.recent \cup now : t - x <= WarnWindow}
  <2>1. shown' = [request |-> a, episode |-> b, recent |-> c]
    BY <1>1 DEF Watch
  <2>2. kept \in Shown
    BY <1>0 DEF Types, NothingShown, Shown
  <2>3. now \in SUBSET Times
    OBVIOUS
  <2> HIDE DEF kept, now
  <2>4. asked \in SUBSET Times /\ had \in SUBSET Times
    BY <2>2 DEF Shown
  <2>5. c \in SUBSET Times
    BY <2>2, <2>3 DEF Shown
  <2> HIDE DEF asked, had
  <2>6. a \in SUBSET Times /\ b \in SUBSET Times
    BY <2>3, <2>4
  <2> HIDE DEF a, b, c
  <2> QED
    BY <2>1, <2>5, <2>6 DEF Shown
<1>12. seen' \subseteq Fact /\ closed' \subseteq Fact
  BY <1>1 DEF Lands, Ends
<1>13. lastOpen' = None \/ lastOpen' \in Opening
  <2>1. CASE opened' # None
    <3>1. lastOpen' = [opened' EXCEPT !.lead = None]
      BY <1>1, <2>1 DEF Watch
    <3> QED
      BY <1>8, <2>1, <3>1 DEF Opening
  <2>2. CASE opened' = None
    BY <1>0, <1>1, <2>2 DEF Watch, Types
  <2> QED
    BY <2>1, <2>2
<1> QED
  BY <1>2, <1>3, <1>4, <1>5, <1>6, <1>7, <1>8, <1>9, <1>10, <1>11, <1>12, <1>13
  DEF Types, TypeOK

LEMMA FeedAsked ==
    ASSUME IInv, NEW s \in Samples, NEW t \in Times, Feed(s, t)
    PROVE  Asked'
<1>1. Types /\ Asked
  BY DEF IInv
<1> DEFINE r == Request(s, t)
           d == Demand(s, t)
<1>2. /\ Watch(s, t)
      /\ previous' = [t |-> t, gas |-> s.gas, relay |-> s.relay,
                      code |-> s.code]
      /\ request' = IF NewBurn(s, t)
                    THEN [r EXCEPT !.burned = @ \/ s.relay = "on"]
                    ELSE r
  BY FeedAs
<1>3. /\ r \in [known: BOOLEAN, burned: BOOLEAN, since: Times \cup {None}]
      /\ d = "off" <=> s.relay = "off"
      /\ r.known <=> d # "unwatched"
      /\ r.known => (r.burned <=> s.relay # "off" /\ fired)
      /\ d = "watched" => r.since = t \/ r.since # None
  BY <1>1, RequestAs
<1>4. /\ demand' = d
      /\ fired' <=> /\ s.relay # "off"
                    /\ fired \/ (NewBurn(s, t) /\ s.relay = "on")
  BY <1>2 DEF Watch
<1> HIDE DEF r, d
<1>5. /\ request'.known <=> r.known
      /\ request'.since = r.since
      /\ request'.burned <=> r.burned \/ (NewBurn(s, t) /\ s.relay = "on")
  <2>1. (r.burned \/ s.relay = "on") \in BOOLEAN
    OBVIOUS
  <2>2. CASE NewBurn(s, t)
    <3>1. request' = [r EXCEPT !.burned = (r.burned \/ s.relay = "on")]
      BY <1>2, <2>2
    <3>2. /\ request'.known = r.known /\ request'.since = r.since
          /\ request'.burned = (r.burned \/ s.relay = "on")
      BY <1>3, <2>1, <3>1
    <3> QED
      BY <2>2, <3>2
  <2>3. CASE ~NewBurn(s, t)
    BY <1>2, <2>3
  <2> QED
    BY <2>2, <2>3
<1>6. t # None
  BY ObserverAssumption
<1>7. previous' # None /\ previous'.relay = s.relay
  <2>1. previous' \in Reading
    BY <1>2, SampleAs DEF Reading
  <2> QED
    BY <1>2, <2>1, ObserverAssumption
<1>8. request'.known => (request'.burned <=> fired')
  <2>1. ~(NewBurn(s, t) /\ s.relay = "on") \/ s.relay # "off"
    OBVIOUS
  <2> QED
    BY <1>3, <1>4, <1>5, <2>1
<1>9. demand' = "off" => ~fired'
  BY <1>3, <1>4
<1>10. request'.known <=> demand' # "unwatched"
  BY <1>3, <1>4, <1>5
<1>11. demand' = "watched" => request'.since # None
  BY <1>3, <1>4, <1>5, <1>6
<1>12. demand' = "off" <=> IF previous' = None THEN FALSE
                                              ELSE previous'.relay = "off"
  BY <1>3, <1>4, <1>7
<1> QED
  BY <1>8, <1>9, <1>10, <1>11, <1>12 DEF Asked

LEMMA FeedKnown ==
    ASSUME IInv, NEW s \in Samples, NEW t \in Times, Feed(s, t)
    PROVE  Known' /\ Counted'
<1>1. /\ Lands(s, t)
      /\ previous' = [t |-> t, gas |-> s.gas, relay |-> s.relay,
                      code |-> s.code]
  BY FeedAs
<1>2. previous' # None /\ previous'.t = t
  <2>1. previous' \in Reading
    BY <1>1, SampleAs DEF Reading
  <2> QED
    BY <1>1, <2>1, ObserverAssumption
<1>3. active' # None =>
        /\ Judges(active', seen')
        /\ active'.fault_at # None =>
             active'.incident # None /\ active'.fault_at <= t
        /\ \A x \in active'.warnings :
              t - x <= WarnWindow => Appeared(x, seen', shown')
  BY <1>1 DEF Lands
<1>4. Known'
  BY <1>2, <1>3 DEF Known, Judges
<1>5. Counted'
  BY <1>2, <1>3 DEF Counted, Appeared
<1> QED
  BY <1>4, <1>5

LEMMA FeedKept ==
    ASSUME IInv, NEW s \in Samples, NEW t \in Times, Feed(s, t)
    PROVE  Kept'
<1>1. Types /\ Asked /\ Kept
  BY DEF IInv
<1>2. /\ Watch(s, t)
      /\ previous = None \/ t # previous.t
      /\ ring' = RingAfter(s, t)
      /\ previous' = [t |-> t, gas |-> s.gas, relay |-> s.relay,
                      code |-> s.code]
      /\ request'.since = Request(s, t).since
  <2> DEFINE r == Request(s, t)
  <2>1. r \in [known: BOOLEAN, burned: BOOLEAN, since: Times \cup {None}]
    BY <1>1, RequestAs
  <2>2. request' = IF NewBurn(s, t)
                   THEN [r EXCEPT !.burned = @ \/ s.relay = "on"]
                   ELSE r
    BY FeedAs
  <2> HIDE DEF r
  <2>3. request'.since = r.since
    BY <2>1, <2>2
  <2> QED
    BY <2>3, FeedAs DEF r
<1>3. previous' # None /\ previous'.t = t
  <2>1. previous' \in Reading
    BY <1>2, SampleAs DEF Reading
  <2> QED
    BY <1>2, <2>1, ObserverAssumption
<1>4. Times \subseteq Int /\ t \in Int /\ WarnWindow \in Int /\ WarnWindow >= 0
  BY ObserverAssumption
<1>5. demand' = Demand(s, t)
  BY <1>2 DEF Watch
<1>6. ASSUME NEW r \in ring'
      PROVE  /\ r.t <= t
             /\ r.warned /\ t - r.t <= WarnWindow =>
                  /\ r.t \in shown'.recent
                  /\ \/ demand' = "unwatched"
                     \/ demand' = "watched" /\ request'.since <= r.t
                     => r.t \in shown'.request
  <2>1. \/ r \in RingBefore(t)
        \/ r = [t |-> t, warned |-> Warning(s, t)]
    BY <1>2 DEF RingAfter
  <2>2. CASE r = [t |-> t, warned |-> Warning(s, t)]
    <3>1. r.t = t /\ r.warned = Warning(s, t)
      BY <2>2
    <3>2. Warning(s, t) => t \in shown'.request /\ t \in shown'.recent
      <4>1. t - t <= WarnWindow
        BY <1>4
      <4> QED
        BY <1>2, <4>1, ShownAs
    <3> QED
      BY <1>4, <3>1, <3>2
  <2>3. CASE r \in RingBefore(t)
    <3>1. ~Rewound(t) /\ r \in ring
      BY <2>3 DEF RingBefore
    <3>2. previous # None /\ previous.t <= t /\ r.t <= previous.t
      BY <1>1, <3>1, LastAs DEF Kept
    <3>3. r.t \in Int /\ previous.t \in Int
      <4>1. r \in [t: Times, warned: BOOLEAN] /\ previous \in Reading
        BY <1>1, <3>1, <3>2 DEF Types, TypeOK
      <4>2. r.t \in Times /\ previous.t \in Times
        BY <4>1 DEF Reading
      <4> QED
        BY <1>4, <4>2
    <3>4. r.t <= t /\ r.t # t
      BY <1>2, <1>4, <3>2, <3>3
    <3>5. ASSUME r.warned, t - r.t <= WarnWindow,
                 \/ demand' = "unwatched"
                 \/ demand' = "watched" /\ request'.since <= r.t
          PROVE  r.t \in shown'.request
      <4>1. previous.t - r.t <= WarnWindow
        BY <1>4, <3>2, <3>3, <3>5
      <4>2. /\ Demand(s, t) = "off" <=> s.relay = "off"
            /\ Demand(s, t) = "unwatched" => demand = "unwatched"
            /\ Demand(s, t) = "watched" =>
                 \/ Request(s, t).since = t
                 \/ /\ demand = "watched"
                    /\ Request(s, t).since = request.since
        BY <1>1, <3>1, RequestAs
      <4>3. s.relay # "off"
        BY <1>5, <3>5, <4>2
      <4>4. request'.since <= r.t => Request(s, t).since # t
        BY <1>2, <1>4, <3>3, <3>4
      <4>5. \/ demand = "unwatched"
            \/ demand = "watched" /\ request.since <= r.t
        BY <1>2, <1>5, <3>5, <4>2, <4>4
      <4>6. r.t \in shown.request
        BY <1>1, <3>1, <3>5, <4>1, <4>5 DEF Kept
      <4> QED
        BY <1>2, <3>1, <3>5, <4>3, <4>6, ShownAs
    <3>6. ASSUME r.warned, t - r.t <= WarnWindow
          PROVE  r.t \in shown'.recent
      <4>1. previous.t - r.t <= WarnWindow
        BY <1>4, <3>2, <3>3, <3>6
      <4>2. r.t \in shown.recent
        BY <1>1, <3>1, <3>6, <4>1 DEF Kept
      <4> QED
        BY <1>2, <3>1, <3>6, <4>2, ShownAs
    <3> QED
      BY <3>4, <3>5, <3>6
  <2> QED
    BY <2>1, <2>2, <2>3
<1> QED
  BY <1>3, <1>6 DEF Kept

LEMMA FeedClustered ==
    ASSUME IInv, NEW s \in Samples, NEW t \in Times, Feed(s, t)
    PROVE  Clustered'
<1>1. Types /\ Clustered /\ Known
  BY DEF IInv
<1> DEFINE i == IncidentsAfter(s, t)
<1>2. Lands(s, t) /\ Watch(s, t) /\ incidents' = i
  BY FeedAs
<1>3. /\ NewCode(s, t) => i.sequence \in 1..MaxIncidents /\ i.at = t
      /\ ~NewCode(s, t) => i = incidents
      /\ NewCode(s, t) /\ ~NewIncident(t) =>
           i.sequence = incidents.sequence
  BY <1>1, FeedAs, IncidentsAs
<1>4. /\ Times \subseteq Int /\ t \in Int /\ None \notin Int
      /\ IncidentWindow \in Nat /\ MaxIncidents \in Nat
  BY ObserverAssumption
<1> HIDE DEF i
<1>5. incidents'.at # None => incidents'.sequence >= 1
  BY <1>1, <1>2, <1>3, <1>4 DEF Clustered
<1>6. CASE opened' # None
  <2>1. /\ NewCode(s, t) /\ opened'.t = t
        /\ opened'.incident = i.sequence
        /\ active' # None => active'.fault_at = t
    BY <1>2, <1>6 DEF Lands, i
  <2>2. lastOpen' = [opened' EXCEPT !.lead = None] /\ opened' \in Opening
    BY <1>2, <1>6 DEF Watch, Lands
  <2>3. lastOpen'.t = t /\ lastOpen'.incident = incidents'.sequence
        /\ incidents'.at = t
    BY <1>2, <1>3, <2>1, <2>2 DEF Opening
  <2> QED
    BY <1>4, <1>5, <2>1, <2>3 DEF Clustered
<1>7. CASE opened' = None /\ lastOpen' # None
  <2>1. /\ lastOpen' = lastOpen /\ lastOpen # None
        /\ ~(t - lastOpen.t > IncidentWindow)
    BY <1>2, <1>7 DEF Watch
  <2>2. /\ NewCode(s, t) =>
              active # None /\ ~Rewound(t) /\ active.fault_at # None
        /\ active' # None /\ active'.fault_at # None =>
              active # None /\ ~Rewound(t) /\ active.fault_at = active'.fault_at
    BY <1>2, <1>7 DEF Lands
  <2>3. /\ incidents.at # None
        /\ lastOpen.t <= incidents.at
        /\ lastOpen.incident = incidents.sequence
        /\ active # None =>
             (active.fault_at # None => lastOpen.t = active.fault_at)
    BY <1>1, <2>1 DEF Clustered
  <2>4. active' # None =>
          (active'.fault_at # None => lastOpen'.t = active'.fault_at)
    BY <2>1, <2>2, <2>3
  <2>5. CASE ~NewCode(s, t)
    BY <1>2, <1>3, <1>5, <2>1, <2>3, <2>4, <2>5 DEF Clustered
  <2>6. CASE NewCode(s, t)
    <3>1. lastOpen.t \in Int /\ incidents.at \in Int
      <4>1. lastOpen.t \in Times /\ incidents.at \in Times
        BY <1>1, <2>1, <2>3 DEF Types, TypeOK, Opening
      <4> QED
        BY <1>4, <4>1
    <3>2. ~NewIncident(t)
      BY <1>4, <2>1, <2>3, <3>1 DEF NewIncident
    <3>3. lastOpen.t <= t
      <4>1. /\ previous # None /\ lastOpen.t <= previous.t
        BY <1>1, <2>2, <2>3, <2>6 DEF Known
      <4>2. previous.t <= t
        BY <1>1, <2>2, <2>6, <4>1, LastAs
      <4>3. previous.t \in Times
        BY <1>1, <4>1 DEF Types, TypeOK, Reading
      <4>4. previous.t \in Int
        BY <1>4, <4>3
      <4> QED
        BY <1>4, <3>1, <4>1, <4>2, <4>4
    <3> QED
      BY <1>2, <1>3, <1>4, <1>5, <2>1, <2>3, <2>4, <2>6, <3>2, <3>3
      DEF Clustered
  <2> QED
    BY <2>5, <2>6
<1>8. CASE opened' = None /\ lastOpen' = None
  BY <1>5, <1>8 DEF Clustered
<1> QED
  BY <1>6, <1>7, <1>8

LEMMA RebuiltKeeps ==
    ASSUME IInv, NEW reason \in {"stop", "restart_gap"}, Rebuilt(reason)
    PROVE  IInv' /\ ScoredIsClean' /\ KindIsHonest'
<1>1. /\ Types /\ Asked /\ Known /\ Clustered
  BY DEF IInv
<1>2. /\ previous' = None /\ request' = Unasked /\ ring' = {}
      /\ active' = None /\ opened' = None
      /\ finished' = IF active = None THEN None ELSE Finish(active, reason)
      /\ demand' = "unwatched" /\ shown' = NothingShown
      /\ seen' = {} /\ closed' = seen
      /\ UNCHANGED <<incidents, fired, lastOpen>>
  BY DEF Rebuilt
<1>3. /\ finished' = None \/ finished' \in Result
      /\ ScoredIsClean' /\ KindIsHonest'
  <2>1. CASE active = None
    BY <1>2, <2>1 DEF ScoredIsClean, KindIsHonest, Scored
  <2>2. CASE active # None
    <3> DEFINE f == Finish(active, reason)
    <3>1. active \in Episode /\ Judges(active, seen) /\ seen \in SUBSET Fact
      BY <1>1, <2>2 DEF Types, TypeOK, Known
    <3>2. reason \in Reason
      BY DEF Reason
    <3>3. seen \subseteq seen /\ seen \subseteq seen \cup {"silent_end"}
      OBVIOUS
    <3>4. /\ f \in Result
          /\ Scored(f) <=>
               /\ seen \cap Defect \subseteq
                    {"blurred_request", "standing_fault", "silent_end"}
               /\ reason \in {"next_burner_start", "postrun_window"}
          /\ f.reason = reason
          /\ Scored(f) =>
               f.kind = IF "fired_before" \in seen THEN "internal_restart"
                                                   ELSE "request_start"
      BY <3>1, <3>2, <3>3, FinishAs
    <3>5. finished' = f /\ closed' = seen
      BY <1>2, <2>2
    <3> HIDE DEF f
    <3>6. ScoredIsClean'
      BY <3>4, <3>5 DEF ScoredIsClean, Scored
    <3>7. KindIsHonest'
      BY <3>4, <3>5 DEF KindIsHonest, Scored
    <3> QED
      BY <3>4, <3>5, <3>6, <3>7
  <2> QED
    BY <2>1, <2>2
<1>4. Types'
  <2>1. request' \in [known: BOOLEAN, burned: BOOLEAN, since: Times \cup {None}]
    BY <1>2 DEF Unasked
  <2>2. shown' \in Shown
    BY <1>2 DEF NothingShown, Shown
  <2>3. TypeOK'
    BY <1>1, <1>2, <1>3, <2>1 DEF Types, TypeOK
  <2>4. fired' \in BOOLEAN
    BY <1>1, <1>2 DEF Types
  <2>5. seen' \subseteq Fact /\ closed' \subseteq Fact
    BY <1>1, <1>2 DEF Types
  <2>6. /\ opened' = None
        /\ demand' \in {"off", "watched", "blurred", "unwatched"}
        /\ lastOpen' = None \/ lastOpen' \in Opening
    BY <1>1, <1>2 DEF Types
  <2> QED
    BY <2>2, <2>3, <2>4, <2>5, <2>6 DEF Types
<1>5. Asked'
  BY <1>2 DEF Asked, Unasked
<1>6. Known' /\ Counted' /\ Kept'
  BY <1>2 DEF Known, Counted, Kept
<1>7. Clustered'
  BY <1>1, <1>2 DEF Clustered
<1> QED
  BY <1>3, <1>4, <1>5, <1>6, <1>7 DEF IInv

LEMMA NextKeeps == IInv /\ [Next]_vars => IInv'
<1> SUFFICES ASSUME IInv, [Next]_vars
             PROVE  IInv'
  OBVIOUS
<1>1. ASSUME NEW s \in Samples, NEW t \in Times, Feed(s, t)
      PROVE  IInv'
  BY <1>1, FeedTypes, FeedAsked, FeedKnown, FeedKept, FeedClustered DEF IInv
<1>2. CASE Stop \/ Restart
  BY <1>2, RebuiltKeeps DEF Stop, Restart
<1>3. CASE UNCHANGED vars
  <2> USE <1>3 DEF vars
  <2>1. Types'
    BY DEF IInv, Types, TypeOK
  <2>2. Asked'
    BY DEF IInv, Asked
  <2>3. Known'
    BY DEF IInv, Known, Judges
  <2>4. Counted' /\ Kept'
    BY DEF IInv, Counted, Kept
  <2>5. Clustered'
    BY DEF IInv, Clustered
  <2> QED
    BY <2>1, <2>2, <2>3, <2>4, <2>5 DEF IInv
<1> QED
  BY <1>1, <1>2, <1>3 DEF Next

LEMMA Invariance == Spec => []IInv
BY Initially, NextKeeps, PTL DEF Spec

-----------------------------------------------------------------------------
(* Every variable of the observer keeps its shape, whatever snapshots      *)
(* arrive and wherever the clock jumps; a lead never exceeds the window.   *)
THEOREM TypeCorrect == Spec => []TypeOK
<1>1. IInv => TypeOK
  BY DEF IInv, Types
<1> QED
  BY <1>1, Invariance, PTL

(* An episode is scored, as a fault or as a quiet window, exactly when it  *)
(* was watched from the burner start of a known request to its natural end *)
(* with good data: what the flags of an episode add up to over any number  *)
(* of snapshots, clock jumps and restarts is what the snapshots said.      *)
THEOREM ScoresAreEarned == Spec => []ScoredIsClean
<1>1. Init => ScoredIsClean
  BY DEF Init, ScoredIsClean
<1>2. IInv /\ ScoredIsClean /\ [Next]_vars => ScoredIsClean'
  <2> SUFFICES ASSUME IInv, ScoredIsClean, [Next]_vars
               PROVE  ScoredIsClean'
    OBVIOUS
  <2>1. ASSUME NEW s \in Samples, NEW t \in Times, Feed(s, t)
        PROVE  ScoredIsClean'
    BY <2>1, FeedAs DEF Ends
  <2>2. CASE Stop \/ Restart
    BY <2>2, RebuiltKeeps DEF Stop, Restart
  <2>3. CASE UNCHANGED vars
    BY <2>3 DEF vars, ScoredIsClean, Scored
  <2> QED
    BY <2>1, <2>2, <2>3 DEF Next
<1> QED
  BY <1>1, <1>2, Invariance, PTL DEF Spec

(* The kind of a scored episode is the truth about the heat request: an    *)
(* internal restart exactly when the burner had already run in it.         *)
THEOREM KindsAreHonest == Spec => []KindIsHonest
<1>1. Init => KindIsHonest
  BY DEF Init, KindIsHonest, Scored
<1>2. IInv /\ KindIsHonest /\ [Next]_vars => KindIsHonest'
  <2> SUFFICES ASSUME IInv, KindIsHonest, [Next]_vars
               PROVE  KindIsHonest'
    OBVIOUS
  <2>1. ASSUME NEW s \in Samples, NEW t \in Times, Feed(s, t)
        PROVE  KindIsHonest'
    BY <2>1, FeedAs DEF Ends
  <2>2. CASE Stop \/ Restart
    BY <2>2, RebuiltKeeps DEF Stop, Restart
  <2>3. CASE UNCHANGED vars
    BY <2>3 DEF vars, KindIsHonest, Scored
  <2> QED
    BY <2>1, <2>2, <2>3 DEF Next
<1> QED
  BY <1>1, <1>2, Invariance, PTL DEF Spec

(* The lead that an opening incident credits to a rule is never longer     *)
(* than the age of a warning that really showed since the last restart or  *)
(* clock jump, and in this request or this episode wherever the observer   *)
(* knows when the request began.                                           *)
THEOREM LeadsAreHonest == Spec => []LeadIsHonest
<1>1. Init => LeadIsHonest
  BY DEF Init, LeadIsHonest
<1>2. IInv /\ LeadIsHonest /\ [Next]_vars => LeadIsHonest'
  <2> SUFFICES ASSUME IInv, LeadIsHonest, [Next]_vars
               PROVE  LeadIsHonest'
    OBVIOUS
  <2>1. ASSUME NEW s \in Samples, NEW t \in Times, Feed(s, t)
        PROVE  LeadIsHonest'
    BY <2>1, FeedAs DEF Lands
  <2>2. CASE Stop \/ Restart
    BY <2>2 DEF Stop, Restart, Rebuilt, LeadIsHonest
  <2>3. CASE UNCHANGED vars
    BY <2>3 DEF vars, LeadIsHonest, CreditedFrom
  <2> QED
    BY <2>1, <2>2, <2>3 DEF Next
<1> QED
  BY <1>1, <1>2, Invariance, PTL DEF Spec

(* No fault is lost: the snapshot that brings a new fault code leaves an   *)
(* episode that carries it, or ends the one that did.                      *)
THEOREM FaultsAreAttributed == Spec => FaultIsAttributed
<1>1. IInv /\ [Next]_vars =>
        [previous' # None /\ NewCode(previous', previous'.t) =>
            IF active' # None
            THEN active'.fault_at # None /\ active'.incident # None
            ELSE /\ finished' # None
                 /\ finished'.outcome \in {"fault", "censored_fault"}]_vars
  <2> SUFFICES ASSUME IInv, Next,
                      previous' # None, NewCode(previous', previous'.t)
               PROVE  IF active' # None
                      THEN active'.fault_at # None /\ active'.incident # None
                      ELSE /\ finished' # None
                           /\ finished'.outcome \in {"fault", "censored_fault"}
    OBVIOUS
  <2>1. PICK s \in Samples, t \in Times : Feed(s, t)
    BY DEF Next, Stop, Restart, Rebuilt
  <2>2. /\ Lands(s, t) /\ Ends(s, t)
        /\ previous' = [t |-> t, gas |-> s.gas, relay |-> s.relay,
                        code |-> s.code]
    BY <2>1, FeedAs
  <2>3. previous'.t = t /\ previous'.code = s.code
    BY <2>2
  <2>4. NewCode(s, t)
    BY <2>3 DEF NewCode, Fault
  <2> QED
    BY <2>2, <2>4 DEF Lands, Ends
<1> QED
  BY <1>1, Invariance, PTL DEF Spec, FaultIsAttributed

(* Openings within the incident window of each other carry one incident    *)
(* number, across episodes, restarts and a clock that is set back: the     *)
(* retries of one fault never count as several.                            *)
THEOREM ClustersAreOne == Spec => ClusterIsOneIncident
<1>1. IInv /\ [Next]_vars =>
        [opened' # None /\ lastOpen # None
           /\ opened'.t - lastOpen.t <= IncidentWindow
         => opened'.incident = lastOpen.incident]_vars
  <2> SUFFICES ASSUME IInv, Next, opened' # None, lastOpen # None,
                      opened'.t - lastOpen.t <= IncidentWindow
               PROVE  opened'.incident = lastOpen.incident
    OBVIOUS
  <2>1. PICK s \in Samples, t \in Times : Feed(s, t)
    BY DEF Next, Stop, Restart, Rebuilt
  <2>2. Types /\ Clustered
    BY DEF IInv
  <2>3. /\ NewCode(s, t) /\ opened'.t = t
        /\ opened'.incident = IncidentsAfter(s, t).sequence
    BY <2>1, FeedAs DEF Lands
  <2>4. /\ incidents.at # None /\ lastOpen.t <= incidents.at
        /\ lastOpen.incident = incidents.sequence
    BY <2>2 DEF Clustered
  <2>5. t \in Int /\ lastOpen.t \in Int /\ incidents.at \in Int
        /\ IncidentWindow \in Int
    <3>1. lastOpen.t \in Times /\ incidents.at \in Times
      BY <2>2, <2>4 DEF Types, TypeOK, Opening
    <3>2. Times \subseteq Int /\ IncidentWindow \in Int
      BY ObserverAssumption
    <3> QED
      BY <3>1, <3>2
  <2>6. ~NewIncident(t)
    BY <2>3, <2>4, <2>5 DEF NewIncident
  <2>7. IncidentsAfter(s, t).sequence = incidents.sequence
    BY <2>1, <2>2, <2>3, <2>6, FeedAs, IncidentsAs
  <2> QED
    BY <2>3, <2>4, <2>7
<1> QED
  BY <1>1, Invariance, PTL DEF Spec, ClusterIsOneIncident

=============================================================================
