-------------------------- MODULE HydraulicSupport --------------------------
(***************************************************************************)
(* The hydraulic support of automations.yaml: heating_hydraulic_support_   *)
(* start and heating_hydraulic_support_guard.  When exactly one zone asks  *)
(* for heat, a second one is opened at 29 degrees as its support; when the *)
(* support has confirmed that it is open, the threshold above which the    *)
(* boiler counts a zone may be lowered so that the support is counted.     *)
(*                                                                         *)
(* The guard starts over at every trigger and looks at the world 2 seconds *)
(* later; from there to its end it does not wait, except for the call that *)
(* opens the valve again.  The start waits for that call and then for up   *)
(* to 5 minutes.  Whether the valve does what it is told is up to it;      *)
(* ZoneDispatch has the script in between.                                 *)
(***************************************************************************)
EXTENDS Integers, FiniteSets

CONSTANTS Candidates,  \* the zones that can give support
          Others,      \* the other zones
          Level,       \* what valves report and thresholds, in steps
          Unit,        \* the steps of one percent
          PiMin,       \* the least report that confirms a support: 5 percent
          MaxChanges,  \* bound on what happens around, for TLC
          None

Zones == Candidates \cup Others

\* int() of a report, which cuts the part below one percent off
Truncated(level) == level - (level % Unit)

Whole == {level \in Level : Truncated(level) = level}

ASSUME SupportAssumption ==
    /\ Level \subseteq Nat
    /\ 0 \in Level
    /\ Unit \in Nat \ {0}
    /\ PiMin \in Level \ {0}
    /\ MaxChanges \in Nat
    /\ None \notin Zones
    /\ Candidates \cap Others = {}
    /\ IsFiniteSet(Zones)

VARIABLES
    support,    \* topeni_hydraulicka_podpurna_zona
    age,        \* its age: 0 below 30 seconds, 2 from 5 minutes on
    threshold,  \* kotel_min_zone_demand_pct
    saved,      \* topeni_hydraulicka_podpora_puvodni_min_demand_zony
    lowered,    \* topeni_hydraulicka_podpora_docasny_pi_prah
    cooldown,   \* timer.topeni_hydraulicka_podpora_cooldown is active
    guard,      \* the run of the guard
    start,      \* the run of the start and the zone it selected
    pi,         \* zone |-> what its valve reports, a number with fractions
    live,       \* candidates whose report counts: the valve is in heat, was
                \* heard of within 120 minutes, and no window is open
    open,       \* candidates whose valve reports 29 degrees
    needs,      \* candidates whose valve reports that it needs heat
    healthy,    \* candidates that are fit, in flow NORMAL and not mode Off
    permitted,  \* topny_system_enable is on and heating_service_mode off
    changes

loan == <<threshold, saved, lowered>>
world == <<pi, live, open, needs, healthy, permitted>>
vars == <<support, age, loan, cooldown, guard, start, world, changes>>

-----------------------------------------------------------------------------
\* sensor.zona_<zone>_demand, 0 also for a zone that is not active
Demand(z) == IF z \in Candidates \ live THEN 0 ELSE Truncated(pi[z])

\* Mistake: a demand that just reaches the threshold does not count.
CountedAbove(z, limit) == Demand(z) > limit

Counted(z, limit) == Demand(z) > 0 /\ Demand(z) >= limit

\* sensor.kotel_aktivni_zony_pocet
Count == Cardinality({z \in Zones : Counted(z, threshold)})

\* original_threshold
Original == IF lowered THEN saved ELSE threshold

\* real_high_count: the support does not count as a requester
Requesters == {z \in Zones \ {support} : Counted(z, Original)}

OneRequester == Cardinality(Requesters) = 1

\* The guard asks the valve itself, not the demand that is counted.
Feedback(z) == z \in open /\ z \in needs /\ pi[z] >= PiMin

Fit == permitted /\ support \in healthy

\* desired_bridge_threshold
Desired ==
    LET floor == IF pi[support] > PiMin THEN pi[support] ELSE PiMin
    IN  IF floor < Original THEN floor ELSE Original

Restore ==
    /\ threshold' = IF lowered THEN saved ELSE threshold
    /\ lowered' = FALSE
    /\ UNCHANGED saved

\* Mistake: the threshold in force is saved, also when it is lowered already.
LendSavesAlways ==
    /\ saved' = threshold
    /\ lowered' = TRUE
    /\ threshold' = Desired

\* Mistake: a bridge that stands does not follow the demand.
LendOnce ==
    /\ saved' = IF lowered THEN saved ELSE threshold
    /\ lowered' = TRUE
    /\ threshold' = IF lowered THEN threshold ELSE Desired

Lend ==
    /\ saved' = IF lowered THEN saved ELSE threshold
    /\ lowered' = TRUE
    /\ threshold' = Desired

Deselect == support' = None /\ age' = 0

Idle == [at |-> "idle", zone |-> None]

-----------------------------------------------------------------------------
(***************************************************************************)
(* The guard.  Its branches in their order; each one ends the run.         *)
(***************************************************************************)
Looks(next) ==
    /\ guard = "delay"
    /\ guard' = next
    /\ UNCHANGED <<start, world, changes>>

GuardFindsNone ==
    /\ support = None
    /\ Looks("idle")
    /\ Restore
    /\ UNCHANGED <<support, age, cooldown>>

\* Right after the choice nobody may ask strongly for a moment.
Settling == Requesters = {} /\ age = 0

\* Mistake: the support is dropped and the threshold stays lowered.
KeepsLoan == UNCHANGED loan

\* The support is released: not fit, or not exactly one zone asks for heat.
ReleaseEnds == Restore

GuardReleases ==
    /\ support # None
    /\ ~Fit \/ (~Settling /\ ~OneRequester)
    /\ Looks("idle")
    /\ ReleaseEnds
    /\ Deselect
    /\ UNCHANGED cooldown

GuardSettles ==
    /\ support # None /\ Fit /\ Settling
    /\ Looks("idle")
    /\ Restore
    /\ UNCHANGED <<support, age, cooldown>>

\* Something closed the valve; the run goes on with the call of the script.
GuardReopens ==
    /\ support # None /\ Fit /\ OneRequester
    /\ support \notin open
    /\ Looks("applying")
    /\ Restore
    /\ UNCHANGED <<support, age, cooldown>>

\* Mistake: the age of the support is not looked at.
NeverOverdue == FALSE

Overdue == age = 2

GuardGivesUp ==
    /\ support # None /\ Fit /\ OneRequester
    /\ support \in open /\ ~Feedback(support) /\ Overdue
    /\ Looks("idle")
    /\ Restore
    /\ Deselect
    /\ cooldown' = TRUE

GuardWaits ==
    /\ support # None /\ Fit /\ OneRequester
    /\ support \in open /\ ~Feedback(support) /\ ~Overdue
    /\ Looks("idle")
    /\ Restore
    /\ UNCHANGED <<support, age, cooldown>>

GuardConfirms ==
    /\ support # None /\ Fit /\ OneRequester
    /\ Feedback(support)
    /\ Looks("idle")
    /\ IF Desired < Original THEN Lend ELSE Restore
    /\ UNCHANGED <<support, age, cooldown>>

\* The valve reports 29 degrees, which is a trigger, or the script gives up.
GuardApplied ==
    /\ guard = "applying"
    /\ \/ open' = open \cup {support} /\ guard' = "delay"
       \/ UNCHANGED open /\ guard' = "idle"
    /\ UNCHANGED <<support, age, loan, cooldown, start, pi, live, needs,
                   healthy, permitted, changes>>

Minute ==
    /\ guard = "idle"
    /\ guard' = "delay"
    /\ UNCHANGED <<support, age, loan, cooldown, start, world, changes>>

Guard == \/ GuardFindsNone \/ GuardReleases \/ GuardSettles \/ GuardReopens
         \/ GuardGivesUp \/ GuardWaits \/ GuardConfirms \/ GuardApplied

-----------------------------------------------------------------------------
(***************************************************************************)
(* The start, mode single.                                                 *)
(***************************************************************************)
Eligible(z) == z \in healthy /\ Demand(z) < threshold

StartSelects(z) ==
    /\ start = Idle
    /\ permitted /\ support = None /\ ~lowered /\ ~cooldown
    /\ Count = 1
    /\ Eligible(z)
    /\ support' = z
    /\ age' = 0
    /\ start' = [at |-> "applying", zone |-> z]
    /\ guard' = "delay"
    /\ UNCHANGED <<loan, cooldown, world, changes>>

StartApplied ==
    /\ start.at = "applying"
    /\ start' = [start EXCEPT !.at = "waiting"]
    /\ \/ open' = open \cup {start.zone} /\ guard' = "delay"
       \/ UNCHANGED <<open, guard>>
    /\ UNCHANGED <<support, age, loan, cooldown, pi, live, needs, healthy,
                   permitted, changes>>

WaitOver ==
    /\ start.at = "waiting"
    /\ Count >= 2 \/ ~permitted \/ support # start.zone \/ Overdue

StartConfirmed == support # None /\ Count >= 2 /\ Feedback(support)

StartSucceeds ==
    /\ WaitOver
    /\ StartConfirmed
    /\ start' = Idle
    /\ UNCHANGED <<support, age, loan, cooldown, guard, world, changes>>

\* Mistake: the guard does not hear of the selection.
NotTriggered == guard

\* A change of the selection triggers the guard.
Triggered == IF support = None THEN guard ELSE "delay"

\* The support is over, in one way or the other.
Abandons(cool) ==
    /\ WaitOver
    /\ ~StartConfirmed
    /\ start' = Idle
    /\ Restore
    /\ Deselect
    /\ cooldown' = (cooldown \/ cool)
    /\ guard' = Triggered
    /\ UNCHANGED <<world, changes>>

StartAborts ==
    /\ support # start.zone \/ ~permitted
    /\ Abandons(FALSE)

StartFails ==
    /\ support = start.zone /\ permitted
    /\ Abandons(TRUE)

Start == StartApplied \/ StartSucceeds \/ StartAborts \/ StartFails

-----------------------------------------------------------------------------
(***************************************************************************)
(* Everything around; what the guard looks at triggers it.  Of the other   *)
(* zones only the demand matters, which is whole.                          *)
(***************************************************************************)
Change == changes < MaxChanges /\ changes' = changes + 1

Flip(S, z) == (S \ {z}) \cup ({z} \ S)

WorldChanges ==
    /\ Change
    /\ guard' = "delay"
    /\ \/ /\ \E z \in Zones :
               \E d \in IF z \in Candidates THEN Level ELSE Whole :
                  pi' = [pi EXCEPT ![z] = d]
          /\ UNCHANGED <<live, open, needs, healthy, permitted>>
       \/ /\ \E z \in Candidates : live' = Flip(live, z)
          /\ UNCHANGED <<pi, open, needs, healthy, permitted>>
       \/ /\ \E z \in Candidates : open' = Flip(open, z)
          /\ UNCHANGED <<pi, live, needs, healthy, permitted>>
       \/ /\ \E z \in Candidates : needs' = Flip(needs, z)
          /\ UNCHANGED <<pi, live, open, healthy, permitted>>
       \/ /\ \E z \in Candidates : healthy' = Flip(healthy, z)
          /\ UNCHANGED <<pi, live, open, needs, permitted>>
       \/ /\ permitted' = ~permitted
          /\ UNCHANGED <<pi, live, open, needs, healthy>>
    /\ UNCHANGED <<support, age, loan, cooldown, start>>

\* People set the threshold.
SetThreshold ==
    /\ Change
    /\ threshold' \in Whole
    /\ UNCHANGED <<support, age, saved, lowered, cooldown, guard, start,
                   world>>

Tick ==
    /\ support # None
    /\ age < 2
    /\ age' = age + 1
    /\ UNCHANGED <<support, loan, cooldown, guard, start, world, changes>>

CooldownEnds ==
    /\ cooldown
    /\ cooldown' = FALSE
    /\ UNCHANGED <<support, age, loan, guard, start, world, changes>>

\* Home Assistant restarts: the helpers are restored, the runs are gone.
Restart ==
    /\ Change
    /\ start' = Idle
    /\ guard' = "delay"
    /\ age' = 0
    /\ UNCHANGED <<support, loan, cooldown, world>>

Init ==
    /\ support = None /\ age = 0
    /\ threshold \in Whole \ {0} /\ saved = threshold /\ lowered = FALSE
    /\ cooldown = FALSE
    /\ guard = "idle" /\ start = Idle
    /\ pi = [z \in Zones |-> 0] /\ live = Candidates
    /\ open = {} /\ needs = {} /\ healthy = Candidates /\ permitted = TRUE
    /\ changes = 0

Next == \/ Guard \/ Minute \/ Start
        \/ \E z \in Candidates : StartSelects(z)
        \/ WorldChanges \/ SetThreshold \/ Tick \/ CooldownEnds \/ Restart

\* Delays, timeouts and script calls end and the clock goes on; whether the
\* start ever finds a zone to select, and what people do, is left open.
Spec == /\ Init /\ [][Next]_vars
        /\ WF_vars(Guard) /\ WF_vars(Minute) /\ WF_vars(Start) /\ WF_vars(Tick)

-----------------------------------------------------------------------------
(* Every variable keeps its shape. *)
TypeOK ==
    /\ support \in Candidates \cup {None}
    /\ age \in 0..2
    /\ threshold \in Level /\ saved \in Level
    /\ lowered \in BOOLEAN /\ cooldown \in BOOLEAN /\ permitted \in BOOLEAN
    /\ guard \in {"idle", "delay", "applying"}
    /\ start = Idle
         \/ start \in [at: {"applying", "waiting"}, zone: Candidates]
    /\ pi \in [Zones -> Level]
    /\ live \subseteq Candidates
    /\ open \subseteq Candidates /\ needs \subseteq Candidates
    /\ healthy \subseteq Candidates
    /\ guard = "applying" => support # None

(* The threshold is lowered only for a support that is selected, whoever   *)
(* ends it: guard, start or a restart between the two.                     *)
LentToSupport == lowered => support # None

Loan == INSTANCE ThresholdLoan WITH own <- Original, lent <- lowered

(* The two automations together treat the threshold as a loan: what people *)
(* have set, saved before the first lowering, is what comes back.          *)
LoanIsKept == Loan!Spec

(* The zone demand of z shows all that its valve reports.                  *)
Shown(z) == Demand(z) = pi[z]

(* The bridge is laid only when one zone is counted, and for a report that *)
(* is confirmed and below the threshold.  It then turns one counted zone   *)
(* into two, the support among them, exactly when the zone demand shows    *)
(* what the valve reports: the threshold is the valve's own number, the    *)
(* count takes the zone demand, which is cut to whole percents and is 0    *)
(* for a valve that is not in heat or was not heard of for 120 minutes.    *)
BridgeIsExact ==
    [][~lowered /\ lowered' =>
          /\ Count = 1
          /\ Counted(support, threshold') <=> Shown(support)
          /\ Shown(support) => Count' >= 2]_vars

(* When the world around has come to rest, the threshold is lowered only   *)
(* for a support that is confirmed, with exactly one zone asking, and by   *)
(* what the support then reports: feedback that is lost, also while a run  *)
(* is under way, gives the threshold back.                                 *)
CalmIsHonest ==
    <>[](lowered => /\ Fit /\ OneRequester /\ Feedback(support)
                    /\ threshold = Desired)

(* A support that never confirms is not held for ever, also when a restart *)
(* has ended the run that was waiting for it.  A valve that does not take  *)
(* the 29 degrees is excepted: reopening it comes before the timeout.      *)
NoEndlessForcing ==
    support # None ~>
        \/ support = None
        \/ Feedback(support)
        \/ support \notin open

(* "If support cannot be confirmed within five minutes, the attempt is     *)
(* cancelled and a 15-minute cooldown prevents repeated valve forcing",    *)
(* docs/single-zone-hydraulic-support.md:38-39.                            *)
CooldownIsEarned == [][~cooldown /\ cooldown' => Overdue]_vars
=============================================================================
