---------------------------- MODULE RequestCycle ----------------------------
(***************************************************************************)
(* RequestCycleBuilder of custom_components/heating_observer/cycle.py.     *)
(*                                                                         *)
(* The builder is fed one telemetry snapshot at a time and cuts the stream *)
(* into request cycles, relay ON through relay OFF.  A finished cycle is   *)
(* either baseline material or mere evidence: eligible_for_baseline.       *)
(*                                                                         *)
(* A snapshot is abstracted to what that verdict looks at.  The Python     *)
(* values True, False and None of a switch are "on", "off" and "unknown".  *)
(* Temperatures, zone counts and burner starts are metrics of the summary  *)
(* and are left out; of the quality of a snapshot its set of flags stays.  *)
(***************************************************************************)
EXTENDS Integers

CONSTANTS Samples,       \* the snapshots that can arrive, without their time
          Times,         \* the readings of the clock
          TelemetryGap,  \* the longest silence that is not a gap
          FaultCodes,    \* FAULTS of engine.py
          NoFault,       \* any other service code
          DataFlags,     \* flags carried by the data: capture_gap, stale_flow..
          None

Tri == {"on", "off", "unknown"}

Snapshot == [relay: Tri, service: Tri, master: Tri, dhw: BOOLEAN,
             code: FaultCodes \cup {NoFault}, flags: SUBSET DataFlags]

QualityFlag == DataFlags \cup {"capture_gap", "unknown_relay",
                               "unknown_master", "unknown_service"}

Cycle == [incomplete: BOOLEAN, fault_codes: SUBSET FaultCodes,
          service_seen: BOOLEAN, master_off_seen: BOOLEAN,
          dhw_seen: BOOLEAN, quality_flags: SUBSET QualityFlag]

Reading == [t: Int, relay: Tri]

Transition == [kind: {"cycle_started", "cycle_completed"}, eligible: BOOLEAN]

\* What the documentation excludes from the baseline.
Defect == {"fault_at_start", "fault_later", "service", "master_not_on", "dhw",
           "quality", "silence", "unseen_start", "restart"}

ASSUME RequestCycleAssumption ==
    /\ Samples \subseteq Snapshot
    /\ Times \subseteq Int
    /\ TelemetryGap \in Nat
    /\ NoFault \notin FaultCodes
    /\ None \notin Cycle \cup Reading \cup Transition
    /\ \A r \in SUBSET Defect : r # None

VARIABLES
    previous,  \* the last snapshot fed, or None after construction
    active,    \* the cycle being built, or None
    emitted,   \* the transition the last call of feed returned, or None
    (***********************************************************************)
    (* What really happened, recorded from the snapshots alone.            *)
    (***********************************************************************)
    request,   \* defects of the open relay request, or None when it is off
    closed     \* defects of the request the last snapshot closed, or None

vars == <<previous, active, emitted, request, closed>>

-----------------------------------------------------------------------------
(***************************************************************************)
(* The request as an outside reader of the snapshots sees it.  It opens    *)
(* with the first reading of relay ON, survives restarts of the builder    *)
(* and closes with a reading of relay OFF.  The set collects everything    *)
(* the documentation excludes from the baseline.                           *)
(***************************************************************************)
Silence(t) == previous # None /\ t - previous.t > TelemetryGap

SeenOff(t) == previous # None /\ previous.relay = "off" /\ ~Silence(t)

Poor(s) == s.flags # {} \/ "unknown" \in {s.relay, s.master, s.service}

DefectsOf(s) == {d \in Defect :
    \/ d = "service" /\ s.service = "on"
    \/ d = "master_not_on" /\ s.master # "on"
    \/ d = "dhw" /\ s.dhw
    \/ d = "quality" /\ Poor(s)}

Opening(s, t) == DefectsOf(s) \cup {d \in Defect :
    \/ d = "fault_at_start" /\ s.code \in FaultCodes
    \/ d = "unseen_start" /\ ~SeenOff(t)}

Running(s, t) == request \cup DefectsOf(s) \cup {d \in Defect :
    \/ d = "fault_later" /\ s.code \in FaultCodes
    \/ d = "silence" /\ Silence(t)}

Witness(s, t) ==
    LET now == IF request # None THEN Running(s, t)
               ELSE IF s.relay = "on" THEN Opening(s, t) ELSE None
    IN  IF s.relay = "off"
        THEN request' = None /\ closed' = now
        ELSE request' = now /\ closed' = None

-----------------------------------------------------------------------------
(***************************************************************************)
(* The builder.                                                            *)
(***************************************************************************)
QualityFlags(s) == s.flags \cup {f \in QualityFlag :
    \/ f = "unknown_relay" /\ s.relay = "unknown"
    \/ f = "unknown_master" /\ s.master = "unknown"
    \/ f = "unknown_service" /\ s.service = "unknown"}

Start(s, incomplete) ==
    [incomplete      |-> incomplete,
     fault_codes     |-> {},
     service_seen    |-> s.service = "on",
     master_off_seen |-> s.master # "on",
     dhw_seen        |-> s.dhw,
     quality_flags   |-> QualityFlags(s)]

\* Mistake: a gap is noticed and not recorded.
AfterGapIgnored(c, t) == c

\* A gap noticed before the snapshot is merged marks the open cycle.
AfterGap(c, t) ==
    [c EXCEPT !.incomplete = @ \/ Silence(t),
              !.quality_flags =
                  @ \cup (IF Silence(t) THEN {"capture_gap"} ELSE {})]

\* Mistake: the service code is collected without looking it up in FAULTS.
UpdateEveryCode(c, s) ==
    [c EXCEPT !.fault_codes = @ \cup {s.code},
              !.service_seen = @ \/ s.service = "on",
              !.master_off_seen = @ \/ s.master # "on",
              !.dhw_seen = @ \/ s.dhw,
              !.quality_flags = @ \cup QualityFlags(s)]

Update(c, s) ==
    [c EXCEPT !.fault_codes = @ \cup ({s.code} \cap FaultCodes),
              !.service_seen = @ \/ s.service = "on",
              !.master_off_seen = @ \/ s.master # "on",
              !.dhw_seen = @ \/ s.dhw,
              !.quality_flags = @ \cup QualityFlags(s)]

EligibleForBaseline(c) ==
    /\ ~c.incomplete
    /\ c.fault_codes = {}
    /\ ~c.service_seen
    /\ ~c.master_off_seen
    /\ ~c.dhw_seen
    /\ c.quality_flags = {}

\* No previous snapshot and an unknown previous relay are treated alike.
LastRelay == IF previous = None THEN "unknown" ELSE previous.relay

Starting(s) == s.relay = "on" /\ LastRelay # "on"

\* feed, no cycle open: the snapshot starts one
StartCycle(s, t) ==
    /\ active = None
    /\ Starting(s)
    /\ active' = Start(s, LastRelay = "unknown" \/ Silence(t))
    /\ emitted' = [kind |-> "cycle_started", eligible |-> FALSE]

\* feed, no cycle open: the snapshot starts none
StayIdle(s) ==
    /\ active = None
    /\ ~Starting(s)
    /\ UNCHANGED active
    /\ emitted' = None

\* feed, a cycle is open and goes on
ContinueCycle(s, t) ==
    /\ active # None
    /\ s.relay # "off"
    /\ active' = Update(AfterGap(active, t), s)
    /\ emitted' = None

\* feed, a cycle is open and the relay is reported off
CompleteCycle(s, t) ==
    /\ active # None
    /\ s.relay = "off"
    /\ active' = None
    /\ emitted' = [kind |-> "cycle_completed",
                   eligible |-> EligibleForBaseline(
                                    Update(AfterGap(active, t), s))]

Feed(s, t) ==
    /\ \/ StartCycle(s, t)
       \/ StayIdle(s)
       \/ ContinueCycle(s, t)
       \/ CompleteCycle(s, t)
    /\ previous' = [t |-> t, relay |-> s.relay]
    /\ Witness(s, t)

\* Home Assistant restarts: a new builder, the relay stays where it is.
Restart ==
    /\ previous' = None
    /\ active' = None
    /\ emitted' = None
    /\ request' = IF request = None THEN None ELSE request \cup {"restart"}
    /\ closed' = None

Init ==
    /\ previous = None
    /\ active = None
    /\ emitted = None
    /\ request = None
    /\ closed = None

Next == \/ \E s \in Samples, t \in Times : Feed(s, t)
        \/ Restart

Spec == Init /\ [][Next]_vars

-----------------------------------------------------------------------------
(* Every variable keeps its shape. *)
TypeOK ==
    /\ previous \in Reading \cup {None}
    /\ active \in Cycle \cup {None}
    /\ emitted \in Transition \cup {None}
    /\ request \in {None} \cup SUBSET Defect
    /\ closed \in {None} \cup SUBSET Defect

(* A completed cycle is baseline material exactly when the whole relay     *)
(* request it stands for, across gaps, unknown readings and restarts of    *)
(* the builder, had no defect in any snapshot.  The one defect the builder *)
(* overlooks is excepted: a fault code in the very snapshot that starts    *)
(* the cycle (cycle.py:165), if it has gone by the next.                   *)
EligibleIsClean ==
    emitted # None /\ emitted.kind = "cycle_completed" =>
        /\ closed # None
        /\ emitted.eligible <=> closed \subseteq {"fault_at_start"}
=============================================================================
