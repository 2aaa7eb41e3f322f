---------------------------- MODULE ZoneDispatch ----------------------------
(***************************************************************************)
(* The central dispatch of heating/control/refactor_mode_schedule_         *)
(* override.yaml: the automation that walks over the zones, and the script *)
(* heating_apply_zone_target that writes one target to one valve and waits *)
(* for the valve to report it.  The hydraulic support automations of       *)
(* automations.yaml appear as the other caller of the script.              *)
(*                                                                         *)
(* Home Assistant runs templates, conditions and helper services without a *)
(* pause; a run can be overtaken only at a delay, a wait, a device action  *)
(* or a script call.  These are the steps here.  What a zone should have   *)
(* is reduced to the mode and to whether its comfort window is open; both  *)
(* are compared by value, as decision_inputs is.  A write of the target or *)
(* of the hvac mode reaches the valve and is reported, or is lost; it is   *)
(* never late.                                                             *)
(***************************************************************************)
EXTENDS Integers, Sequences, FiniteSets

CONSTANTS ZoneOrder,     \* the zones in the order they are visited
          SupportZones,  \* the zones that can give hydraulic support
          MaxCalls,      \* max of the queued script: 2
          MaxChanges,    \* bound on what happens around, for TLC
          None

Zones == {ZoneOrder[i] : i \in DOMAIN ZoneOrder}

\* Targets, by their order: economy, comfort, the 29 degrees of a support.
Eco == 1
Comfort == 2
Floor == 3

Mode == {"Off", "Eco", "Auto"}

ASSUME DispatchAssumption ==
    /\ ZoneOrder \in Seq(Zones)
    /\ SupportZones \subseteq Zones
    /\ {MaxCalls, MaxChanges} \subseteq Nat
    /\ None \notin {Eco, Comfort, Floor}
    /\ None \notin Mode \X BOOLEAN

VARIABLES
    mode, window,     \* topny_rezim, the zones whose comfort window is open
    master,           \* topny_system_enable
    enabled,          \* heating_central_dispatch_enable
    support,          \* topeni_hydraulicka_podpurna_zona
    normal,           \* heating_flow_state_v4 is NORMAL
    valve,            \* the target each valve reports, None when it does not
    heat,             \* the valves in hvac mode heat
    due,              \* a trigger of the dispatch is waiting to fire
    run,              \* the run of the dispatch: where, intent, what next
    calls,            \* the calls of the script, the first one executing
    step, decision,   \* where that call is suspended and what it decided
    notified,         \* zones with the notification of a missing confirmation
    refused,          \* zones whose last call found the script's queue full
    changes

inputs == <<mode, window, master, enabled, support, normal>>
script == <<calls, step, decision>>
vars == <<inputs, valve, heat, due, run, script, notified, refused, changes>>

-----------------------------------------------------------------------------
Intent == CASE mode = "Off" -> "off"
            [] mode = "Eco" -> "eco"
            [] OTHER -> "auto"

\* decision_inputs and expected_inputs of one zone
Inputs(z) == <<mode, z \in window>>

Want(z) == IF mode = "Auto" /\ z \in window THEN Comfort ELSE Eco

Supporting(z) == support = z /\ master /\ normal

\* What the valve of a zone should be set to in the end.
Goal(z) == IF Supporting(z) THEN Floor ELSE Want(z)

Undecided == [target |-> None, inputs |-> None]

\* Mistake: a call is accepted although the queue is full.
RoomOffByOne(cs) == Len(cs) <= MaxCalls

Room(cs) == Len(cs) < MaxCalls

Call(by, z, temp, expected) ==
    [by |-> by, zone |-> z, temp |-> temp, expected |-> expected]

\* Mistake: the call of the run that is replaced goes on.
NotCancelled(by, cs) == cs

\* A run that is restarted takes its call with it, executing or queued.
Cancelled(by, cs) ==
    IF \A i \in DOMAIN cs : cs[i].by # by THEN cs
    ELSE LET i == CHOOSE j \in DOMAIN cs : cs[j].by = by
         IN  SubSeq(cs, 1, i - 1) \o SubSeq(cs, i + 1, Len(cs))

\* The first call begins anew unless it is still the one it was.
Rewind(cs) ==
    IF cs # <<>> /\ calls # <<>> /\ cs[1] = calls[1]
    THEN UNCHANGED <<step, decision>>
    ELSE step' = "start" /\ decision' = Undecided

-----------------------------------------------------------------------------
(***************************************************************************)
(* heating_apply_zone_target.                                              *)
(***************************************************************************)
This == calls[1]

Returns ==
    /\ calls' = Tail(calls)
    /\ step' = "start"
    /\ decision' = Undecided
    /\ run' = IF This.by = "dispatch" THEN [run EXCEPT !.at = "loop"] ELSE run

Stops == Returns /\ UNCHANGED notified

Confirms == Returns /\ notified' = notified \ {This.zone}

Fails == Returns /\ notified' = notified \cup {This.zone}

GoesTo(s) == step' = s /\ UNCHANGED <<calls, decision, run, notified>>

AsExpected(c) == c.expected = None \/ c.expected = Inputs(c.zone)

\* What both writes and both waits look at: the state of the climate entity.
InHeat == valve[This.zone] # None /\ This.zone \in heat

\* set_temperature, skipped when the valve already reports the target
Send(target) ==
    /\ \/ valve' = [valve EXCEPT ![This.zone] =
                        IF @ = None THEN None ELSE target]
       \/ UNCHANGED valve
    /\ UNCHANGED heat

\* set_hvac_mode, which suspends the call
TurnToHeat ==
    /\ \/ valve[This.zone] # None /\ heat' = heat \cup {This.zone}
       \/ UNCHANGED heat
    /\ UNCHANGED valve

\* Conditions, the decision and the target, then the first device action.
Begin ==
    /\ calls # <<>>
    /\ step = "start"
    /\ LET target == IF Supporting(This.zone) THEN Floor ELSE This.temp
       IN  IF /\ master /\ mode # "Off"
              /\ AsExpected(This)
              /\ valve[This.zone] # None
           THEN /\ decision' = [target |-> target,
                                inputs |-> Inputs(This.zone)]
                /\ IF InHeat THEN step' = "wait" /\ Send(target)
                             ELSE step' = "write" /\ TurnToHeat
                /\ UNCHANGED <<calls, run, notified>>
           ELSE Stops /\ UNCHANGED <<valve, heat>>
    /\ UNCHANGED <<inputs, due, refused, changes>>

\* Mistake: only the master switch is looked at again after an await.
MasterOnly == master

StillValid == master /\ Inputs(This.zone) = decision.inputs

AtTarget == This.zone \in heat /\ valve[This.zone] = decision.target

\* The hvac mode was set: the inputs are compared again before the target.
Write ==
    /\ calls # <<>>
    /\ step = "write"
    /\ IF StillValid THEN Send(decision.target) /\ GoesTo("wait")
                     ELSE Stops /\ UNCHANGED <<valve, heat>>
    /\ UNCHANGED <<inputs, due, refused, changes>>

\* The backoff is over: the inputs are compared, then the mode is set anew.
Retry ==
    /\ calls # <<>>
    /\ step = "backoff"
    /\ IF ~StillValid THEN Stops /\ UNCHANGED <<valve, heat>>
       ELSE IF InHeat THEN Send(decision.target) /\ GoesTo("wait_again")
       ELSE TurnToHeat /\ GoesTo("retry")
    /\ UNCHANGED <<inputs, due, refused, changes>>

\* After that call the target is sent without another comparison.
Resend ==
    /\ calls # <<>>
    /\ step = "retry"
    /\ Send(decision.target)
    /\ GoesTo("wait_again")
    /\ UNCHANGED <<inputs, due, refused, changes>>

\* The short wait: confirmed, not to be retried, or a backoff of 2 seconds.
FirstWaitEnds ==
    /\ calls # <<>>
    /\ step = "wait"
    /\ IF ~StillValid THEN Stops
       ELSE IF AtTarget THEN Confirms
       ELSE IF valve[This.zone] = None THEN Fails
       ELSE GoesTo("backoff")
    /\ UNCHANGED <<inputs, valve, heat, due, refused, changes>>

SecondWaitEnds ==
    /\ calls # <<>>
    /\ step = "wait_again"
    /\ IF ~StillValid THEN Stops
       ELSE IF AtTarget THEN Confirms ELSE Fails
    /\ UNCHANGED <<inputs, valve, heat, due, refused, changes>>

Script == \/ Begin \/ Write
          \/ FirstWaitEnds
          \/ Retry \/ Resend
          \/ SecondWaitEnds

-----------------------------------------------------------------------------
(***************************************************************************)
(* The dispatch automation, mode restart.                                  *)
(***************************************************************************)
Idle == [at |-> "idle", intent |-> "off", rest |-> <<>>]

Permitted == master /\ enabled

\* A trigger fires; its conditions let the run start, in place of another.
Fire ==
    /\ due
    /\ due' = FALSE
    /\ IF Permitted
       THEN /\ run' = [Idle EXCEPT !.at = "delay"]
            /\ calls' = Cancelled("dispatch", calls)
            /\ Rewind(calls')
       ELSE UNCHANGED <<run, script>>
    /\ UNCHANGED <<inputs, valve, heat, notified, refused, changes>>

\* After the delay of 2 seconds the intent is read, then the loop begins.
DelayEnds ==
    /\ run.at = "delay"
    /\ run' = IF Permitted /\ Intent # "off"
              THEN [at |-> "loop", intent |-> Intent, rest |-> ZoneOrder]
              ELSE Idle
    /\ UNCHANGED <<inputs, valve, heat, due, script, notified, refused, changes>>

\* One zone of the loop: skipped, called, or refused by a full queue.
Visit ==
    /\ run.at = "loop"
    /\ run.rest # <<>>
    /\ LET z == Head(run.rest)
           left == [run EXCEPT !.rest = Tail(@)]
           asked == Permitted /\ Intent = run.intent
       IN  IF asked /\ Room(calls)
           THEN /\ calls' = Append(calls,
                                  Call("dispatch", z, Want(z), Inputs(z)))
                /\ run' = [left EXCEPT !.at = "calling"]
                /\ refused' = refused \ {z}
           ELSE /\ run' = left
                /\ refused' = IF asked THEN refused \cup {z} ELSE refused
                /\ UNCHANGED calls
    /\ UNCHANGED <<inputs, valve, heat, due, step, decision, notified, changes>>

LoopEnds ==
    /\ run.at = "loop"
    /\ run.rest = <<>>
    /\ run' = Idle
    /\ UNCHANGED <<inputs, valve, heat, due, script, notified, refused, changes>>

Dispatch == DelayEnds \/ Visit \/ LoopEnds

-----------------------------------------------------------------------------
(***************************************************************************)
(* Hydraulic support, as far as the dispatch meets it.                     *)
(***************************************************************************)
Change == changes < MaxChanges /\ changes' = changes + 1

CallsOf(by) == {i \in DOMAIN calls : calls[i].by = by}

\* Start: a zone is selected and set to 29 degrees.
Select(z) ==
    /\ Change
    /\ support = None /\ normal /\ Permitted /\ mode # "Off"
    /\ CallsOf("start") = {}
    /\ support' = z
    /\ calls' = IF Room(calls)
                THEN Append(calls, Call("start", z, Floor, None))
                ELSE calls
    /\ UNCHANGED <<mode, window, master, enabled, normal, valve, heat, due, run,
                   step, decision, notified, refused>>

\* Mistake: the dispatch is not asked to take the zone back.
ReleasedSilently == due

Released == TRUE

Unfit == ~master \/ mode = "Off" \/ ~normal

\* Guard: the zone is released, because it must be or for a reason of its own.
Deselect ==
    /\ support # None
    /\ IF Unfit THEN UNCHANGED changes ELSE Change
    /\ support' = None
    /\ calls' = Cancelled("guard", calls)
    /\ Rewind(calls')
    /\ due' = Released
    /\ UNCHANGED <<mode, window, master, enabled, normal, valve, heat, run,
                   notified, refused>>

\* Guard: the zone does not report 29 degrees, so it is set again.
Maintain ==
    /\ support # None
    /\ ~Unfit
    /\ valve[support] \notin {None, Floor}
    /\ CallsOf("guard") = {}
    /\ Room(calls)
    /\ calls' = Append(calls, Call("guard", support, Floor, None))
    /\ UNCHANGED <<inputs, valve, heat, due, run, step, decision, notified,
                   refused, changes>>

-----------------------------------------------------------------------------
(***************************************************************************)
(* Everything around.  Every change of a decision input is a trigger.      *)
(***************************************************************************)
Unmoved == UNCHANGED <<run, script, notified, refused>>

SetInputs ==
    /\ Change
    /\ \/ mode' \in Mode \ {mode} /\ UNCHANGED <<window, master, enabled>>
       \/ /\ \E z \in Zones : window' = (window \ {z}) \cup ({z} \ window)
          /\ UNCHANGED <<mode, master, enabled>>
       \/ master' = ~master /\ UNCHANGED <<mode, window, enabled>>
       \/ enabled' = ~enabled /\ UNCHANGED <<mode, window, master>>
    /\ due' = TRUE
    /\ UNCHANGED <<support, normal, valve, heat>>
    /\ Unmoved

\* The flow controller leaves or reaches NORMAL: no trigger of the dispatch.
SetNormal ==
    /\ Change
    /\ normal' = ~normal
    /\ UNCHANGED <<mode, window, master, enabled, support, valve, heat, due>>
    /\ Unmoved

\* A valve stops reporting, or reports again what it had kept.
Vanish(z) ==
    /\ Change
    /\ valve[z] # None
    /\ valve' = [valve EXCEPT ![z] = None]
    /\ UNCHANGED <<inputs, heat, due>>
    /\ Unmoved

Return(z) ==
    /\ valve[z] = None
    /\ \E v \in {Eco, Comfort, Floor} : valve' = [valve EXCEPT ![z] = v]
    /\ due' = TRUE
    /\ UNCHANGED <<inputs, heat, changes>>
    /\ Unmoved

\* A valve leaves heat, at its own wheel or from another panel: no trigger.
SwitchOff(z) ==
    /\ Change
    /\ z \in heat
    /\ heat' = heat \ {z}
    /\ UNCHANGED <<inputs, valve, due>>
    /\ Unmoved

Init ==
    /\ mode = "Auto" /\ window = {} /\ master = TRUE /\ enabled = TRUE
    /\ support = None /\ normal = TRUE
    /\ valve = [z \in Zones |-> Eco]
    /\ heat = Zones
    /\ due = FALSE
    /\ run = Idle
    /\ calls = <<>>
    /\ step = "start"
    /\ decision = Undecided
    /\ notified = {}
    /\ refused = {}
    /\ changes = 0

Next == \/ Script \/ Fire \/ Dispatch
        \/ \E z \in SupportZones : Select(z)
        \/ Deselect \/ Maintain
        \/ SetInputs \/ SetNormal
        \/ \E z \in Zones : Vanish(z) \/ Return(z) \/ SwitchOff(z)

\* Timers run out, services return and the guard looks every minute.  People,
\* valves and the flow controller owe nothing; an unfit support is released.
Spec == /\ Init /\ [][Next]_vars
        /\ WF_vars(Script) /\ WF_vars(Fire) /\ WF_vars(Dispatch)
        /\ WF_vars(Maintain) /\ WF_vars(Unfit /\ Deselect)

-----------------------------------------------------------------------------
(* Every variable keeps its shape and the script its bound. *)
TypeOK ==
    /\ mode \in Mode /\ window \subseteq Zones
    /\ support \in SupportZones \cup {None}
    /\ valve \in [Zones -> {Eco, Comfort, Floor, None}]
    /\ run.at \in {"idle", "delay", "loop", "calling"}
    /\ Len(calls) <= MaxCalls
    /\ heat \subseteq Zones
    /\ step \in {"start", "write", "wait", "backoff", "retry", "wait_again"}
    /\ decision.target = None <=> step = "start"
    /\ notified \subseteq Zones /\ refused \subseteq Zones

(* The run of the dispatch and the script agree on whether the dispatch is *)
(* waiting for a call, across restarts of the run: no call of a run that   *)
(* was replaced goes on, and no run waits for a call that is gone.         *)
OneCallPerRun ==
    Cardinality(CallsOf("dispatch")) = (IF run.at = "calling" THEN 1 ELSE 0)

\* What the executing call may write now: heating is wanted, and a call of
\* the dispatch writes what the inputs ask for, or the floor of a support.
Fresh(z, target) ==
    /\ master /\ mode # "Off"
    /\ This.by = "dispatch" => target \in {Want(z), Floor}

Written(z) == valve'[z] # valve[z] /\ None \notin {valve[z], valve'[z]}

(* A call never writes while the master is off or the mode is Off, and a   *)
(* call of the dispatch writes only what the inputs of this very moment    *)
(* ask for: "do not send its old setpoint if policy or this zone's inputs  *)
(* changed during that await".  One write is outside: that of a retry      *)
(* which had to turn the valve back to heat.  It was fresh when that began *)
(* and is not compared afterwards.                                         *)
NoStaleWrite ==
    [][/\ \A z \in Zones : Written(z) => Fresh(z, valve'[z]) \/ step = "retry"
       /\ step' = "retry" /\ step # "retry" =>
              Fresh(This.zone, decision.target)]_vars

(* When everything around has come to rest, each valve has what its zone   *)
(* should have, or a notification says that it has not, or its last call   *)
(* was turned away by the full queue of the script: the one way to miss a  *)
(* zone in silence.                                                        *)
NoSilentMiss ==
    \A z \in Zones :
        <>[](Permitted /\ mode # "Off" /\ valve[z] # None =>
                valve[z] = Goal(z) \/ z \in notified \/ z \in refused)

(* "If the zone is selected as support in Flow V4 NORMAL, the ordinary     *)
(* dispatch must not pull it below 29 degrees", description of the script. *)
SupportFloor ==
    [][\A z \in Zones :
         Supporting(z) /\ valve[z] = Floor => valve'[z] \in {Floor, None}]_vars
=============================================================================
