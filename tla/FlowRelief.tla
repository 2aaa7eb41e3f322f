----------------------------- MODULE FlowRelief -----------------------------
(***************************************************************************)
(* Protection of the boiler against low flow: the state machine "Flow-     *)
(* relief V4" of automations.yaml with what works beside it: the restore   *)
(* script, service mode, the memory of the main switch, the timer that     *)
(* ends every lockout, and the only automation that closes the relay.      *)
(*                                                                         *)
(* What waits, but the restore script, runs in mode restart: a trigger     *)
(* cancels the run before it, and with it the script that run had called.  *)
(* Between two waits a run does not yield, so an action goes from one wait *)
(* to the next.  The answer of the relay is waited for where something is  *)
(* left to do that others look at: at the end of service mode and in the   *)
(* first steps of the restore script.  Triggers of V4 are answered at once *)
(* (due), seconds come before minutes, and Tick is 2 minutes.              *)
(***************************************************************************)
EXTENDS Integers

CONSTANTS Plants,      \* what the boiler and the zones may report
          PathTest,    \* ticks until open paths must be confirmed: 120 s
          Limit,       \* ticks until a lockout ends: 10 min
          StartDelay,  \* ticks before the relay closes: 120 s
          Calm,        \* ticks of a steady flow state before that: 240 s
          MaxChanges   \* bound on what happens around, for TLC

Reading == [block : {"cool", "warm", "hot"},  \* below 60, to 72, above
            fault : BOOLEAN,      \* service code 2964 to 2967
            bus : BOOLEAN,        \* EMS connected
            gas : BOOLEAN,        \* the burner burns, or the pump runs
            confirmed : BOOLEAN,  \* heating_flow_relief_confirmed
            wanted : BOOLEAN]     \* zones, mode and hot water allow heating

ASSUME FlowAssumption ==
    /\ Plants \subseteq Reading
    /\ {PathTest, Limit, StartDelay, Calm} \subseteq Nat \ {0}
    /\ MaxChanges \in Nat

VARIABLES
    flow,      \* heating_flow_state_v4
    lockout,   \* heating_flow_relief_lockout
    paths,     \* heating_flow_paths_verified_v4
    verified,  \* heating_restore_verified
    armed,     \* heating_flow_relief_resume_armed
    resume,    \* heating_service_restore_main_enable
    master,    \* topny_system_enable
    relay,     \* kotel_rele_spinac
    service,   \* heating_service_mode
    opened,    \* the batches of valves that stand at 29 degrees
    v4,        \* what the run of V4 waits for
    script,    \* the restore script and who called it
    svc,       \* the run that ends service mode
    memory,    \* the run that remembers the main switch
    start,     \* ticks until the relay closes
    calm,      \* ticks since flow changed, up to Calm
    timer,     \* heating_lockout_limit_10m, ticks left
    age,       \* ticks since heating_flow_relief_started_at, up to Limit
    plant,
    due,       \* triggers V4 has not answered
    changes,
    \* history
    refused,   \* a person's last word was to switch heating off
    owed,      \* no person has switched heating on since the last incident
    excuse,    \* why verified may be wrong about the valves
    lockedFor  \* ticks lockout has been on

helpers == <<lockout, paths, verified, armed, resume>>
switches == <<master, relay, service>>
runs == <<v4, script, svc>>
reactions == <<memory, start, calm, timer, refused, owed, excuse, lockedFor>>
around == <<plant, changes>>
vars == <<flow, helpers, switches, opened, runs, reactions, age, around, due>>

Off == -1
Batches == {1, 2}
Idle == [phase |-> "idle", owner |-> "nobody"]
Scripts == {Idle} \cup [phase : {"starting", "waiting", "writing"},
                        owner : {"v4", "service"}]

-----------------------------------------------------------------------------
Cold == plant.block = "cool" /\ ~plant.gas

Blocked == lockout \/ flow # "NORMAL"

\* The end of service mode waits for the relay before it calls the restore
\* script, and the script once more before it clears what was verified.
Leaving == svc \in {"toRestore", "toResume"}

Unstarted == script = [phase |-> "starting", owner |-> "service"]

\* heating_service_mode_hard_guard
Held == service \/ script.phase # "idle"

\* What the normal start wants to see before and after its delay.
\* heating_fault_recovery_pending is on in EMERGENCY and RESTORING.
SafeToStart ==
    /\ plant.wanted /\ ~plant.fault /\ plant.bus /\ plant.block # "hot"
    /\ master /\ ~relay /\ ~service
    /\ flow = "NORMAL" /\ ~lockout

\* What restarts its delay.
StartView == <<master, relay, flow, plant.wanted, plant.fault, plant.bus,
               plant.block = "hot">>

\* Mistake: the two delays follow each other.
DelaysAddUp == StartDelay + (Calm - calm)

\* Max of the delay of the policy and what is missing of a steady flow state
Delay == IF Calm - calm > StartDelay THEN Calm - calm ELSE StartDelay

\* Mistake: every further step of the incident starts the timer again.
Prolonged ==
    IF ~Blocked' THEN Off
    ELSE IF flow' # flow \/ (lockout' /\ ~lockout) THEN Limit
    ELSE timer

\* manager() of scripts/lockout_limit_10m.py, but for the end of the timer
Managed ==
    IF ~Blocked' THEN Off
    ELSE IF /\ timer = Off
            /\ \/ flow' # flow
               \/ lockout' /\ ~lockout
         THEN Limit
    ELSE timer

\* What follows a change of a helper at once; who is the person who turned
\* the main switch "on" or "off", or the "code".
Reactions(who) ==
    /\ timer' = Managed
    /\ calm' = IF flow' = flow THEN calm ELSE 0
    /\ start' = IF StartView' = StartView THEN start
                ELSE IF SafeToStart' THEN Delay' ELSE Off
    /\ memory' = IF master' = master THEN memory
                 ELSE IF who = "off" THEN "refused" ELSE "sync"
    /\ refused' = IF who # "code" THEN who = "off" /\ ~Leaving
                  ELSE refused /\ (memory = "refused" => memory' = memory)
    /\ owed' = IF flow' = "EMERGENCY" /\ flow # "EMERGENCY" THEN TRUE
               ELSE owed /\ ~(who = "on" /\ flow = "NORMAL" /\ ~Held)
    /\ excuse' = IF v4' = "opening" /\ (script' # Idle \/ Leaving')
                    THEN "raced"
                 ELSE IF v4' = "reopening" THEN "reopened"
                 ELSE IF \/ v4' = "opening" /\ v4 # "opening"
                         \/ script.phase = "starting"
                            /\ script'.phase = "waiting"
                      THEN "none"
                 ELSE excuse
    /\ lockedFor' = IF lockout' THEN lockedFor ELSE 0

\* The run of RESTORING waits up to 3 minutes for the result of the script
\* and up to 3 minutes for the plant ("patient" when they are over).
RestoreOver == v4 \in {"restoring", "patient"} /\ script.owner # "v4"

Restored == verified /\ ~lockout /\ paths

Settled == Cold /\ plant.bus /\ ~plant.fault /\ ~relay /\ ~service

\* A run whose wait is over goes on.
Awake ==
    \/ v4 = "expiring" /\ script.owner # "v4"
    \/ svc \in {"restoring", "resuming"} /\ script.owner # "service"
    \/ RestoreOver /\ verified /\ (Restored => Settled)

\* These come before anything else that takes time.
Urgent ==
    \/ due # {}
    \/ Awake
    \/ Held /\ (master \/ relay)
    \/ relay /\ (Blocked \/ plant.block = "hot" \/ ~plant.wanted)

\* The restore script is called: a second call is refused without a word.
Called(owner, current) ==
    IF current = Idle THEN [phase |-> "starting", owner |-> owner]
    ELSE current

-----------------------------------------------------------------------------
(* V4.  A benign trigger does not disturb a run in EMERGENCY.              *)

Benign == {"reconcile", "paths", "cooled"}

Dropped(t) == t \in Benign /\ flow = "EMERGENCY" /\ v4 # "idle"

V4Drops(t) ==
    /\ Dropped(t)
    /\ due' = due \ {t}
    /\ UNCHANGED <<flow, helpers, switches, opened, runs, reactions, age,
                   around>>

\* The script goes with the run that called it.
Freed == IF script.owner = "v4" THEN Idle ELSE script

Runs(t) ==
    /\ ~Dropped(t)
    /\ UNCHANGED <<svc, armed, around>>

Hazard(t) == t = "hazard" /\ flow \in {"NORMAL", "RESTORING"} /\ ~service

EmergencyBegins(t) ==
    /\ Runs(t) /\ Hazard(t)
    /\ flow' = "EMERGENCY"
    /\ age' = 0
    /\ lockout' = FALSE /\ paths' = FALSE /\ verified' = FALSE
    /\ master' = FALSE /\ relay' = FALSE
    /\ opened' = opened \cup {1}
    /\ v4' = "opening"
    /\ script' = Freed
    /\ due' = due \ {t}
    /\ UNCHANGED <<service, resume>>
    /\ Reactions("code")

\* A start in the middle of an incident opens the valves again.
StartReopens(t) ==
    /\ Runs(t) /\ t = "start" /\ flow \in {"EMERGENCY", "RESTORING"}
    /\ flow' = "EMERGENCY"
    /\ master' = FALSE /\ relay' = FALSE
    /\ opened' = opened \cup {1}
    /\ v4' = "reopening"
    /\ script' = Freed
    /\ due' = due \ {t}
    /\ age' = age
    /\ UNCHANGED <<service, resume, lockout, paths, verified>>
    /\ Reactions("code")

StartFinds ==
    flow = "NORMAL" /\ ~service /\ (plant.fault \/ plant.block = "hot")

\* A start finds a hazard that stands already.
StartAlarms(t) ==
    /\ Runs(t) /\ t = "start" /\ StartFinds
    /\ due' = (due \ {t}) \cup {"hazard"}
    /\ v4' = "idle"
    /\ script' = Freed
    /\ UNCHANGED <<flow, switches, resume, lockout, paths, verified, opened,
                   age, reactions>>

\* Two seconds later the second batch.  After a start the run goes on with
\* what a reconcile does.
OpeningEnds ==
    /\ v4 \in {"opening", "reopening"} /\ ~Urgent
    /\ opened' = Batches
    /\ paths' = (paths \/ plant.confirmed)
    /\ v4' = "idle"
    /\ due' = IF v4 = "reopening" THEN {"reconcile"} ELSE {}
    /\ UNCHANGED <<flow, lockout, verified, armed, resume, switches, script,
                   svc, reactions, age, around>>

\* No branch before the end of the lockout takes the trigger.
Later(t) ==
    /\ Runs(t) /\ ~Hazard(t)
    /\ ~(t = "start" /\ (StartFinds \/ flow \in {"EMERGENCY", "RESTORING"}))

\* Mistake: a standing fault keeps the lockout from ending.
ExpiredWhenClear(t) ==
    /\ ~plant.fault
    /\ \/ t = "expired"
       \/ flow # "NORMAL" /\ timer = Off /\ age = Limit

Expired(t) ==
    \/ t = "expired"
    \/ flow # "NORMAL" /\ timer = Off /\ age = Limit

PathsBy(t) == paths \/ (t = "paths" /\ flow = "EMERGENCY")

\* Mistake: heating is given back whatever the valves report.
GivenBackBlindly == armed /\ ~service

GivenBack == armed /\ ~service /\ verified

ExpiryWaits(t) ==
    /\ Later(t) /\ Expired(t)
    /\ due' = due \ {t}
    /\ flow = "EMERGENCY" /\ ~(Cold /\ plant.bus)
    /\ lockout' = FALSE
    /\ paths' = PathsBy(t)
    /\ v4' = "idle"
    /\ script' = Freed
    /\ UNCHANGED <<flow, switches, opened, verified, resume, age>>
    /\ Reactions("code")

ExpiryEnds(t) ==
    /\ Later(t) /\ Expired(t)
    /\ due' = due \ {t}
    /\ flow = "EMERGENCY" => Cold /\ plant.bus
    /\ flow' = "NORMAL"
    /\ lockout' = FALSE
    /\ paths' = PathsBy(t)
    /\ IF ~verified /\ ~service /\ Freed = Idle
       THEN /\ v4' = "expiring"
            /\ script' = Called("v4", Freed)
            /\ master' = FALSE /\ relay' = FALSE
       ELSE /\ v4' = "idle"
            /\ script' = Freed
            /\ master' = (master \/ GivenBack)
            /\ UNCHANGED relay
    /\ age' = 0
    /\ UNCHANGED <<opened, service, verified, resume>>
    /\ Reactions("code")

\* The script that was called at the end of the lockout is over.
ExpiryResumes ==
    /\ v4 = "expiring" /\ script.owner # "v4" /\ due = {}
    /\ v4' = "idle"
    /\ master' = (master \/ GivenBack)
    /\ UNCHANGED <<flow, helpers, relay, service, opened, script, svc, age,
                   around, due>>
    /\ Reactions("code")

\* Service mode is refused; the press has cancelled the run before.
ServiceRefused(t) ==
    /\ Later(t) /\ ~Expired(t)
    /\ due' = due \ {t}
    /\ t = "service" /\ flow \in {"EMERGENCY", "RESTORING"}
    /\ service' = FALSE
    /\ v4' = "idle"
    /\ script' = Freed
    /\ UNCHANGED <<flow, master, relay, opened, lockout, paths, verified,
                   resume, age>>
    /\ Reactions("code")

Overdue(t) == lockout \/ (age >= PathTest /\ ~PathsBy(t))

Restorable(t) == Cold /\ (PathsBy(t) \/ Overdue(t))

\* One look at an emergency.
Cooling(t) ==
    /\ Later(t) /\ ~Expired(t) /\ t # "service" /\ flow = "EMERGENCY"
    /\ master' = FALSE /\ relay' = FALSE
    /\ lockout' = Overdue(t)
    /\ paths' = PathsBy(t)
    /\ flow' = IF Restorable(t) THEN "RESTORING" ELSE flow
    /\ due' = (due \ {t})
              \cup (IF Restorable(t) THEN {"reconcile"} ELSE {})
    /\ v4' = "idle"
    /\ script' = Freed
    /\ UNCHANGED <<opened, service, verified, resume, age>>
    /\ Reactions("code")

RestoringRuns(t) ==
    /\ Later(t) /\ ~Expired(t) /\ t # "service" /\ flow = "RESTORING"
    /\ due' = due \ {t}
    /\ v4' = "restoring"
    /\ service' = FALSE
    /\ master' = FALSE /\ relay' = FALSE
    /\ script' = IF verified THEN Freed ELSE Called("v4", Freed)
    /\ UNCHANGED <<flow, lockout, paths, verified, resume, opened, age>>
    /\ Reactions("code")

LockoutHolds(t) ==
    /\ Later(t) /\ ~Expired(t) /\ flow = "HARD_LOCKOUT"
    /\ due' = due \ {t}
    /\ v4' = "idle"
    /\ master' = FALSE /\ relay' = FALSE
    /\ script' = Freed
    /\ UNCHANGED <<flow, lockout, paths, verified, resume, service, opened,
                   age>>
    /\ Reactions("code")

\* Even a trigger that finds nothing to do has cancelled the run before it.
NothingToDo(t) ==
    /\ Later(t) /\ ~Expired(t) /\ flow = "NORMAL"
    /\ due' = due \ {t}
    /\ v4' = "idle"
    /\ script' = Freed
    /\ UNCHANGED <<flow, lockout, paths, verified, resume, switches, opened,
                   age>>
    /\ Reactions("code")

RestoreSucceeds ==
    /\ RestoreOver /\ due = {} /\ Restored /\ Settled
    /\ v4' = "idle"
    /\ flow' = "NORMAL"
    /\ age' = 0
    /\ paths' = FALSE
    /\ master' = armed
    /\ UNCHANGED <<lockout, verified, armed, resume, relay, service, opened,
                   script, svc, around, due>>
    /\ Reactions("code")

RestoreRetries ==
    /\ RestoreOver /\ ~Urgent /\ Restored /\ ~Settled /\ v4 = "patient"
    /\ v4' = "idle"
    /\ UNCHANGED <<flow, helpers, switches, opened, script, svc, reactions,
                   age, around, due>>

RestoreFails ==
    /\ RestoreOver /\ due = {} /\ ~Restored /\ (verified \/ v4 = "patient")
    /\ v4' = "idle"
    /\ flow' = "HARD_LOCKOUT"
    /\ lockout' = TRUE
    /\ master' = FALSE /\ relay' = FALSE
    /\ UNCHANGED <<paths, verified, armed, resume, service, opened, script,
                   svc, age, around, due>>
    /\ Reactions("code")

V4Answers(t) ==
    \/ V4Drops(t)        \/ EmergencyBegins(t)  \/ StartReopens(t)
    \/ StartAlarms(t)    \/ ExpiryWaits(t)      \/ ExpiryEnds(t)
    \/ ServiceRefused(t) \/ Cooling(t)          \/ RestoringRuns(t)
    \/ LockoutHolds(t)   \/ NothingToDo(t)

V4Step ==
    \/ \E t \in due : V4Answers(t)
    \/ OpeningEnds
    \/ ExpiryResumes
    \/ RestoreSucceeds
    \/ RestoreRetries
    \/ RestoreFails

-----------------------------------------------------------------------------
(* The restore script and service mode.                                    *)

\* Main switch and relay have been switched off.
ScriptStarts ==
    /\ script.phase = "starting" /\ ~Urgent
    /\ script' = [script EXCEPT !.phase = "waiting"]
    /\ verified' = FALSE /\ resume' = FALSE
    /\ UNCHANGED <<flow, lockout, paths, armed, switches, opened, v4, svc, age,
                   around, due>>
    /\ Reactions("code")

\* Service mode is off while it runs: it would have turned the script off.
\* The burner or the pump did not stop in 5 minutes.
ScriptAborts ==
    /\ script.phase = "waiting" /\ plant.gas /\ ~Urgent
    /\ script' = Idle
    /\ UNCHANGED <<flow, helpers, switches, opened, v4, svc, age, around,
                   due>>
    /\ Reactions("code")

\* Three attempts at each valve, all at the same time; some may not take it.
ScriptWrites ==
    /\ script.phase = "waiting" /\ ~plant.gas /\ ~Urgent
    /\ script' = [script EXCEPT !.phase = "writing"]
    /\ opened' \in SUBSET opened
    /\ UNCHANGED <<flow, helpers, switches, v4, svc, age, around, due>>
    /\ Reactions("code")

\* Mistake: one valve that has confirmed is enough.
SomeMatch == opened # Batches

AllMatch == opened = {}

ScriptEnds ==
    /\ script.phase = "writing" /\ ~Urgent
    /\ script' = Idle
    /\ master' = FALSE /\ relay' = FALSE
    /\ verified' = AllMatch
    /\ UNCHANGED <<flow, lockout, paths, armed, resume, service, opened, v4,
                   svc, age, around, due>>
    /\ Reactions("code")

\* The run of service mode starts over and the script it called is gone.
SvcFreed == IF script.owner = "service" THEN Idle ELSE script

ServiceOn ==
    /\ ~service /\ flow \in {"NORMAL", "HARD_LOCKOUT"}
    /\ service' = TRUE
    /\ svc' = "idle"
    /\ script' = Idle
    /\ resume' = master
    /\ master' = FALSE /\ relay' = FALSE
    /\ opened' = Batches
    /\ due' = {"service"}
    /\ UNCHANGED <<flow, lockout, paths, verified, armed, v4, age, plant>>
    /\ Reactions("code")

\* The automation of service mode switches it off before V4 does.
ServiceTried ==
    /\ ~service /\ flow \in {"EMERGENCY", "RESTORING"}
    /\ svc' = "idle"
    /\ script' = SvcFreed
    /\ due' = {"service"}
    /\ UNCHANGED <<flow, helpers, switches, opened, v4, age, plant>>
    /\ Reactions("code")

ServiceOff ==
    /\ service /\ flow \in {"NORMAL", "HARD_LOCKOUT"}
    /\ service' = FALSE
    /\ svc' = IF resume THEN "toResume" ELSE "toRestore"
    /\ master' = FALSE /\ relay' = FALSE
    /\ script' = SvcFreed
    /\ UNCHANGED <<flow, helpers, opened, v4, age, plant, due>>
    /\ Reactions("code")

\* The relay has answered.
ServiceCalls ==
    /\ Leaving /\ ~Urgent
    /\ svc' = IF svc = "toResume" THEN "resuming" ELSE "restoring"
    /\ script' = Called("service", script)
    /\ IF script = Idle THEN master' = FALSE /\ relay' = FALSE
       ELSE UNCHANGED <<master, relay>>
    /\ UNCHANGED <<flow, helpers, service, opened, v4, age, around, due>>
    /\ Reactions("code")

ServiceResumes ==
    /\ svc \in {"restoring", "resuming"} /\ script.owner # "service"
    /\ due = {}
    /\ svc' = "idle"
    /\ master' = (master \/
         (/\ svc = "resuming" /\ flow = "NORMAL" /\ ~lockout
          /\ ~service /\ verified
          /\ ~plant.fault /\ plant.bus /\ ~plant.gas /\ plant.block # "hot"))
    /\ UNCHANGED <<flow, helpers, relay, service, opened, v4, script, age,
                   around, due>>
    /\ Reactions("code")

\* heating_service_mode_hard_guard
HardGuard ==
    /\ Held /\ (master \/ relay)
    /\ master' = FALSE /\ relay' = FALSE
    /\ UNCHANGED <<flow, helpers, service, opened, runs, age, around, due>>
    /\ Reactions("code")

-----------------------------------------------------------------------------
(* Memory, timer, relay.                                                   *)

\* Mistake: a person and the code that switch heating off are the same.
AnyoneRemembered ==
    IF ~service /\ flow = "NORMAL" /\ ~plant.fault THEN master ELSE armed

Remembered ==
    IF memory = "refused" THEN FALSE
    ELSE IF ~service /\ flow = "NORMAL" /\ ~plant.fault THEN master
    ELSE armed

\* Two seconds after the main switch has changed.
Remembers ==
    /\ memory # "idle"
    /\ memory' = "idle"
    /\ armed' = Remembered
    /\ UNCHANGED <<flow, lockout, paths, verified, resume, switches, opened,
                   runs, start, calm, timer, refused, owed, excuse, lockedFor,
                   age, around, due>>

\* An opening in progress is not disturbed.
TimerEnds ==
    /\ timer = 0
    /\ timer' = Off
    /\ lockout' = FALSE
    /\ lockedFor' = 0
    /\ due' = IF flow = "EMERGENCY" /\ v4 # "idle" THEN due
              ELSE due \cup {"expired"}
    /\ UNCHANGED <<flow, paths, verified, armed, resume, switches, opened,
                   runs, memory, start, calm, refused, owed, excuse, age,
                   around>>

\* heating_v4_relay_lockout_guard, and the interlock of hot water
RelayGuard ==
    /\ relay /\ (Blocked \/ plant.block = "hot" \/ ~plant.wanted)
    /\ relay' = FALSE
    /\ UNCHANGED <<flow, helpers, master, service, opened, runs, age, around,
                   due>>
    /\ Reactions("code")

\* The only automation that closes the relay.
SafeStart ==
    /\ start = 0 /\ ~Urgent
    /\ start' = Off
    /\ relay' = (relay \/ SafeToStart)
    /\ UNCHANGED <<flow, helpers, master, service, opened, runs, memory,
                   calm, timer, refused, owed, excuse, lockedFor, age, around,
                   due>>

\* Two minutes, with the poll of EMERGENCY and of an idle RESTORING.
Tick ==
    /\ ~Urgent /\ timer # 0 /\ start # 0 /\ memory = "idle"
    /\ v4 \notin {"opening", "reopening"}
    /\ ~Leaving /\ script.phase # "starting"
    /\ timer' = IF timer > 0 THEN timer - 1 ELSE timer
    /\ start' = IF start > 0 THEN start - 1 ELSE start
    /\ calm' = IF calm < Calm THEN calm + 1 ELSE calm
    /\ age' = IF flow # "NORMAL" /\ age < Limit THEN age + 1 ELSE age
    /\ lockedFor' = IF lockout THEN lockedFor + 1 ELSE lockedFor
    /\ v4' = IF RestoreOver THEN "patient" ELSE v4
    /\ due' = IF flow = "EMERGENCY" \/ (flow = "RESTORING" /\ v4 = "idle")
              THEN {"reconcile"} ELSE {}
    /\ UNCHANGED <<flow, helpers, switches, opened, script, svc, memory,
                   refused, owed, excuse, around>>

-----------------------------------------------------------------------------
(* The world, bounded by MaxChanges.                                       *)

Happens == changes < MaxChanges /\ ~Urgent /\ changes' = changes + 1

PlantTo(p) ==
    /\ Happens /\ p # plant
    /\ plant' = p
    /\ due' = {t \in {"hazard", "cooled", "paths"} :
        \/ t = "hazard" /\ \/ p.fault /\ ~plant.fault
                           \/ p.block = "hot" /\ plant.block # "hot"
        \/ t = "cooled" /\ p.block = "cool" /\ plant.block # "cool"
        \/ t = "paths" /\ p.confirmed /\ ~plant.confirmed}
    /\ UNCHANGED <<flow, helpers, switches, opened, runs, age>>
    /\ Reactions("code")

\* Another fault code, or a strained circuit (heating_flow_relief_r2).
Alarm ==
    /\ Happens
    /\ due' = {"hazard"}
    /\ UNCHANGED <<flow, helpers, switches, opened, runs, reactions, age,
                   plant>>

PersonSwitches(on) ==
    /\ Happens /\ master # on
    /\ master' = on
    /\ UNCHANGED <<flow, helpers, relay, service, opened, runs, age, plant,
                   due>>
    /\ Reactions(IF on THEN "on" ELSE "off")

\* Neither this nor the physical switch asks any automation.
SomeoneCloses ==
    /\ Happens /\ ~relay
    /\ relay' = TRUE
    /\ UNCHANGED <<flow, helpers, master, service, opened, runs, age, plant,
                   due>>
    /\ Reactions("code")

Service == Happens /\ (ServiceOn \/ ServiceTried \/ ServiceOff)

\* Home Assistant starts: helpers, timer and relay are what they were, no
\* run goes on.  V4 may have begun when the timer's automation looks.
Restart ==
    /\ Happens
    /\ v4' = "idle" /\ script' = Idle /\ svc' = "idle" /\ memory' = "idle"
    /\ calm' = 0
    /\ lockout' = (lockout /\ timer # Off)
    /\ \E ended \in BOOLEAN :
         /\ ended => Blocked /\ timer = Off
         /\ Blocked /\ timer = Off /\ flow # "EMERGENCY" => ended
         /\ due' = {"start"} \cup (IF ended THEN {"expired"} ELSE {})
    /\ IF service
       THEN master' = FALSE /\ relay' = FALSE /\ opened' = Batches
       ELSE UNCHANGED <<master, relay, opened>>
    /\ armed' = IF ~service /\ flow = "NORMAL" /\ ~plant.fault THEN master
                ELSE armed
    /\ excuse' = IF Leaving \/ Unstarted THEN "left" ELSE excuse
    /\ UNCHANGED <<flow, paths, verified, resume, service, timer, age, plant,
                   owed>>
    /\ refused' = (refused /\ memory # "refused")
    /\ start' = IF SafeToStart' THEN Delay' ELSE Off
    /\ lockedFor' = IF lockout' THEN lockedFor ELSE 0

Around ==
    \/ \E p \in Plants : PlantTo(p)
    \/ Alarm
    \/ \E on \in BOOLEAN : PersonSwitches(on)
    \/ SomeoneCloses
    \/ Service
    \/ Restart

-----------------------------------------------------------------------------
Init ==
    /\ flow = "NORMAL" /\ age = 0 /\ calm = Calm
    /\ lockout = FALSE /\ paths = FALSE /\ verified = TRUE
    /\ master \in BOOLEAN /\ armed = master
    /\ resume = FALSE /\ relay = FALSE /\ service = FALSE
    /\ opened = {}
    /\ v4 = "idle" /\ script = Idle /\ svc = "idle" /\ memory = "idle"
    /\ timer = Off
    /\ plant \in Plants /\ ~plant.fault /\ plant.block # "hot"
    /\ start = IF SafeToStart THEN StartDelay ELSE Off
    /\ due = {} /\ changes = 0
    /\ refused = ~master /\ owed = FALSE /\ excuse = "none" /\ lockedFor = 0

Script == ScriptStarts \/ ScriptAborts \/ ScriptWrites \/ ScriptEnds

ServiceEnds == ServiceCalls \/ ServiceResumes

Next ==
    \/ V4Step \/ Script \/ ServiceEnds \/ HardGuard
    \/ Remembers \/ TimerEnds \/ RelayGuard \/ SafeStart \/ Tick
    \/ Around

Fairness ==
    /\ WF_vars(V4Step)
    /\ WF_vars(Script)
    /\ WF_vars(ServiceEnds)
    /\ WF_vars(HardGuard)
    /\ WF_vars(Remembers)
    /\ WF_vars(TimerEnds)
    /\ WF_vars(RelayGuard)
    /\ WF_vars(SafeStart)
    /\ WF_vars(Tick)

Spec == Init /\ [][Next]_vars /\ Fairness

-----------------------------------------------------------------------------
TypeOK ==
    /\ flow \in {"NORMAL", "EMERGENCY", "RESTORING", "HARD_LOCKOUT"}
    /\ lockout \in BOOLEAN /\ paths \in BOOLEAN /\ verified \in BOOLEAN
    /\ armed \in BOOLEAN /\ resume \in BOOLEAN
    /\ master \in BOOLEAN /\ relay \in BOOLEAN /\ service \in BOOLEAN
    /\ opened \subseteq Batches
    /\ v4 \in {"idle", "opening", "reopening", "restoring", "patient",
               "expiring"}
    /\ script \in Scripts
    /\ svc \in {"idle", "toRestore", "toResume", "restoring", "resuming"}
    /\ memory \in {"idle", "sync", "refused"}
    /\ start \in {Off} \cup 0..(IF Calm > StartDelay THEN Calm
                               ELSE StartDelay)
    /\ calm \in 0..Calm
    /\ timer \in {Off} \cup 0..Limit
    /\ age \in 0..Limit
    /\ plant \in Plants
    /\ due \subseteq Benign \cup {"hazard", "service", "start", "expired"}
    /\ changes \in 0..MaxChanges
    /\ refused \in BOOLEAN /\ owed \in BOOLEAN
    /\ excuse \in {"none", "raced", "reopened", "left"}
    /\ lockedFor \in Nat

\* heating_restore_verified is what V4, the end of the lockout and service
\* mode rely on when they give heating back: while it is on, no valve stands
\* where an emergency or the service put it.  Four ways around are known.
\* Service mode leaves it on, and at its end it stays on until the relay has
\* answered twice (Leaving, Unstarted); a restart before that leaves it on for
\* good ("left").  A start in RESTORING opens the valves again and leaves it
\* on ("reopened").  A restore that service mode began goes on into an
\* emergency and may find everything closed before the second batch opens
\* ("raced").
VerifiedIsRestored ==
    verified => \/ opened = {} \/ service \/ Leaving \/ Unstarted
                \/ excuse # "none"

\* What V4 announces when a recovery has succeeded: "the boiler has cooled,
\* all 8 zones have confirmed their normal targets".  (Or have confirmed them
\* before the second batch opened.)
SuccessMeansRestored ==
    [][RestoreSucceeds => opened = {} \/ excuse = "raced"]_vars

\* A lockout ends 10 minutes after it began, whatever the incident does in
\* between: further hazards, failed restores and restarts do not prolong it.
LockoutIsShort == lockedFor <= Limit

\* Recovery, the end of a lockout and the end of service mode never switch
\* heating on for a person who has switched it off, before or during an
\* incident.  (A switch-off that another change of the main switch or a
\* restart overtakes within 2 seconds is not remembered, nor is one while the
\* end of service mode waits for the relay: it has decided before.)
MasterIsNotForced == [][~master /\ master' => ~refused']_vars

\* Unless somebody closes it by hand, the relay closes only when the flow
\* state has stood for 240 seconds, and after an incident only while
\* heating_restore_verified is on or when a person has switched heating on.
\* What the flag is worth is VerifiedIsRestored.
RelayClosesLate ==
    [][~relay /\ relay' => \/ SomeoneCloses
                           \/ calm = Calm /\ (owed => verified)]_vars

\* Every incident ends: once the boiler stays cold and connected, protection
\* returns to NORMAL, also from HARD_LOCKOUT and with a standing fault code.
IncidentEnds ==
    <>[](Cold /\ plant.bus) => []<>(flow = "NORMAL")
=============================================================================
