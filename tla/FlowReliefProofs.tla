-------------------------- MODULE FlowReliefProofs --------------------------
(***************************************************************************)
(* Two promises of the flow protection, proved for every set of reports,   *)
(* every length of the delays and any number of changes around: that the   *)
(* verified flag is right about the valves, and that no automation         *)
(* switches heating on for a person who has switched it off.               *)
(***************************************************************************)
EXTENDS FlowRelief, TLAPS

Types ==
    /\ script \in Scripts
    /\ verified \in BOOLEAN /\ service \in BOOLEAN
    /\ armed \in BOOLEAN /\ resume \in BOOLEAN
    /\ master \in BOOLEAN /\ refused \in BOOLEAN
    /\ opened \subseteq Batches

(* Service mode is on only outside incidents, without a restore, which it  *)
(* turns off, and before its end.                                          *)
ServiceStandsAlone ==
    service => /\ script = Idle /\ svc = "idle"
               /\ flow \in {"NORMAL", "HARD_LOCKOUT"}

(* While the restore script runs, but for its first steps after service    *)
(* mode, nothing is verified.                                              *)
RestoreIsUnverified == script # Idle => ~verified \/ Unstarted

(* Between the two batches nothing is verified, or the flag is excused.    *)
OpeningIsKnown ==
    /\ v4 = "opening" => /\ flow = "EMERGENCY"
                         /\ \/ excuse = "raced"
                            \/ ~verified /\ script = Idle /\ ~Leaving
    /\ v4 = "reopening" => flow = "EMERGENCY" /\ excuse = "reopened"

(* In an incident neither service mode nor its end makes up for the flag:  *)
(* a press of the button cancels both.                                     *)
IncidentIsRestored ==
    flow \in {"EMERGENCY", "RESTORING"} /\ verified =>
        opened = {} \/ excuse # "none"

(* A refusal is remembered wherever heating could be given back from.      *)
RefusalIsKnown ==
    refused => /\ ~master /\ (service => ~resume)
               /\ svc \notin {"toResume", "resuming"}
               /\ memory # "refused" => ~armed

IInv == /\ Types
        /\ ServiceStandsAlone
        /\ RestoreIsUnverified
        /\ OpeningIsKnown
        /\ IncidentIsRestored
        /\ VerifiedIsRestored
        /\ RefusalIsKnown

\* What each action may do to the main switch.
Unforced == ~master /\ master' => ~refused'

USE DEF helpers, switches, runs, reactions, around
-----------------------------------------------------------------------------
LEMMA Scripted ==
    /\ Idle.owner = "nobody" /\ Idle.phase = "idle"
    /\ \A s \in Scripts : s = Idle \/
          /\ s.phase \in {"starting", "waiting", "writing"}
          /\ s.owner \in {"v4", "service"}
    /\ \A p \in {"starting", "waiting", "writing"} :
       \A o \in {"v4", "service"} :
          [phase |-> p, owner |-> o] \in Scripts \ {Idle}
BY DEF Scripts, Idle

\* The next phase of a script that runs.
LEMMA Onward ==
    ASSUME NEW s \in Scripts, NEW p \in {"waiting", "writing"}, s # Idle
    PROVE  LET n == [s EXCEPT !.phase = p]
           IN  n \in Scripts \ {Idle} /\ n.phase = p /\ n.owner = s.owner
BY DEF Scripts, Idle

LEMMA InitInv == Init => IInv
<1> SUFFICES ASSUME Init PROVE IInv
  OBVIOUS
<1>1. master \in BOOLEAN /\ armed = master /\ refused = ~master
  BY DEF Init
<1>2. /\ flow = "NORMAL" /\ verified = TRUE /\ opened = {} /\ script = Idle
      /\ resume = FALSE /\ service = FALSE /\ v4 = "idle" /\ svc = "idle"
  BY DEF Init
<1>3. Types
  BY <1>1, <1>2, Zenon DEF Types, Scripts
<1>4. /\ ServiceStandsAlone /\ RestoreIsUnverified /\ OpeningIsKnown
      /\ IncidentIsRestored /\ VerifiedIsRestored
  BY <1>2 DEF ServiceStandsAlone, RestoreIsUnverified, OpeningIsKnown,
              IncidentIsRestored, VerifiedIsRestored
<1>5. RefusalIsKnown
  BY <1>1, <1>2, Zenon DEF RefusalIsKnown
<1> QED
  BY <1>3, <1>4, <1>5 DEF IInv

LEMMA V4Inv ==
    ASSUME IInv, V4Step
    PROVE  IInv' /\ Unforced
<1> USE DEF IInv, Types, ServiceStandsAlone, RestoreIsUnverified,
            OpeningIsKnown, IncidentIsRestored, VerifiedIsRestored,
            RefusalIsKnown, Unforced, Leaving, Unstarted
<1>1. ASSUME NEW t \in due, V4Answers(t)
      PROVE  IInv' /\ Unforced
  <2> USE DEF Runs, Later, Freed, Reactions
  <2>1. CASE V4Drops(t)
    BY <2>1 DEF V4Drops
  <2>2. CASE EmergencyBegins(t)
    BY <2>2, Scripted DEF EmergencyBegins, Hazard, Batches, Scripts
  <2>3. CASE StartReopens(t)
    BY <2>3, Scripted DEF StartReopens, Batches, Scripts
  <2>4. CASE StartAlarms(t)
    BY <2>4, Scripted DEF StartAlarms, Scripts
  <2>5. CASE ExpiryWaits(t)
    BY <2>5, Scripted DEF ExpiryWaits, Scripts
  <2>6. CASE ExpiryEnds(t)
    <3>1. /\ flow' = "NORMAL" /\ UNCHANGED <<opened, service, svc>>
          /\ UNCHANGED <<armed, verified, resume>> /\ Reactions("code")
      BY <2>6 DEF ExpiryEnds
    <3>2. CASE ~verified /\ ~service /\ Freed = Idle
      <4>1. script' = [phase |-> "starting", owner |-> "v4"]
        BY <2>6, <3>2 DEF ExpiryEnds, Called
      <4>2. v4' = "expiring" /\ master' = FALSE
        BY <2>6, <3>2 DEF ExpiryEnds
      <4> QED
        BY <3>1, <3>2, <4>1, <4>2, Scripted
    <3>3. CASE ~(~verified /\ ~service /\ Freed = Idle)
      <4>1. v4' = "idle" /\ script' = Freed /\ master' = (master \/ GivenBack)
        BY <2>6, <3>3 DEF ExpiryEnds
      <4>2. master' \in BOOLEAN /\ (refused' => refused)
        BY <3>1, <4>1
      <4>3. refused' => (memory' # "refused" => ~armed)
        BY <3>1, <4>2
      <4>4. ~master /\ master' => armed /\ memory' = "sync"
        BY <3>1, <4>1 DEF GivenBack
      <4>5. refused' => ~master'
        BY <3>1, <4>2, <4>4
      <4>6. script' \in Scripts /\ (script' = script \/ script' = Idle)
        BY <4>1 DEF Scripts
      <4>7. excuse' = excuse
        BY <3>1, <4>1, <4>6, Scripted
      <4> QED
        BY <3>1, <4>1, <4>2, <4>3, <4>5, <4>6, <4>7, Scripted
    <3> QED
      BY <3>2, <3>3
  <2>7. CASE ServiceRefused(t)
    BY <2>7, Scripted DEF ServiceRefused, Scripts
  <2>8. CASE Cooling(t)
    BY <2>8, Scripted DEF Cooling, Scripts
  <2>9. CASE RestoringRuns(t)
    BY <2>9, Scripted DEF RestoringRuns, Called, Scripts
  <2>10. CASE LockoutHolds(t)
    BY <2>10, Scripted DEF LockoutHolds, Scripts
  <2>11. CASE NothingToDo(t)
    BY <2>11, Scripted DEF NothingToDo, Scripts
  <2> QED
    BY <1>1, <2>1, <2>2, <2>3, <2>4, <2>5, <2>6, <2>7, <2>8, <2>9, <2>10,
       <2>11 DEF V4Answers
<1>2. CASE OpeningEnds
  BY <1>2 DEF OpeningEnds, Batches
<1>3. CASE ExpiryResumes
  BY <1>3, Scripted DEF ExpiryResumes, Reactions, GivenBack
<1>4. CASE RestoreSucceeds
  BY <1>4, Scripted DEF RestoreSucceeds, Reactions, RestoreOver, Settled
<1>5. CASE RestoreRetries
  BY <1>5 DEF RestoreRetries
<1>6. CASE RestoreFails
  BY <1>6, Scripted DEF RestoreFails, Reactions
<1> QED
  BY <1>1, <1>2, <1>3, <1>4, <1>5, <1>6 DEF V4Step

LEMMA ScriptInv ==
    ASSUME IInv, Script
    PROVE  IInv' /\ Unforced
<1> USE DEF IInv, Types, ServiceStandsAlone, RestoreIsUnverified,
            OpeningIsKnown, IncidentIsRestored, VerifiedIsRestored,
            RefusalIsKnown, Unforced, Leaving, Unstarted, Reactions
<1>1. CASE ScriptAborts
  BY <1>1, Scripted DEF ScriptAborts, Scripts
<1>2. CASE ScriptWrites
  <2>1. script # Idle /\ script.phase = "waiting"
    BY <1>2, Scripted DEF ScriptWrites
  <2>2. script' \in Scripts \ {Idle} /\ script'.phase = "writing"
    BY <1>2, <2>1, Onward DEF ScriptWrites
  <2> QED
    BY <1>2, <2>1, <2>2 DEF ScriptWrites
<1>3. CASE ScriptEnds
  BY <1>3, Scripted DEF ScriptEnds, AllMatch, Scripts
<1>4. CASE ScriptStarts
  <2>1. script # Idle
    BY <1>4, Scripted DEF ScriptStarts
  <2>2. script' \in Scripts \ {Idle} /\ script'.phase = "waiting"
    BY <1>4, <2>1, Onward DEF ScriptStarts
  <2> QED
    BY <1>4, <2>1, <2>2 DEF ScriptStarts
<1> QED
  BY <1>1, <1>2, <1>3, <1>4 DEF Script

LEMMA CodeInv ==
    ASSUME IInv,
           \/ ServiceEnds \/ HardGuard \/ Remembers \/ TimerEnds
           \/ RelayGuard \/ SafeStart \/ Tick
    PROVE  IInv' /\ Unforced
<1> USE DEF IInv, Types, ServiceStandsAlone, RestoreIsUnverified,
            OpeningIsKnown, IncidentIsRestored, VerifiedIsRestored,
            RefusalIsKnown, Unforced, Leaving, Unstarted
<1>1. CASE ServiceResumes
  BY <1>1 DEF ServiceResumes, Reactions
<1>2. CASE HardGuard
  BY <1>2 DEF HardGuard, Reactions
<1>3. CASE Remembers
  BY <1>3 DEF Remembers, Remembered
<1>4. CASE TimerEnds
  BY <1>4 DEF TimerEnds
<1>5. CASE RelayGuard
  BY <1>5 DEF RelayGuard, Reactions
<1>6. CASE SafeStart
  BY <1>6 DEF SafeStart
<1>7. CASE Tick
  BY <1>7 DEF Tick
<1>8. CASE ServiceCalls
  <2>1. script' \in Scripts \ {Idle}
    BY <1>8, Scripted DEF ServiceCalls, Called
  <2>2. /\ ~service /\ svc \in {"toRestore", "toResume"}
        /\ svc' = IF svc = "toResume" THEN "resuming" ELSE "restoring"
        /\ Reactions("code")
        /\ UNCHANGED <<flow, helpers, service, opened, v4>>
    BY <1>8 DEF ServiceCalls
  <2>3. /\ master' \in BOOLEAN /\ refused' \in BOOLEAN
        /\ master' => master
        /\ refused' => refused /\ memory' = memory
    BY <1>8, <2>2 DEF ServiceCalls, Reactions
  <2>4. excuse' # excuse => v4' = "opening" /\ excuse' = "raced"
    <3>1. v4 # "reopening" \/ excuse = "reopened"
      OBVIOUS
    <3>2. script.phase = "starting" => script' = script
      BY <1>8, Scripted DEF ServiceCalls, Called
    <3> QED
      BY <2>2, <3>1, <3>2 DEF Reactions
  <2>5. v4' = "opening" => excuse' = "raced"
    BY <2>1, <2>2 DEF Reactions
  <2>6. script' = Called("service", script)
    BY <1>8 DEF ServiceCalls
  <2>7. CASE script = Idle
    <3>1. script' = [phase |-> "starting", owner |-> "service"]
      BY <2>6, <2>7 DEF Called
    <3> QED
      BY <2>1, <2>2, <2>3, <2>4, <2>5, <3>1
  <2>8. CASE script # Idle
    <3>1. script' = script
      BY <2>6, <2>8 DEF Called
    <3> QED
      BY <2>1, <2>2, <2>3, <2>4, <2>5, <2>8, <3>1
  <2> QED
    BY <2>7, <2>8
<1> QED
  BY <1>1, <1>2, <1>3, <1>4, <1>5, <1>6, <1>7, <1>8 DEF ServiceEnds

(* A person can switch heating off only when the switch is on and nothing  *)
(* is pending: service mode gives nothing back, or has decided already.    *)
LEMMA AroundInv ==
    ASSUME IInv, Around
    PROVE  IInv' /\ Unforced
<1> USE DEF IInv, Types, ServiceStandsAlone, RestoreIsUnverified,
            OpeningIsKnown, IncidentIsRestored, VerifiedIsRestored,
            RefusalIsKnown, Unforced, Leaving, Unstarted
<1>1. ASSUME NEW p \in Plants, PlantTo(p)
      PROVE  IInv' /\ Unforced
  BY <1>1 DEF PlantTo, Happens, Reactions
<1>2. CASE Alarm
  BY <1>2 DEF Alarm, Happens
<1>3. ASSUME NEW on \in BOOLEAN, PersonSwitches(on)
      PROVE  IInv' /\ Unforced
  <2>1. CASE on
    BY <1>3, <2>1 DEF PersonSwitches, Reactions
  <2>2. CASE ~on
    <3>1. master /\ ~Urgent
      BY <1>3, <2>2 DEF PersonSwitches, Happens
    <3>2. script.phase = "idle" /\ ~service /\ svc # "resuming"
      BY <3>1, Scripted DEF Urgent, Held, Awake
    <3>3. refused' => ~Leaving
      BY <1>3, <2>2 DEF PersonSwitches, Reactions
    <3> QED
      BY <1>3, <2>2, <3>1, <3>2, <3>3, Scripted DEF PersonSwitches, Reactions
  <2> QED
    BY <2>1, <2>2
<1>4. CASE SomeoneCloses
  BY <1>4 DEF SomeoneCloses, Happens, Reactions
<1>5. CASE Service
  <2>1. CASE ServiceOn
    BY <2>1, Scripted DEF ServiceOn, Batches, Scripts, Reactions
  <2>2. CASE ServiceTried
    BY <2>2, Scripted DEF ServiceTried, SvcFreed, Scripts, Reactions
  <2>3. CASE ServiceOff
    <3>1. SvcFreed = Idle
      BY <2>3, Scripted DEF ServiceOff, SvcFreed
    <3> QED
      BY <2>3, <3>1, Scripted DEF ServiceOff, Reactions
  <2> QED
    BY <1>5, <2>1, <2>2, <2>3 DEF Service
<1>6. CASE Restart
  BY <1>6, Scripted DEF Restart, Batches, Scripts
<1> QED
  BY <1>1, <1>2, <1>3, <1>4, <1>5, <1>6 DEF Around

LEMMA StutterInv ==
    ASSUME IInv, UNCHANGED vars
    PROVE  IInv' /\ Unforced
BY DEF IInv, Types, ServiceStandsAlone, RestoreIsUnverified, OpeningIsKnown,
       IncidentIsRestored, VerifiedIsRestored, RefusalIsKnown, Unforced,
       Leaving, Unstarted, vars

LEMMA StepInv ==
    ASSUME IInv, [Next]_vars
    PROVE  IInv' /\ Unforced
BY V4Inv, ScriptInv, CodeInv, AroundInv, StutterInv DEF Next

-----------------------------------------------------------------------------
(* The strengthened invariant holds: what service mode, an opening and a   *)
(* refusal mean for the other automations, and VerifiedIsRestored with it. *)
THEOREM Invariance == Spec => []IInv
<1>1. IInv /\ [Next]_vars => IInv'
  BY StepInv
<1> QED
  BY InitInv, <1>1, PTL DEF Spec

(* The verified flag is right about every valve, but for the four ways     *)
(* around that the property names.                                         *)
THEOREM FlagIsRight == Spec => []VerifiedIsRestored
<1>1. IInv => VerifiedIsRestored
  BY DEF IInv
<1> QED
  BY Invariance, <1>1, PTL

(* No recovery, no end of a lockout and no end of service mode overrules a *)
(* person who has switched heating off.                                    *)
THEOREM NobodyIsOverruled == Spec => MasterIsNotForced
<1>1. IInv /\ [Next]_vars => [~master /\ master' => ~refused']_vars
  BY StepInv DEF Unforced
<1> QED
  BY Invariance, <1>1, PTL DEF Spec, MasterIsNotForced
=============================================================================
