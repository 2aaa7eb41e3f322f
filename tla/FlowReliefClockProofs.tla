----------------------- MODULE FlowReliefClockProofs -----------------------
(***************************************************************************)
(* What the clocks of the flow protection promise, for every length of the *)
(* delays: a lockout is over after the limit, and no automation closes the *)
(* relay before the flow state has stood long enough and, after an         *)
(* incident, before the valves have confirmed.                             *)
(***************************************************************************)
EXTENDS FlowReliefProofs

\* A lockout and its timer together never exceed the limit.
LockoutIsTimed ==
    /\ ~lockout => lockedFor = 0
    /\ lockout => timer # Off /\ lockedFor + timer <= Limit

\* The types of what follows a change at once.
ReactionTypes ==
    /\ memory \in {"idle", "sync", "refused"}
    /\ start \in {Off} \cup 0..(IF Calm > StartDelay THEN Calm
                               ELSE StartDelay)
    /\ calm \in 0..Calm
    /\ timer \in {Off} \cup 0..Limit
    /\ refused \in BOOLEAN /\ owed \in BOOLEAN
    /\ excuse \in {"none", "raced", "reopened", "left"}
    /\ lockedFor \in Nat

\* The other types.
StateTypes ==
    /\ flow \in {"NORMAL", "EMERGENCY", "RESTORING", "HARD_LOCKOUT"}
    /\ lockout \in BOOLEAN /\ paths \in BOOLEAN /\ verified \in BOOLEAN
    /\ armed \in BOOLEAN /\ resume \in BOOLEAN
    /\ master \in BOOLEAN /\ relay \in BOOLEAN /\ service \in BOOLEAN
    /\ opened \subseteq Batches
    /\ v4 \in {"idle", "opening", "reopening", "restoring", "patient",
               "expiring"}
    /\ script \in Scripts
    /\ svc \in {"idle", "toRestore", "toResume", "restoring", "resuming"}
    /\ age \in 0..Limit
    /\ plant \in Plants
    /\ due \subseteq Benign \cup {"hazard", "service", "start", "expired"}
    /\ changes \in 0..MaxChanges

TInv == StateTypes /\ ReactionTypes /\ LockoutIsTimed

USE DEF helpers, switches, runs, reactions, around
-----------------------------------------------------------------------------
LEMMA Numbers ==
    /\ Limit \in Nat /\ Limit > 0 /\ Calm \in Nat /\ StartDelay \in Nat
    /\ 0 \in 0..Limit /\ Off = -1
BY FlowAssumption DEF Off

\* Every reaction keeps the types and the time of a lockout.
LEMMA ReactionsClock ==
    ASSUME NEW who, Reactions(who), ReactionTypes, LockoutIsTimed,
           lockout \in BOOLEAN, lockout' \in BOOLEAN
    PROVE  ReactionTypes' /\ LockoutIsTimed'
<1> USE FlowAssumption
<1>1. calm' \in 0..Calm
  BY DEF Reactions, ReactionTypes
<1>2. Delay' \in 0..(IF Calm > StartDelay THEN Calm ELSE StartDelay)
  BY <1>1 DEF Delay
<1>3. start' \in {Off} \cup 0..(IF Calm > StartDelay THEN Calm
                                ELSE StartDelay)
  BY <1>2 DEF Reactions, ReactionTypes
<1>4. timer' = Managed /\ lockedFor' = IF lockout' THEN lockedFor ELSE 0
  BY DEF Reactions
<1>5. timer' \in {Off} \cup 0..Limit /\ lockedFor' \in Nat
  BY <1>4 DEF Managed, ReactionTypes
<1>6. LockoutIsTimed'
  BY <1>4 DEF Managed, Blocked, ReactionTypes, LockoutIsTimed, Off
<1>7. memory' \in {"idle", "sync", "refused"}
  BY DEF Reactions, ReactionTypes
<1>8. refused' \in BOOLEAN /\ owed' \in BOOLEAN
  BY DEF Reactions, ReactionTypes
<1>9. excuse' \in {"none", "raced", "reopened", "left"}
  BY DEF Reactions, ReactionTypes
<1> QED
  BY <1>1, <1>3, <1>5, <1>6, <1>7, <1>8, <1>9 DEF ReactionTypes

LEMMA InitClock == Init => TInv
<1> SUFFICES ASSUME Init PROVE TInv
  OBVIOUS
<1> USE FlowAssumption
<1>1. start \in {Off} \cup 0..(IF Calm > StartDelay THEN Calm
                               ELSE StartDelay)
  BY DEF Init
<1>2. calm \in 0..Calm /\ timer \in {Off} \cup 0..Limit /\ age \in 0..Limit
      /\ changes \in 0..MaxChanges /\ lockedFor \in Nat
  BY DEF Init
<1>3. master \in BOOLEAN /\ armed \in BOOLEAN /\ refused \in BOOLEAN
  BY DEF Init
<1> QED
  BY <1>1, <1>2, <1>3 
  DEF Init, TInv, StateTypes, ReactionTypes, LockoutIsTimed, Scripts, Off

\* What is left of the script when the run that called it is cancelled.
LEMMA FreedTypes ==
    ASSUME script \in Scripts
    PROVE  Idle \in Scripts /\ Freed \in Scripts /\ SvcFreed \in Scripts
BY DEF Scripts, Freed, SvcFreed

\* A call starts the script or is refused.
LEMMA CallTypes ==
    ASSUME NEW owner \in {"v4", "service"}, NEW current \in Scripts
    PROVE  Called(owner, current) \in Scripts \ {Idle}
BY Scripted DEF Called

LEMMA V4Types ==
    ASSUME StateTypes, V4Step
    PROVE  StateTypes'
<1> USE Numbers DEF StateTypes
<1>1. ASSUME NEW t \in due, V4Answers(t)
      PROVE  StateTypes'
  <2> USE FreedTypes DEF Runs, Later
  <2>1. CASE V4Drops(t)
    BY <2>1 DEF V4Drops
  <2>2. CASE EmergencyBegins(t)
    BY <2>2 DEF EmergencyBegins, Batches
  <2>3. CASE StartReopens(t)
    BY <2>3 DEF StartReopens, Batches
  <2>4. CASE StartAlarms(t)
    BY <2>4 DEF StartAlarms
  <2>5. CASE ExpiryWaits(t)
    BY <2>5 DEF ExpiryWaits, PathsBy
  <2>6. CASE ExpiryEnds(t)
    <3>1. CASE /\ v4' = "expiring" /\ script' = Called("v4", Freed)
               /\ master' = FALSE /\ relay' = FALSE
      <4>1. script' \in Scripts
        BY <3>1, CallTypes
      <4> QED
        BY <2>6, <3>1, <4>1 DEF ExpiryEnds, PathsBy
    <3>2. CASE /\ v4' = "idle" /\ script' = Freed
               /\ master' = (master \/ GivenBack)
               /\ UNCHANGED relay
      <4>1. master' \in BOOLEAN
        BY <3>2
      <4> QED
        BY <2>6, <3>2, <4>1 DEF ExpiryEnds, PathsBy
    <3> QED
      BY <2>6, <3>1, <3>2 DEF ExpiryEnds
  <2>7. CASE ServiceRefused(t)
    BY <2>7 DEF ServiceRefused
  <2>8. CASE Cooling(t)
    BY <2>8 DEF Cooling, Overdue, PathsBy, Benign
  <2>9. CASE RestoringRuns(t)
    <3>1. script' \in Scripts
      BY <2>9, CallTypes DEF RestoringRuns
    <3> QED
      BY <2>9, <3>1 DEF RestoringRuns
  <2>10. CASE LockoutHolds(t)
    BY <2>10 DEF LockoutHolds
  <2>11. CASE NothingToDo(t)
    BY <2>11 DEF NothingToDo
  <2> QED
    BY <1>1, <2>1, <2>2, <2>3, <2>4, <2>5, <2>6, <2>7, <2>8, <2>9, <2>10,
       <2>11 DEF V4Answers
<1>2. CASE OpeningEnds
  BY <1>2 DEF OpeningEnds, Batches, Benign, Reading
<1>3. CASE ExpiryResumes
  BY <1>3 DEF ExpiryResumes, GivenBack
<1>4. CASE RestoreSucceeds
  BY <1>4 DEF RestoreSucceeds
<1>5. CASE RestoreRetries
  BY <1>5 DEF RestoreRetries
<1>6. CASE RestoreFails
  BY <1>6 DEF RestoreFails
<1> QED
  BY <1>1, <1>2, <1>3, <1>4, <1>5, <1>6 DEF V4Step

LEMMA OtherTypes ==
    ASSUME StateTypes,
           \/ Script \/ ServiceEnds \/ HardGuard
           \/ Remembers \/ TimerEnds \/ RelayGuard \/ SafeStart \/ Tick
    PROVE  StateTypes'
<1> USE Numbers DEF StateTypes
<1>1. CASE ScriptAborts
  BY <1>1, Scripted DEF ScriptAborts, Scripts
<1>2. CASE ScriptWrites
  <2>1. script' \in Scripts
    BY <1>2, Scripted, Onward DEF ScriptWrites
  <2> QED
    BY <1>2, <2>1 DEF ScriptWrites, Batches
<1>3. CASE ScriptEnds
  <2>1. script' \in Scripts
    BY <1>3, FreedTypes DEF ScriptEnds
  <2>2. verified' \in BOOLEAN /\ master' \in BOOLEAN /\ relay' \in BOOLEAN
    BY <1>3 DEF ScriptEnds, AllMatch
  <2>3. UNCHANGED <<flow, lockout, paths, armed, resume, service, opened, v4,
                    svc, age, around, due>>
    BY <1>3 DEF ScriptEnds
  <2> QED
    BY <2>1, <2>2, <2>3
<1>4. CASE ServiceResumes
  <2>1. master' \in BOOLEAN
    BY <1>4 DEF ServiceResumes
  <2> QED
    BY <1>4, <2>1 DEF ServiceResumes
<1>5. CASE HardGuard
  <2>1. master' \in BOOLEAN /\ relay' \in BOOLEAN
    BY <1>5 DEF HardGuard
  <2>2. UNCHANGED <<flow, helpers, service, opened, runs, age, around, due>>
    BY <1>5 DEF HardGuard
  <2> QED
    BY <2>1, <2>2
<1>6. CASE Remembers
  <2>1. armed' \in BOOLEAN
    BY <1>6, Zenon DEF Remembers, Remembered
  <2>2. UNCHANGED <<flow, lockout, paths, verified, resume, switches, opened,
                    runs, age, around, due>>
    BY <1>6 DEF Remembers
  <2> QED
    BY <2>1, <2>2
<1>7. CASE TimerEnds
  <2>1. due' \subseteq
         Benign \cup {"hazard", "service", "start", "expired"}
    BY <1>7 DEF TimerEnds
  <2>2. lockout' \in BOOLEAN
    BY <1>7 DEF TimerEnds
  <2>3. UNCHANGED <<flow, paths, verified, armed, resume, switches, opened,
                    runs, age, around>>
    BY <1>7 DEF TimerEnds
  <2> QED
    BY <2>1, <2>2, <2>3
<1>8. CASE RelayGuard
  <2>1. relay' \in BOOLEAN
    BY <1>8 DEF RelayGuard
  <2>2. UNCHANGED <<flow, helpers, master, service, opened, runs, age, around,
                    due>>
    BY <1>8 DEF RelayGuard
  <2> QED
    BY <2>1, <2>2
<1>9. CASE SafeStart
  <2>1. relay' \in BOOLEAN
    BY <1>9 DEF SafeStart, SafeToStart
  <2> QED
    BY <1>9, <2>1 DEF SafeStart
<1>10. CASE Tick
  BY <1>10 DEF Tick, RestoreOver, Benign
<1>11. CASE ScriptStarts
  <2>1. script' \in Scripts
    BY <1>11, Scripted, Onward DEF ScriptStarts
  <2>2. verified' \in BOOLEAN /\ resume' \in BOOLEAN
    BY <1>11 DEF ScriptStarts
  <2>3. UNCHANGED <<flow, lockout, paths, armed, switches, opened, v4, svc,
                    age, around, due>>
    BY <1>11 DEF ScriptStarts
  <2> QED
    BY <2>1, <2>2, <2>3
<1>12. CASE ServiceCalls
  <2>1. script' \in Scripts
    BY <1>12, CallTypes DEF ServiceCalls
  <2>2. svc' \in {"restoring", "resuming"}
    BY <1>12 DEF ServiceCalls
  <2>3. master' \in BOOLEAN /\ relay' \in BOOLEAN
    BY <1>12 DEF ServiceCalls
  <2>4. UNCHANGED <<flow, helpers, service, opened, v4, age, around, due>>
    BY <1>12 DEF ServiceCalls
  <2> QED
    BY <2>1, <2>2, <2>3, <2>4
<1> QED
  BY <1>1, <1>2, <1>3, <1>4, <1>5, <1>6, <1>7, <1>8, <1>9, <1>10, <1>11,
     <1>12 DEF Script, ServiceEnds

LEMMA AroundTypes ==
    ASSUME StateTypes, Around
    PROVE  StateTypes'
<1> USE Numbers DEF StateTypes
<1>1. ASSUME Happens PROVE changes' \in 0..MaxChanges
  BY <1>1, FlowAssumption DEF Happens
<1>2. ASSUME NEW p \in Plants, PlantTo(p)
      PROVE  StateTypes'
  BY <1>1, <1>2 DEF PlantTo, Benign
<1>3. CASE Alarm
  BY <1>1, <1>3 DEF Alarm
<1>4. ASSUME NEW on \in BOOLEAN, PersonSwitches(on)
      PROVE  StateTypes'
  BY <1>1, <1>4 DEF PersonSwitches
<1>5. CASE SomeoneCloses
  BY <1>1, <1>5 DEF SomeoneCloses
<1>6. CASE Service
  <2> USE <1>1, <1>6, FreedTypes DEF Service
  <2>1. CASE ServiceOn
    BY <2>1 DEF ServiceOn
  <2>2. CASE ServiceTried
    BY <2>2 DEF ServiceTried
  <2>3. CASE ServiceOff
    BY <2>3 DEF ServiceOff
  <2> QED
    BY <2>1, <2>2, <2>3
<1>7. CASE Restart
  BY <1>1, <1>7, FreedTypes DEF Restart
<1> QED
  BY <1>2, <1>3, <1>4, <1>5, <1>6, <1>7 DEF Around

(* A step is followed by the reactions, or leaves them as they are, or is  *)
(* one of those that have their own.                                       *)
LEMMA StepReacts ==
    ASSUME Next
    PROVE  \/ \E who : Reactions(who)
           \/ UNCHANGED <<lockout, reactions>>
           \/ Remembers \/ TimerEnds \/ SafeStart \/ Tick \/ Restart
<1>1. ASSUME NEW t \in due, V4Answers(t)
      PROVE  Reactions("code") \/ UNCHANGED <<lockout, reactions>>
  <2>1. CASE V4Drops(t)
    BY <2>1 DEF V4Drops
  <2>2. CASE StartAlarms(t)
    BY <2>2 DEF StartAlarms
  <2>3. CASE \/ EmergencyBegins(t) \/ StartReopens(t) \/ ExpiryWaits(t)
             \/ ExpiryEnds(t) \/ ServiceRefused(t) \/ Cooling(t)
             \/ RestoringRuns(t) \/ LockoutHolds(t) \/ NothingToDo(t)
    BY <2>3, Zenon
    DEF EmergencyBegins, StartReopens, ExpiryWaits, ExpiryEnds,
        ServiceRefused, Cooling, RestoringRuns, LockoutHolds, NothingToDo
  <2> QED
    BY <1>1, <2>1, <2>2, <2>3 DEF V4Answers
<1>2. CASE OpeningEnds \/ RestoreRetries
  BY <1>2 DEF OpeningEnds, RestoreRetries
<1>3. CASE ExpiryResumes \/ RestoreSucceeds \/ RestoreFails
  BY <1>3, Zenon DEF ExpiryResumes, RestoreSucceeds, RestoreFails
<1>4. CASE V4Step
  BY <1>1, <1>2, <1>3, <1>4 DEF V4Step
<1>5. CASE Script \/ ServiceEnds \/ HardGuard \/ RelayGuard
  BY <1>5, Zenon DEF Script, ScriptStarts, ScriptAborts, ScriptWrites,
                     ScriptEnds, ServiceEnds, ServiceCalls, ServiceResumes,
                     HardGuard, RelayGuard
<1>6. ASSUME Around, ~Restart
      PROVE  (\E who : Reactions(who)) \/ UNCHANGED <<lockout, reactions>>
  <2>1. CASE Alarm
    BY <2>1 DEF Alarm
  <2>2. ASSUME NEW p \in Plants, PlantTo(p)
        PROVE  Reactions("code")
    BY <2>2, Zenon DEF PlantTo
  <2>3. ASSUME NEW on \in BOOLEAN, PersonSwitches(on)
        PROVE  \E who : Reactions(who)
    BY <2>3, Zenon DEF PersonSwitches
  <2>4. CASE SomeoneCloses \/ Service
    BY <2>4, Zenon DEF SomeoneCloses, Service, ServiceOn, ServiceTried,
                       ServiceOff
  <2> QED
    BY <1>6, <2>1, <2>2, <2>3, <2>4 DEF Around
<1> QED
  BY <1>4, <1>5, <1>6 DEF Next

LEMMA StepClock ==
    ASSUME TInv, Next
    PROVE  TInv'
<1> USE DEF TInv
<1>1. StateTypes'
  BY V4Types, OtherTypes, AroundTypes DEF Next
<1>2. lockout \in BOOLEAN /\ lockout' \in BOOLEAN
  BY <1>1 DEF StateTypes
<1>3. CASE \E who : Reactions(who)
  BY <1>1, <1>2, <1>3, ReactionsClock
<1>4. CASE UNCHANGED <<lockout, reactions>>
  BY <1>1, <1>4 DEF ReactionTypes, LockoutIsTimed
<1> USE Numbers DEF ReactionTypes, LockoutIsTimed
<1>5. CASE Remembers
  BY <1>1, <1>5 DEF Remembers
<1>6. CASE TimerEnds
  BY <1>1, <1>6 DEF TimerEnds
<1>7. CASE SafeStart
  BY <1>1, <1>7 DEF SafeStart
<1>8. CASE Tick
  <2>1. timer' \in {Off} \cup 0..Limit /\ calm' \in 0..Calm
    BY <1>8 DEF Tick
  <2>2. start' \in {Off} \cup 0..(IF Calm > StartDelay THEN Calm
                                  ELSE StartDelay)
    BY <1>8 DEF Tick
  <2>3. LockoutIsTimed' /\ lockedFor' \in Nat
    BY <1>8 DEF Tick
  <2> QED
    BY <1>1, <1>8, <2>1, <2>2, <2>3 DEF Tick
<1>9. CASE Restart
  <2>1. Delay' \in 0..(IF Calm > StartDelay THEN Calm ELSE StartDelay)
    BY <1>9 DEF Restart, Delay
  <2>2. calm' \in 0..Calm /\ memory' \in {"idle", "sync", "refused"}
    BY <1>9 DEF Restart
  <2>3. start' \in {Off} \cup 0..(IF Calm > StartDelay THEN Calm
                                  ELSE StartDelay)
    BY <1>9, <2>1 DEF Restart
  <2>4. LockoutIsTimed' /\ lockedFor' \in Nat
    BY <1>9 DEF Restart
  <2>5. refused' \in BOOLEAN
    BY <1>9 DEF Restart
  <2> QED
    BY <1>1, <1>9, <2>2, <2>3, <2>4, <2>5 DEF Restart
<1> QED
  BY <1>3, <1>4, <1>5, <1>6, <1>7, <1>8, <1>9, StepReacts

-----------------------------------------------------------------------------
LEMMA ClockInvariance == Spec => []TInv
<1>1. TInv /\ [Next]_vars => TInv'
  <2> SUFFICES ASSUME TInv, UNCHANGED vars PROVE TInv'
    BY StepClock
  <2> QED
    BY DEF TInv, StateTypes, ReactionTypes, LockoutIsTimed, vars
<1> QED
  BY InitClock, <1>1, PTL DEF Spec

(* Every variable keeps its type; the timer and the delay of the relay are *)
(* within their limits.                                                    *)
THEOREM TypeCorrect == Spec => []TypeOK
<1>1. TInv => TypeOK
  BY DEF TInv, StateTypes, ReactionTypes, TypeOK
<1> QED
  BY ClockInvariance, <1>1, PTL

(* No lockout lasts longer than the limit.                                 *)
THEOREM LockoutEnds == Spec => []LockoutIsShort
<1>1. TInv => LockoutIsShort
  BY Numbers DEF TInv, LockoutIsTimed, ReactionTypes, LockoutIsShort,
                 StateTypes
<1> QED
  BY ClockInvariance, <1>1, PTL

-----------------------------------------------------------------------------
(* What keeps the relay open after an incident.                            *)

DelayIsLong == start # Off => start + calm >= Calm

NormalIsUnlocked == flow = "NORMAL" => ~lockout /\ timer = Off

HeldIsQuiet == Held /\ master /\ ~verified => due \subseteq {"expired"}

(* Heating that was given back before the valves have confirmed is taken   *)
(* away before anything else happens.                                      *)
DebtIsHeld ==
    owed /\ master /\ flow = "NORMAL" /\ ~verified => Held /\ due = {}

RInv ==
    /\ DelayIsLong /\ NormalIsUnlocked /\ RestoreIsUnverified
    /\ HeldIsQuiet /\ DebtIsHeld

\* What each action may do to the relay.
Late ==
    ~relay /\ relay' => \/ SomeoneCloses
                        \/ calm = Calm /\ (owed => verified)

LEMMA InitRelay == Init => RInv
<1> SUFFICES ASSUME Init PROVE RInv
  OBVIOUS
<1>1. DelayIsLong
  BY Numbers DEF Init, DelayIsLong
<1>2. NormalIsUnlocked /\ RestoreIsUnverified /\ HeldIsQuiet /\ DebtIsHeld
  BY DEF Init, NormalIsUnlocked, RestoreIsUnverified, HeldIsQuiet,
         DebtIsHeld
<1> QED
  BY <1>1, <1>2 DEF RInv

LEMMA DelayCovers ==
    \A c \in 0..Calm :
        (IF Calm - c > StartDelay THEN Calm - c ELSE StartDelay) + c >= Calm
BY Numbers

\* The delay starts over with everything it looks at.
LEMMA ReactionsDelay ==
    ASSUME NEW who, Reactions(who), ReactionTypes, ReactionTypes',
           DelayIsLong
    PROVE  DelayIsLong'
<1> USE Numbers
<1>1. CASE StartView' = StartView
  <2>1. start' = start /\ flow' = flow
    BY <1>1 DEF Reactions, StartView
  <2>2. calm' = calm
    BY <2>1, Zenon DEF Reactions
  <2> QED
    BY <2>1, <2>2 DEF DelayIsLong
<1>2. CASE StartView' # StartView
  <2>1. start' = Delay' \/ start' = Off
    BY <1>2 DEF Reactions
  <2>2. calm' \in 0..Calm
    BY DEF ReactionTypes
  <2>3. Delay' + calm' >= Calm
    BY <2>2, DelayCovers DEF Delay
  <2> QED
    BY <2>1, <2>3 DEF DelayIsLong
<1> QED
  BY <1>1, <1>2

LEMMA StepDelay ==
    ASSUME TInv, TInv', DelayIsLong, Next
    PROVE  DelayIsLong'
<1> USE Numbers DEF TInv, ReactionTypes, DelayIsLong
<1>1. CASE \E who : Reactions(who)
  BY <1>1, ReactionsDelay
<1>2. CASE UNCHANGED <<lockout, reactions>>
  BY <1>2
<1>3. CASE Remembers \/ TimerEnds
  BY <1>3 DEF Remembers, TimerEnds
<1>4. CASE SafeStart
  BY <1>4 DEF SafeStart
<1>5. CASE Tick
  BY <1>5 DEF Tick
<1>6. CASE Restart
  BY <1>6 DEF Restart, Delay
<1> QED
  BY <1>1, <1>2, <1>3, <1>4, <1>5, <1>6, StepReacts

LEMMA V4Relay ==
    ASSUME TInv, TInv', RInv, V4Step
    PROVE  RInv' /\ Late
<1>1. DelayIsLong'
  BY StepDelay DEF RInv, Next
<1> USE DEF RInv, NormalIsUnlocked, RestoreIsUnverified, Unstarted,
            HeldIsQuiet, DebtIsHeld, Held, Late
<1>2. /\ script \in Scripts /\ owed \in BOOLEAN
      /\ master \in BOOLEAN /\ verified \in BOOLEAN /\ service \in BOOLEAN
      /\ owed' \in BOOLEAN /\ master' \in BOOLEAN /\ relay' \in BOOLEAN
      /\ verified' \in BOOLEAN /\ service' \in BOOLEAN
  BY DEF TInv, StateTypes, ReactionTypes
<1>3. ASSUME NEW t \in due, V4Answers(t)
      PROVE  RInv' /\ Late
  <2> USE Scripted, <1>1, <1>2 DEF Runs, Later, Freed, Reactions, Managed,
            Blocked
  <2>1. CASE V4Drops(t)
    BY <2>1 DEF V4Drops, Dropped
  <2>2. CASE EmergencyBegins(t)
    BY <2>2 DEF EmergencyBegins
  <2>3. CASE StartReopens(t)
    BY <2>3 DEF StartReopens
  <2>4. CASE StartAlarms(t)
    BY <2>4 DEF StartAlarms
  <2>5. CASE ExpiryWaits(t)
    BY <2>5 DEF ExpiryWaits
  <2>6. CASE ExpiryEnds(t)
    <3>1. flow' = "NORMAL" /\ ~lockout' /\ NormalIsUnlocked'
      BY <2>6 DEF ExpiryEnds
    <3>2. due' = due \ {t}
      BY <2>6 DEF ExpiryEnds
    <3>3. service' = service /\ (owed' => owed)
      BY <2>6 DEF ExpiryEnds
    <3>4. CASE ~verified /\ ~service /\ Freed = Idle
      BY <2>6, <3>1, <3>4, CallTypes DEF ExpiryEnds
    <3>5. CASE ~(~verified /\ ~service /\ Freed = Idle)
      <4>1. /\ script' = Freed /\ master' = (master \/ GivenBack)
            /\ verified' = verified /\ relay' = relay
        BY <2>6, <3>5 DEF ExpiryEnds
      <4>2. master' /\ ~verified => master
        BY <4>1 DEF GivenBack
      <4>3. Held' => Held
        <5>1. script'.phase # "idle" => script.phase # "idle"
          BY <4>1
        <5> QED
          BY <3>3, <5>1
      <4>4. Held /\ master /\ ~verified => due' = {}
        <5>1. Held /\ master /\ ~verified => due \subseteq {"expired"}
          OBVIOUS
        <5> QED
          BY <3>2, <5>1
      <4>5. RestoreIsUnverified'
        BY <4>1
      <4>6. HeldIsQuiet'
        <5>1. master' /\ ~verified' => master /\ ~verified
          BY <4>1, <4>2
        <5> QED
          BY <4>3, <4>4, <5>1
      <4>7. DebtIsHeld'
        BY <3>3, <3>5, <4>1, <4>2, <4>3, <4>4
      <4> QED
        BY <1>1, <3>1, <4>1, <4>5, <4>6, <4>7
    <3> QED
      BY <3>4, <3>5
  <2>7. CASE ServiceRefused(t)
    BY <2>7 DEF ServiceRefused
  <2>8. CASE Cooling(t)
    BY <2>8 DEF Cooling
  <2>9. CASE RestoringRuns(t)
    BY <2>9 DEF RestoringRuns, Called
  <2>10. CASE LockoutHolds(t)
    BY <2>10 DEF LockoutHolds
  <2>11. CASE NothingToDo(t)
    BY <2>11 DEF NothingToDo
  <2> QED
    BY <1>3, <2>1, <2>2, <2>3, <2>4, <2>5, <2>6, <2>7, <2>8, <2>9, <2>10,
       <2>11 DEF V4Answers
<1>4. CASE OpeningEnds
  BY <1>1, <1>4 DEF OpeningEnds, Urgent
<1>5. CASE ExpiryResumes
  BY <1>1, <1>2, <1>5 DEF ExpiryResumes, Reactions, Managed, Blocked,
                          GivenBack
<1>6. CASE RestoreSucceeds
  BY <1>1, <1>2, <1>6 DEF RestoreSucceeds, Reactions, Managed, Blocked,
                          Restored
<1>7. CASE RestoreRetries
  BY <1>1, <1>7 DEF RestoreRetries
<1>8. CASE RestoreFails
  BY <1>1, <1>8 DEF RestoreFails
<1> QED
  BY <1>3, <1>4, <1>5, <1>6, <1>7, <1>8 DEF V4Step

LEMMA OtherRelay ==
    ASSUME TInv, TInv', RInv,
           \/ Script \/ ServiceEnds \/ HardGuard
           \/ Remembers \/ TimerEnds \/ RelayGuard \/ SafeStart \/ Tick
    PROVE  RInv' /\ Late
<1>1. DelayIsLong'
  BY StepDelay DEF RInv, Next
<1> USE DEF RInv, NormalIsUnlocked, RestoreIsUnverified, Unstarted,
            HeldIsQuiet, DebtIsHeld, Held, Late
<1>2. /\ script \in Scripts /\ owed \in BOOLEAN
      /\ master \in BOOLEAN /\ verified \in BOOLEAN /\ service \in BOOLEAN
      /\ owed' \in BOOLEAN /\ master' \in BOOLEAN /\ relay' \in BOOLEAN
      /\ verified' \in BOOLEAN /\ service' \in BOOLEAN
  BY DEF TInv, StateTypes, ReactionTypes
<1> USE <1>1, <1>2, Scripted DEF Managed, Blocked, Urgent
<1>3. CASE ScriptAborts
  BY <1>3 DEF ScriptAborts, Reactions
<1>4. CASE ScriptWrites
  BY <1>4 DEF ScriptWrites, Reactions, Idle, Scripts
<1>5. CASE ScriptEnds
  BY <1>5 DEF ScriptEnds, Reactions
<1>6. CASE ServiceEnds
  <2>1. CASE ServiceCalls
    BY <2>1 DEF ServiceCalls, Called, Reactions
  <2>2. CASE ServiceResumes
    BY <2>2 DEF ServiceResumes, Reactions
  <2> QED
    BY <1>6, <2>1, <2>2 DEF ServiceEnds
<1>7. CASE HardGuard
  BY <1>7 DEF HardGuard, Reactions
<1>8. CASE Remembers
  BY <1>8 DEF Remembers
<1>9. CASE TimerEnds
  <2>1. flow # "NORMAL" /\ due' \subseteq due \cup {"expired"}
    BY <1>9, Numbers DEF TimerEnds
  <2>2. UNCHANGED <<flow, verified, master, relay, service, script>>
    BY <1>9 DEF TimerEnds
  <2> QED
    BY <2>1, <2>2
<1>10. CASE RelayGuard
  BY <1>10 DEF RelayGuard, Reactions
<1>11. CASE SafeStart
  <2>1. calm = Calm
    BY <1>11, Numbers DEF SafeStart, DelayIsLong, TInv, ReactionTypes
  <2> QED
    BY <1>11, <2>1 DEF SafeStart, SafeToStart
<1>12. CASE Tick
  BY <1>12, Numbers DEF Tick
<1>13. CASE ScriptStarts
  BY <1>13, Onward DEF ScriptStarts, Reactions
<1> QED
  BY <1>3, <1>4, <1>5, <1>6, <1>7, <1>8, <1>9, <1>10, <1>11, <1>12, <1>13
  DEF Script

(* Nothing comes from outside while heating has to be taken away.          *)
LEMMA AroundRelay ==
    ASSUME TInv, TInv', RInv, Around
    PROVE  RInv' /\ Late
<1>1. DelayIsLong'
  BY StepDelay DEF RInv, Next
<1> USE DEF RInv, NormalIsUnlocked, RestoreIsUnverified, Unstarted,
            HeldIsQuiet, DebtIsHeld, Held, Late
<1>2. /\ script \in Scripts /\ owed \in BOOLEAN
      /\ master \in BOOLEAN /\ verified \in BOOLEAN /\ service \in BOOLEAN
      /\ owed' \in BOOLEAN /\ master' \in BOOLEAN /\ relay' \in BOOLEAN
      /\ verified' \in BOOLEAN /\ service' \in BOOLEAN
  BY DEF TInv, StateTypes, ReactionTypes
<1> USE <1>1, <1>2, Scripted DEF Managed, Blocked, Urgent, Happens
<1>3. ASSUME NEW p \in Plants, PlantTo(p)
      PROVE  RInv' /\ Late
  BY <1>3 DEF PlantTo, Reactions
<1>4. CASE Alarm
  BY <1>4 DEF Alarm
<1>5. ASSUME NEW on \in BOOLEAN, PersonSwitches(on)
      PROVE  RInv' /\ Late
  BY <1>5 DEF PersonSwitches, Reactions
<1>6. CASE SomeoneCloses
  BY <1>6 DEF SomeoneCloses, Reactions
<1>7. CASE Service
  <2>1. CASE ServiceOn
    BY <1>7, <2>1 DEF Service, ServiceOn, Reactions
  <2>2. CASE ServiceTried
    BY <1>7, <2>2 DEF Service, ServiceTried, SvcFreed, Reactions
  <2>3. CASE ServiceOff
    BY <1>7, <2>3 DEF Service, ServiceOff, SvcFreed, Reactions
  <2> QED
    BY <1>7, <2>1, <2>2, <2>3 DEF Service
<1>8. CASE Restart
  BY <1>8 DEF Restart
<1> QED
  BY <1>3, <1>4, <1>5, <1>6, <1>7, <1>8 DEF Around

LEMMA StepRelay ==
    ASSUME TInv, TInv', RInv, [Next]_vars
    PROVE  RInv' /\ Late
<1>1. CASE UNCHANGED vars
  BY <1>1 DEF vars, RInv, DelayIsLong, NormalIsUnlocked,
              RestoreIsUnverified, Unstarted, HeldIsQuiet, DebtIsHeld, Held,
              Late
<1> QED
  BY <1>1, V4Relay, OtherRelay, AroundRelay DEF Next

(* No automation closes the relay before the flow state has stood for the  *)
(* whole calm, nor after an incident before the valves have confirmed.     *)
THEOREM RelayIsLate == Spec => RelayClosesLate
<1>1. TInv /\ TInv' /\ RInv /\ [Next]_vars => RInv'
  BY StepRelay
<1>2. TInv /\ TInv' /\ RInv /\ [Next]_vars =>
        [~relay /\ relay' => \/ SomeoneCloses
                             \/ calm = Calm /\ (owed => verified)]_vars
  BY StepRelay DEF Late
<1>3. Spec => []RInv
  BY InitRelay, ClockInvariance, <1>1, PTL DEF Spec
<1> QED
  BY ClockInvariance, <1>2, <1>3, PTL DEF Spec, RelayClosesLate
=============================================================================
