# Verification of the heating controller and its observer

TLA+ models of the two halves of this repository, their model-checking
configurations, and machine-checked proofs.

* The **controller** is YAML run by Home Assistant (HA): automations, scripts and
  template sensors under `heating/`, `automations.yaml` and `scripts.yaml`. It
  owns eight radiator valves, a boiler relay and a set of helpers.
* The **observer** is Python, `custom_components/heating_observer/`. It records
  snapshots, cuts them into cycles and episodes and compares hypotheses about
  boiler faults. It commands nothing. `agent_platform/` is its offline twin.

The two meet only through HA's states, so they are modelled apart. A third actor,
`agent_platform/release_guard.py`, judges whether a new release of the observer may
be installed and whether it must be rolled back; it is modelled around the running
observer whose sensors it reads.

## 1. Inventory

| Component | State it keeps | Operations | Talks to | Status |
|---|---|---|---|---|
| `heating_observer/cycle.py` request cycle builder | previous snapshot, open cycle | `feed` | runtime | modelled: `RequestCycle` |
| `heating_observer/engine.py` observer | previous, request flags, ring, open episode, incident counter, finished episodes | `feed`, `stop`, construction from a checkpoint | runtime | modelled, rules as one: `ObserverEngine` |
| `heating_observer/__init__.py` runtime, `storage.py` journal | queue, gap flag, worker, checkpoint file | `enqueue`, `_consume`, `start`, `stop` | HA callbacks, executor threads | modelled: `ObserverRuntime` |
| `heating_observer/database.py` | SQLite tables | `write_batch`, analysis rows, opportunities, `stats`, summaries | runtime | incident table in `ObserverRuntime`, the rest but the summaries in `AgentAnalysis` |
| `safety.py`, `watchdog.py`, `permissions.py`, `gates.py` | fault streak | pure evaluation | runtime | modelled: `AgentPolicies` |
| `replay.py`, `intelligence.py`, `optimization.py` | cached results | held-out replay, candidate, findings | runtime | modelled, data as outcomes of comparisons: `AgentPolicies`, `AgentAnalysis` |
| `agents.py`, most of `sensor.py`, `ignition.py` | none | wording, display, evidence | runtime | no: no protocol |
| `agent_platform/` | timeline, incident keys, baseline | `feed`, pipeline | files | not yet |
| `agent_platform/release_guard.py` | none | judges snapshots, leases, manifests | an executor outside the repository | modelled: `ReleaseGuard` |
| central dispatch, `heating/control/refactor_mode_schedule_override.yaml` | the run, the script's queue | dispatch automation, `heating_apply_zone_target` | valves, everyone who changes a decision input | modelled: `ZoneDispatch` |
| hydraulic support, `automations.yaml:3815-4446` | selected zone, lowered threshold, cooldown | guard, start | dispatch script, zone sensors | modelled: `HydraulicSupport`, promise: `ThresholdLoan` |
| flow relief V4, service mode, memory of the main switch, restore script, `automations.yaml:242-930, 1057-1936, 3362-3389`, `scripts.yaml` | flow state, lockout, verified flags, timer | state machine, interlocks, recovery, restore | master, relay, valves, people | modelled: `FlowRelief` |
| lockout limit, `scripts/lockout_limit_10m.py` and what it generates | timer | start, cancel, end | V4 | modelled: `FlowRelief` |
| relay by policy, `automations.yaml:2658-3016, 5302-5422`, `kotel_control.yaml`, `policy_effective.yaml` | pending delays | safe start, guard, off | relay | closing in `FlowRelief`; demand policy and switching off: not yet |
| boost, `mode_boost.yaml` | button, mode, deadline | start, clear, cancel | dispatch | not yet |
| auto mode, schedules, blueprint | schedule helpers, overrides | windows, overrides | dispatch | only as the `window` of `ZoneDispatch` |
| fail-safe, watchdogs | startup guard, notifications | alarms | people | not yet |
| recordings, dashboards, deployment scripts | – | – | – | no: command nothing |

What is hard here, and what makes each part correct:

* **Observer.** Data is lost in many ways: gaps, unknown readings, clock jumps,
  queue overflow, failing stores, restarts in the middle of an episode. Correct
  means that whatever is learned was really watched, and that a fault is counted
  once. The exact statements are `EligibleIsClean`, `ScoredIsClean`,
  `KindIsHonest`, `LeadIsHonest`, `ClusterIsOneIncident`, `FaultIsAttributed`.
* **Runtime.** One worker, callbacks that overtake it at each `await`, four writes
  that fail one by one, a crash at any moment, and a shutdown that waits for the
  worker, which Home Assistant may have cancelled.
* **Dispatch.** A decision is used up to 22 seconds after it was taken; runs are
  restarted by every trigger; Zigbee writes get lost.
* **Hydraulic support.** Two automations and people share one threshold. The run
  that lowered it may be gone when it has to be given back.

* **Analysis and release.** Sensors show caches that are read back from the
  database; a write, a crash or a clock set back comes between an evaluation and
  what is shown of it, and the guard decides on what is shown.
* **Flow relief.** Six automations and a script write the main switch and the relay.
  A trigger cancels the run before it, with the script that run had called, and two
  flags in helpers say what an interrupted run has achieved; they are set and cleared
  after calls that wait for a device.

`PROJECT.json` lists 40 hazards, each at its line, with the properties that cover
it or the reason why none does.

## 2. Modules

| Module | Extends | What it is |
|---|---|---|
| `RequestCycle` | – | `RequestCycleBuilder`, one action per branch of `feed` |
| `MCRequestCycle` | `RequestCycle` | small instance |
| `RequestCycleProofs` | `RequestCycle`, TLAPS | proofs |
| `ObserverEngine` | – | `Observer`: four ways `feed` treats the open episode, `Stop`, `Restart` |
| `MCObserverEngine` | `ObserverEngine` | small instance |
| `ObserverEngineProofs` | `ObserverEngine`, `WellFoundedInduction`, TLAPS | proofs |
| `ObserverRuntime` | – | callbacks, queue, worker, stores, `stop()`, crash |
| `ObserverRuntimeProofs` | `ObserverRuntime`, TLAPS | proofs |
| `ZoneDispatch` | – | dispatch automation, queued script, support as second caller |
| `MCZoneDispatch` | `ZoneDispatch` | small instance |
| `ZoneDispatchProofs` | `ZoneDispatch`, TLAPS | proofs |
| `ThresholdLoan` | – | abstract specification: a threshold that is lent and given back |
| `HydraulicSupport` | instantiates `ThresholdLoan` | guard and start |
| `MCHydraulicSupport` | `HydraulicSupport` | small instance |
| `HydraulicSupportProofs` | `HydraulicSupport`, `FiniteSetTheorems`, TLAPS | proofs, refinement |
| `AgentPolicies` | – | the agents: permissions, replay, safety, watchdog, gate, findings, as operators |
| `AgentAnalysis` | `AgentPolicies` | the worker's analysis, its writes and caches, restarts |
| `ReleaseGuard` | `AgentAnalysis` | the guard's two judgements around a deployment |
| `MCAgentAnalysis` | `AgentAnalysis` | small installation, with a check of the limits of `optimization.py` |
| `MCReleaseGuard` | `ReleaseGuard`, `MCAgentAnalysis` | the same and a release for it |
| `ReleaseGuardProofs` | `ReleaseGuard`, TLAPS | proofs, of `AgentPolicies` and `AgentAnalysis` too |
| `FlowRelief` | – | V4, restore script, service mode, memory, lockout timer, closing of the relay |
| `MCFlowRelief` | `FlowRelief` | eight reports of the plant |
| `FlowReliefProofs` | `FlowRelief`, TLAPS | proofs: the verified flag, the main switch |
| `FlowReliefClockProofs` | `FlowReliefProofs` | proofs: types, the lockout, the relay |

Operators named "Mistake" in a comment are never used by the specification. Each
is a plausible bug of the definition that follows it; with it in place TLC finds a
named property violated (`mutants` in `PROJECT.json`).

### RequestCycle

`previous`, `active` are the attributes of the builder, `emitted` its return
value. `Feed` is the call: `StartCycle`, `StayIdle`, `ContinueCycle` and
`CompleteCycle` are its branches, in the order of the code (the gap is marked
before the snapshot is merged, the relay OFF is looked at last). A snapshot keeps
what the verdict reads; `None`, `True` and `False` are `unknown`, `on`, `off`.
`Restart` is a new builder while the relay goes on. `request` and `closed` are
history: the defects of the relay request as an outside reader of the same
snapshots would note them, also across restarts.

### ObserverEngine

`Feed` is `Observer.feed`. Its disjuncts are what it does to the open episode:
`BurnerStart` finishes it and starts one, `FaultOutsideEpisode` starts one,
`EpisodeContinues` merges and perhaps finishes, `NothingHappens`. `Last` and
`Standing` stand for the reset after a clock that ran backwards. Sizes are in
ticks: gap 1, warning window 2, run-down 2, incident window 2, cap 2, ring spacing
1; `Steps` lets the clock move by -2, 1 or 2, so that each threshold is met, missed
and exceeded. Snapshots have distinct times, as the code's microseconds have.
`demand`, `fired`, `shown`, `seen`, `closed` and `lastOpen` (an opening without its lead) are history.
`shown` notes when warnings showed, for the episode (`episode`) and, whatever request
they belonged to, within the window before it (`recent`): `LeadIsHonest` says a lead
comes from the first, and from the second only where the start of the request is not
known.

Left out: the fifteen warning rules (one flag `warn` stands for all, since what a
rule computes is data), traces, peaks, shadow features, the report, ignition
evidence, and the list of old episodes.

### ObserverRuntime

A step of the worker runs to its next `await`: `Take` (feed the engine, decide on a
checkpoint), `AppendWorks`/`AppendFails`, `SaveWorks`/`SaveFails` (model, then
report), `DatabaseWorks`/`DatabaseFails`. `Capture` and `Throttle` are the
callback, which may come between any two of them. `stop()` is `StopBegins` ...
`StopEnds`; `Restart` is a crash or a new start from the checkpoint `disk`. The
engine is reduced to the start, fault and end of an episode; the worker's
evaluation by safety, release and watchdog agents matters here only when it raises.
Faults of one burner run are taken as farther apart than the incident window.
`lost`, `holes`, `unrecorded`, `skipped`, `failed`, `ignored`, `captured` and `serial`
are history.

A failed database batch leaves no trace except its missing rows; a failure in an
agent (`ProcessingFails`) flags only the next snapshot, as the code does, and the
snapshot reaches no journal: its burner run is `skipped`.

The worker is a background task, which Home Assistant cancels in its own shutdown,
before, while or after `stop()` waits (`WorkerIsCancelled`). The `finally` of the
worker counts the snapshot in hand as done; snapshots still queued have nobody left to
take them. An executor job that was under way cannot be cancelled (`JobGoesOn`): an
append may happen unnoticed, and a checkpoint may be written later, by `JobEnds`
(`adrift`). Not modelled: two threads in the temporary file of the checkpoint at once,
and an agent that raises before the engine is fed.

### ZoneDispatch

HA evaluates templates and conditions and calls helper services without yielding
to another automation; a run is suspended at a delay, a wait, a device action or a
script call. These are the steps. `Fire` is a trigger, which restarts the run and
cancels its call; `DelayEnds` reads the intent; `Visit` is one turn of the loop.
`Begin`, `Write`, `FirstWaitEnds`, `Retry`, `Resend`, `SecondWaitEnds` are the script for
the first call in the queue. `heat` are the valves in hvac mode heat. `climate.
set_hvac_mode` is awaited before the first write and before the one of the retry; the
first compares the inputs after it, the retry (`Resend`) does not. `SwitchOff` is a valve
that leaves heat by itself. The decision table is reduced to the mode and a window per zone;
both belong to `decision_inputs`, which is compared by value as in the code. A
write is applied or lost, not late. Pending triggers are one flag `due`: the code
waits 8 seconds for stable inputs and restarts, so a second trigger only replaces
the first. `inputs_available` and the startup guard are part of `enabled`. The
other caller of the script, the watchdog of manual targets, passes
`expected_inputs` like the dispatch and is not modelled.

### HydraulicSupport

The guard's branches, in the order of its `choose`, are `GuardFindsNone`,
`GuardReleases` (two branches with the same effect), `GuardSettles`,
`GuardReopens`, `GuardGivesUp`, `GuardWaits`, `GuardConfirms`. It runs 2 seconds
after its last trigger and does not yield until its end, except in the call that
reopens the valve. The guard deselecting a zone triggers itself, which HA refuses
as recursion; the start's deselection triggers it for real (`Triggered`). The start
is `StartSelects`, `StartApplied`, and one of `StartSucceeds`, `StartAborts`,
`StartFails`. `age` is 0 below 30 seconds, 2 from 300 on. `healthy` folds what both
automations require of a candidate together with flow NORMAL and a mode that is not
Off; `permitted` is master on and service off. A support is seen twice: the guard
confirms it and lowers the threshold by the number its valve reports (`pi`, with
fractions), the count takes the zone demand (`Demand`), which is cut to whole percents
and 0 for a valve that is not in heat, has an open window or was not heard of for 120
minutes (`live`). What remains folded: a demand of 1 %, which is active or not by a
hysteresis, counts as the number says, and a valve not heard of for 180 minutes is no
longer fit. A restart restores the helpers (they have no `initial`); a crash that rolls them back
to HA's last dump of states is not modelled.

`ThresholdLoan` is the promise of `docs/single-zone-hydraulic-support.md`: a
threshold `own`ed by people, which the controller may borrow at a lower value and
must give back. The mapping is `own <- Original`, `lent <- lowered`.

A support that confirms but is not counted (`live`) leaves one zone counted, and
`kotel_should_be_on` asks for two: the bridge that does not carry keeps the boiler
off, so this is no finding, but `BridgeIsExact` says exactly when it carries.

### AgentPolicies, AgentAnalysis

The agents compute and keep nothing (but the sentinel's fault streak), so they are
operators. A number that is only compared with a limit is represented by the outcome:
a warning is timely or late, a zone's overshoot is a per cent. Rules are a small set
with one composite among them, since a rule is only a predicate over episodes.

`AgentAnalysis` is `_consume` after the engine: `Analyse` (or `AnalysisDenied`, when a
manifest forbids an agent its work), `WriteBatch`, `Review`, `WriteBundle`, `Refresh`,
each a transaction that may fail (`DatabaseFails`), and `Start`, `Stop`, `Crash`,
`Restart`. `ram` are the attributes of `Runtime`, which the sensors show, `db` is the
row each query returns and the counters, `job` what the worker holds between two
`await`s. Time is in minutes; the worker is taken to be much faster. `SetBack` is the
wall clock set back once. `Rule` is a person who moves an opportunity on to another
status; which statuses `upsert_opportunities` takes for open, closes and opens again is
in `Upsert`. `SelectRevision` sets the `site_revision` another installation has, under
which the next start finds no model. `verdict`, `lagged`, `lived`, `broken` and `standing`
(whether the sentinel warns, and since when it says so) are what really happened. The
events table holds as many rows as samples and is counted
with it, as intelligence candidates are with replays. Not modelled: what
`optimization_summary` measures (an input) and the summaries of cycles and knowledge.
A journal that cannot be read counts as a broken append-only promise, as in the code.
The engine keeps the last 500 episodes and counts the rest in its generation; the
assumption `MaxEpisodes <= 500` keeps the model where both are the same.

### ReleaseGuard

`TakeFirst`, `EvaluatePreDeploy`, `EvaluatePostDeploy` are the two snapshots before and
the one after; `PreDecision` and `PostDecision` are the guard's reports: the release
document, the two states at rest (relay, heating, pump, service mode and confirmed
relief, each of which may be unknown), the agents' sensors, the writer, the counters,
the site revision and the lease. Times are in minutes: the lease's 30 seconds of skew
are none and its 30 seconds left are one, so GO is given a little less often than by the
code. A snapshot reads the sensors of `AgentAnalysis`. Who takes snapshots, holds the
Herdr lease, copies the source and restarts HA is outside the repository: `Acquire`,
`Verify`, `Supersede`, `CopySource`, `RestartCore`, `LoseEvidence` do what
`docs/heating-release-0.4.1.md` asks, or one thing wrong. Checks of values which the
observer's sensors set to a literal (no control, no git, the shape of a document) hold by
the source that is installed and are left out. The fencing tokens are 1 for the executor and 2 for a rival.

### FlowRelief

What waits (V4, service mode, the interlock that closes the relay and the safe start) is in mode
restart, but the restore script, whose second call is refused; the hard guard and the
relay guard are parallel, the poll is single and the timer's manager queued, and their
runs have no wait that matters here. A run does not yield between two waits. So an action of V4 is one trigger answered up to the next
wait, and `Runs`, `Freed` say that it has cancelled the run before and the script that
run had called. `due` are triggers not yet answered. The branches of V4 in the order
of the code: a start (`StartReopens`, `StartAlarms`), a hazard (`EmergencyBegins`,
`OpeningEnds` after 2 seconds), the end of the lockout (`ExpiryWaits`, `ExpiryEnds`,
`ExpiryResumes`), service refused, EMERGENCY (`Cooling`), RESTORING (`RestoringRuns`
and how its waits end), HARD_LOCKOUT. A trigger that finds nothing to do still cancels.
`ScriptStarts`, `ScriptAborts`, `ScriptWrites`, `ScriptEnds` are the restore script,
`ServiceOn`, `ServiceTried`, `ServiceOff`, `ServiceCalls`, `ServiceResumes` service mode.
`Reactions` is what the timer's manager, the memory and the safe start do at once when a
helper changes.

Switching the relay off waits for its answer. The steps after it are actions of their
own where they do something others look at: at the end of service mode the call of the
restore script (`ServiceCalls`, until then `Leaving`), and in the script the clearing of
`heating_restore_verified` (`ScriptStarts`, until then the phase is `starting`).
Elsewhere the wait is folded: V4 clears its flags before it and opens the valves after
it, so a run cancelled in between only leaves fewer valves open than the model says, and
the script compares the valves after its last wait and confirms at once. Not modelled is
a failed restore cancelled in that wait, with the lockout on and the flow state not yet
changed. An answer comes before a tick, and none is a failure like any other
(`continue_on_error`).

Helpers that follow from others are folded: `heating_flow_relief_mode` is on in
EMERGENCY, `heating_fault_recovery_pending` in EMERGENCY and RESTORING. A hot block, a
fault code and a strained circuit are hazards; the pump is folded with the burner, and
mode, hot water and the demand of the zones are `wanted`. A reload of the automations
is folded with a start. A tick is two minutes; what takes seconds comes before it
(`Urgent`), which is how HA behaves and not a fairness assumption. The two waits of
3 minutes in RESTORING are over at a tick (`patient`); the script's wait for the burner
may end at any time. `refused`, `owed`, `excuse` and `lockedFor` are history.

The older automations of the same purpose (`ochrana při nedostatečném průtoku`,
`flow relief obnova po poruše`, `Kotel: zapnout`, and others) are turned off by V4 at
every start and whenever one is turned on, and are not modelled.

## 3. Runs

| Run | Configuration | Distinct states | Result |
|---|---|---|---|
| `request_cycle` | all deviations one at a time, 3 clock readings | 48,197 | pass |
| `engine` | 9 snapshots, times 0..4, 2 incidents | 165,934 | pass |
| `engine_fault` | same | – | violation of `NoFaultMeansNoFault` |
| `runtime` | queue 1, 2 burner runs or faults, 1 restart | 2,065,826 | pass |
| `runtime_stop` | queue 1, 1 burner run or fault, 1 restart | 58,359 | pass |
| `dispatch` | 2 zones, 1 support, queue 2, 3 changes | 128,120 | pass |
| `dispatch_support` | same | – | violation of `SupportFloor` |
| `support` | 1 candidate, 2 other zones, half percents 0, 2, 3, 4, 6, 4 changes | 238,674 | pass |
| `support_cooldown` | same | – | violation of `CooldownIsEarned` |
| `release` | clock 0..3, 4 samples, 5 episodes, 1 mishap, 2 starts | 1,442,511 | pass |
| `flow_relief` | 8 reports, lockout 3 ticks, delay 1, calm 2, 4 changes | 602,675 | pass |
| `flow_relief_reopen` | same | – | violation of `SuccessMeansRestored` |

The bounds and why they are enough:

* Snapshots deviate from a clean one in one field besides the relay or burner,
  because each field is merged into a flag of its own.
* Five clock readings with jumps of -2, 1 and 2 ticks reach every comparison with a
  window of 1 or 2 ticks on both sides and at equality, and allow an episode, a gap,
  a second episode and a jump back in one behaviour.
* A queue of one with a snapshot in the worker's hands is full in the same ways as
  one of 256: what matters is that a snapshot is dropped while another is being
  processed. Two burner runs are the run that loses a snapshot and the one after it.
  `runtime_stop` asks for liveness, on one burner run: what `stop()` waits for does not
  depend on how many there were.
* Two zones make the loop have a next zone and let the support be a zone of the
  dispatch or not; the queue bound is the code's own (`max: 2`). Three changes are a
  selection, a change of inputs and a change back.
* Levels are half percents: none, the least that confirms, one with a fraction, one
  without, and the most; every order of demand, threshold and minimum occurs,
  equalities and a report that loses its fraction included. One candidate suffices for what
  is checked, since a second one only changes which zone the start picks; the proofs
  hold for any number.

* In `release`, one mishap (a failed write or read, a crash, the clock set back, lost
  evidence) at any moment of a deployment; the code handles each without memory of
  another. Four samples are one before and one after each snapshot; two starts are the
  old and the new release; a clock of 3 has every age and spacing fresh, at its limit
  and too old.
  A review period of 1 minute holds, in that time, two reviews, a change of mind
  between them and snapshots that are not reviewed.
* In `flow_relief`, the eight reports change one thing each that some condition tells
  apart. Delay 1, calm 2 and a lockout of 3 ticks keep the order of 2, 4 and 10
  minutes. Four changes are, for instance, a hazard, its end, a switch and a restart.
  The proofs hold for any reports and lengths.

`CHECK_DEADLOCK FALSE` is set for the runs of the runtime, the dispatch and the
release: after a stop, orderly or hanging, when everything is at rest, or at the
bounds, nothing happens. The support's guard looks every minute, so there a deadlock
would be an error.

What the passing runs show is stated above each property. In short:
`EligibleIsClean` and `ScoredIsClean` are equivalences with the defects an outside
reader notes, not one-way guards; `HoleIsCensored` and `LearnedIsRecorded` look at
memory and at the checkpoint, which is what the next life starts from;
`LearnedIsRecorded` has one exception, the runs with a snapshot that no journal was
given and that no gap reaches any more (`Unnoticed`), because nothing marks them;
`NoStaleWrite` compares what reaches a valve with the inputs of that very step, but
for the write of a retry, which is sent without comparing again (see below);
`NoSilentMiss` is the convergence of all valves; `LoanIsKept` is the refinement of
`ThresholdLoan`; `CalmIsHonest` says that the threshold is lowered in the long run
only for a support that is still confirmed, at its present report; `BacklogKeepsUp`
says that a warning of the sentinel that has stood for a review period is an open
opportunity, one that has been gone for as long is none, whatever people have made of
it and whatever failed in between.

### Disagreements found

Four runs end in a violation of what a document, comment or message says. They are in
`findings` of `PROJECT.json` with the quoted lines.

1. `NoFaultMeansNoFault`: a standing fault code leaves an episode "without fault".
2. `SupportFloor`: a dispatch call already under way pulls a new support to Eco.
3. `CooldownIsEarned`: the cooldown comes without the five minutes of waiting.
4. `SuccessMeansRestored`: a start in RESTORING reopens the valves but leaves
   `heating_restore_verified` on, so the restore is skipped; the valves stay at 29 °C
   while the notification says that all zones have confirmed their normal targets
   (`reopened` in `VerifiedIsRestored`).

Four more have no run of their own; passing properties name them as exceptions:

* A fault code in the snapshot that starts a cycle is not merged (`cycle.py:165`). If it
  has gone by the next, the cycle is eligible, against
  `docs/heating-agent-platform.md:50-51` (`fault_at_start` in `EligibleIsClean`).
* A capture outage that ends with the next burner start does not censor the episode it
  interrupted (`engine.py:298`), which `docs/heating-observer.md:164` says it does
  (`silent_end` in `ScoredIsClean`).
* When the relay was unknown as a request began, a rule is credited with a lead from a
  warning of the request before (`engine.py:280, 307`, against the comment at 305;
  `blurred_request` in `LeadIsHonest`).
* "Never retry a stale decision", says the comment in
  `refactor_mode_schedule_override.yaml:205`. The retry compares the inputs, awaits
  `climate.set_hvac_mode` and then sends the old target (229), 29 °C included, also
  after a switch to Off (the exception of `NoStaleWrite`).

`FlowRelief` showed more:

* At the end of service mode `heating_restore_verified` is cleared only after the relay
  has answered twice, with the valves still open. A restart before that leaves the flag
  on until the next restore or emergency (`left`).
* A person who switches heating off in that moment is overruled when service mode gives
  back what was on before it (comment of `MasterIsNotForced`).
* A restore that service mode called goes on into an emergency and may find everything
  closed before the second batch opens (`raced`).
* A second hazard within the 2 seconds between the batches restarts the run; in
  EMERGENCY it finds nothing to open, and the second batch stays closed.
* When the lockout has ended in NORMAL, any further trigger of V4 (the block has
  cooled, say) cancels the restore it had called; valves stay open and the main switch
  off until somebody acts.
* A person's switch-off that another change of the main switch or a restart overtakes
  within 2 seconds is not remembered (comment of `MasterIsNotForced`).
* `LockoutIsShort` is about one latch of the lockout. A new latch after the first has
  ended gets 10 minutes of its own.

The proofs of `ReleaseGuard` showed one thing more, which `NoFalseAlarm` names:
`evaluate_pre_deploy` does not ask for the counters of the database in its second
snapshot (`release_guard.py:423-490`), `evaluate_post_deploy` cannot do without them
(`:536-546`). A GO given while a counter is unknown can therefore only be followed by
ROLLBACK_REQUIRED, however well the new release works. It takes two failures in one
deployment, and the run allows one.

The properties of the passing runs name these as exceptions where they touch them.
Further exceptions that no document speaks about: `blurred_request` (a request that
began between unknown relay readings counts as known), the call refused by the full
queue of the script, and the valve that does not take 29 degrees, which the guard
reopens for ever because that branch comes before its timeout.

### Fairness

* `ObserverRuntime`: weak fairness of the worker and of `stop()`. The event loop
  resumes every coroutine whose `await` is over, and executor jobs end with a result
  or an exception. Captures, stops and restarts owe nothing. Fairness of the worker is
  only that of a worker there is: once it is cancelled no action of it is enabled, and
  `StopTerminates` names the join that then waits for ever.
* `ZoneDispatch`: weak fairness of the script, the trigger, the dispatch, the guard's
  reopening and its release of an unfit zone. Waits have timeouts, delays end, the
  guard looks every minute. People and valves owe nothing.
* `HydraulicSupport`: weak fairness of the guard, its minute, the start and the
  clock. `CalmIsHonest` is about behaviours in which the world stops changing
  (`MaxChanges`); triggers that come faster than the guard's 2 seconds without end
  would starve it, and nothing in the code prevents that.
* `FlowRelief`: weak fairness of V4, the script, the end of service mode (`ServiceEnds`:
  the relay answers or the call fails), the guards,
  the memory, the timer, the safe start and the clock. Waits and the timer end, and the
  poll comes every minute. People, the plant and restarts owe nothing. `IncidentEnds`
  assumes a plant that stays cold and connected, which only the plant can give.
* `AgentAnalysis` and `ReleaseGuard` have no liveness: an executor may stop anywhere.

## 4. Proofs

`tlapm` checks every leaf; SMT (Z3), Zenon and LS4 are the backends.

`RequestCycleProofs` assumes `RequestCycleAssumption` only: what a snapshot is, that
`None` is not a value, and that the normal code is not a fault code.

* `Invariance`: `Spec => []IInv`. `EligibleIsClean` speaks about the return value of
  one call and is not inductive. `IInv` adds `Aligned`, which ties the open cycle to
  the outside reader's notes and the last relay reading (a request that is open
  without a cycle has been restarted), and `AgreeWith(active, request)`: each flag of
  the open cycle is set exactly when the corresponding defect has been noted, and
  after a restart, when the flags are lost, `incomplete` is set. The step has one
  case per branch of `feed`.
* `TypeCorrect`, `BaselineVerdict` (`EligibleIsClean`) and `RestartsStayEvidence`
  follow.

`HydraulicSupportProofs` assumes `SupportAssumption`: levels are numbers that include
0 and `PiMin`, zones are finite, `None` is not a zone.

* `SupportInvariant`: `TypeOK /\ LentToSupport` is inductive; each branch of guard
  and start is a case. `TypeOK` carries that the guard reopens a valve only for a
  selected support.
* `LoansHaveSupports`: `Spec => []LentToSupport`.
* `ImplementsLoan`: `Spec => LoanIsKept`, where `LoanIsKept` is the specification of
  `ThresholdLoan` under the mapping. `Restore` maps to `GiveBack` or a stutter,
  `Lend` to `Lend`, `SetThreshold` to `Set`; a step that touches none of the three
  variables is a stutter.
* `TypeCorrect`: `Spec => []TypeOK`, part of the same invariant.
* `BridgesAreExact` (`BridgeIsExact`) counts zones: `BridgeAddsSupport` shows that the
  lowered threshold adds the support to those counted before, and the cardinality
  theorems of the library do the rest. That the bridge is the number the support's valve
  reports (`BridgeIsReport`) comes from the one branch of the guard that lends; that the
  zone demand never exceeds it (`DemandIsBelow`) makes "shown in full" the exact
  condition.

`FlowReliefProofs` and `FlowReliefClockProofs` assume `FlowAssumption`: the reports are
records of the type `Reading`, delays and limits are positive numbers.

* `Invariance`: `Spec => []IInv`. `VerifiedIsRestored` alone is not inductive: a
  service that ends, or an opening between its two batches, could leave the flag on.
  `ServiceStandsAlone` (service mode only outside incidents, without a restore and not at
  its end), `RestoreIsUnverified` (a restore that has got past its first steps has cleared
  the flag) and `OpeningIsKnown` (nothing is verified between the batches, unless
  excused) close that. `IncidentIsRestored` is for a press of the button in an incident,
  which cancels the end of service mode: there the flag must be right without it.
  `RefusalIsKnown` says where a refusal is kept: the main switch is off, service mode will
  not give it back, and the memory has forgotten or is about to forget that heating was
  on.
* `FlagIsRight` (`VerifiedIsRestored`) and `NobodyIsOverruled` (`MasterIsNotForced`)
  follow.
* `TypeCorrect` and `LockoutEnds` (`LockoutIsShort`) rest on `LockoutIsTimed`: while
  the lockout is on, the timer runs, and the time passed and the time left never exceed
  the limit. `StepReacts` splits the steps into those followed by `Reactions`, those
  that leave clocks alone, and five with their own arithmetic.
* `RelayIsLate` (`RelayClosesLate`) rests on five facts: a pending delay covers what is
  missing of the calm; in NORMAL there is no lockout and no timer; a restore in
  progress is not verified; while the switch is on and must go off with nothing verified,
  only the end of the timer is pending; and heating that is on without verified valves after an
  incident is in exactly that situation, so the hard guard comes before the safe start.

`ObserverEngineProofs` assumes `ObserverAssumption`: times are integers, the limits
positive, `NoFault` is no fault code, `None` none of the records the observer keeps.

* `Invariance`: `Spec => []IInv`. All properties of the engine compare its flags with
  history at one instant, and none is inductive. `Asked` says that whenever the
  observer takes a request for known, it knows of it what an outside reader does.
  `Known` says that the open episode has exactly the flags which the facts noted since
  its start deserve (`Judges`). `Kept` and `Counted` say that the warnings in the ring
  and in the episode really showed, as long as they lie in the window. `Clustered` ties
  the latest opening to `incident_sequence` and `last_fault_at`, also after the clock
  is set back.
* The step has one lemma per disjunct of `Feed`, and under it one per conjunct.
  `TakenIn` and `Ended` say what a disjunct leaves open or hands out, so that the
  conjuncts need not look into the merge. `RebuiltKeeps` is the restart.
* A lead is the age of the earliest warning; that a set of times has an earliest one
  (`LeastNumber`) is the well-foundedness of the naturals.
* `ScoresAreEarned`, `KindsAreHonest`, `LeadsAreHonest`, `FaultsAreAttributed`,
  `ClustersAreOne` and `TypeCorrect` follow. `ClusterIsOneIncident` once excepted a
  last fault that was not later than the opening; the proof showed that the exception
  is not needed and it is gone.

`ObserverRuntimeProofs` assumes `RuntimeAssumption`: the bounds are natural numbers and
`None` is neither a queue item nor an episode.

* `Invariance`: `Spec => []IInv`. What is learned is decided long after a snapshot was
  lost, so `Said` follows the loss through its stations: the gap flag, the gap of
  the next item in the queue, the flag of the episode. `Told` says that an event in
  hand is about an episode that exists, and that the checkpoint does not yet learn
  from it, which is what a failed write and a crash after it need. `Numbers` puts the
  checkpoint never ahead of memory, `SavedFirst` every row behind the checkpoint until
  a journal write fails, `Stopped` fixes worker and queue for each stage of `stop()`.
* `HolesAreCensored`, `LearningIsRecorded`, `SavingComesFirst`, `StoppingIsClean`,
  `RestartsLearnNothing` and `TypeCorrect` follow.

`ZoneDispatchProofs` assumes `DispatchAssumption`: the order of the zones is a sequence
of them, `None` is neither a temperature nor a pair of decision inputs.

* `Invariance`: `Spec => []IInv`. `Paired` (no automation has two calls, and the run
  waits exactly when it has one) needs that a restarted run takes its calls back, from
  whatever place of the queue, which the lemmas about `Cancelled` show. `Decided` says
  what the executing call may have read: the inputs it was called with, under which
  heating is wanted.
* `CallsArePaired` (`OneCallPerRun`), `WritesAreFresh` (`NoStaleWrite`) and
  `TypeCorrect` follow. The action property needs `Decided`, because the script
  compares inputs at its write with what it read at its start.

`ReleaseGuardProofs` assumes `PolicyAssumption`, `AnalysisAssumption` and
`GuardAssumption`: rules, summaries and their zones are finite, there is a rule that is
not composite, limits are numbers, `None` is none of the values stored.

* `Invariance`: `Spec => []IInv` with `IInv == AInv /\ DInv`, the observer and the
  deployment. In `AInv`, `Shown` follows a verdict from the worker's memory through
  the database back into the cache, `Dated` says that no row lies in the future unless
  the clock was set back (only then does the query return an older one), `Current` and
  `JustReplayed` do the same for the candidate, `Counting` for the counters. In `DInv`,
  `Leased` says that the rival can only hold a lease after the time in the executor's
  proof, `Snapped` what the snapshots recorded, `Restarted` what the life after the
  restart can show that the second snapshot did not.
* A step of the observer disturbs the deployment only through rows that are added and
  caches that are refreshed, so `DeploymentWaits` handles them all at once.
* `GoMeansGo`, `HealthyMeansHealthy`, `RollbackHasReason` (`NoFalseAlarm`),
  `SensorsAreTrue` (`ShownIsEvaluated`), `CandidatesAreCurrent`,
  `EvidenceIsKept` (`EvidenceGrows`) and `TypeCorrect` follow.
* `BacklogFollowsSentinel` (`BacklogKeepsUp`) has an invariant of its own, `BInv`: a
  review settles what the sentinel says (`SettledByReview`, from what `Upsert` leaves open),
  and a snapshot that found no review due was processed before a period had passed since
  the last one, so that what the sentinel has said for a period has been reviewed
  (`SettledInTime`).
* `ProposalsAreHeldOut` (`ProposalIsHeldOut`) is about operators, for every list of
  episodes: the best rule is one of the rules (`BestIsARule`, since every nonempty set
  of numbers has a least), and distinct incidents number what the policy counts
  (`IncidentsCounted`, by a bijection).
* Two properties were wrong and the proofs said so: `NoFalseAlarm` without its last
  exception (see Disagreements), and `EvidenceGrows`, which did not allow that evidence
  is lost a second time.

Every invariant and every action property of a passing run is stated by a theorem, and
so is the refinement. Only model-checked is liveness, which is out of the prover's
reach: `StopTerminates`, `NoSilentMiss`, `CalmIsHonest`, `NoEndlessForcing`,
`IncidentEnds`. That `Score` and `Best` of the policies count what they should is TLC's
on the small installation; the theorems use what they return, not an induction over
the list. TLC finds each of these inductive invariants true on the small instance of
its module.

## 5. Not modelled, and why

* Arithmetic without a protocol: the summaries of the database, the traces and peaks of
  the engine, ignition evidence, predictive heating, the demand policy of the boiler.
* Presentation: `agents.py`, most of `sensor.py`, dashboards, notifications, recordings.
* The automations V4 keeps turned off (see `FlowRelief`).
* What Home Assistant does on its own: the recorder, the dump of states, reloading a
  single file. A restart restores helpers as they were.
* Editing tools (`deploy_*.py`, validation), run by hand on files nobody else writes.

## 6. Plan

1. `Boost`: start, clear and cancel as interleaved service calls. To check: an older
   cancellation never clears a newer press; a restart neither starts nor extends.
2. Switching off by policy (`kotel_control.yaml`) and the fail-safe, composed with
   `FlowRelief` through master, mode and relay.
3. `Phase1`: deduplication of incidents and baseline of `agent_platform`.
4. Auto mode and schedules in place of the `window` of `ZoneDispatch`.
5. Proofs: an abstract specification of learning (burner runs that are watched, spoiled
   or learned) which `ObserverRuntime` refines, stated like `ThresholdLoan`; another of
   the verdict on a release, refined by `ReleaseGuard`; a shorter common lemma for the
   restarts of `FlowReliefProofs` and `FlowReliefClockProofs`. Then the modules above,
   as they come. Liveness stays with TLC.
