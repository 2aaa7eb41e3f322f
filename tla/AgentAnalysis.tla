---------------------------- MODULE AgentAnalysis ---------------------------
(***************************************************************************)
(* The analysis half of the worker in                                      *)
(* custom_components/heating_observer/__init__.py and the tables of        *)
(* AgentDatabase (database.py) it fills: for every snapshot it replays the *)
(* retained episodes when the engine has learned something, evaluates      *)
(* safety, gate and watchdog, writes the batch, now and then reviews the   *)
(* opportunities, stores the analysis and reads its caches back from the   *)
(* database.  Each of the writes may fail, Home Assistant may die between  *)
(* them, and its clock may be set back.                                    *)
(*                                                                         *)
(* The queue, the journal and the incident tables are in ObserverRuntime.  *)
(* The clock advances in units of a minute; the worker is taken to be much *)
(* faster.  The engine retains the last 500 episodes and counts all it     *)
(* finished as the generation; the model stays below 500, where the        *)
(* generation is the number of episodes.                                   *)
(***************************************************************************)
EXTENDS AgentPolicies

CONSTANTS Plants,       \* what a snapshot may say
          Summaries,    \* what optimization_summary may measure
          Manifests,    \* release |-> its agent_policy.json
          Installed,    \* the release in service at first
          Retained,     \* the episodes an installation may start with
          Lessons,      \* the episodes it may learn
          Rulings,      \* what a person may make of an opportunity
          Silence,      \* 3: the watchdog's 180 seconds
          ReviewPeriod, \* 15: seconds between reviews, 900
          MaxClock, MaxSamples, MaxEpisodes, MaxMishaps, MaxStarts \* for TLC

Releases == DOMAIN Manifests

VARIABLES
    clock, plant,
    source,    \* the version of the installed source directory
    release,   \* the version Home Assistant has loaded
    site,      \* the configured site_revision; a new one has a new number
    revision,  \* the one the engine was set up with
    episodes,  \* engine.data["episodes"]
    saved,     \* the episodes in the checkpoint file
    worker,    \* the step _consume is at, or "down"
    job,       \* what _consume holds of the snapshot it processes
    ram,       \* the attributes of Runtime
    db,        \* the tables
    samples, starts, \* counted for the bounds, with
    mishaps,   \* failures and what people do to the installation
    jumped,    \* the clock was set back
    (***********************************************************************)
    (* What really happened.                                               *)
    (***********************************************************************)
    verdict,   \* what the sentinel said of the last snapshot of this life
    lagged,    \* that snapshot came long after the last batch stored
    lived,     \* snapshots processed in this life, up to 2
    broken,    \* something failed in this life
    standing   \* whether the sentinel warns, and since when it says so

environment == <<clock, plant, source, release, site, revision, jumped>>
counted == <<samples, mishaps, starts>>
history == <<verdict, lagged, lived, broken, standing>>
analysis == <<environment, episodes, saved, worker, job, ram, db, counted,
              history>>

-----------------------------------------------------------------------------
\* What the sentinel and the replay say, and the row of a table it is in.
Verdict == {"OK", "WARNING", "VIOLATION"}

SafetyResult == [status : Verdict \cup {"UNKNOWN"}, warnings : BOOLEAN]

GateResult == {"AWAITING_CI", "BLOCKED"}

WatchdogResult == {"HEALTHY", "DEGRADED", "CRITICAL"}

ReplayResult == [generation : Nat, release : Releases, enough : BOOLEAN,
                 candidate : Candidacy, composite : Compositing]

RowOf(S) == [at : 0..MaxClock, value : S]

\* The statuses of an opportunity upsert_opportunities takes for open.
Open == {"NEW", "VALIDATING", "READY"}

ASSUME AnalysisAssumption ==
    /\ Installed \in Releases
    /\ MaxClock \in Nat \ {0}
    /\ {Silence, ReviewPeriod, MaxSamples, MaxMishaps, MaxStarts}
        \subseteq Nat
    /\ MaxEpisodes \in 0..500 /\ Rulings \subseteq Open
    /\ Retained \subseteq Seq(Episode) /\ Lessons \subseteq Episode
    /\ \A s \in Summaries : IsFiniteSet(DOMAIN s.zones)
    /\ None \notin Int \cup Verdict \cup ReplayResult
    /\ None \notin RowOf(ReplayResult) \cup RowOf(SafetyResult)
    /\ None \notin RowOf(GateResult) \cup RowOf(WatchdogResult)

-----------------------------------------------------------------------------
(***************************************************************************)
(* The database.  Of each analysis table the row that ORDER BY created_at  *)
(* DESC, rowid DESC returns is kept, of the others the number of rows.     *)
(***************************************************************************)
EmptyDatabase ==
    [samples |-> 0, replays |-> 0, replay |-> None, safety |-> None,
     gate |-> None, watchdog |-> None, opportunities |-> <<>>]

\* Mistake: the oldest row is read back.
LatestAscending(row, value, at) ==
    IF row # None /\ row.at <= at THEN row ELSE [at |-> at, value |-> value]

Latest(row, value, at) ==
    IF row # None /\ row.at > at THEN row ELSE [at |-> at, value |-> value]

Counters == {"samples", "replays", "opportunities"}

\* Mistake: only the open opportunities are counted.
StatsOpenOnly(d) ==
    [samples |-> d.samples, replays |-> d.replays,
     opportunities |-> Cardinality({f \in DOMAIN d.opportunities :
                                      d.opportunities[f] \in Open})]

\* stats: the counters the release guard compares.
Stats(d) == [samples |-> d.samples, replays |-> d.replays,
             opportunities |-> Cardinality(DOMAIN d.opportunities)]

NoStats == [samples |-> 0, replays |-> None, opportunities |-> None]

\* An observed opportunity keeps its status, but a resolved one is new again.
Observed(table, f) ==
    IF f \in DOMAIN table /\ table[f] # "RESOLVED" THEN table[f] ELSE "NEW"

\* Mistakes: only new ones are resolved; what was not observed is deleted.
UpsertResolvingNew(table, found) ==
    [f \in DOMAIN table \cup found |->
        IF f \in found THEN Observed(table, f)
        ELSE IF table[f] = "NEW" THEN "RESOLVED" ELSE table[f]]

UpsertReplacing(table, found) == [f \in found |-> Observed(table, f)]

\* upsert_opportunities: the open ones that were not observed are resolved.
Upsert(table, found) ==
    [f \in DOMAIN table \cup found |->
        IF f \in found THEN Observed(table, f)
        ELSE IF table[f] \in Open THEN "RESOLVED" ELSE table[f]]

-----------------------------------------------------------------------------
(***************************************************************************)
(* The caches.                                                             *)
(***************************************************************************)
Unknown == [status |-> "UNKNOWN", warnings |-> FALSE]

\* Runtime.__init__.
Fresh ==
    [replay |-> None, lastReplay |-> -1, safety |-> Unknown,
     lastSafety |-> None, gate |-> "AWAITING_CI", watchdog |-> "DEGRADED",
     stats |-> NoStats, streak |-> 0, error |-> FALSE, journalError |-> FALSE,
     writtenAt |-> None, savedAt |-> None, reviewedAt |-> None,
     audited |-> FALSE]

\* _refresh_agent_cache reads the counters first.
WithStats(r) == [r EXCEPT !.stats = Stats(db)]

\* Whatever the tables hold replaces what the evaluation left.
WithAnalysis(r) ==
    [WithStats(r) EXCEPT
        !.replay = IF db.replay = None THEN @ ELSE db.replay.value,
        !.lastReplay = IF db.replay = None THEN @
                       ELSE db.replay.value.generation,
        !.safety = IF db.safety = None THEN @ ELSE db.safety.value,
        !.lastSafety = IF db.safety = None THEN @ ELSE db.safety.value.status,
        !.gate = IF db.gate = None THEN @ ELSE db.gate.value,
        !.watchdog = IF db.watchdog = None THEN @ ELSE db.watchdog.value]

\* A refresh that fails has read nothing, the counters, or all but the last.
PartlyRefreshed(r) == {r, WithStats(r), WithAnalysis(r)}

Failing ==
    /\ mishaps < MaxMishaps
    /\ mishaps' = mishaps + 1
    /\ broken' = TRUE

-----------------------------------------------------------------------------
(***************************************************************************)
(* async_setup and start: after the caches are read back the replay is due *)
(* again, so that the installed policy reviews the retained episodes.      *)
(***************************************************************************)
\* Mistake: the replay of the previous release stays valid.
StartedKeeping(r) == r

Started(r) == [r EXCEPT !.lastReplay = -1]

StartReads ==
    /\ ram' = Started(WithAnalysis(Fresh))
    /\ broken' = FALSE
    /\ UNCHANGED mishaps

StartFails ==
    /\ mishaps < MaxMishaps
    /\ mishaps' = mishaps + 1
    /\ broken' = TRUE
    /\ \E r \in PartlyRefreshed(Fresh) :
          ram' = Started([r EXCEPT !.error = TRUE])

\* Every site_revision has a model file of its own; the database is shared.
Loaded ==
    /\ saved' = IF site = revision THEN saved ELSE <<>>
    /\ episodes' = IF site = revision THEN episodes ELSE <<>>

Start ==
    /\ worker = "down" /\ starts < MaxStarts
    /\ starts' = starts + 1
    /\ StartReads \/ StartFails
    /\ worker' = "idle"
    /\ release' = source /\ revision' = site
    /\ Loaded
    /\ verdict' = None /\ lagged' = FALSE /\ lived' = 0
    /\ UNCHANGED <<clock, plant, source, site, jumped, job, db, samples,
                   standing>>

-----------------------------------------------------------------------------
(***************************************************************************)
(* One snapshot.                                                           *)
(***************************************************************************)
Learning == {<<"replay-v1", "replay.execute">>,
             <<"intelligence-v1", "candidate.propose">>}
Judging == {<<"safety-sentinel-v1", "safety.evaluate">>}
Gating == {<<"release-gate-v1", "release.evaluate">>}
Watching == {<<"watchdog-v1", "watchdog.evaluate">>}
Duties == Learning \cup Judging \cup Gating \cup Watching

Reviewing ==
    ({"energy-efficiency-v1", "comfort-v1", "schedule-v1", "hydraulics-v1"}
        \X {"optimization.evaluate", "opportunity.propose"})
    \cup {<<"maintenance-v1", "maintenance.evaluate">>,
          <<"maintenance-v1", "opportunity.propose">>,
          <<"data-quality-v1", "data_quality.evaluate">>,
          <<"data-quality-v1", "opportunity.propose">>,
          <<"opportunity-orchestrator-v1", "opportunity.manage">>}

\* A manifest never changes while it is loaded: Runtime audits it once.
MayDo == [r \in Releases |->
            {d \in Duties \cup Reviewing : Allowed(Manifests[r], d[1], d[2])}]

PermissionAudit == [r \in Releases |-> Audit(Manifests[r])]

Permitted(duties) == duties \subseteq MayDo[release]

Learnable == {None} \cup {l \in Lessons : Len(episodes) < MaxEpisodes}

\* The engine takes the snapshot; learned is the episode that ended, if any.
Learned(learned) ==
    IF learned = None THEN episodes ELSE Append(episodes, learned)

\* The replay runs when the engine has learned since the last one.
Replayed(eps) ==
    IF Len(eps) = ram.lastReplay THEN ram
    ELSE [ram EXCEPT !.replay = Replay(eps, release),
                     !.lastReplay = Len(eps)]

\* Never, or long enough ago.
Elapsed(since, minutes) == since # None => clock - since >= minutes

Judgement(appendOnly) ==
    Safety(plant, ram.streak, Manifests[release], PermissionAudit[release],
           appendOnly, ram.error)

\* The sentinel, the gate and the watchdog, in this order.
Judged(r, safety) ==
    [r EXCEPT !.safety = safety, !.lastSafety = safety.status,
              !.streak = FaultStreak(plant, @)]

Gated(r) == [r EXCEPT !.gate = RuntimeGate(r.safety.status)]

Watched(r) ==
    [r EXCEPT !.watchdog = Watchdog(r.safety.status, PermissionAudit[release],
        r.journalError, r.error,
        Elapsed(r.writtenAt, Silence + 1))]

\* The journal is written before the database; an episode it could not hold
\* is censored, after the replay has counted it.
JournalWorks(eps, r, checkpoint) ==
    /\ episodes' = eps
    /\ saved' = IF checkpoint THEN eps ELSE saved
    /\ ram' = [r EXCEPT !.journalError = FALSE,
                        !.savedAt = IF checkpoint THEN clock ELSE @]
    /\ UNCHANGED <<mishaps, broken>>

JournalFails(eps, r, learned) ==
    /\ Failing
    /\ episodes' = IF learned = None THEN eps
                   ELSE [eps EXCEPT ![Len(eps)].outcome = "censored"]
    /\ ram' = [r EXCEPT !.journalError = TRUE]
    /\ UNCHANGED saved

Processed(learned, appendOnly) ==
    LET eps == Learned(learned)
        safety == Judgement(appendOnly)
        r == Watched(Gated(Judged(Replayed(eps), safety)))
        checkpoint == learned # None \/ Elapsed(ram.savedAt, 1)
    IN /\ job' = [plant |-> plant, checkpoint |-> checkpoint,
                  replayed |-> Len(eps) # ram.lastReplay,
                  changed |-> safety.status # ram.lastSafety]
       /\ verdict' = safety.status /\ lived' = Min({lived + 1, 2})
       /\ lagged' = (ram.writtenAt # None /\ clock - ram.writtenAt > Silence)
       /\ standing' = IF safety.warnings = standing.warnings THEN standing
                      ELSE [warnings |-> safety.warnings, since |-> clock]
       /\ IF appendOnly
          THEN \/ JournalWorks(eps, r, checkpoint)
               \/ JournalFails(eps, r, learned)
          ELSE /\ Failing
               /\ episodes' = eps
               /\ saved' = IF checkpoint THEN eps ELSE saved
               /\ ram' = [r EXCEPT !.journalError = FALSE,
                              !.savedAt = IF checkpoint THEN clock ELSE @]

\* That the event log is append-only is read from the database every time:
\* when it cannot be read, the sentinel takes it for a violation.
Analyse ==
    /\ worker = "idle" /\ samples < MaxSamples /\ Permitted(Duties)
    /\ samples' = samples + 1
    /\ \E learned \in Learnable, appendOnly \in BOOLEAN :
          Processed(learned, appendOnly)
    /\ worker' = "analysed"
    /\ UNCHANGED <<environment, db, starts>>

\* An agent without its capability raises: what came before it stays, the
\* journal and the database are not written.
AnalysisDenied ==
    /\ worker = "idle" /\ samples < MaxSamples /\ ~Permitted(Duties)
    /\ samples' = samples + 1
    /\ \E learned \in Learnable :
          LET replayed == Replayed(Learned(learned))
              judged == Judged(replayed, Judgement(TRUE))
              r == CASE ~Permitted(Learning) -> ram
                     [] Permitted(Learning) /\ ~Permitted(Judging) -> replayed
                     [] Permitted(Learning \cup Judging)
                        /\ ~Permitted(Gating) -> judged
                     [] OTHER -> Gated(judged)
          IN /\ episodes' = Learned(learned)
             /\ ram' = [r EXCEPT !.journalError = TRUE]
    /\ UNCHANGED <<environment, saved, worker, job, db, mishaps, starts,
                   history>>

\* An exception in the database part: the rest of it is skipped.
DatabaseFails ==
    /\ Failing
    /\ worker' = "idle"
    /\ job' = None

\* write_batch is one transaction; every sample is a row and an event.
Batched(d) == [d EXCEPT !.samples = @ + 1]

WriteBatch ==
    /\ worker = "analysed"
    /\ \/ /\ db' = Batched(db)
          /\ ram' = [ram EXCEPT !.writtenAt = clock, !.error = FALSE]
          /\ worker' = "written"
          /\ UNCHANGED <<job, mishaps, broken>>
       \/ /\ DatabaseFails
          /\ ram' = [ram EXCEPT !.error = TRUE]
          /\ UNCHANGED db
    /\ UNCHANGED <<environment, episodes, saved, samples, starts, verdict,
                   lagged, lived, standing>>

ReviewDue == Elapsed(ram.reviewedAt, ReviewPeriod)

\* The six agents, the orchestrator and upsert_opportunities; what was
\* stored stays when reading it back fails.
Review ==
    /\ worker = "written" /\ ReviewDue
    /\ \/ /\ Permitted(Reviewing)
          /\ \E s \in Summaries :
                db' = [db EXCEPT !.opportunities =
                          Upsert(@, Reported(s, ram.safety, job.plant))]
          /\ \/ /\ ram' = [ram EXCEPT !.reviewedAt = clock]
                /\ worker' = "reviewed"
                /\ UNCHANGED <<job, mishaps, broken>>
             \/ /\ DatabaseFails
                /\ ram' = [ram EXCEPT !.error = TRUE]
       \/ /\ \/ DatabaseFails
             \/ /\ ~Permitted(Reviewing)
                /\ broken' = TRUE /\ worker' = "idle" /\ job' = None
                /\ UNCHANGED mishaps
          /\ ram' = [ram EXCEPT !.error = TRUE]
          /\ UNCHANGED db
    /\ UNCHANGED <<environment, episodes, saved, samples, starts, verdict,
                   lagged, lived, standing>>

\* persist_analysis: what write_analysis_bundle is given.
Persisted(d) ==
    [d EXCEPT
        !.replays = IF job.replayed THEN @ + 1 ELSE @,
        !.replay = IF job.replayed THEN Latest(@, ram.replay, clock) ELSE @,
        !.safety = IF job.changed \/ job.checkpoint
                   THEN Latest(@, ram.safety, clock) ELSE @,
        !.gate = IF job.checkpoint THEN Latest(@, ram.gate, clock) ELSE @,
        !.watchdog = IF job.checkpoint THEN Latest(@, ram.watchdog, clock)
                     ELSE @]

PersistDue ==
    job.replayed \/ job.changed \/ job.checkpoint \/ ~ram.audited

WriteBundle ==
    /\ worker = "reviewed" \/ (worker = "written" /\ ~ReviewDue)
    /\ \/ /\ db' = IF PersistDue THEN Persisted(db) ELSE db
          /\ ram' = IF PersistDue THEN [ram EXCEPT !.audited = TRUE] ELSE ram
          /\ worker' = IF job.checkpoint THEN "stored" ELSE "idle"
          /\ job' = IF job.checkpoint THEN job ELSE None
          /\ UNCHANGED <<mishaps, broken>>
       \/ /\ PersistDue
          /\ DatabaseFails
          /\ ram' = [ram EXCEPT !.error = TRUE]
          /\ UNCHANGED db
    /\ UNCHANGED <<environment, episodes, saved, samples, starts, verdict,
                   lagged, lived, standing>>

Refresh ==
    /\ worker = "stored"
    /\ \/ /\ ram' = WithAnalysis(ram)
          /\ worker' = "idle" /\ job' = None
          /\ UNCHANGED <<mishaps, broken>>
       \/ /\ DatabaseFails
          /\ \E r \in PartlyRefreshed(ram) : ram' = [r EXCEPT !.error = TRUE]
    /\ UNCHANGED <<environment, episodes, saved, db, samples, starts, verdict,
                   lagged, lived, standing>>

Consume == Analyse \/ AnalysisDenied \/ WriteBatch \/ Review \/ WriteBundle
           \/ Refresh

-----------------------------------------------------------------------------
\* An orderly stop saves the model first; a crash saves nothing.
Stop ==
    /\ worker = "idle"
    /\ saved' = episodes
    /\ worker' = "down"
    /\ UNCHANGED <<environment, episodes, job, ram, db, counted, history>>

Crash ==
    /\ worker # "down" /\ mishaps < MaxMishaps
    /\ mishaps' = mishaps + 1
    /\ worker' = "down"
    /\ episodes' = saved
    /\ job' = None
    /\ UNCHANGED <<environment, saved, ram, db, samples, starts, history>>

Restart == Stop /\ starts < MaxStarts - 1

\* A minute passes, in which the plant may change.
Tick ==
    /\ worker \in {"idle", "down"} /\ clock < MaxClock
    /\ clock' = clock + 1
    /\ plant' \in Plants
    /\ UNCHANGED <<source, release, site, revision, jumped, episodes, saved,
                   worker, job, ram, db, counted, history>>

\* The clock may once be set back.
SetBack ==
    /\ worker \in {"idle", "down"} /\ ~jumped /\ clock > 0
    /\ mishaps < MaxMishaps
    /\ mishaps' = mishaps + 1
    /\ clock' = clock - 1
    /\ jumped' = TRUE
    /\ UNCHANGED <<plant, source, release, site, revision, episodes, saved,
                   worker, job, ram, db, samples, starts, history>>

\* The owner selects a new site_revision in the configuration, which is what
\* setup asks for when the settings of the model have changed.
SelectRevision ==
    /\ mishaps < MaxMishaps
    /\ mishaps' = mishaps + 1
    /\ site' = site + 1
    /\ UNCHANGED <<clock, plant, source, release, revision, jumped, episodes,
                   saved, worker, job, ram, db, samples, starts, history>>

\* External: a person, or a tool of his, says in the database how far an open
\* opportunity is.  The code writes NEW and RESOLVED only.
Rule ==
    /\ mishaps < MaxMishaps
    /\ mishaps' = mishaps + 1
    /\ \E f \in DOMAIN db.opportunities, status \in Rulings :
          /\ db.opportunities[f] \in Open \ {status}
          /\ db' = [db EXCEPT !.opportunities[f] = status]
    /\ UNCHANGED <<environment, episodes, saved, worker, job, ram, samples,
                   starts, history>>

AnalysisInit ==
    /\ clock = 1 /\ jumped = FALSE
    /\ plant \in Plants
    /\ source = Installed /\ release = Installed
    /\ site = 0 /\ revision = 0
    /\ episodes \in Retained /\ saved = episodes
    /\ worker = "down" /\ job = None /\ ram = Fresh
    /\ db = EmptyDatabase
    /\ samples = 0 /\ mishaps = 0 /\ starts = 0
    /\ verdict = None /\ lagged = FALSE /\ lived = 0
    /\ broken = FALSE /\ standing = [warnings |-> FALSE, since |-> clock]

AnalysisNext == Start \/ Consume \/ Restart \/ Crash \/ Tick \/ SetBack
                \/ SelectRevision \/ Rule

AnalysisSpec == AnalysisInit /\ [][AnalysisNext]_analysis

-----------------------------------------------------------------------------
AnalysisTypeOK ==
    /\ clock \in 0..MaxClock /\ plant \in Plants /\ release \in Releases
    /\ worker \in {"down", "idle", "analysed", "written", "reviewed",
                   "stored"}
    /\ \A i \in DOMAIN episodes : episodes[i] \in Episode
    /\ saved = SubSeq(episodes, 1, Len(saved)) \/ broken
    /\ ram.safety \in SafetyResult
    /\ db.safety \in RowOf(SafetyResult) \cup {None}
    /\ db.samples \in 0..samples /\ db.replays \in 0..db.samples
    /\ \A f \in DOMAIN db.opportunities :
          db.opportunities[f] \in Open \cup {"RESOLVED"}

\* Between two snapshots the sensors show what the agents said of the last
\* one, although the caches are read back from the database: a clock that
\* was set back (which makes an older row the latest) or a write that failed
\* is needed to show anything else.
ShownIsEvaluated ==
    worker = "idle" /\ verdict # None /\ ~jumped /\ ~ram.error =>
        /\ ram.safety.status = verdict
        /\ ram.watchdog = "CRITICAL" <=> verdict = "VIOLATION"
        /\ ram.gate = "BLOCKED" <=> verdict = "VIOLATION"

\* "A cached candidate from an older release must not survive unchanged
\* merely because the learning generation has not advanced yet": once this
\* life has processed a snapshot, the candidate shown was made by the
\* installed policy from the episodes now retained, unless a write failed.
CandidateIsCurrent ==
    worker = "idle" /\ verdict # None /\ ~jumped /\ ~broken =>
        /\ ram.replay # None
        /\ ram.replay.release = release
        /\ ram.replay.generation = Len(episodes)

\* A candidate is only proposed to a person on distinct incidents, of which
\* the held-out ones are none it was chosen on and were all warned of in time
\* by one of the rules it may be chosen from.
ProposalIsHeldOut ==
    LET chosenOn == Evidence(episodes).faults
        heldOut == Validation(episodes).faults
        incidents(items) == {episodes[i].incident : i \in items}
    IN worker = "analysed" /\ job.replayed /\ ~ram.journalError
       /\ ram.replay.candidate = "PROPOSED_FOR_HUMAN_REVIEW" =>
        /\ incidents(chosenOn) \cap incidents(heldOut) = {}
        /\ Cardinality(incidents(chosenOn)) >= MinFaults
        /\ \E rule \in Rules \ Composite :
              \A i \in heldOut : rule \in episodes[i].timely

\* The backlog keeps up with the sentinel, although it is only reviewed now
\* and then, any of the writes may fail and people move its entries on: a
\* warning that has stood for a review period is followed up by an open
\* opportunity, and one that has been gone for as long is not, whatever status
\* it was given.  A clock that was set back and a failed write excuse.
FollowUp == <<"maintenance", "safety-warning-followup">>

FollowedUp ==
    FollowUp \in DOMAIN db.opportunities /\ db.opportunities[FollowUp] \in Open

BacklogKeepsUp ==
    /\ worker = "idle" /\ verdict # None /\ ~jumped /\ ~ram.error
    /\ ram.writtenAt - standing.since >= ReviewPeriod
    => (FollowedUp <=> standing.warnings)

\* Evidence is never lost: no table shrinks, whatever fails and whenever
\* Home Assistant dies.
Grows == \A c \in Counters : Stats(db')[c] >= Stats(db)[c]
=============================================================================
