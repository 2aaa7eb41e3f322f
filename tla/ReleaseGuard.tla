----------------------------- MODULE ReleaseGuard ---------------------------
(***************************************************************************)
(* agent_platform/release_guard.py around a running observer: two          *)
(* snapshots of its sensors and a Herdr lease decide whether a release may *)
(* be installed, a third one whether it must be rolled back.               *)
(*                                                                         *)
(* The guard only judges documents.  Who takes the snapshots, holds the    *)
(* lease, copies the source and restarts Home Assistant is outside the     *)
(* repository and does here what docs/heating-release-0.4.1.md asks of it. *)
(* Times are in the minutes of AgentAnalysis.                              *)
(***************************************************************************)
EXTENDS AgentAnalysis

CONSTANTS MinSpacing, MaxSpacing, \* 2 and 10: MIN/MAX_IDLE_CONFIRMATION
          WriterAge,   \* 5: MAX_WRITER_STALENESS_SECONDS
          LeaseAge,    \* 1: MAX_LEASE_VERIFICATION_AGE_SECONDS
          LeaseTTL,    \* 30: MAX_HERDR_LEASE_TTL_SECONDS
          LeaseGrant,  \* how long Herdr grants a lease for
          Documents,   \* release documents an executor may hand in
          PathPolicy   \* level |-> the paths its patterns match

ASSUME GuardAssumption ==
    {MinSpacing, MaxSpacing, WriterAge, LeaseAge, LeaseTTL, LeaseGrant}
        \subseteq Nat

VARIABLES
    stage,   \* where the deployment is
    document, \* the release document, one of Documents
    first, second, post, \* the snapshots, or None
    proof,   \* the lease the executor holds and how it verified it, or None
    herdr,   \* external: whose lease is current and when it expires
    decision,
    fence,   \* the accepted lease of the last GO
    lost     \* the evidence directory was not preserved

deployment == <<stage, document, first, second, post, proof, herdr, decision,
                fence, lost>>
vars == <<analysis, deployment>>

-----------------------------------------------------------------------------
(***************************************************************************)
(* What a snapshot of the sensors says: sensor.py and the plant's own      *)
(* entities.                                                               *)
(***************************************************************************)
\* The states of the sensors of safety, watchdog and permissions.
Verdicts == [safety |-> ram.safety.status, watchdog |-> ram.watchdog,
             permissions |-> PermissionAudit[release]]

\* The attributes of the sensor of the agent platform.
Platform == [version |-> release, revision |-> revision, error |-> ram.error,
             writtenAt |-> ram.writtenAt, database |-> ram.stats]

\* The last four are no sensors but the truth the properties need.
Snapshot ==
    [at |-> clock, relay |-> plant.relay, heating |-> plant.gas,
     pump |-> plant.pump, service |-> plant.service, relief |-> plant.relief,
     agents |-> Verdicts, platform |-> Platform,
     deployment |-> Manifests[release].deployment,
     verdict |-> verdict, lagged |-> lagged, lived |-> lived,
     broken |-> broken]

Idle(s) ==
    \A flag \in {s.relay, s.heating, s.pump, s.service, s.relief} :
        flag = FALSE

Known(s) == None \notin {s.relay, s.heating, s.pump, s.service, s.relief}

\* Mistake: a writer that has not written yet is not stale.
WriterFreshOrSilent(s) ==
    s.platform.writtenAt # None => s.at - s.platform.writtenAt \in 0..WriterAge

WriterFresh(s) ==
    s.platform.writtenAt # None /\ s.at - s.platform.writtenAt \in 0..WriterAge

\* _state_health_checks without the physical part.
Healthy(s, version) ==
    /\ ~s.platform.error
    /\ s.platform.version = version
    /\ s.agents.safety = "OK"
    /\ s.agents.permissions = "PASS" /\ ~s.deployment
    /\ s.agents.watchdog = "HEALTHY"
    /\ WriterFresh(s)

\* Red wins over yellow over green, and an unknown path is red.
Classify(path) ==
    IF path \in PathPolicy["red"] THEN "red"
    ELSE IF path \in PathPolicy["yellow"] THEN "yellow"
    ELSE IF path \in PathPolicy["green"] THEN "green" ELSE "red"

RequiredCI == {"protective_checks", "runtime_ha_2026_5_1",
               "runtime_ha_2026_9_2"}

\* _release_checks: every CI proof is of the very commit to be installed.
Releasable(d) ==
    /\ d.from # None /\ d.target # None /\ d.from # d.target
    /\ d.sha # None
    /\ \A c \in RequiredCI : c \in DOMAIN d.ci /\ d.ci[c] = d.sha
    /\ d.paths # {} /\ \A p \in d.paths : Classify(p) = "green"

\* _deployment_lease_checks, at the time of the second snapshot.  The 30
\* seconds of clock skew it allows are nothing in minutes, and the 30 seconds
\* that must be left are one.
LeaseHeld(p, at) ==
    /\ p # None
    /\ p.token > 0 /\ p.status = "current" /\ p.current = p.token
    /\ at - p.verifiedAt \in 0..LeaseAge
    /\ p.until - at >= 1
    /\ p.until - p.verifiedAt \in 1..LeaseTTL

PreDecision(d, latest) ==
    IF /\ Releasable(d)
       /\ \A s \in {first, latest} : Idle(s) /\ Healthy(s, d.from)
       /\ latest.at - first.at \in MinSpacing..MaxSpacing
       /\ latest.platform.revision = first.platform.revision
       /\ LeaseHeld(proof, latest.at)
    THEN "GO" ELSE "NO_GO"

PersistentCounters == Counters

\* Mistake: compared the wrong way round.
NotProgressing(before, after) ==
    \A c \in PersistentCounters :
        before[c] # None /\ after[c] # None /\ before[c] >= after[c]

NotRegressing(before, after) ==
    \A c \in PersistentCounters :
        before[c] # None /\ after[c] # None /\ after[c] >= before[c]

PostDecision(d, latest) ==
    IF /\ Releasable(d)
       /\ Known(latest) /\ Healthy(latest, d.target)
       /\ latest.at > second.at
       /\ latest.platform.revision = second.platform.revision
       /\ second.platform.writtenAt # None
       /\ latest.platform.writtenAt >= second.platform.writtenAt
       /\ NotRegressing(second.platform.database, latest.platform.database)
    THEN "HEALTHY" ELSE "ROLLBACK_REQUIRED"

-----------------------------------------------------------------------------
(***************************************************************************)
(* The executor (external) and Herdr (external).                           *)
(***************************************************************************)
Executor == 1  \* the fencing token of the executor's lease
Rival == 2     \* that of a later one

NoLease == [token |-> 0, until |-> 0]

Acquire ==
    /\ stage = "first" /\ herdr = NoLease
    /\ herdr' = [token |-> Executor, until |-> clock + LeaseGrant]
    /\ proof' = [token |-> Executor, until |-> clock + LeaseGrant,
                 verifiedAt |-> clock, current |-> Executor,
                 status |-> "current"]
    /\ UNCHANGED <<analysis, stage, document, first, second, post, decision,
                   fence, lost>>

Verify ==
    /\ stage = "first" /\ proof # None
    /\ proof' = [proof EXCEPT
                    !.verifiedAt = clock,
                    !.current = herdr.token,
                    !.status = IF clock < proof.until THEN "current"
                               ELSE "expired"]
    /\ UNCHANGED <<analysis, stage, document, first, second, post, herdr,
                   decision, fence, lost>>

\* A lease that ran out goes to somebody else.
Supersede ==
    /\ herdr.token = Executor /\ clock >= herdr.until
    /\ herdr' = [token |-> Rival, until |-> clock + LeaseGrant]
    /\ UNCHANGED <<analysis, stage, document, first, second, post, proof,
                   decision, fence, lost>>

\* The executor waits for a snapshot that may be the first of two.
TakeFirst ==
    /\ stage = "none" /\ worker = "idle"
    /\ Idle(Snapshot) /\ Healthy(Snapshot, document.from)
    /\ first' = Snapshot
    /\ stage' = "first"
    /\ UNCHANGED <<analysis, document, second, post, proof, herdr, decision,
                   fence, lost>>

\* Mistake: the accepted lease is not returned.
EvaluatePreDeployUnfenced ==
    /\ stage = "first" /\ worker = "idle"
    /\ decision' = PreDecision(document, Snapshot)
    /\ IF decision' = "GO"
       THEN /\ stage' = "go" /\ second' = Snapshot /\ fence' = None
            /\ UNCHANGED <<first, proof, herdr>>
       ELSE /\ stage' = "none" /\ first' = None
            /\ proof' = None /\ herdr' = NoLease
            /\ UNCHANGED <<second, fence>>
    /\ UNCHANGED <<analysis, document, post, lost>>

\* evaluate_pre_deploy of it and a second one; after NO_GO the lease is given
\* back and two new ones are taken.
EvaluatePreDeploy ==
    /\ stage = "first" /\ worker = "idle"
    /\ decision' = PreDecision(document, Snapshot)
    /\ IF decision' = "GO"
       THEN /\ stage' = "go" /\ second' = Snapshot /\ fence' = proof.token
            /\ UNCHANGED <<first, proof, herdr>>
       ELSE /\ stage' = "none" /\ first' = None
            /\ proof' = None /\ herdr' = NoLease
            /\ UNCHANGED <<second, fence>>
    /\ UNCHANGED <<analysis, document, post, lost>>

\* fence_recheck_required_before_mutation.
FenceHeld == herdr.token = fence /\ clock < herdr.until

CopySource(target) ==
    /\ stage = "go" /\ FenceHeld
    /\ source' = target
    /\ stage' = "copied"
    /\ UNCHANGED <<clock, plant, release, site, revision, jumped, episodes,
                   saved, worker, job, ram, db, counted, history, document,
                   first, second, post, proof, herdr, decision, fence, lost>>

RestartCore ==
    /\ stage = "copied" /\ FenceHeld
    /\ Stop
    /\ stage' = "restarted"
    /\ UNCHANGED <<document, first, second, post, proof, herdr, decision,
                   fence, lost>>

\* The mistake the counters are compared for.
LoseEvidence ==
    /\ stage = "restarted" /\ worker = "down" /\ mishaps < MaxMishaps
    /\ mishaps' = mishaps + 1
    /\ db' = EmptyDatabase
    /\ lost' = TRUE
    /\ UNCHANGED <<environment, episodes, saved, worker, job, ram, samples,
                   starts, history, stage, document, first, second, post,
                   proof, herdr, decision, fence>>

\* evaluate_post_deploy.
EvaluatePostDeploy ==
    /\ stage = "restarted" /\ worker = "idle"
    /\ post' = Snapshot
    /\ decision' = PostDecision(document, Snapshot)
    /\ stage' = "judged"
    /\ UNCHANGED <<analysis, document, first, second, proof, herdr, fence,
                   lost>>

Deploy ==
    \/ Acquire \/ Verify \/ Supersede
    \/ TakeFirst \/ EvaluatePreDeploy
    \/ \E target \in Releases \ {release} : CopySource(target)
    \/ RestartCore \/ LoseEvidence
    \/ EvaluatePostDeploy

Init ==
    /\ AnalysisInit
    /\ document \in Documents
    /\ stage = "none" /\ first = None /\ second = None /\ post = None
    /\ proof = None /\ herdr = NoLease
    /\ decision = "NO_GO" /\ fence = None /\ lost = FALSE

Next == (AnalysisNext /\ UNCHANGED deployment) \/ Deploy

Spec == Init /\ [][Next]_vars

-----------------------------------------------------------------------------
TypeOK ==
    /\ AnalysisTypeOK
    /\ stage \in {"none", "first", "go", "copied", "restarted", "judged"}
    /\ decision \in {"GO", "NO_GO", "HEALTHY", "ROLLBACK_REQUIRED"}
    /\ decision = "GO" => fence # None

(***************************************************************************)
(* GO is only said of an installation whose agents really found everything *)
(* in order in both snapshots (the sensors show cached values, which       *)
(* survive a restart and a failed write), and while nobody else owns the   *)
(* deployment: a lease accepted with a GO cannot be superseded before it   *)
(* ends, which Herdr promises of the lease itself and the guard's checks   *)
(* carry over to the fence.  A clock that was set back excuses.            *)
(***************************************************************************)
GoIsEarned ==
    decision = "GO" /\ ~jumped =>
        /\ first.verdict = "OK" /\ second.verdict = "OK"
        /\ clock < proof.until => herdr.token = fence

(***************************************************************************)
(* HEALTHY is only said of the release in the document, after it has       *)
(* evaluated two snapshots of its own, the last of them with success, and  *)
(* stored the first; and every counter of the PRE snapshot is still        *)
(* reached in the database itself, although the guard compares caches.     *)
(* It learns under the site revision GO was said of.                       *)
(***************************************************************************)
HealthyIsEarned ==
    decision = "HEALTHY" =>
        /\ post.platform.version = document.target
        /\ post.platform.revision = second.platform.revision
        /\ ~jumped => post.verdict = "OK" /\ post.lived = 2
        /\ \A c \in Counters : Stats(db)[c] >= second.platform.database[c]

(***************************************************************************)
(* A rollback is only asked for with a reason: the document or the         *)
(* manifest is bad, evidence was lost, something failed, the clock was set *)
(* back, the owner selected another site revision, one of the five flags   *)
(* of the plant is not known or the plant not in order, the writer silent, *)
(* the snapshot was taken before the release had evaluated two, or the PRE *)
(* snapshot lacks a counter, which a GO does not ask for: the cache of the *)
(* counters is empty when setup could not read it and nothing has filled   *)
(* it since.  A release that works is not rolled back because its own      *)
(* caches are still empty.                                                 *)
(***************************************************************************)
NoFalseAlarm ==
    decision = "ROLLBACK_REQUIRED" =>
        \/ ~Releasable(document) \/ post.platform.version # document.target
        \/ post.agents.permissions = "FAIL"
        \/ lost \/ jumped \/ post.broken
        \/ post.platform.revision # second.platform.revision
        \/ ~Known(post) \/ post.verdict # "OK"
        \/ post.lived < 2 \/ post.lagged \/ ~WriterFresh(post)
        \/ post.at = second.at
        \/ \E c \in Counters : second.platform.database[c] = None

(***************************************************************************)
(* Whatever fails and whenever Home Assistant dies, the evidence in the    *)
(* database never becomes less, except by the executor's own mistake.      *)
(***************************************************************************)
EvidenceGrows == [][LoseEvidence \/ Grows]_vars
=============================================================================
