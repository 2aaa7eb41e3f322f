------------------------- MODULE ReleaseGuardProofs ------------------------
(***************************************************************************)
(* What the analysis worker of the observer and the release guard around   *)
(* it keep, proved for any manifests, plants, lessons and documents and    *)
(* any number of snapshots, failures, crashes and restarts: what is shown  *)
(* is what was evaluated, the backlog follows the sentinel, GO and HEALTHY *)
(* are earned, a rollback is never asked for without a reason, and no      *)
(* evidence is lost.                                                       *)
(***************************************************************************)
EXTENDS ReleaseGuard, FiniteSetTheorems, SequenceTheorems, TLAPS

Attributes == {"replay", "lastReplay", "safety", "lastSafety", "gate",
               "watchdog", "stats", "streak", "error", "journalError",
               "writtenAt", "savedAt", "reviewedAt", "audited"}

Tables == {"samples", "replays", "replay", "safety", "gate", "watchdog",
           "opportunities"}

Working == worker \in {"analysed", "written", "reviewed", "stored"}

-----------------------------------------------------------------------------
(***************************************************************************)
(* The inductive invariant of the analysis.                                *)
(***************************************************************************)
AroundTypes ==
    /\ clock \in 0..MaxClock /\ plant \in Plants
    /\ release \in Releases /\ source \in Releases
    /\ jumped \in BOOLEAN /\ broken \in BOOLEAN /\ lagged \in BOOLEAN
    /\ worker \in {"down", "idle", "analysed", "written", "reviewed",
                   "stored"}
    /\ verdict \in Verdict \cup {None} /\ lived \in 0..2 /\ samples \in Nat
    /\ Working => /\ DOMAIN job = {"plant", "checkpoint", "replayed",
                                   "changed"}
                  /\ job.checkpoint \in BOOLEAN
                  /\ job.replayed \in BOOLEAN /\ job.changed \in BOOLEAN

EpisodeTypes ==
    /\ episodes \in Seq(Episode) /\ saved \in Seq(Episode)
    /\ Len(saved) <= Len(episodes)
    /\ \A i \in 1..Len(saved) : saved[i] = episodes[i]

RamTypes(r) ==
    /\ DOMAIN r = Attributes
    /\ r.safety \in SafetyResult
    /\ r.gate \in GateResult /\ r.watchdog \in WatchdogResult
    /\ r.error \in BOOLEAN /\ r.journalError \in BOOLEAN
    /\ r.replay \in ReplayResult \cup {None} /\ r.lastReplay \in Int
    /\ r.writtenAt \in 0..MaxClock \cup {None}
    /\ DOMAIN r.stats = Counters
    /\ \A c \in Counters : r.stats[c] \in Nat \cup {None}

TableTypes(d) ==
    /\ DOMAIN d = Tables
    /\ d.samples \in Nat /\ d.replays \in Nat
    /\ d.replay \in RowOf(ReplayResult) \cup {None}
    /\ d.safety \in RowOf(SafetyResult) \cup {None}
    /\ d.gate \in RowOf(GateResult) \cup {None}
    /\ d.watchdog \in RowOf(WatchdogResult) \cup {None}
    /\ IsFiniteSet(DOMAIN d.opportunities)
    /\ \A f \in DOMAIN d.opportunities :
          d.opportunities[f] \in Open \cup {"RESOLVED"}

Counted ==
    /\ db.replays <= db.samples /\ db.samples <= samples
    /\ worker = "analysed" => db.samples < samples
    /\ worker \in {"written", "reviewed"} => db.replays < db.samples

(* Unless the clock was set back, nothing is dated in the future.          *)
Dated ==
    ~jumped =>
        /\ ram.writtenAt # None => ram.writtenAt <= clock
        /\ \A t \in {"replay", "safety", "gate", "watchdog"} :
              db[t] # None => db[t].at <= clock

(* A life that has evaluated a snapshot has a policy that may, and a life  *)
(* without failure shows none.                                             *)
Living ==
    /\ verdict # None => Permitted(Duties)
    /\ lived = 0 <=> verdict = None
    /\ ram.writtenAt # None => verdict # None
    /\ Working => verdict # None
    /\ worker # "down" /\ Permitted(Duties) =>
         /\ verdict = None => ram.lastReplay = -1
         /\ ~broken => ~ram.error /\ ~ram.journalError
         /\ ~broken /\ verdict # None /\ worker # "analysed" =>
              ram.writtenAt # None

Shows ==
    /\ ram.safety.status = verdict
    /\ ram.gate = "BLOCKED" <=> verdict = "VIOLATION"
    /\ ram.watchdog = "CRITICAL" <=> verdict = "VIOLATION"
    /\ ram.watchdog = "HEALTHY" => lived = 2
    /\ /\ verdict # "VIOLATION" /\ PermissionAudit[release] = "PASS"
       /\ ~broken /\ ~lagged /\ lived = 2
       => ram.watchdog = "HEALTHY"

(* What the agents said is shown while the snapshot is processed, and      *)
(* after it because the database was given the same.                       *)
Shown ==
    /\ \/ Working
       \/ worker = "idle" /\ verdict # None /\ ~jumped /\ ~ram.error
       => Shows
    /\ worker = "stored" /\ ~jumped =>
         /\ db.safety # None /\ db.safety.value = ram.safety
         /\ db.gate # None /\ db.gate.value = ram.gate
         /\ db.watchdog # None /\ db.watchdog.value = ram.watchdog

(* The replay of this life is in the cache and, once it is written, in the *)
(* database.                                                               *)
Current ==
    worker # "down" /\ verdict # None /\ ~jumped /\ ~broken =>
        /\ ram.replay # None
        /\ ram.replay.release = release
        /\ ram.replay.generation = Len(episodes)
        /\ ram.lastReplay = Len(episodes)
        /\ \/ worker \in {"analysed", "written", "reviewed"} /\ job.replayed
           \/ db.replay # None /\ db.replay.value = ram.replay

JustReplayed ==
    /\ worker = "analysed" /\ job.replayed /\ ~ram.journalError =>
         ram.replay = Replay(episodes, release)
    /\ worker \in {"analysed", "written", "reviewed"} /\ job.replayed =>
         ram.replay # None

Counting ==
    worker # "down" => \A c \in Counters :
        ram.stats[c] # None => ram.stats[c] <= Stats(db)[c]

AInv ==
    /\ AroundTypes /\ EpisodeTypes /\ RamTypes(ram) /\ TableTypes(db)
    /\ Counted /\ Dated /\ Living /\ Shown /\ Current /\ JustReplayed
    /\ Counting

-----------------------------------------------------------------------------
(***************************************************************************)
(* The inductive invariant of the deployment.                              *)
(***************************************************************************)
Decided == {"go", "copied", "restarted"}

Stages ==
    /\ stage \in Decided \cup {"none", "first", "judged"}
    /\ decision \in {"GO", "NO_GO", "HEALTHY", "ROLLBACK_REQUIRED"}
    /\ decision = "GO" <=> stage \in Decided
    /\ decision \in {"HEALTHY", "ROLLBACK_REQUIRED"} <=> stage = "judged"
    /\ lost \in BOOLEAN
    /\ lost => stage \in {"restarted", "judged"}

(* The executor's proof is of its own lease, and the lease is only another *)
(* one's after the time the proof names.                                   *)
Leased ==
    /\ DOMAIN herdr = {"token", "until"} /\ herdr.until \in Int
    /\ proof # None =>
         /\ DOMAIN proof = {"token", "until", "verifiedAt", "current",
                            "status"}
         /\ proof.token = Executor /\ proof.until \in Int
         /\ \/ herdr.token = Executor /\ herdr.until = proof.until
            \/ herdr.token = Rival /\ (jumped \/ clock >= proof.until)
    /\ decision = "GO" => proof # None /\ fence = Executor

(* What a snapshot says of the counters was in the database and stays.     *)
Remembers(s) ==
    /\ DOMAIN s.platform.database = Counters
    /\ \A c \in Counters :
         /\ s.platform.database[c] \in Nat \cup {None}
         /\ s.platform.database[c] # None /\ ~lost =>
              s.platform.database[c] <= Stats(db)[c]

Snapped ==
    /\ stage \in {"first"} \cup Decided /\ ~jumped => first.verdict = "OK"
    /\ stage \in Decided =>
         /\ second.at \in Int
         /\ second.platform.writtenAt \in Int
         /\ second.platform.writtenAt <= second.at
         /\ ~jumped => second.verdict = "OK" /\ second.at <= clock
         /\ Remembers(second)

(* The life that follows the restart.                                      *)
Restarted ==
    stage = "restarted" /\ worker # "down" =>
        /\ ~jumped /\ ram.writtenAt # None => ram.writtenAt >= second.at
        /\ ~lost /\ ~broken => \A c \in Counters :
             /\ ram.stats[c] # None
             /\ second.platform.database[c] # None =>
                  second.platform.database[c] <= ram.stats[c]

CountersKnown ==
    /\ stage = "judged" => \A c \in Counters :
          second.platform.database[c] \in Nat \cup {None}
    /\ decision = "HEALTHY" => \A c \in Counters :
          second.platform.database[c] \in Nat

DInv == /\ Stages /\ Leased /\ Snapped /\ Restarted /\ CountersKnown
        /\ HealthyIsEarned /\ NoFalseAlarm

IInv == AInv /\ DInv

-----------------------------------------------------------------------------
(***************************************************************************)
(* The operators of the model.                                             *)
(***************************************************************************)
\* None is none of the values the caches and the tables hold.
LEMMA NoneIsNoValue ==
    /\ None \notin Int /\ None \notin Verdict /\ None \notin ReplayResult
    /\ None \notin RowOf(ReplayResult) /\ None \notin RowOf(SafetyResult)
    /\ None \notin RowOf(GateResult) /\ None \notin RowOf(WatchdogResult)
BY AnalysisAssumption

\* The least of two numbers.
LEMMA LessOfTwo ==
    ASSUME NEW a \in Int, NEW b \in Int
    PROVE  /\ a <= b => Min({a, b}) = a
           /\ b <= a => Min({a, b}) = b
<1>1. \A x \in {a, b} : (\A y \in {a, b} : x <= y) =>
          (a <= b => x = a) /\ (b <= a => x = b)
  OBVIOUS
<1>2. \E x \in {a, b} : \A y \in {a, b} : x <= y
  OBVIOUS
<1> QED
  BY <1>1, <1>2 DEF Min

\* What a replay and a proposal return.
LEMMA ReplayType ==
    ASSUME NEW eps \in Seq(Episode), NEW v \in Releases
    PROVE  /\ Replay(eps, v) \in ReplayResult
           /\ Replay(eps, v).generation = Len(eps)
           /\ Replay(eps, v).release = v
<1>1. EnoughFor(eps, Best(eps, Rules \ Composite)) \in BOOLEAN
  BY ZenonT(30) DEF EnoughFor
<1>2. Proposal(eps) \in Candidacy
  BY ZenonT(30) DEF Proposal, Candidacy
<1>3. CompositeSearch(eps) \in Compositing
  BY ZenonT(30) DEF CompositeSearch, Compositing
<1>4. Len(eps) \in Nat
  OBVIOUS
<1> QED
  BY <1>1, <1>2, <1>3, <1>4 DEF Replay, ReplayResult

\* What the sentinel says of a plant.
LEMMA SafetyType ==
    ASSUME NEW p, NEW streak, NEW m, NEW a, NEW o, NEW e
    PROVE  /\ Safety(p, streak, m, a, o, e) \in SafetyResult
           /\ Safety(p, streak, m, a, o, e).status \in Verdict
<1>1. Warned(p, streak, e) \in BOOLEAN
  BY ZenonT(30) DEF Warned
<1> QED
  BY <1>1 DEF Safety, SafetyResult, Verdict

\* The counters of a database are numbers.
LEMMA StatsType ==
    ASSUME NEW d, TableTypes(d)
    PROVE  /\ DOMAIN Stats(d) = Counters
           /\ \A c \in Counters : Stats(d)[c] \in Nat
<1>1. Cardinality(DOMAIN d.opportunities) \in Nat
  BY FS_CardinalityType DEF TableTypes
<1>2. d.replays \in Nat
  BY DEF TableTypes
<1> QED
  BY <1>1, <1>2 DEF Stats, Counters, TableTypes

\* Reading the counters back changes them alone.
LEMMA StatsRead ==
    ASSUME NEW r, RamTypes(r), TableTypes(db)
    PROVE  /\ RamTypes(WithStats(r))
           /\ WithStats(r).stats = Stats(db)
           /\ \A a \in Attributes \ {"stats"} : WithStats(r)[a] = r[a]
<1>1. /\ DOMAIN WithStats(r) = Attributes
      /\ WithStats(r).stats = Stats(db)
      /\ \A a \in Attributes \ {"stats"} : WithStats(r)[a] = r[a]
  BY DEF RamTypes, WithStats, Attributes
<1>2. DOMAIN Stats(db) = Counters /\ \A c \in Counters : Stats(db)[c] \in Nat
  BY StatsType
<1> QED
  BY <1>1, <1>2 DEF RamTypes, Attributes

\* Reading everything back replaces what the tables hold.
LEMMA AnalysisRead ==
    ASSUME NEW r, RamTypes(r), TableTypes(db)
    PROVE  /\ RamTypes(WithAnalysis(r))
           /\ WithAnalysis(r).stats = Stats(db)
           /\ WithAnalysis(r).replay =
                IF db.replay = None THEN r.replay ELSE db.replay.value
           /\ WithAnalysis(r).lastReplay =
                IF db.replay = None THEN r.lastReplay
                ELSE db.replay.value.generation
           /\ WithAnalysis(r).safety =
                IF db.safety = None THEN r.safety ELSE db.safety.value
           /\ WithAnalysis(r).gate =
                IF db.gate = None THEN r.gate ELSE db.gate.value
           /\ WithAnalysis(r).watchdog =
                IF db.watchdog = None THEN r.watchdog ELSE db.watchdog.value
           /\ WithAnalysis(r).error = r.error
           /\ WithAnalysis(r).journalError = r.journalError
           /\ WithAnalysis(r).writtenAt = r.writtenAt
           /\ WithAnalysis(r).reviewedAt = r.reviewedAt
<1> DEFINE w == WithStats(r)
<1> DEFINE s == WithAnalysis(r)
<1>1. RamTypes(w) /\ w.stats = Stats(db) /\ DOMAIN w = Attributes
  BY StatsRead DEF RamTypes
<1>2. /\ w.replay = r.replay /\ w.lastReplay = r.lastReplay
      /\ w.safety = r.safety /\ w.gate = r.gate /\ w.watchdog = r.watchdog
      /\ w.error = r.error /\ w.journalError = r.journalError
      /\ w.writtenAt = r.writtenAt /\ w.reviewedAt = r.reviewedAt
  BY StatsRead DEF Attributes
<1>3. /\ DOMAIN s = Attributes
      /\ s.stats = w.stats
      /\ s.replay = IF db.replay = None THEN w.replay ELSE db.replay.value
      /\ s.lastReplay = IF db.replay = None THEN w.lastReplay
                        ELSE db.replay.value.generation
      /\ s.safety = IF db.safety = None THEN w.safety ELSE db.safety.value
      /\ s.gate = IF db.gate = None THEN w.gate ELSE db.gate.value
      /\ s.watchdog = IF db.watchdog = None THEN w.watchdog
                      ELSE db.watchdog.value
      /\ s.error = w.error /\ s.journalError = w.journalError
      /\ s.writtenAt = w.writtenAt /\ s.reviewedAt = w.reviewedAt
  <2> HIDE DEF w
  <2>1. s = [w EXCEPT
        !.replay = IF db.replay = None THEN @ ELSE db.replay.value,
        !.lastReplay = IF db.replay = None THEN @
                       ELSE db.replay.value.generation,
        !.safety = IF db.safety = None THEN @ ELSE db.safety.value,
        !.lastSafety = IF db.safety = None THEN @ ELSE db.safety.value.status,
        !.gate = IF db.gate = None THEN @ ELSE db.gate.value,
        !.watchdog = IF db.watchdog = None THEN @ ELSE db.watchdog.value]
    BY DEF WithAnalysis, w
  <2> HIDE DEF s
  <2> QED
    BY <2>1, <1>1 DEF Attributes
<1>4. RamTypes(s)
  <2> HIDE DEF w, s
  <2>1. /\ s.replay \in ReplayResult \cup {None} /\ s.lastReplay \in Int
    BY <1>1, <1>3 DEF RamTypes, TableTypes, RowOf, ReplayResult
  <2>2. /\ s.safety \in SafetyResult /\ s.gate \in GateResult
        /\ s.watchdog \in WatchdogResult
    BY <1>1, <1>3 DEF RamTypes, TableTypes, RowOf
  <2> QED
    BY <2>1, <2>2, <1>1, <1>3 DEF RamTypes
<1> QED
  BY <1>1, <1>2, <1>3, <1>4

\* A refresh that failed half way, too.
LEMMA PartlyRead ==
    ASSUME NEW r, RamTypes(r), TableTypes(db), NEW s \in PartlyRefreshed(r)
    PROVE  /\ RamTypes(s)
           /\ s.stats \in {r.stats, Stats(db)}
           /\ s.error = r.error /\ s.journalError = r.journalError
           /\ s.writtenAt = r.writtenAt /\ s.reviewedAt = r.reviewedAt
<1>1. CASE s = r
  BY <1>1
<1>2. CASE s = WithStats(r)
  BY <1>2, StatsRead DEF Attributes
<1>3. CASE s = WithAnalysis(r)
  BY <1>3, AnalysisRead
<1> QED
  BY <1>1, <1>2, <1>3 DEF PartlyRefreshed

\* A new life knows nothing.
LEMMA FreshType ==
    /\ RamTypes(Fresh) /\ Fresh.stats = NoStats /\ Fresh.writtenAt = None
    /\ ~Fresh.error /\ ~Fresh.journalError /\ Fresh.lastReplay = -1
    /\ Fresh.reviewedAt = None
<1>1. /\ DOMAIN NoStats = Counters
      /\ \A c \in Counters : NoStats[c] \in Nat \cup {None}
  BY DEF NoStats, Counters
<1>2. /\ Fresh.stats = NoStats /\ Fresh.writtenAt = None
      /\ Fresh.error = FALSE /\ Fresh.journalError = FALSE
      /\ Fresh.lastReplay = -1 /\ Fresh.reviewedAt = None
      /\ Fresh.safety = Unknown /\ Fresh.gate = "AWAITING_CI"
      /\ Fresh.watchdog = "DEGRADED" /\ Fresh.replay = None
      /\ DOMAIN Fresh = Attributes
  BY DEF Fresh, Attributes
<1>3. Fresh.safety \in SafetyResult
  BY <1>2 DEF Unknown, SafetyResult
<1>7. Fresh.error \in BOOLEAN /\ Fresh.journalError \in BOOLEAN
  BY <1>2, Zenon
<1>4. /\ Fresh.gate \in GateResult /\ Fresh.watchdog \in WatchdogResult
      /\ Fresh.replay \in ReplayResult \cup {None}
      /\ Fresh.lastReplay \in Int
      /\ Fresh.writtenAt \in 0..MaxClock \cup {None}
  BY <1>2 DEF GateResult, WatchdogResult
<1>5. /\ DOMAIN Fresh.stats = Counters
      /\ \A c \in Counters : Fresh.stats[c] \in Nat \cup {None}
  BY <1>1, <1>2
<1>6. RamTypes(Fresh)
  BY <1>2, <1>3, <1>4, <1>5, <1>7, Zenon DEF RamTypes
<1> QED
  BY <1>2, <1>6

-----------------------------------------------------------------------------
(***************************************************************************)
(* What every step of the analysis keeps, and what the deployment may rely *)
(* on: time goes forward, the tables grow, and the caches of a life are    *)
(* only filled from the tables and dated with the clock.                   *)
(***************************************************************************)
Advance ==
    /\ jumped => jumped'
    /\ clock <= clock' \/ jumped'
    /\ Grows
    /\ \/ worker' = "down"
       \/ /\ worker = "down" /\ ram'.writtenAt = None
          /\ broken' \/ ram'.stats = Stats(db)
       \/ /\ worker # "down" /\ (broken => broken')
          /\ ram'.stats \in {ram.stats, Stats(db)}
          /\ ram'.writtenAt \in {ram.writtenAt, clock}

\* Where nothing is written, no table shrinks.
LEMMA NothingWritten ==
    ASSUME TableTypes(db), db' = db
    PROVE  Grows
<1>1. \A c \in Counters : Stats(db)[c] \in Nat
  BY StatsType
<1>2. \A c \in Counters : Stats(db')[c] >= Stats(db)[c]
  BY <1>1
<1> QED
  BY <1>2 DEF Grows

LEMMA InitiallyAInv == AnalysisInit => AInv
<1> SUFFICES ASSUME AnalysisInit PROVE AInv
  OBVIOUS
<1> USE DEF AnalysisInit
<1>10. jumped \in BOOLEAN /\ broken \in BOOLEAN /\ lagged \in BOOLEAN
  BY Zenon
<1>11. 1 \in 0..MaxClock
  BY AnalysisAssumption
<1>1. AroundTypes
  BY <1>10, <1>11, AnalysisAssumption DEF AroundTypes, Working
<1>2. EpisodeTypes
  BY AnalysisAssumption DEF EpisodeTypes
<1>3. RamTypes(ram)
  BY FreshType
<1>4. /\ DOMAIN db = Tables /\ db.samples = 0 /\ db.replays = 0
      /\ db.replay = None /\ db.safety = None /\ db.gate = None
      /\ db.watchdog = None /\ db.opportunities = <<>>
  BY DEF EmptyDatabase, Tables
<1>5. DOMAIN db.opportunities = {}
  BY <1>4
<1>6. TableTypes(db)
  BY <1>4, <1>5, FS_EmptySet DEF TableTypes
<1>7. Counted /\ Dated
  BY <1>4, FreshType DEF Counted, Dated
<1>8. Living /\ Shown /\ Current /\ JustReplayed /\ Counting
  BY FreshType DEF Living, Shown, Current, JustReplayed, Counting, Working
<1> QED
  BY <1>1, <1>2, <1>3, <1>6, <1>7, <1>8 DEF AInv

\* What the caches are when Home Assistant comes up.
LEMMA Beginning ==
    ASSUME AInv, Start
    PROVE  /\ RamTypes(ram') /\ ram'.lastReplay = -1
           /\ ram'.writtenAt = None /\ ram'.reviewedAt = None
           /\ ram'.stats \in {NoStats, Stats(db)}
           /\ \/ broken'
              \/ ~ram'.error /\ ~ram'.journalError /\ ram'.stats = Stats(db)
<1>1. TableTypes(db)
  BY DEF AInv
<1>2. ASSUME NEW r, RamTypes(r)
      PROVE  LET s == Started(r)
             IN /\ RamTypes(s) /\ s.lastReplay = -1
                /\ s.writtenAt = r.writtenAt /\ s.stats = r.stats
                /\ s.reviewedAt = r.reviewedAt
                /\ s.error = r.error /\ s.journalError = r.journalError
  BY <1>2 DEF Started, RamTypes, Attributes
<1>3. ASSUME NEW r, RamTypes(r)
      PROVE  LET s == [r EXCEPT !.error = TRUE]
             IN /\ RamTypes(s)
                /\ s.writtenAt = r.writtenAt /\ s.stats = r.stats
                /\ s.reviewedAt = r.reviewedAt
  BY <1>3 DEF RamTypes, Attributes
<1>4. CASE StartReads
  <2>1. /\ RamTypes(WithAnalysis(Fresh))
        /\ WithAnalysis(Fresh).stats = Stats(db)
        /\ WithAnalysis(Fresh).writtenAt = None
        /\ WithAnalysis(Fresh).reviewedAt = None
        /\ ~WithAnalysis(Fresh).error /\ ~WithAnalysis(Fresh).journalError
    BY <1>1, FreshType, AnalysisRead
  <2> QED
    BY <2>1, <1>2, <1>4 DEF StartReads
<1>5. CASE StartFails
  <2>1. PICK r \in PartlyRefreshed(Fresh) :
          ram' = Started([r EXCEPT !.error = TRUE])
    BY <1>5 DEF StartFails
  <2>2. /\ RamTypes(r) /\ r.stats \in {NoStats, Stats(db)}
        /\ r.writtenAt = None /\ r.reviewedAt = None
    BY <1>1, FreshType, PartlyRead
  <2>3. /\ RamTypes([r EXCEPT !.error = TRUE])
        /\ [r EXCEPT !.error = TRUE].writtenAt = None
        /\ [r EXCEPT !.error = TRUE].reviewedAt = None
        /\ [r EXCEPT !.error = TRUE].stats = r.stats
    BY <2>2, <1>3
  <2>4. broken'
    BY <1>5 DEF StartFails
  <2> QED
    BY <2>1, <2>2, <2>3, <2>4, <1>2
<1> QED
  BY <1>4, <1>5 DEF Start

LEMMA StartStep ==
    ASSUME AInv, Start
    PROVE  AInv' /\ Advance
<1>1. /\ worker = "down" /\ worker' = "idle" /\ release' = source
      /\ verdict' = None /\ lived' = 0 /\ lagged' = FALSE
      /\ clock' = clock /\ plant' = plant /\ source' = source
      /\ jumped' = jumped /\ db' = db /\ samples' = samples
      /\ \/ episodes' = episodes /\ saved' = saved
         \/ episodes' = <<>> /\ saved' = <<>>
  BY DEF Start, Loaded
<1>0. broken' \in BOOLEAN
  BY DEF Start, StartReads, StartFails
<1>2. TableTypes(db) /\ TableTypes(db')
  BY <1>1 DEF AInv
<1>13. lagged' \in BOOLEAN /\ jumped' \in BOOLEAN
  BY <1>1, Zenon DEF AInv, AroundTypes
<1>14. /\ clock' \in 0..MaxClock /\ plant' \in Plants
       /\ release' \in Releases /\ source' \in Releases
       /\ lived' \in 0..2 /\ samples' \in Nat
  BY <1>1 DEF AInv, AroundTypes
<1>15. verdict' \in Verdict \cup {None} /\ ~Working'
  BY <1>1 DEF Working
<1>3. AroundTypes'
  BY <1>0, <1>1, <1>13, <1>14, <1>15 DEF AroundTypes
<1>4. EpisodeTypes'
  <2>1. CASE episodes' = episodes /\ saved' = saved
    BY <2>1 DEF AInv, EpisodeTypes
  <2>2. CASE episodes' = <<>> /\ saved' = <<>>
    BY <2>2 DEF EpisodeTypes
  <2> QED
    BY <1>1, <2>1, <2>2
<1>5. Counted'
  BY <1>1 DEF AInv, Counted
<1>6. Dated'
  BY <1>1, Beginning DEF AInv, Dated
<1>7. Living'
  BY <1>1, Beginning DEF Living, Working
<1>8. Shown' /\ Current' /\ JustReplayed'
  BY <1>1 DEF Shown, Current, JustReplayed, Working
<1>9. Counting'
  <2>1. CASE ram'.stats = Stats(db)
    <3>1. ram'.stats = Stats(db)'
      BY <2>1, <1>1 DEF Stats
    <3>2. \A c \in Counters : Stats(db)'[c] \in Nat
      BY <1>1, <1>2, StatsType DEF Stats
    <3> QED
      BY <3>1, <3>2 DEF Counting
  <2>2. CASE ram'.stats = NoStats
    <3>1. Stats(db)'["samples"] \in Nat
      BY <1>1, <1>2 DEF Stats, TableTypes
    <3>2. \A c \in Counters : ram'.stats[c] # None => ram'.stats[c] <= Stats(db)'[c]
      BY <2>2, <3>1 DEF NoStats, Counters
    <3> QED
      BY <3>2 DEF Counting
  <2> QED
    BY <2>1, <2>2, Beginning
<1>10. RamTypes(ram)'
  BY Beginning DEF RamTypes
<1>11. TableTypes(db)'
  BY <1>2 DEF TableTypes
<1>12. Advance
  <2>1. Grows
    BY <1>1, <1>2, NothingWritten
  <2>2. clock \in Int
    BY DEF AInv, AroundTypes
  <2> QED
    BY <2>1, <2>2, <1>1, Beginning DEF Advance
<1> QED
  BY <1>3, <1>4, <1>5, <1>6, <1>7, <1>8, <1>9, <1>10, <1>11, <1>12 DEF AInv

\* A step that leaves the caches and the tables alone and stops the worker
\* or finds it at rest.
LEMMA CalmStep ==
    ASSUME AInv, ram' = ram, db' = db, release' = release, plant' \in Plants,
           source' \in Releases, samples' = samples,
           clock' \in 0..MaxClock, jumped' \in BOOLEAN,
           jumped => jumped', clock <= clock' \/ jumped',
           EpisodeTypes',
           \/ worker' = "down"
           \/ /\ worker = "idle" /\ worker' = "idle"
              /\ episodes' = episodes,
           UNCHANGED history
    PROVE  AInv' /\ Advance
<1>1. /\ verdict' = verdict /\ lived' = lived /\ lagged' = lagged
      /\ broken' = broken
  BY DEF history
<1>2. AroundTypes'
  BY <1>1 DEF AInv, AroundTypes, Working
<1>3. RamTypes(ram)' /\ TableTypes(db)' /\ Counted'
  BY <1>1 DEF AInv, RamTypes, TableTypes, Counted
<1>4. Dated'
  <2>1. clock \in Int /\ clock' \in Int
    BY DEF AInv, AroundTypes
  <2>2. ram.writtenAt # None => ram.writtenAt \in Int
    BY DEF AInv, RamTypes
  <2>3. \A t \in {"replay", "safety", "gate", "watchdog"} :
           db[t] # None => db[t].at \in Int
    BY DEF AInv, TableTypes, RowOf
  <2> QED
    BY <2>1, <2>2, <2>3 DEF AInv, Dated
<1>5. Living'
  <2>1. Permitted(Duties)' <=> Permitted(Duties)
    BY DEF Permitted
  <2> QED
    BY <2>1, <1>1 DEF AInv, Living, Working
<1>6. Shown'
  <2>1. Shows' <=> Shows
    BY <1>1 DEF Shows
  <2> QED
    BY <2>1, <1>1 DEF AInv, Shown, Working
<1>7. Current' /\ JustReplayed'
  BY <1>1 DEF AInv, Current, JustReplayed
<1>8. Counting'
  BY <1>1 DEF AInv, Counting, Stats
<1>9. Advance
  <2>1. Grows
    BY NothingWritten DEF AInv
  <2> QED
    BY <2>1, <1>1 DEF Advance
<1> QED
  BY <1>2, <1>3, <1>4, <1>5, <1>6, <1>7, <1>8, <1>9 DEF AInv

\* A step beside the worker: somebody installs a source, selects a site
\* revision or rules on the opportunities, of which none comes or goes.
LEMMA Aside ==
    ASSUME AInv, clock' = clock, plant' = plant, source' \in Releases,
           release' = release, jumped' = jumped, episodes' = episodes,
           saved' = saved, worker' = worker, job' = job, ram' = ram,
           samples' = samples, TableTypes(db'),
           \A t \in Tables \ {"opportunities"} : db'[t] = db[t],
           DOMAIN db'.opportunities = DOMAIN db.opportunities,
           UNCHANGED history
    PROVE  AInv' /\ Advance
<1>1. /\ verdict' = verdict /\ lagged' = lagged /\ lived' = lived
      /\ broken' = broken
  BY DEF history
<1>2. /\ db'.samples = db.samples /\ db'.replays = db.replays
      /\ \A t \in {"replay", "safety", "gate", "watchdog"} : db'[t] = db[t]
      /\ Stats(db') = Stats(db)
  BY DEF Tables, Stats
<1>3. AroundTypes' /\ EpisodeTypes' /\ RamTypes(ram)' /\ TableTypes(db)'
  BY <1>1
     DEF AInv, AroundTypes, EpisodeTypes, RamTypes, TableTypes, Working
<1>4. Counted' /\ Dated' /\ Counting'
  BY <1>1, <1>2 DEF AInv, Counted, Dated, Counting, Stats
<1>5. Living'
  <2>1. Permitted(Duties)' <=> Permitted(Duties)
    BY DEF Permitted
  <2> QED
    BY <2>1, <1>1 DEF AInv, Living, Working
<1>6. Shown'
  <2>1. Shows' <=> Shows
    BY <1>1 DEF Shows
  <2> QED
    BY <2>1, <1>1, <1>2 DEF AInv, Shown, Working
<1>7. Current' /\ JustReplayed'
  BY <1>1, <1>2 DEF AInv, Current, JustReplayed
<1>8. Advance
  <2>1. \A c \in Counters : Stats(db')[c] >= Stats(db)[c]
    BY <1>2, StatsType DEF AInv
  <2>2. worker' = "down" \/ (worker # "down" /\ ram'.stats = ram.stats
                             /\ ram'.writtenAt = ram.writtenAt)
    OBVIOUS
  <2> QED
    BY <1>1, <2>1, <2>2 DEF AInv, AroundTypes, Advance, Grows
<1> QED
  BY <1>3, <1>4, <1>5, <1>6, <1>7, <1>8 DEF AInv

LEMMA SelectRevisionStep ==
    ASSUME AInv, SelectRevision
    PROVE  AInv' /\ Advance
<1>1. /\ clock' = clock /\ plant' = plant /\ source' = source
      /\ release' = release /\ jumped' = jumped /\ episodes' = episodes
      /\ saved' = saved /\ worker' = worker /\ job' = job /\ ram' = ram
      /\ db' = db /\ samples' = samples /\ UNCHANGED history
  BY DEF SelectRevision
<1>2. source' \in Releases /\ TableTypes(db')
  BY <1>1 DEF AInv, AroundTypes
<1> QED
  BY <1>1, <1>2, Aside

LEMMA RuleStep ==
    ASSUME AInv, Rule
    PROVE  AInv' /\ Advance
<1>1. PICK f \in DOMAIN db.opportunities, status \in Rulings :
          db' = [db EXCEPT !.opportunities[f] = status]
  BY DEF Rule
<1>2. /\ clock' = clock /\ plant' = plant /\ source' = source
      /\ release' = release /\ jumped' = jumped /\ episodes' = episodes
      /\ saved' = saved /\ worker' = worker /\ job' = job /\ ram' = ram
      /\ samples' = samples /\ UNCHANGED history
  BY DEF Rule, environment
<1>3. TableTypes(db) /\ source \in Releases /\ status \in Open
  BY AnalysisAssumption DEF AInv, AroundTypes
<1>4. /\ DOMAIN db' = Tables
      /\ \A t \in Tables \ {"opportunities"} : db'[t] = db[t]
      /\ db'.opportunities = [db.opportunities EXCEPT ![f] = status]
  BY <1>1, <1>3 DEF TableTypes, Tables
<1>5. /\ DOMAIN db'.opportunities = DOMAIN db.opportunities
      /\ \A g \in DOMAIN db.opportunities :
            db'.opportunities[g] \in {db.opportunities[g], status}
  BY <1>4
<1>6. /\ db'.samples = db.samples /\ db'.replays = db.replays
      /\ db'.replay = db.replay /\ db'.safety = db.safety
      /\ db'.gate = db.gate /\ db'.watchdog = db.watchdog
  BY <1>4 DEF Tables
<1>7. TableTypes(db')
  BY <1>3, <1>4, <1>5, <1>6 DEF TableTypes
<1> QED
  BY <1>2, <1>3, <1>4, <1>5, <1>7, Aside

LEMMA StopStep ==
    ASSUME AInv, Stop
    PROVE  AInv' /\ Advance
<1>1. EpisodeTypes'
  BY DEF AInv, Stop, EpisodeTypes
<1> QED
  BY <1>1, CalmStep
     DEF AInv, AroundTypes, Stop, environment, counted

LEMMA CrashStep ==
    ASSUME AInv, Crash
    PROVE  AInv' /\ Advance
<1>1. EpisodeTypes'
  BY DEF AInv, Crash, EpisodeTypes
<1> QED
  BY <1>1, CalmStep
     DEF AInv, AroundTypes, Crash, environment

LEMMA TickStep ==
    ASSUME AInv, Tick
    PROVE  AInv' /\ Advance
<1>1. EpisodeTypes'
  BY DEF AInv, Tick, EpisodeTypes
<1>2. MaxClock \in Nat
  BY AnalysisAssumption
<1>3. /\ clock' \in 0..MaxClock /\ clock <= clock'
  BY <1>2 DEF AInv, AroundTypes, Tick
<1> QED
  BY <1>1, <1>3, CalmStep DEF AInv, AroundTypes, Tick, counted

LEMMA SetBackStep ==
    ASSUME AInv, SetBack
    PROVE  AInv' /\ Advance
<1>1. EpisodeTypes'
  BY DEF AInv, SetBack, EpisodeTypes
<1>2. MaxClock \in Nat
  BY AnalysisAssumption
<1>3. clock' \in 0..MaxClock
  BY <1>2 DEF AInv, AroundTypes, SetBack
<1> QED
  BY <1>1, <1>3, CalmStep DEF AInv, AroundTypes, SetBack

-----------------------------------------------------------------------------
(***************************************************************************)
(* A snapshot is processed.                                                *)
(***************************************************************************)
\* The engine only ever appends what it learned.
LEMMA LearnedType ==
    ASSUME AInv, NEW learned \in Learnable
    PROVE  /\ Learned(learned) \in Seq(Episode)
           /\ Len(saved) <= Len(Learned(learned))
           /\ \A i \in 1..Len(saved) : saved[i] = Learned(learned)[i]
           /\ learned = None => Learned(learned) = episodes
           /\ learned # None =>
                /\ Len(Learned(learned)) = Len(episodes) + 1
<1>1. episodes \in Seq(Episode) /\ EpisodeTypes
  BY DEF AInv, EpisodeTypes
<1>2. CASE learned = None
  BY <1>1, <1>2 DEF Learned, EpisodeTypes
<1>3. CASE learned # None
  <2>1. learned \in Episode
    BY <1>3, AnalysisAssumption DEF Learnable
  <2>2. Learned(learned) = Append(episodes, learned)
    BY <1>3 DEF Learned
  <2> QED
    BY <2>1, <2>2, <1>1, <1>3 DEF EpisodeTypes
<1> QED
  BY <1>2, <1>3

\* What the replay leaves in the caches.
LEMMA ReplayedAs ==
    ASSUME AInv, NEW eps \in Seq(Episode)
    PROVE  /\ RamTypes(Replayed(eps))
           /\ \A a \in Attributes \ {"replay", "lastReplay"} :
                Replayed(eps)[a] = ram[a]
           /\ Replayed(eps).lastReplay = Len(eps)
           /\ IF Len(eps) = ram.lastReplay
              THEN Replayed(eps).replay = ram.replay
              ELSE Replayed(eps).replay = Replay(eps, release)
<1>1. RamTypes(ram) /\ release \in Releases
  BY DEF AInv, AroundTypes
<1>2. Len(eps) \in Int
  OBVIOUS
<1>3. Replay(eps, release) \in ReplayResult
  BY <1>1, ReplayType
<1>4. DOMAIN Replayed(eps) = Attributes
  BY <1>1 DEF Replayed, RamTypes, Attributes
<1>5. /\ \A a \in Attributes \ {"replay", "lastReplay"} :
           Replayed(eps)[a] = ram[a]
      /\ Replayed(eps).lastReplay = Len(eps)
      /\ IF Len(eps) = ram.lastReplay
         THEN Replayed(eps).replay = ram.replay
         ELSE Replayed(eps).replay = Replay(eps, release)
  BY <1>1 DEF Replayed, RamTypes, Attributes
<1>6. RamTypes(Replayed(eps))
  BY <1>1, <1>2, <1>3, <1>4, <1>5 DEF RamTypes, Attributes
<1> QED
  BY <1>5, <1>6

\* What the sentinel, the gate and the watchdog leave in the caches r.
LEMMA WatchedAs ==
    ASSUME NEW r, RamTypes(r), NEW safety \in SafetyResult
    PROVE  LET s == Watched(Gated(Judged(r, safety)))
           IN /\ RamTypes(s) /\ s.safety = safety
              /\ s.gate = RuntimeGate(safety.status)
              /\ s.watchdog = Watchdog(safety.status, PermissionAudit[release],
                   r.journalError, r.error, Elapsed(r.writtenAt, Silence + 1))
              /\ \A a \in {"replay", "lastReplay", "stats", "error",
                           "journalError", "writtenAt", "reviewedAt"} :
                    s[a] = r[a]
<1> DEFINE j == Judged(r, safety)
           g == Gated(j)
           s == Watched(g)
<1>1. /\ DOMAIN j = Attributes /\ j.safety = safety
      /\ \A a \in Attributes \ {"safety", "lastSafety", "streak"} :
            j[a] = r[a]
  BY DEF Judged, RamTypes, Attributes
<1>2. /\ DOMAIN g = Attributes /\ g.gate = RuntimeGate(j.safety.status)
      /\ \A a \in Attributes \ {"gate"} : g[a] = j[a]
  <2> HIDE DEF j
  <2> QED
    BY <1>1 DEF Gated, Attributes
<1>3. /\ DOMAIN s = Attributes
      /\ s.watchdog = Watchdog(g.safety.status, PermissionAudit[release],
            g.journalError, g.error, Elapsed(g.writtenAt, Silence + 1))
      /\ \A a \in Attributes \ {"watchdog"} : s[a] = g[a]
  <2> HIDE DEF g
  <2> QED
    BY <1>2 DEF Watched, Attributes
<1> HIDE DEF j, g, s
<1>4. /\ s.safety = safety
      /\ s.gate = RuntimeGate(safety.status)
      /\ s.watchdog = Watchdog(safety.status, PermissionAudit[release],
            r.journalError, r.error, Elapsed(r.writtenAt, Silence + 1))
      /\ s.replay = r.replay /\ s.lastReplay = r.lastReplay
      /\ s.stats = r.stats /\ s.error = r.error
      /\ s.journalError = r.journalError /\ s.writtenAt = r.writtenAt
      /\ s.reviewedAt = r.reviewedAt
  BY <1>1, <1>2, <1>3 DEF Attributes
<1>5. s.gate \in GateResult /\ s.watchdog \in WatchdogResult
  BY <1>4 DEF RuntimeGate, Watchdog, GateResult, WatchdogResult
<1>6. RamTypes(s)
  BY <1>3, <1>4, <1>5 DEF RamTypes
<1> QED
  BY <1>4, <1>6 DEF s, g, j

\* What the snapshot left in memory and on the disk.
LEMMA Processing ==
    ASSUME AInv, NEW learned \in Learnable, NEW appendOnly \in BOOLEAN,
           Processed(learned, appendOnly)
    PROVE  /\ RamTypes(ram')
           /\ ram'.safety = Judgement(appendOnly)
           /\ ram'.gate = RuntimeGate(ram'.safety.status)
           /\ ram'.watchdog =
                Watchdog(ram'.safety.status, PermissionAudit[release],
                         ram.journalError, ram.error,
                         Elapsed(ram.writtenAt, Silence + 1))
           /\ ram'.lastReplay = Len(Learned(learned))
           /\ IF Len(Learned(learned)) = ram.lastReplay
              THEN ram'.replay = ram.replay
              ELSE ram'.replay = Replay(Learned(learned), release)
           /\ ram'.stats = ram.stats /\ ram'.error = ram.error
           /\ ram'.writtenAt = ram.writtenAt
           /\ ram'.reviewedAt = ram.reviewedAt
           /\ EpisodeTypes'
           /\ broken => broken'
           /\ broken' \in BOOLEAN
           /\ ~ram'.journalError => episodes' = Learned(learned)
           /\ broken' \/ ~ram'.journalError
<1> DEFINE eps == Learned(learned)
           safety == Judgement(appendOnly)
           r == Watched(Gated(Judged(Replayed(eps), safety)))
<1>1. /\ eps \in Seq(Episode) /\ Len(saved) <= Len(eps)
      /\ \A i \in 1..Len(saved) : saved[i] = eps[i]
      /\ learned = None => eps = episodes
      /\ learned # None => Len(eps) = Len(episodes) + 1
  BY LearnedType
<1>2. safety \in SafetyResult
  BY SafetyType DEF Judgement
<1>3. /\ RamTypes(r) /\ r.safety = safety
      /\ r.gate = RuntimeGate(safety.status)
      /\ r.watchdog = Watchdog(safety.status, PermissionAudit[release],
            ram.journalError, ram.error, Elapsed(ram.writtenAt, Silence + 1))
      /\ r.replay = Replayed(eps).replay /\ r.lastReplay = Len(eps)
      /\ r.stats = ram.stats /\ r.error = ram.error
      /\ r.journalError = ram.journalError /\ r.writtenAt = ram.writtenAt
      /\ r.reviewedAt = ram.reviewedAt
  <2>1. /\ RamTypes(Replayed(eps))
        /\ Replayed(eps).lastReplay = Len(eps)
        /\ Replayed(eps).stats = ram.stats
        /\ Replayed(eps).error = ram.error
        /\ Replayed(eps).journalError = ram.journalError
        /\ Replayed(eps).writtenAt = ram.writtenAt
        /\ Replayed(eps).reviewedAt = ram.reviewedAt
    BY <1>1, ReplayedAs DEF Attributes
  <2> HIDE DEF eps, safety
  <2> QED
    BY <2>1, <1>2, WatchedAs
<1>4. ASSUME NEW e \in BOOLEAN, NEW t,
             ram' = [r EXCEPT !.journalError = e, !.savedAt = t]
      PROVE  /\ RamTypes(ram') /\ ram'.journalError = e
             /\ \A a \in Attributes \ {"journalError", "savedAt"} :
                   ram'[a] = r[a]
  <2> HIDE DEF r
  <2> QED
    BY <1>3, <1>4 DEF RamTypes, Attributes
<1>5. ASSUME NEW e \in BOOLEAN, ram' = [r EXCEPT !.journalError = e]
      PROVE  /\ RamTypes(ram') /\ ram'.journalError = e
             /\ \A a \in Attributes \ {"journalError", "savedAt"} :
                   ram'[a] = r[a]
  <2> HIDE DEF r
  <2> QED
    BY <1>3, <1>5 DEF RamTypes, Attributes
<1>6. /\ \/ /\ episodes' = eps /\ saved' \in {eps, saved}
            /\ \E t : ram' = [r EXCEPT !.journalError = FALSE, !.savedAt = t]
            /\ broken' = broken \/ broken' = TRUE
         \/ /\ saved' = saved /\ broken' = TRUE
            /\ ram' = [r EXCEPT !.journalError = TRUE]
            /\ episodes' = IF learned = None THEN eps
                           ELSE [eps EXCEPT ![Len(eps)].outcome = "censored"]
  BY ZenonT(60) DEF Processed, JournalWorks, JournalFails, Failing
<1>7. /\ RamTypes(ram')
      /\ \A a \in Attributes \ {"journalError", "savedAt"} : ram'[a] = r[a]
  BY <1>4, <1>5, <1>6
<1>8. EpisodeTypes'
  <2> HIDE DEF eps, safety, r
  <2>1. CASE episodes' = eps /\ saved' \in {eps, saved}
    BY <2>1, <1>1 DEF EpisodeTypes, AInv
  <2>2. CASE learned # None /\ saved' = saved
             /\ episodes' = [eps EXCEPT ![Len(eps)].outcome = "censored"]
    <3>1. /\ Len(eps) \in DOMAIN eps /\ Len(saved) \in Nat
          /\ saved \in Seq(Episode)
          /\ Len(saved) <= Len(episodes) /\ Len(episodes) \in Nat
      BY <2>2, <1>1 DEF AInv, EpisodeTypes
    <3>2. [eps[Len(eps)] EXCEPT !.outcome = "censored"] \in Episode
      <4>1. eps[Len(eps)] \in Episode
        BY <1>1, <3>1
      <4> QED
        BY <4>1 DEF Episode
    <3>3. /\ episodes' \in Seq(Episode) /\ Len(episodes') = Len(eps)
          /\ \A i \in 1..Len(saved) : episodes'[i] = eps[i]
      BY <2>2, <3>1, <3>2, <1>1
    <3> QED
      BY <3>1, <3>3, <2>2, <1>1 DEF EpisodeTypes
  <2> QED
    BY <2>1, <2>2, <1>1, <1>6
<1>9. /\ ~ram'.journalError => episodes' = eps
      /\ broken' \/ ~ram'.journalError
  BY <1>4, <1>5, <1>6
<1>10. broken' \in BOOLEAN /\ (broken => broken')
  BY <1>6 DEF AInv, AroundTypes
<1>11. /\ ram'.safety = r.safety /\ ram'.gate = r.gate
       /\ ram'.watchdog = r.watchdog /\ ram'.lastReplay = r.lastReplay
       /\ ram'.replay = r.replay /\ ram'.stats = r.stats
       /\ ram'.error = r.error /\ ram'.writtenAt = r.writtenAt
       /\ ram'.reviewedAt = r.reviewedAt
  BY <1>7 DEF Attributes
<1>12. IF Len(eps) = ram.lastReplay THEN r.replay = ram.replay
       ELSE r.replay = Replay(eps, release)
  BY <1>1, <1>3, ReplayedAs
<1> HIDE DEF r
<1> QED
  BY <1>3, <1>7, <1>8, <1>9, <1>10, <1>11, <1>12

LEMMA AnalyseStep ==
    ASSUME AInv, Analyse
    PROVE  AInv' /\ Advance
<1>1. PICK learned \in Learnable, appendOnly \in BOOLEAN :
          Processed(learned, appendOnly)
  BY DEF Analyse
<1> DEFINE eps == Learned(learned)
           safety == Judgement(appendOnly)
<1>2. /\ worker = "idle" /\ worker' = "analysed" /\ Permitted(Duties)
      /\ clock' = clock /\ plant' = plant /\ source' = source
      /\ release' = release /\ jumped' = jumped /\ db' = db
      /\ samples' = samples + 1
  BY DEF Analyse, environment
<1>3. /\ job' = [plant |-> plant,
                 checkpoint |-> learned # None \/ Elapsed(ram.savedAt, 1),
                 replayed |-> Len(eps) # ram.lastReplay,
                 changed |-> safety.status # ram.lastSafety]
      /\ verdict' = safety.status
      /\ lived' = Min({lived + 1, 2})
      /\ lagged' = (ram.writtenAt # None /\ clock - ram.writtenAt > Silence)
  BY <1>1 DEF Processed
<1>4. /\ DOMAIN job' = {"plant", "checkpoint", "replayed", "changed"}
      /\ job'.checkpoint \in BOOLEAN /\ job'.replayed \in BOOLEAN
      /\ job'.changed \in BOOLEAN
      /\ job'.replayed <=> Len(eps) # ram.lastReplay
  BY <1>3, Zenon
<1>5. verdict' \in Verdict /\ verdict' # None
  BY <1>3, SafetyType, NoneIsNoValue DEF Judgement
<1>6. /\ lived' \in {1, 2}
      /\ lived' = 2 <=> lived # 0
      /\ lived = 0 <=> verdict = None
  <2>1. lived \in 0..2 /\ (lived = 0 <=> verdict = None)
    BY DEF AInv, AroundTypes, Living
  <2> QED
    BY <2>1, <1>3, LessOfTwo
<1>7. RamTypes(ram) /\ RamTypes(ram') /\ TableTypes(db) /\ ram'.safety = safety
      /\ ram'.safety.status = verdict'
  BY <1>1, <1>3, Processing DEF AInv
<1>8. /\ clock \in 0..MaxClock /\ samples \in Nat /\ lived' \in 0..2
      /\ lagged' \in BOOLEAN /\ episodes \in Seq(Episode)
  BY <1>3, <1>6 DEF AInv, AroundTypes, EpisodeTypes
<1>9. AroundTypes'
  BY <1>1, <1>2, <1>4, <1>5, <1>8, Processing DEF AInv, AroundTypes, Working
<1>10. EpisodeTypes' /\ RamTypes(ram)' /\ TableTypes(db)'
  BY <1>1, <1>2, <1>7, Processing DEF RamTypes, TableTypes
<1>11. Counted'
  BY <1>2, <1>7, <1>8 DEF AInv, Counted, TableTypes
<1>12. Dated'
  BY <1>1, <1>2, Processing DEF AInv, Dated
<1>13. Living'
  <2>1. Permitted(Duties)'
    BY <1>2 DEF Permitted
  <2>2. ram'.writtenAt = ram.writtenAt /\ ram'.error = ram.error
        /\ (broken => broken') /\ (~broken' => ~ram'.journalError)
    BY <1>1, Processing
  <2>3. ~broken => ~ram.error
    BY <1>2 DEF AInv, Living
  <2> QED
    BY <2>1, <2>2, <2>3, <1>2, <1>5, <1>6 DEF Living
<1>14. Shows'
  <2> DEFINE silent == Elapsed(ram.writtenAt, Silence + 1)
  <2>1. /\ ram'.safety.status = verdict'
        /\ ram'.gate = RuntimeGate(verdict')
        /\ ram'.watchdog = Watchdog(verdict', PermissionAudit[release],
                                    ram.journalError, ram.error, silent)
    BY <1>1, <1>3, Processing
  <2>2. ~silent => lived' = 2
    BY <1>6 DEF Elapsed, AInv, Living
  <2>3. ~broken' /\ ~lagged' /\ lived' = 2 =>
          ~ram.journalError /\ ~ram.error /\ ~silent
    <3>1. broken => broken'
      BY <1>1, Processing
    <3>2. SUFFICES ASSUME ~broken', ~lagged', lived' = 2
                   PROVE  ~ram.journalError /\ ~ram.error /\ ~silent
      OBVIOUS
    <3>3. ~ram.journalError /\ ~ram.error /\ ram.writtenAt # None
      BY <1>2, <1>6, <3>1, <3>2 DEF AInv, Living
    <3>4. ram.writtenAt \in Int /\ Silence \in Int /\ clock \in Int
      BY <1>7, <1>8, <3>3, AnalysisAssumption DEF RamTypes
    <3>5. ~(clock - ram.writtenAt > Silence)
      BY <1>3, <3>2, <3>3
    <3>6. ~(clock - ram.writtenAt >= Silence + 1)
      BY <3>4, <3>5
    <3>7. ~silent
      BY <3>3, <3>6 DEF Elapsed
    <3> QED
      BY <3>3, <3>7
  <2> HIDE DEF silent
  <2>4. ram'.gate = "BLOCKED" <=> verdict' = "VIOLATION"
    BY <2>1 DEF RuntimeGate
  <2>5. /\ ram'.watchdog = "CRITICAL" <=> verdict' = "VIOLATION"
        /\ ram'.watchdog = "HEALTHY" => lived' = 2
        /\ /\ verdict' # "VIOLATION" /\ PermissionAudit[release] = "PASS"
           /\ ~broken' /\ ~lagged' /\ lived' = 2
           => ram'.watchdog = "HEALTHY"
    BY <2>1, <2>2, <2>3 DEF Watchdog
  <2> QED
    BY <2>1, <2>4, <2>5, <1>2 DEF Shows, PermissionAudit
<1>15. Shown'
  BY <1>2, <1>14 DEF Shown
<1>16. Current'
  <2> SUFFICES ASSUME ~jumped', ~broken'
               PROVE  /\ ram'.replay # None
                      /\ ram'.replay.release = release'
                      /\ ram'.replay.generation = Len(episodes')
                      /\ ram'.lastReplay = Len(episodes')
                      /\ \/ job'.replayed
                         \/ db'.replay # None /\ db'.replay.value = ram'.replay
    BY <1>2 DEF Current
  <2>1. /\ episodes' = eps /\ ~broken /\ ~jumped
        /\ ram'.lastReplay = Len(eps)
    BY <1>1, <1>2, Processing
  <2>2. eps \in Seq(Episode) /\ release \in Releases
    BY LearnedType DEF AInv, AroundTypes
  <2>3. CASE job'.replayed
    <3>1. ram'.replay = Replay(eps, release)
      BY <2>3, <1>1, <1>4, Processing
    <3>2. /\ ram'.replay \in ReplayResult /\ ram'.replay.release = release
          /\ ram'.replay.generation = Len(eps)
      BY <3>1, <2>2, ReplayType
    <3> QED
      BY <3>2, <2>1, <2>3, <1>2, NoneIsNoValue
  <2>4. CASE ~job'.replayed
    <3>1. ram'.replay = ram.replay /\ Len(eps) = ram.lastReplay
      BY <2>4, <1>1, <1>4, Processing
    <3>2. verdict # None
      BY <3>1, <1>2, <2>2 DEF AInv, Living
    <3>3. /\ ram.replay # None /\ ram.replay.release = release
          /\ ram.replay.generation = Len(episodes)
          /\ ram.lastReplay = Len(episodes)
          /\ db.replay # None /\ db.replay.value = ram.replay
      BY <3>2, <2>1, <1>2 DEF AInv, Current
    <3> QED
      BY <3>1, <3>3, <2>1, <1>2
  <2> QED
    BY <2>3, <2>4, <1>4
<1>17. JustReplayed'
  <2>1. eps \in Seq(Episode) /\ release \in Releases
    BY LearnedType DEF AInv, AroundTypes
  <2>2. SUFFICES ASSUME job'.replayed
                 PROVE  /\ ram'.replay # None
                        /\ ~ram'.journalError =>
                             ram'.replay = Replay(episodes', release')
    BY DEF JustReplayed
  <2>3. ram'.replay = Replay(eps, release)
    BY <2>2, <1>1, <1>4, Processing
  <2>4. ram'.replay # None
    BY <2>1, <2>3, ReplayType, NoneIsNoValue
  <2> QED
    BY <2>3, <2>4, <1>1, <1>2, Processing
<1>18. Counting'
  <2>1. ram'.stats = ram.stats
    BY <1>1, Processing
  <2> QED
    BY <2>1, <1>2 DEF AInv, Counting, Stats
<1>19. Advance
  <2>1. Grows
    BY <1>2, <1>7, NothingWritten
  <2> QED
    BY <2>1, <1>1, <1>2, <1>8, Processing DEF Advance
<1> QED
  BY <1>9, <1>10, <1>11, <1>12, <1>13, <1>15, <1>16, <1>17, <1>18, <1>19
     DEF AInv

LEMMA AnalysisDeniedStep ==
    ASSUME AInv, AnalysisDenied
    PROVE  AInv' /\ Advance /\ ram'.reviewedAt = ram.reviewedAt
<1>1. /\ worker = "idle" /\ worker' = "idle" /\ ~Permitted(Duties)
      /\ clock' = clock /\ plant' = plant /\ source' = source
      /\ release' = release /\ jumped' = jumped /\ db' = db
      /\ samples' = samples + 1 /\ saved' = saved
      /\ verdict' = verdict /\ lived' = lived /\ broken' = broken
      /\ lagged' = lagged
  BY DEF AnalysisDenied, environment, history
<1>2. verdict = None
  BY <1>1 DEF AInv, Living
<1>3. EpisodeTypes' /\ RamTypes(ram') /\ ram'.stats = ram.stats
      /\ ram'.writtenAt = ram.writtenAt
      /\ ram'.reviewedAt = ram.reviewedAt
  <2>1. PICK learned \in Learnable :
          LET replayed == Replayed(Learned(learned))
              judged == Judged(replayed, Judgement(TRUE))
          IN /\ episodes' = Learned(learned)
             /\ \E r \in {ram, replayed, judged, Gated(judged)} :
                   ram' = [r EXCEPT !.journalError = TRUE]
    BY ZenonT(60) DEF AnalysisDenied
  <2> DEFINE eps == Learned(learned)
             replayed == Replayed(eps)
             judged == Judged(replayed, Judgement(TRUE))
             gated == Gated(judged)
  <2>2. /\ eps \in Seq(Episode) /\ Len(saved) <= Len(eps)
        /\ \A i \in 1..Len(saved) : saved[i] = eps[i]
    BY LearnedType
  <2>3. EpisodeTypes'
    BY <1>1, <2>1, <2>2 DEF AInv, EpisodeTypes
  <2>4. /\ RamTypes(replayed) /\ replayed.stats = ram.stats
        /\ replayed.writtenAt = ram.writtenAt
        /\ replayed.reviewedAt = ram.reviewedAt
    BY <2>2, ReplayedAs DEF Attributes
  <2>5. /\ RamTypes(judged) /\ judged.stats = ram.stats
        /\ judged.writtenAt = ram.writtenAt
        /\ judged.reviewedAt = ram.reviewedAt
    <3> DEFINE safety == Judgement(TRUE)
    <3>1. safety \in SafetyResult
      BY SafetyType DEF Judgement
    <3> HIDE DEF replayed, safety
    <3>2. /\ DOMAIN judged = Attributes /\ judged.safety = safety
          /\ \A a \in Attributes \ {"safety", "lastSafety", "streak"} :
                judged[a] = replayed[a]
      BY <2>4 DEF Judged, RamTypes, Attributes, safety
    <3> QED
      BY <2>4, <3>1, <3>2 DEF RamTypes, Attributes
  <2>6. /\ RamTypes(gated) /\ gated.stats = ram.stats
        /\ gated.writtenAt = ram.writtenAt
        /\ gated.reviewedAt = ram.reviewedAt
    <3> HIDE DEF judged
    <3>1. /\ DOMAIN gated = Attributes
          /\ gated.gate = RuntimeGate(judged.safety.status)
          /\ \A a \in Attributes \ {"gate"} : gated[a] = judged[a]
      BY <2>5 DEF Gated, RamTypes, Attributes
    <3>2. gated.gate \in GateResult
      BY <3>1 DEF RuntimeGate, GateResult
    <3> QED
      BY <2>5, <3>1, <3>2 DEF RamTypes, Attributes
  <2>7. RamTypes(ram)
    BY DEF AInv
  <2> HIDE DEF eps, replayed, judged, gated
  <2>8. PICK r \in {ram, replayed, judged, gated} :
          ram' = [r EXCEPT !.journalError = TRUE]
    BY <2>1 DEF eps, replayed, judged, gated
  <2>9. /\ RamTypes(r) /\ r.stats = ram.stats
        /\ r.writtenAt = ram.writtenAt
        /\ r.reviewedAt = ram.reviewedAt
    BY <2>4, <2>5, <2>6, <2>7
  <2>10. RamTypes(ram') /\ ram'.stats = r.stats
         /\ ram'.writtenAt = r.writtenAt
         /\ ram'.reviewedAt = r.reviewedAt
    BY <2>8, <2>9 DEF RamTypes, Attributes
  <2> QED
    BY <2>3, <2>9, <2>10
<1>4. AroundTypes'
  BY <1>1 DEF AInv, AroundTypes, Working
<1>5. RamTypes(ram)' /\ TableTypes(db)'
  BY <1>1, <1>3 DEF AInv, RamTypes, TableTypes
<1>6. Counted'
  BY <1>1 DEF AInv, AroundTypes, Counted, TableTypes
<1>7. Dated'
  BY <1>1, <1>3 DEF AInv, Dated
<1>8. Living'
  <2>1. Permitted(Duties)' <=> Permitted(Duties)
    BY <1>1 DEF Permitted
  <2> QED
    BY <2>1, <1>1, <1>2, <1>3 DEF AInv, Living, Working
<1>9. Shown' /\ Current' /\ JustReplayed'
  BY <1>1, <1>2 DEF Shown, Current, JustReplayed, Working
<1>10. Counting'
  BY <1>1, <1>3 DEF AInv, Counting, Stats
<1>11. Advance
  <2>1. Grows
    BY <1>1, NothingWritten DEF AInv
  <2> QED
    BY <2>1, <1>1, <1>3 DEF AInv, AroundTypes, Advance
<1> QED
  BY <1>3, <1>4, <1>5, <1>6, <1>7, <1>8, <1>9, <1>10, <1>11 DEF AInv

-----------------------------------------------------------------------------
(***************************************************************************)
(* The database part of a snapshot.                                        *)
(***************************************************************************)
\* Wherever it fails, the rest of it is skipped: the error is shown, and
\* what was stored before stays.
LEMMA GivenUp ==
    ASSUME AInv, Working, worker' = "idle", broken' = TRUE,
           RamTypes(ram'), ram'.error, ram'.writtenAt = ram.writtenAt,
           ram'.stats \in {ram.stats, Stats(db)},
           TableTypes(db'), Grows,
           db'.samples = db.samples, db'.replays = db.replays,
           \A t \in {"replay", "safety", "gate", "watchdog"} : db'[t] = db[t],
           clock' = clock, plant' = plant, source' = source,
           release' = release, jumped' = jumped, episodes' = episodes,
           saved' = saved, samples' = samples, verdict' = verdict,
           lagged' = lagged, lived' = lived
    PROVE  AInv' /\ Advance
<1>1. worker # "down"
  BY DEF Working
<1>2. AroundTypes' /\ EpisodeTypes' /\ RamTypes(ram)' /\ TableTypes(db)'
  BY DEF AInv, AroundTypes, EpisodeTypes, RamTypes, TableTypes, Working
<1>3. Counted'
  BY DEF AInv, Counted
<1>4. Dated'
  BY DEF AInv, Dated
<1>5. Living'
  <2>1. Permitted(Duties)' <=> Permitted(Duties)
    BY DEF Permitted
  <2>2. verdict # None
    BY DEF AInv, Living
  <2> QED
    BY <2>1, <2>2, <1>1 DEF AInv, Living, Working
<1>6. Shown' /\ Current' /\ JustReplayed'
  BY DEF Shown, Current, JustReplayed, Working
<1>7. Counting'
  <2>1. \A c \in Counters : /\ Stats(db)[c] \in Nat /\ Stats(db')[c] \in Nat
                            /\ Stats(db')[c] >= Stats(db)[c]
    BY StatsType DEF AInv, Grows
  <2>2. \A c \in Counters : ram.stats[c] # None =>
            ram.stats[c] <= Stats(db)[c] /\ ram.stats[c] \in Nat
    BY <1>1 DEF AInv, Counting, RamTypes
  <2>3. CASE ram'.stats = ram.stats
    BY <2>1, <2>2, <2>3 DEF Counting, Stats
  <2>4. CASE ram'.stats = Stats(db)
    BY <2>1, <2>4 DEF Counting, Stats
  <2> QED
    BY <2>3, <2>4
<1>8. Advance
  BY <1>1 DEF AInv, AroundTypes, Advance
<1> QED
  BY <1>2, <1>3, <1>4, <1>5, <1>6, <1>7, <1>8 DEF AInv

\* Only the error is new in the caches.
LEMMA ErrorShown ==
    ASSUME NEW r, RamTypes(r)
    PROVE  /\ RamTypes([r EXCEPT !.error = TRUE])
           /\ [r EXCEPT !.error = TRUE].error
           /\ [r EXCEPT !.error = TRUE].stats = r.stats
           /\ [r EXCEPT !.error = TRUE].writtenAt = r.writtenAt
           /\ [r EXCEPT !.error = TRUE].reviewedAt = r.reviewedAt
<1>1. /\ DOMAIN [r EXCEPT !.error = TRUE] = Attributes
      /\ [r EXCEPT !.error = TRUE].error = TRUE
      /\ \A a \in Attributes \ {"error"} :
            [r EXCEPT !.error = TRUE][a] = r[a]
  BY DEF RamTypes, Attributes
<1>2. RamTypes([r EXCEPT !.error = TRUE])
  BY <1>1 DEF RamTypes, Attributes
<1> QED
  BY <1>1, <1>2 DEF Attributes

LEMMA WriteBatchStep ==
    ASSUME AInv, WriteBatch
    PROVE  AInv' /\ Advance
<1>1. /\ worker = "analysed" /\ Working
      /\ clock' = clock /\ plant' = plant /\ source' = source
      /\ release' = release /\ jumped' = jumped
      /\ episodes' = episodes /\ saved' = saved /\ samples' = samples
      /\ verdict' = verdict /\ lagged' = lagged /\ lived' = lived
  BY DEF WriteBatch, environment, Working
<1>2. RamTypes(ram) /\ TableTypes(db)
  BY DEF AInv
<1>3. CASE /\ db' = Batched(db)
           /\ ram' = [ram EXCEPT !.writtenAt = clock, !.error = FALSE]
           /\ worker' = "written"
           /\ UNCHANGED <<job, mishaps, broken>>
  <2>1. /\ DOMAIN db' = Tables /\ db'.samples = db.samples + 1
        /\ \A t \in Tables \ {"samples"} : db'[t] = db[t]
    BY <1>2, <1>3 DEF Batched, TableTypes, Tables
  <2>2. /\ DOMAIN ram' = Attributes /\ ram'.writtenAt = clock
        /\ ram'.error = FALSE
        /\ \A a \in Attributes \ {"writtenAt", "error"} : ram'[a] = ram[a]
    BY <1>2, <1>3 DEF RamTypes, Attributes
  <2>3. /\ db'.replays = db.replays /\ db'.replay = db.replay
        /\ db'.safety = db.safety /\ db'.gate = db.gate
        /\ db'.watchdog = db.watchdog
        /\ db'.opportunities = db.opportunities
    BY <2>1 DEF Tables
  <2>4. /\ ram'.replay = ram.replay /\ ram'.lastReplay = ram.lastReplay
        /\ ram'.safety = ram.safety /\ ram'.gate = ram.gate
        /\ ram'.watchdog = ram.watchdog /\ ram'.stats = ram.stats
        /\ ram'.journalError = ram.journalError
    BY <2>2 DEF Attributes
  <2>5. clock \in 0..MaxClock
    BY DEF AInv, AroundTypes
  <2>19. RamTypes(ram')
    BY <2>2, <2>4, <2>5, <1>2 DEF RamTypes
  <2>20. TableTypes(db')
    BY <2>1, <2>3, <1>2 DEF TableTypes
  <2>6. RamTypes(ram') /\ TableTypes(db')
    BY <2>19, <2>20
  <2>7. RamTypes(ram)' /\ TableTypes(db)'
    BY <2>6 DEF RamTypes, TableTypes
  <2>8. AroundTypes' /\ EpisodeTypes'
    BY <1>1, <1>3 DEF AInv, AroundTypes, EpisodeTypes, Working
  <2>9. Counted'
    BY <1>1, <1>3, <2>1, <2>3, <1>2 DEF AInv, AroundTypes, Counted, TableTypes
  <2>10. Dated'
    <3>1. ~jumped => \A t \in {"replay", "safety", "gate", "watchdog"} :
              db'[t] # None => db'[t].at <= clock
      BY <2>3 DEF AInv, Dated
    <3> QED
      BY <3>1, <1>1, <2>2, <2>5 DEF Dated
  <2>11. Living'
    <3>1. Permitted(Duties)' <=> Permitted(Duties)
      BY <1>1 DEF Permitted
    <3>2. clock # None
      BY <2>5, NoneIsNoValue
    <3> QED
      BY <3>1, <3>2, <1>1, <1>3, <2>2, <2>4 DEF AInv, Living, Working
  <2>12. Shown'
    <3>1. Shows
      BY <1>1 DEF AInv, Shown
    <3>2. Shows'
      BY <3>1, <1>1, <1>3, <2>4 DEF Shows
    <3> QED
      BY <3>2, <1>3 DEF Shown
  <2>13. Current'
    BY <1>1, <1>3, <2>3, <2>4 DEF AInv, Current
  <2>14. JustReplayed'
    BY <1>1, <1>3, <2>4 DEF AInv, JustReplayed
  <2>15. Grows
    <3>1. \A c \in Counters : Stats(db)[c] \in Nat
      BY <1>2, StatsType
    <3>2. /\ Stats(db').samples = Stats(db).samples + 1
          /\ Stats(db').replays = Stats(db).replays
          /\ Stats(db').opportunities = Stats(db).opportunities
      BY <2>1, <2>3 DEF Stats
    <3>3. \A c \in Counters : Stats(db')[c] >= Stats(db)[c]
      BY <3>1, <3>2 DEF Counters
    <3> QED
      BY <3>3 DEF Grows, Stats
  <2>16. Counting'
    <3>1. \A c \in Counters : /\ Stats(db)[c] \in Nat /\ Stats(db')[c] \in Nat
                              /\ Stats(db')[c] >= Stats(db)[c]
      BY <2>15, <2>6, <1>2, StatsType DEF Grows
    <3>2. \A c \in Counters : ram.stats[c] # None =>
            ram.stats[c] <= Stats(db)[c] /\ ram.stats[c] \in Nat
      BY <1>1, <1>2 DEF AInv, Counting, RamTypes
    <3> QED
      BY <3>1, <3>2, <2>4 DEF Counting, Stats
  <2>18. Advance
    BY <1>1, <1>3, <2>2, <2>4, <2>5, <2>15 DEF Advance
  <2> QED
    BY <2>7, <2>8, <2>9, <2>10, <2>11, <2>12, <2>13, <2>14, <2>16, <2>18
       DEF AInv
<1>4. CASE /\ DatabaseFails
           /\ ram' = [ram EXCEPT !.error = TRUE]
           /\ UNCHANGED db
  <2>1. worker' = "idle" /\ broken' = TRUE /\ db' = db
    BY <1>4 DEF DatabaseFails, Failing
  <2>2. Grows
    BY <2>1, <1>2, NothingWritten
  <2> QED
    BY <2>1, <2>2, <1>1, <1>2, <1>4, ErrorShown, GivenUp
<1> QED
  BY <1>3, <1>4 DEF WriteBatch

\* A review finds finitely many opportunities.
LEMMA FoundIsFinite ==
    ASSUME NEW s \in Summaries, NEW safety, NEW p
    PROVE  IsFiniteSet(Reported(s, safety, p))
<1> DEFINE E == {<<"energy", "mild-weather-gas">>,
                 <<"cost", "missing-gas-tariff">>,
                 <<"schedule", "single-zone-overlap">>,
                 <<"hydraulics", "internal-restarts">>,
                 <<"maintenance", "unhealthy-valves">>,
                 <<"maintenance", "safety-warning-followup">>,
                 <<"data_quality", "missing-optimization-context">>}
           Z == {"comfort_energy", "comfort"} \X DOMAIN s.zones
<1>1. IsFiniteSet(E)
  <2>1. IsFiniteSet({})
    BY FS_EmptySet
  <2>2. E = (((((({} \cup {<<"energy", "mild-weather-gas">>})
             \cup {<<"cost", "missing-gas-tariff">>})
             \cup {<<"schedule", "single-zone-overlap">>})
             \cup {<<"hydraulics", "internal-restarts">>})
             \cup {<<"maintenance", "unhealthy-valves">>})
             \cup {<<"maintenance", "safety-warning-followup">>})
             \cup {<<"data_quality", "missing-optimization-context">>}
    BY Zenon
  <2> HIDE DEF E
  <2>3. IsFiniteSet((((((({} \cup {<<"energy", "mild-weather-gas">>})
             \cup {<<"cost", "missing-gas-tariff">>})
             \cup {<<"schedule", "single-zone-overlap">>})
             \cup {<<"hydraulics", "internal-restarts">>})
             \cup {<<"maintenance", "unhealthy-valves">>})
             \cup {<<"maintenance", "safety-warning-followup">>})
             \cup {<<"data_quality", "missing-optimization-context">>})
    BY <2>1, FS_AddElement, ZenonT(30)
  <2> QED
    BY <2>2, <2>3
<1>2. IsFiniteSet(Z)
  <2>1. IsFiniteSet({"comfort_energy", "comfort"})
    <3>1. IsFiniteSet({"comfort_energy"})
      BY FS_Singleton
    <3>2. {"comfort_energy", "comfort"} = {"comfort_energy"} \cup {"comfort"}
      OBVIOUS
    <3> QED
      BY <3>1, <3>2, FS_AddElement
  <2> QED
    BY <2>1, FS_Product, AnalysisAssumption
<1>3. /\ EnergyFindings(s) \subseteq E
      /\ ScheduleFindings(s) \subseteq E
      /\ HydraulicsFindings(s) \subseteq E
      /\ MaintenanceFindings(s, safety) \subseteq E
      /\ DataQualityFindings(p) \subseteq E
  BY DEF EnergyFindings, ScheduleFindings, HydraulicsFindings,
         MaintenanceFindings, DataQualityFindings
<1>4. ComfortFindings(s) \subseteq Z
  BY DEF ComfortFindings
<1> HIDE DEF E, Z
<1>5. Reported(s, safety, p) \subseteq E \cup Z
  BY <1>3, <1>4 DEF Reported
<1> QED
  BY <1>1, <1>2, <1>5, FS_Union, FS_Subset

\* An upsert forgets no row, and what is open in it is what was found.
LEMMA UpsertAs ==
    ASSUME NEW table, IsFiniteSet(DOMAIN table), NEW found, IsFiniteSet(found),
           \A f \in DOMAIN table : table[f] \in Open \cup {"RESOLVED"}
    PROVE  LET t == Upsert(table, found)
           IN /\ IsFiniteSet(DOMAIN t)
              /\ Cardinality(DOMAIN t) \in Nat
              /\ Cardinality(DOMAIN t) >= Cardinality(DOMAIN table)
              /\ \A f \in DOMAIN t : t[f] \in Open \cup {"RESOLVED"}
              /\ {f \in DOMAIN t : t[f] \in Open} = found
<1> DEFINE t == Upsert(table, found)
<1>1. /\ DOMAIN t = DOMAIN table \cup found
      /\ \A f \in found : t[f] \in Open
      /\ \A f \in DOMAIN table \ found : t[f] = "RESOLVED"
  BY DEF Upsert, Observed, Open
<1>2. IsFiniteSet(DOMAIN table \cup found)
  BY FS_Union
<1>3. /\ Cardinality(DOMAIN table \cup found) \in Nat
      /\ Cardinality(DOMAIN table \cup found) >= Cardinality(DOMAIN table)
  BY <1>2, FS_CardinalityType, FS_Subset
<1>4. "RESOLVED" \notin Open
  BY DEF Open
<1> HIDE DEF t
<1>5. /\ \A f \in DOMAIN t : t[f] \in Open \cup {"RESOLVED"}
      /\ {f \in DOMAIN t : t[f] \in Open} = found
  BY <1>1, <1>4
<1> QED
  BY <1>1, <1>2, <1>3, <1>5 DEF t

LEMMA ReviewStep ==
    ASSUME AInv, Review
    PROVE  AInv' /\ Advance
<1>1. /\ worker = "written" /\ Working
      /\ clock' = clock /\ plant' = plant /\ source' = source
      /\ release' = release /\ jumped' = jumped
      /\ episodes' = episodes /\ saved' = saved /\ samples' = samples
      /\ verdict' = verdict /\ lagged' = lagged /\ lived' = lived
  BY DEF Review, environment, Working
<1>2. RamTypes(ram) /\ TableTypes(db)
  BY DEF AInv
<1>3. ASSUME NEW s \in Summaries,
             db' = [db EXCEPT !.opportunities =
                      Upsert(@, Reported(s, ram.safety, job.plant))]
      PROVE  /\ TableTypes(db') /\ Grows
             /\ db'.samples = db.samples /\ db'.replays = db.replays
             /\ \A t \in {"replay", "safety", "gate", "watchdog"} :
                   db'[t] = db[t]
  <2> DEFINE found == Reported(s, ram.safety, job.plant)
  <2>1. IsFiniteSet(found)
    BY FoundIsFinite
  <2> HIDE DEF found
  <2>2. /\ DOMAIN db' = Tables
        /\ db'.opportunities = Upsert(db.opportunities, found)
        /\ \A t \in Tables \ {"opportunities"} : db'[t] = db[t]
    BY <1>2, <1>3 DEF TableTypes, Tables, found
  <2>3. /\ db'.samples = db.samples /\ db'.replays = db.replays
        /\ \A t \in {"replay", "safety", "gate", "watchdog"} : db'[t] = db[t]
    BY <2>2 DEF Tables
  <2>4. /\ IsFiniteSet(DOMAIN db'.opportunities)
        /\ Cardinality(DOMAIN db'.opportunities) >=
             Cardinality(DOMAIN db.opportunities)
        /\ \A f \in DOMAIN db'.opportunities :
             db'.opportunities[f] \in Open \cup {"RESOLVED"}
    BY <1>2, <2>1, <2>2, UpsertAs DEF TableTypes
  <2>5. TableTypes(db')
    BY <1>2, <2>2, <2>3, <2>4 DEF TableTypes
  <2>6. Grows
    <3>1. \A c \in Counters : Stats(db)[c] \in Nat
      BY <1>2, StatsType
    <3>2. /\ Stats(db').samples = Stats(db).samples
          /\ Stats(db').replays = Stats(db).replays
          /\ Stats(db').opportunities >= Stats(db).opportunities
      BY <2>3, <2>4 DEF Stats
    <3>3. \A c \in Counters : Stats(db')[c] >= Stats(db)[c]
      BY <3>1, <3>2 DEF Counters
    <3> QED
      BY <3>3 DEF Grows, Stats
  <2> QED
    BY <2>3, <2>5, <2>6
<1>4. CASE DatabaseFails /\ ram' = [ram EXCEPT !.error = TRUE]
           /\ \E s \in Summaries :
                db' = [db EXCEPT !.opportunities =
                         Upsert(@, Reported(s, ram.safety, job.plant))]
  <2>1. worker' = "idle" /\ broken' = TRUE
    BY <1>4 DEF DatabaseFails, Failing
  <2>2. /\ TableTypes(db') /\ Grows
        /\ db'.samples = db.samples /\ db'.replays = db.replays
        /\ \A t \in {"replay", "safety", "gate", "watchdog"} : db'[t] = db[t]
    BY <1>3, <1>4
  <2> QED
    BY <1>1, <1>2, <1>4, <2>1, <2>2, ErrorShown, GivenUp
<1>5. CASE /\ worker' = "idle" /\ broken' = TRUE
           /\ ram' = [ram EXCEPT !.error = TRUE]
           /\ db' = db
  <2>1. Grows
    BY <1>2, <1>5, NothingWritten
  <2> QED
    BY <1>1, <1>2, <1>5, <2>1, ErrorShown, GivenUp
<1>6. CASE /\ ram' = [ram EXCEPT !.reviewedAt = clock]
           /\ worker' = "reviewed" /\ job' = job /\ broken' = broken
           /\ \E s \in Summaries :
                db' = [db EXCEPT !.opportunities =
                         Upsert(@, Reported(s, ram.safety, job.plant))]
  <2>1. /\ TableTypes(db') /\ Grows
        /\ db'.samples = db.samples /\ db'.replays = db.replays
        /\ db'.replay = db.replay
        /\ \A t \in {"replay", "safety", "gate", "watchdog"} : db'[t] = db[t]
    BY <1>3, <1>6
  <2>2. /\ DOMAIN ram' = Attributes
        /\ \A a \in Attributes \ {"reviewedAt"} : ram'[a] = ram[a]
    BY <1>2, <1>6 DEF RamTypes, Attributes
  <2>3. /\ ram'.replay = ram.replay /\ ram'.lastReplay = ram.lastReplay
        /\ ram'.safety = ram.safety /\ ram'.gate = ram.gate
        /\ ram'.watchdog = ram.watchdog /\ ram'.stats = ram.stats
        /\ ram'.error = ram.error /\ ram'.writtenAt = ram.writtenAt
        /\ ram'.journalError = ram.journalError
    BY <2>2 DEF Attributes
  <2>4. RamTypes(ram)' /\ TableTypes(db)'
    BY <2>1, <2>2, <2>3, <1>2 DEF RamTypes, TableTypes
  <2>5. AroundTypes' /\ EpisodeTypes' /\ Counted'
    BY <1>1, <1>6, <2>1
       DEF AInv, AroundTypes, EpisodeTypes, Working, Counted
  <2>6. Dated'
    BY <1>1, <2>1, <2>3 DEF AInv, Dated
  <2>7. Living'
    <3>1. Permitted(Duties)' <=> Permitted(Duties)
      BY <1>1 DEF Permitted
    <3> QED
      BY <3>1, <1>1, <1>6, <2>3 DEF AInv, Living, Working
  <2>8. Shown'
    <3>1. Shows
      BY <1>1 DEF AInv, Shown
    <3>2. Shows'
      BY <3>1, <1>1, <1>6, <2>3 DEF Shows
    <3> QED
      BY <3>2, <1>6 DEF Shown
  <2>9. Current' /\ JustReplayed'
    BY <1>1, <1>6, <2>1, <2>3 DEF AInv, Current, JustReplayed
  <2>10. Counting'
    <3>1. \A c \in Counters : /\ Stats(db)[c] \in Nat /\ Stats(db')[c] \in Nat
                              /\ Stats(db')[c] >= Stats(db)[c]
      BY <2>1, <1>2, StatsType DEF Grows
    <3>2. \A c \in Counters : ram.stats[c] # None =>
            ram.stats[c] <= Stats(db)[c] /\ ram.stats[c] \in Nat
      BY <1>1, <1>2 DEF AInv, Counting, RamTypes
    <3> QED
      BY <3>1, <3>2, <2>3 DEF Counting, Stats
  <2>11. Advance
    BY <1>1, <1>6, <2>1, <2>3 DEF AInv, AroundTypes, Advance
  <2> QED
    BY <2>1, <2>4, <2>5, <2>6, <2>7, <2>8, <2>9, <2>10, <2>11 DEF AInv
<1>7. \/ DatabaseFails /\ ram' = [ram EXCEPT !.error = TRUE]
         /\ \E s \in Summaries :
              db' = [db EXCEPT !.opportunities =
                       Upsert(@, Reported(s, ram.safety, job.plant))]
      \/ /\ worker' = "idle" /\ broken' = TRUE
         /\ ram' = [ram EXCEPT !.error = TRUE]
         /\ db' = db
      \/ /\ ram' = [ram EXCEPT !.reviewedAt = clock]
         /\ worker' = "reviewed" /\ job' = job /\ broken' = broken
         /\ \E s \in Summaries :
              db' = [db EXCEPT !.opportunities =
                       Upsert(@, Reported(s, ram.safety, job.plant))]
  BY ZenonT(60) DEF Review, DatabaseFails, Failing
<1> QED
  BY <1>4, <1>5, <1>6, <1>7

\* Nothing in a table is younger than the row that is written, unless the
\* clock was set back: then it is the one that is read.
LEMMA LatestAs ==
    ASSUME NEW S, NEW row \in RowOf(S) \cup {None}, None \notin RowOf(S),
           NEW value \in S, NEW at \in 0..MaxClock
    PROVE  /\ Latest(row, value, at) \in RowOf(S)
           /\ row = None \/ row.at <= at =>
                Latest(row, value, at) = [at |-> at, value |-> value]
<1>1. row # None => row \in RowOf(S) /\ row.at \in 0..MaxClock
  BY DEF RowOf
<1>2. [at |-> at, value |-> value] \in RowOf(S)
  BY DEF RowOf
<1> QED
  BY <1>1, <1>2 DEF Latest

\* What the analysis bundle leaves in the database.
LEMMA PersistedAs ==
    ASSUME AInv, worker \in {"written", "reviewed"}
    PROVE  LET d == Persisted(db)
           IN /\ TableTypes(d)
              /\ d.samples = db.samples
              /\ d.replays = IF job.replayed THEN db.replays + 1
                             ELSE db.replays
              /\ d.opportunities = db.opportunities
              /\ ~jumped => \A t \in {"replay", "safety", "gate", "watchdog"} :
                    d[t] # None => d[t].at <= clock
              /\ ~jumped /\ job.replayed =>
                   d.replay # None /\ d.replay.value = ram.replay
              /\ ~job.replayed => d.replay = db.replay
              /\ ~jumped /\ job.checkpoint =>
                   /\ d.safety # None /\ d.safety.value = ram.safety
                   /\ d.gate # None /\ d.gate.value = ram.gate
                   /\ d.watchdog # None /\ d.watchdog.value = ram.watchdog
<1> DEFINE d == Persisted(db)
<1>1. /\ RamTypes(ram) /\ TableTypes(db) /\ clock \in 0..MaxClock
      /\ job.replayed => ram.replay \in ReplayResult
      /\ job.replayed \in BOOLEAN /\ job.checkpoint \in BOOLEAN
      /\ job.changed \in BOOLEAN
  BY DEF AInv, AroundTypes, JustReplayed, RamTypes, Working
<1>2. ~jumped => \A t \in {"replay", "safety", "gate", "watchdog"} :
          db[t] # None => db[t].at <= clock
  BY DEF AInv, Dated
<1>3. /\ DOMAIN d = Tables /\ d.samples = db.samples
      /\ d.opportunities = db.opportunities
      /\ d.replays = IF job.replayed THEN db.replays + 1 ELSE db.replays
      /\ d.replay = IF job.replayed THEN Latest(db.replay, ram.replay, clock)
                    ELSE db.replay
      /\ d.safety = IF job.changed \/ job.checkpoint
                    THEN Latest(db.safety, ram.safety, clock) ELSE db.safety
      /\ d.gate = IF job.checkpoint THEN Latest(db.gate, ram.gate, clock)
                  ELSE db.gate
      /\ d.watchdog = IF job.checkpoint
                      THEN Latest(db.watchdog, ram.watchdog, clock)
                      ELSE db.watchdog
  BY <1>1 DEF Persisted, TableTypes, Tables
<1> HIDE DEF d
<1> USE NoneIsNoValue
<1>4. /\ d.replay \in RowOf(ReplayResult) \cup {None}
      /\ ~jumped /\ job.replayed => d.replay = [at |-> clock, value |-> ram.replay]
  BY <1>1, <1>2, <1>3, LatestAs DEF TableTypes
<1>5. /\ d.safety \in RowOf(SafetyResult) \cup {None}
      /\ ~jumped /\ (job.changed \/ job.checkpoint) =>
            d.safety = [at |-> clock, value |-> ram.safety]
  BY <1>1, <1>2, <1>3, LatestAs DEF TableTypes, RamTypes
<1>6. /\ d.gate \in RowOf(GateResult) \cup {None}
      /\ ~jumped /\ job.checkpoint =>
            d.gate = [at |-> clock, value |-> ram.gate]
  BY <1>1, <1>2, <1>3, LatestAs DEF TableTypes, RamTypes
<1>7. /\ d.watchdog \in RowOf(WatchdogResult) \cup {None}
      /\ ~jumped /\ job.checkpoint =>
            d.watchdog = [at |-> clock, value |-> ram.watchdog]
  BY <1>1, <1>2, <1>3, LatestAs DEF TableTypes, RamTypes
<1>8. TableTypes(d)
  BY <1>1, <1>3, <1>4, <1>5, <1>6, <1>7 DEF TableTypes
<1>9. \A v : [at |-> clock, value |-> v] # None =>
         /\ [at |-> clock, value |-> v].at = clock
         /\ [at |-> clock, value |-> v].value = v
  OBVIOUS
<1>10. ~jumped =>
         /\ d.replay # None => d.replay.at <= clock
         /\ d.safety # None => d.safety.at <= clock
         /\ d.gate # None => d.gate.at <= clock
         /\ d.watchdog # None => d.watchdog.at <= clock
  BY <1>1, <1>2, <1>3, <1>4, <1>5, <1>6, <1>7, <1>9
<1>11. ~jumped /\ job.replayed =>
         d.replay # None /\ d.replay.value = ram.replay
  <2>1. job.replayed => [at |-> clock, value |-> ram.replay] # None
    BY <1>1 DEF RowOf
  <2> QED
    BY <2>1, <1>4
<1>12. ~jumped /\ job.checkpoint =>
         /\ d.safety # None /\ d.safety.value = ram.safety
         /\ d.gate # None /\ d.gate.value = ram.gate
         /\ d.watchdog # None /\ d.watchdog.value = ram.watchdog
  <2>1. /\ [at |-> clock, value |-> ram.safety] # None
        /\ [at |-> clock, value |-> ram.gate] # None
        /\ [at |-> clock, value |-> ram.watchdog] # None
    BY <1>1 DEF RowOf, RamTypes
  <2> QED
    BY <2>1, <1>5, <1>6, <1>7
<1> QED
  BY <1>3, <1>8, <1>10, <1>11, <1>12 DEF d

LEMMA WriteBundleStep ==
    ASSUME AInv, WriteBundle
    PROVE  AInv' /\ Advance
<1>1. /\ worker \in {"written", "reviewed"} /\ Working
      /\ clock' = clock /\ plant' = plant /\ source' = source
      /\ release' = release /\ jumped' = jumped
      /\ episodes' = episodes /\ saved' = saved /\ samples' = samples
      /\ verdict' = verdict /\ lagged' = lagged /\ lived' = lived
  BY DEF WriteBundle, environment, Working
<1>2. /\ RamTypes(ram) /\ TableTypes(db)
      /\ job.replayed \in BOOLEAN /\ job.checkpoint \in BOOLEAN
      /\ DOMAIN job = {"plant", "checkpoint", "replayed", "changed"}
      /\ job.changed \in BOOLEAN
  BY <1>1 DEF AInv, AroundTypes
<1>3. CASE /\ db' = IF PersistDue THEN Persisted(db) ELSE db
           /\ ram' = IF PersistDue THEN [ram EXCEPT !.audited = TRUE] ELSE ram
           /\ worker' = IF job.checkpoint THEN "stored" ELSE "idle"
           /\ job' = IF job.checkpoint THEN job ELSE None
           /\ UNCHANGED <<mishaps, broken>>
  <2>1. /\ TableTypes(db')
        /\ db'.samples = db.samples
        /\ db'.replays = IF job.replayed THEN db.replays + 1 ELSE db.replays
        /\ db'.opportunities = db.opportunities
        /\ ~jumped => \A t \in {"replay", "safety", "gate", "watchdog"} :
              db'[t] # None => db'[t].at <= clock
        /\ ~jumped /\ job.replayed =>
             db'.replay # None /\ db'.replay.value = ram.replay
        /\ ~job.replayed => db'.replay = db.replay
        /\ ~jumped /\ job.checkpoint =>
             /\ db'.safety # None /\ db'.safety.value = ram.safety
             /\ db'.gate # None /\ db'.gate.value = ram.gate
             /\ db'.watchdog # None /\ db'.watchdog.value = ram.watchdog
    <3>1. CASE PersistDue
      BY <1>1, <1>3, <3>1, PersistedAs
    <3>2. CASE ~PersistDue
      <4>1. db' = db /\ ~job.replayed /\ ~job.checkpoint
        BY <1>3, <3>2 DEF PersistDue
      <4> QED
        BY <4>1, <1>2 DEF AInv, Dated
    <3> QED
      BY <3>1, <3>2
  <2>2. /\ DOMAIN ram' = Attributes
        /\ \A a \in Attributes \ {"audited"} : ram'[a] = ram[a]
    BY <1>2, <1>3 DEF RamTypes, Attributes
  <2>3. /\ ram'.replay = ram.replay /\ ram'.lastReplay = ram.lastReplay
        /\ ram'.safety = ram.safety /\ ram'.gate = ram.gate
        /\ ram'.watchdog = ram.watchdog /\ ram'.stats = ram.stats
        /\ ram'.error = ram.error /\ ram'.writtenAt = ram.writtenAt
        /\ ram'.journalError = ram.journalError
    BY <2>2 DEF Attributes
  <2>4. RamTypes(ram)' /\ TableTypes(db)'
    BY <2>1, <2>2, <2>3, <1>2 DEF RamTypes, TableTypes
  <2>5. AroundTypes' /\ EpisodeTypes'
    BY <1>1, <1>2, <1>3 DEF AInv, AroundTypes, EpisodeTypes, Working
  <2>6. Counted'
    <3>1. db.replays \in Nat /\ db.samples \in Nat /\ db.replays < db.samples
          /\ db.samples <= samples
      BY <1>1, <1>2 DEF AInv, Counted, TableTypes
    <3>2. worker' \in {"stored", "idle"}
      BY <1>2, <1>3
    <3> QED
      BY <3>1, <3>2, <1>1, <2>1 DEF Counted
  <2>7. Dated'
    BY <1>1, <2>1, <2>3 DEF AInv, Dated
  <2>8. Living'
    <3>1. Permitted(Duties)' <=> Permitted(Duties)
      BY <1>1 DEF Permitted
    <3> QED
      BY <3>1, <1>1, <1>2, <1>3, <2>3 DEF AInv, Living, Working
  <2>9. Shown'
    <3>1. Shows
      BY <1>1 DEF AInv, Shown
    <3>2. Shows'
      BY <3>1, <1>1, <1>3, <2>3 DEF Shows
    <3>3. worker' = "stored" => job.checkpoint
      BY <1>2, <1>3
    <3> QED
      BY <3>2, <3>3, <1>1, <2>1, <2>3 DEF Shown
  <2>10. Current'
    <3>1. worker' \in {"stored", "idle"}
      BY <1>2, <1>3
    <3> SUFFICES ASSUME verdict # None, ~jumped, ~broken
                 PROVE  /\ ram.replay # None
                        /\ ram.replay.release = release
                        /\ ram.replay.generation = Len(episodes)
                        /\ ram.lastReplay = Len(episodes)
                        /\ db'.replay # None /\ db'.replay.value = ram.replay
      BY <3>1, <1>1, <1>3, <2>3 DEF Current
    <3>2. /\ ram.replay # None
          /\ ram.replay.release = release
          /\ ram.replay.generation = Len(episodes)
          /\ ram.lastReplay = Len(episodes)
          /\ \/ job.replayed
             \/ db.replay # None /\ db.replay.value = ram.replay
      BY <1>1 DEF AInv, Current
    <3> QED
      BY <3>2, <1>2, <2>1
  <2>11. JustReplayed'
    <3>1. worker' \in {"stored", "idle"}
      BY <1>2, <1>3
    <3> QED
      BY <3>1 DEF JustReplayed
  <2>12. Grows
    <3>1. \A c \in Counters : Stats(db)[c] \in Nat
      BY <1>2, StatsType
    <3>2. /\ Stats(db').samples = Stats(db).samples
          /\ Stats(db').replays >= Stats(db).replays
          /\ Stats(db').opportunities = Stats(db).opportunities
      BY <2>1, <1>2 DEF Stats, TableTypes
    <3>3. \A c \in Counters : Stats(db')[c] >= Stats(db)[c]
      BY <3>1, <3>2 DEF Counters
    <3> QED
      BY <3>3 DEF Grows, Stats
  <2>13. Counting'
    <3>1. \A c \in Counters : /\ Stats(db)[c] \in Nat /\ Stats(db')[c] \in Nat
                              /\ Stats(db')[c] >= Stats(db)[c]
      BY <2>1, <2>12, <1>2, StatsType DEF Grows
    <3>2. \A c \in Counters : ram.stats[c] # None =>
            ram.stats[c] <= Stats(db)[c] /\ ram.stats[c] \in Nat
      BY <1>1, <1>2 DEF AInv, Counting, RamTypes
    <3> QED
      BY <3>1, <3>2, <2>3 DEF Counting, Stats
  <2>15. Advance
    BY <1>1, <1>3, <2>3, <2>12 DEF AInv, AroundTypes, Advance
  <2> QED
    BY <2>4, <2>5, <2>6, <2>7, <2>8, <2>9, <2>10, <2>11, <2>13, <2>15
       DEF AInv
<1>4. CASE /\ DatabaseFails
           /\ ram' = [ram EXCEPT !.error = TRUE]
           /\ UNCHANGED db
  <2>1. worker' = "idle" /\ broken' = TRUE /\ db' = db
    BY <1>4 DEF DatabaseFails, Failing
  <2>2. Grows
    BY <2>1, <1>2, NothingWritten
  <2> QED
    BY <2>1, <2>2, <1>1, <1>2, <1>4, ErrorShown, GivenUp
<1> QED
  BY <1>3, <1>4 DEF WriteBundle

LEMMA RefreshStep ==
    ASSUME AInv, Refresh
    PROVE  AInv' /\ Advance
<1>1. /\ worker = "stored" /\ Working /\ worker' = "idle"
      /\ clock' = clock /\ plant' = plant /\ source' = source
      /\ release' = release /\ jumped' = jumped
      /\ episodes' = episodes /\ saved' = saved /\ samples' = samples
      /\ verdict' = verdict /\ lagged' = lagged /\ lived' = lived
      /\ db' = db
  BY DEF Refresh, environment, Working, DatabaseFails
<1>2. RamTypes(ram) /\ TableTypes(db)
  BY DEF AInv
<1>3. Grows
  BY <1>1, <1>2, NothingWritten
<1>4. CASE /\ ram' = WithAnalysis(ram)
           /\ UNCHANGED <<mishaps, broken>>
  <2> DEFINE w == WithAnalysis(ram)
  <2>1. /\ RamTypes(w) /\ w.stats = Stats(db)
        /\ w.replay = IF db.replay = None THEN ram.replay ELSE db.replay.value
        /\ w.lastReplay = IF db.replay = None THEN ram.lastReplay
                          ELSE db.replay.value.generation
        /\ w.safety = IF db.safety = None THEN ram.safety ELSE db.safety.value
        /\ w.gate = IF db.gate = None THEN ram.gate ELSE db.gate.value
        /\ w.watchdog = IF db.watchdog = None THEN ram.watchdog
                        ELSE db.watchdog.value
        /\ w.error = ram.error /\ w.journalError = ram.journalError
        /\ w.writtenAt = ram.writtenAt
    BY <1>2, AnalysisRead
  <2>2. ram' = w
    BY <1>4
  <2> HIDE DEF w
  <2>3. RamTypes(ram)' /\ TableTypes(db)'
    BY <1>1, <1>2, <2>1, <2>2 DEF RamTypes, TableTypes
  <2>4. AroundTypes' /\ EpisodeTypes' /\ Counted'
    BY <1>1, <1>4 DEF AInv, AroundTypes, EpisodeTypes, Working, Counted
  <2>5. Dated'
    BY <1>1, <2>1, <2>2 DEF AInv, Dated
  <2>6. Living'
    <3>1. Permitted(Duties)' <=> Permitted(Duties)
      BY <1>1 DEF Permitted
    <3> QED
      BY <3>1, <1>1, <1>4, <2>1, <2>2 DEF AInv, Living, Working
  <2>7. Shown'
    <3> SUFFICES ASSUME ~jumped PROVE Shows'
      BY <1>1 DEF Shown, Working
    <3>1. /\ ram'.safety = ram.safety /\ ram'.gate = ram.gate
          /\ ram'.watchdog = ram.watchdog
      BY <1>1, <2>1, <2>2 DEF AInv, Shown
    <3>2. Shows
      BY <1>1 DEF AInv, Shown
    <3> QED
      BY <3>1, <3>2, <1>1, <1>4 DEF Shows
  <2>8. Current' /\ JustReplayed'
    <3> SUFFICES ASSUME verdict # None, ~jumped, ~broken
                 PROVE  /\ ram'.replay # None
                        /\ ram'.replay.release = release
                        /\ ram'.replay.generation = Len(episodes)
                        /\ ram'.lastReplay = Len(episodes)
                        /\ db.replay # None /\ db.replay.value = ram'.replay
      BY <1>1, <1>4 DEF Current, JustReplayed
    <3> QED
      BY <1>1, <2>1, <2>2 DEF AInv, Current
  <2>9. Counting'
    <3>1. \A c \in Counters : Stats(db)[c] \in Nat
      BY <1>2, StatsType
    <3> QED
      BY <3>1, <1>1, <2>1, <2>2 DEF Counting, Stats
  <2>10. Advance
    BY <1>1, <1>3, <1>4, <2>1, <2>2 DEF AInv, AroundTypes, Advance
  <2> QED
    BY <1>3, <2>3, <2>4, <2>5, <2>6, <2>7, <2>8, <2>9, <2>10 DEF AInv
<1>5. CASE /\ DatabaseFails
           /\ \E r \in PartlyRefreshed(ram) : ram' = [r EXCEPT !.error = TRUE]
  <2>1. broken' = TRUE
    BY <1>5 DEF DatabaseFails, Failing
  <2>2. PICK r \in PartlyRefreshed(ram) : ram' = [r EXCEPT !.error = TRUE]
    BY <1>5
  <2>3. /\ RamTypes(r) /\ r.stats \in {ram.stats, Stats(db)}
        /\ r.writtenAt = ram.writtenAt
    BY <1>2, PartlyRead
  <2>4. /\ RamTypes(ram') /\ ram'.error
        /\ ram'.stats \in {ram.stats, Stats(db)}
        /\ ram'.writtenAt = ram.writtenAt
    BY <2>2, <2>3, ErrorShown
  <2> QED
    BY <1>1, <1>2, <1>3, <2>1, <2>4, GivenUp
<1> QED
  BY <1>4, <1>5 DEF Refresh

-----------------------------------------------------------------------------
\* Every step of the analysis.
LEMMA AnalysisStep ==
    ASSUME AInv, AnalysisNext
    PROVE  AInv' /\ Advance
<1>1. CASE Restart
  BY <1>1, StopStep DEF Restart
<1> QED
  BY <1>1, StartStep, AnalyseStep, AnalysisDeniedStep, WriteBatchStep,
     ReviewStep, WriteBundleStep, RefreshStep, CrashStep, TickStep,
     SetBackStep, SelectRevisionStep, RuleStep
     DEF AnalysisNext, Consume

-----------------------------------------------------------------------------
(***************************************************************************)
(* The deployment.                                                         *)
(***************************************************************************)
\* While it waits, or stops Home Assistant, the analysis goes on.
LEMMA DeploymentWaits ==
    ASSUME AInv, AInv', DInv, Advance,
           \/ stage' = stage
           \/ stage = "copied" /\ stage' = "restarted" /\ worker' = "down",
           UNCHANGED <<document, first, second, post, proof, herdr, decision,
                       fence, lost>>
    PROVE  DInv'
<1>1. /\ document' = document /\ first' = first /\ second' = second
      /\ post' = post /\ proof' = proof /\ herdr' = herdr
      /\ decision' = decision /\ fence' = fence /\ lost' = lost
  OBVIOUS
<1>2. /\ clock \in Int /\ clock' \in Int
      /\ TableTypes(db) /\ TableTypes(db')
      /\ RamTypes(ram) /\ RamTypes(ram')
  BY DEF AInv, AroundTypes, RamTypes, TableTypes
<1>3. /\ jumped => jumped'
      /\ clock <= clock' \/ jumped'
  BY DEF Advance
<1>4. \A c \in Counters : /\ Stats(db)[c] \in Nat /\ Stats(db')[c] \in Nat
                          /\ Stats(db')[c] >= Stats(db)[c]
  BY <1>2, StatsType DEF Advance, Grows
<1>5. Stages'
  BY <1>1 DEF DInv, Stages, Decided
<1>6. Leased'
  BY <1>1, <1>2, <1>3 DEF DInv, Leased
<1>7. ASSUME Remembers(second) PROVE Remembers(second')
             /\ Remembers(second)'
  BY <1>1, <1>4, <1>7 DEF Remembers
<1>8. stage' \in Decided => stage \in Decided
  BY DEF Decided
<1>9. Snapped'
  <2>1. stage' \in {"first"} \cup Decided => stage \in {"first"} \cup Decided
    BY DEF Decided
  <2>2. stage \in Decided => Remembers(second)'
    BY <1>7 DEF DInv, Snapped
  <2> QED
    BY <1>1, <1>2, <1>3, <1>8, <2>1, <2>2 DEF DInv, Snapped
<1>10. Restarted'
  <2> SUFFICES ASSUME stage' = "restarted", worker' # "down"
               PROVE  /\ ~jumped' /\ ram'.writtenAt # None =>
                           ram'.writtenAt >= second.at
                      /\ ~lost /\ ~broken' => \A c \in Counters :
                           /\ ram'.stats[c] # None
                           /\ second.platform.database[c] # None =>
                                second.platform.database[c] <= ram'.stats[c]
    BY <1>1 DEF Restarted
  <2>1. stage = "restarted" /\ stage \in Decided
    BY DEF Decided
  <2>2. /\ second.at \in Int
        /\ ~jumped => second.at <= clock
        /\ ~lost => \A c \in Counters :
             second.platform.database[c] # None =>
                second.platform.database[c] <= Stats(db)[c]
    BY <2>1 DEF DInv, Snapped, Remembers
  <2>3. \A c \in Counters : Stats(db)[c] # None
    BY <1>4, NoneIsNoValue
  <2>4. CASE /\ worker = "down" /\ ram'.writtenAt = None
             /\ broken' \/ ram'.stats = Stats(db)
    BY <2>2, <2>3, <2>4
  <2>5. CASE /\ worker # "down" /\ (broken => broken')
             /\ ram'.stats \in {ram.stats, Stats(db)}
             /\ ram'.writtenAt \in {ram.writtenAt, clock}
    BY <1>2, <1>3, <2>1, <2>2, <2>3, <2>5 DEF DInv, Restarted
  <2> QED
    BY <2>4, <2>5 DEF Advance
<1>11. CountersKnown'
  BY <1>1 DEF DInv, CountersKnown
<1>12. HealthyIsEarned'
  <2>1. decision = "HEALTHY" => \A c \in Counters :
            Stats(db')[c] >= second.platform.database[c]
    BY <1>4 DEF DInv, HealthyIsEarned, CountersKnown
  <2> QED
    BY <1>1, <1>3, <2>1 DEF DInv, HealthyIsEarned, Stats
<1>13. NoFalseAlarm'
  <2>1. Releasable(document)' <=> Releasable(document)
    BY <1>1
  <2>2. /\ Known(post)' <=> Known(post)
        /\ WriterFresh(post)' <=> WriterFresh(post)
    BY <1>1
  <2> QED
    BY <1>1, <1>3, <2>1, <2>2 DEF DInv, NoFalseAlarm
<1> QED
  BY <1>5, <1>6, <1>9, <1>10, <1>11, <1>12, <1>13 DEF DInv

\* Nothing of the analysis changes.
LEMMA AnalysisWaits ==
    ASSUME AInv, UNCHANGED analysis
    PROVE  AInv' /\ Advance
<1>1. /\ clock' = clock /\ plant' = plant /\ source' = source
      /\ release' = release /\ jumped' = jumped /\ episodes' = episodes
      /\ saved' = saved /\ worker' = worker /\ job' = job /\ ram' = ram
      /\ db' = db /\ samples' = samples /\ UNCHANGED history
  BY DEF analysis, environment, counted
<1>2. source' \in Releases /\ TableTypes(db')
  BY <1>1 DEF AInv, AroundTypes
<1> QED
  BY <1>1, <1>2, Aside

LEMMA InitiallyDInv ==
    ASSUME Init
    PROVE  DInv
<1> USE DEF Init
<1>1. Stages
  BY DEF Stages, Decided
<1>2. Leased
  BY DEF Leased, NoLease
<1>3. Snapped /\ Restarted /\ CountersKnown
  BY DEF Snapped, Restarted, CountersKnown, Decided
<1>4. HealthyIsEarned /\ NoFalseAlarm
  BY DEF HealthyIsEarned, NoFalseAlarm
<1> QED
  BY <1>1, <1>2, <1>3, <1>4 DEF DInv

\* The lease is taken, verified or superseded.
LEMMA LeaseStep ==
    ASSUME AInv, DInv, Acquire \/ Verify \/ Supersede
    PROVE  AInv' /\ Advance /\ DInv'
<1>1. /\ stage' = stage /\ document' = document /\ first' = first
      /\ second' = second /\ post' = post /\ decision' = decision
      /\ fence' = fence /\ lost' = lost
      /\ UNCHANGED analysis
  BY DEF Acquire, Verify, Supersede
<1>2. AInv' /\ Advance
  BY <1>1, AnalysisWaits
<1>3. /\ clock' = clock /\ jumped' = jumped /\ ram' = ram /\ db' = db
      /\ worker' = worker /\ broken' = broken /\ clock \in Int
      /\ LeaseGrant \in Int
  BY <1>1, GuardAssumption
     DEF analysis, environment, history, AInv, AroundTypes
<1>4. Stages'
  BY <1>1 DEF DInv, Stages, Decided
<1>5. Leased'
  <2>1. CASE Acquire
    <3>1. stage = "first" /\ decision # "GO"
      BY <2>1 DEF Acquire, DInv, Stages, Decided
    <3>2. /\ herdr' = [token |-> Executor, until |-> clock + LeaseGrant]
          /\ proof' = [token |-> Executor, until |-> clock + LeaseGrant,
                       verifiedAt |-> clock, current |-> Executor,
                       status |-> "current"]
      BY <2>1 DEF Acquire
    <3> QED
      BY <3>1, <3>2, <1>1, <1>3 DEF Leased
  <2>2. CASE Verify
    <3>1. /\ stage = "first" /\ decision # "GO" /\ proof # None
          /\ herdr' = herdr
      BY <2>2 DEF Verify, DInv, Stages, Decided
    <3>2. /\ DOMAIN proof' = DOMAIN proof /\ proof'.token = proof.token
          /\ proof'.until = proof.until
      BY <2>2, <3>1 DEF Verify, DInv, Leased
    <3> QED
      BY <3>1, <3>2, <1>1, <1>3 DEF DInv, Leased
  <2>3. CASE Supersede
    <3>1. /\ herdr' = [token |-> Rival, until |-> clock + LeaseGrant]
          /\ herdr.token = Executor /\ clock >= herdr.until /\ proof' = proof
      BY <2>3 DEF Supersede
    <3>2. Executor # Rival
      BY DEF Executor, Rival
    <3> QED
      BY <3>1, <3>2, <1>1, <1>3 DEF DInv, Leased
  <2> QED
    BY <2>1, <2>2, <2>3
<1>6. /\ Snapped' /\ Restarted' /\ CountersKnown' /\ HealthyIsEarned'
  BY <1>1, <1>3 DEF DInv, Snapped, Restarted, CountersKnown, HealthyIsEarned,
                    Remembers, Stats
<1>7. NoFalseAlarm'
  <2>1. /\ Releasable(document)' <=> Releasable(document)
        /\ Known(post)' <=> Known(post)
        /\ WriterFresh(post)' <=> WriterFresh(post)
    BY <1>1
  <2> QED
    BY <1>1, <1>3, <2>1 DEF DInv, NoFalseAlarm
<1> QED
  BY <1>2, <1>4, <1>5, <1>6, <1>7 DEF DInv

\* A snapshot in which everything seems in order is of an installation
\* whose agents found everything in order, once and twice.
LEMMA HealthyIsShown ==
    ASSUME AInv, worker = "idle", ~jumped, NEW v, Healthy(Snapshot, v)
    PROVE  verdict = "OK" /\ lived = 2
<1>1. /\ ~ram.error
      /\ ram.safety.status = "OK" /\ ram.watchdog = "HEALTHY"
      /\ ram.writtenAt # None
  BY DEF Healthy, Snapshot, Verdicts, Platform, WriterFresh
<1>2. verdict # None
  BY <1>1 DEF AInv, Living
<1>3. Shows
  BY <1>1, <1>2 DEF AInv, Shown
<1> QED
  BY <1>1, <1>3 DEF Shows

\* What a snapshot carries of the counters and of the writer.
LEMMA SnapshotAs ==
    ASSUME AInv, worker # "down"
    PROVE  /\ Snapshot.at = clock /\ Snapshot.verdict = verdict
           /\ Snapshot.lived = lived /\ Snapshot.lagged = lagged
           /\ Snapshot.broken = broken
           /\ Snapshot.deployment = Manifests[release].deployment
           /\ Snapshot.agents.safety = ram.safety.status
           /\ Snapshot.agents.watchdog = ram.watchdog
           /\ Snapshot.agents.permissions = PermissionAudit[release]
           /\ Snapshot.platform.version = release
           /\ Snapshot.platform.revision = revision
           /\ Snapshot.platform.error = ram.error
           /\ Snapshot.platform.writtenAt = ram.writtenAt
           /\ Snapshot.platform.database = ram.stats
           /\ Remembers(Snapshot)
<1>1. /\ Snapshot.at = clock /\ Snapshot.verdict = verdict
      /\ Snapshot.lived = lived /\ Snapshot.lagged = lagged
      /\ Snapshot.broken = broken
      /\ Snapshot.deployment = Manifests[release].deployment
      /\ Snapshot.agents.safety = ram.safety.status
      /\ Snapshot.agents.watchdog = ram.watchdog
      /\ Snapshot.agents.permissions = PermissionAudit[release]
      /\ Snapshot.platform.version = release
      /\ Snapshot.platform.revision = revision
      /\ Snapshot.platform.error = ram.error
      /\ Snapshot.platform.writtenAt = ram.writtenAt
      /\ Snapshot.platform.database = ram.stats
  BY DEF Snapshot, Verdicts, Platform
<1>2. /\ DOMAIN ram.stats = Counters
      /\ \A c \in Counters :
           /\ ram.stats[c] \in Nat \cup {None}
           /\ ram.stats[c] # None => ram.stats[c] <= Stats(db)[c]
  BY DEF AInv, RamTypes, Counting
<1>3. Remembers(Snapshot)
  BY <1>1, <1>2 DEF Remembers
<1> QED
  BY <1>1, <1>3

LEMMA TakeFirstStep ==
    ASSUME AInv, DInv, TakeFirst
    PROVE  AInv' /\ Advance /\ DInv'
<1>1. /\ stage = "none" /\ stage' = "first" /\ first' = Snapshot
      /\ document' = document /\ second' = second /\ post' = post
      /\ proof' = proof /\ herdr' = herdr /\ decision' = decision
      /\ fence' = fence /\ lost' = lost /\ UNCHANGED analysis
      /\ worker = "idle" /\ Healthy(Snapshot, document.from)
  BY DEF TakeFirst
<1>2. AInv' /\ Advance
  BY <1>1, AnalysisWaits
<1>3. /\ clock' = clock /\ jumped' = jumped /\ verdict' = verdict
      /\ db' = db
  BY <1>1 DEF analysis, environment, history
<1>4. Stages' /\ decision = "NO_GO"
  BY <1>1 DEF DInv, Stages, Decided
<1>5. Leased'
  BY <1>1, <1>3, <1>4 DEF DInv, Leased
<1>6. Snapped'
  <2>1. ~jumped => first'.verdict = "OK"
    BY <1>1, HealthyIsShown, SnapshotAs
  <2>2. stage' \notin Decided
    BY <1>1 DEF Decided
  <2> QED
    BY <2>1, <2>2, <1>3 DEF Snapped
<1>7. Restarted' /\ CountersKnown' /\ HealthyIsEarned' /\ NoFalseAlarm'
  BY <1>1, <1>4 DEF Restarted, CountersKnown, HealthyIsEarned, NoFalseAlarm
<1> QED
  BY <1>2, <1>4, <1>5, <1>6, <1>7 DEF DInv

LEMMA EvaluatePreDeployStep ==
    ASSUME AInv, DInv, EvaluatePreDeploy
    PROVE  AInv' /\ Advance /\ DInv'
<1>1. /\ stage = "first" /\ worker = "idle"
      /\ decision' = PreDecision(document, Snapshot)
      /\ document' = document /\ post' = post /\ lost' = lost
      /\ UNCHANGED analysis
      /\ IF decision' = "GO"
         THEN /\ stage' = "go" /\ second' = Snapshot /\ fence' = proof.token
              /\ UNCHANGED <<first, proof, herdr>>
         ELSE /\ stage' = "none" /\ first' = None
              /\ proof' = None /\ herdr' = NoLease
              /\ UNCHANGED <<second, fence>>
  BY DEF EvaluatePreDeploy
<1>2. AInv' /\ Advance
  BY <1>1, AnalysisWaits
<1>3. /\ clock' = clock /\ jumped' = jumped /\ db' = db
      /\ clock \in Int /\ decision' \in {"GO", "NO_GO"}
  BY <1>1 DEF analysis, environment, history, PreDecision, AInv, AroundTypes
<1>4. Stages'
  BY <1>1, <1>3 DEF DInv, Stages, Decided
<1>5. Leased'
  <2>1. CASE decision' = "GO"
    <3>1. LeaseHeld(proof, Snapshot.at)
      BY <1>1, <2>1 DEF PreDecision
    <3>2. proof # None
      BY <3>1 DEF LeaseHeld
    <3> QED
      BY <1>1, <1>3, <2>1, <3>2 DEF DInv, Leased
  <2>2. CASE decision' # "GO"
    BY <1>1, <2>2 DEF Leased, NoLease
  <2> QED
    BY <2>1, <2>2
<1>6. Snapped'
  <2>1. CASE decision' = "GO"
    <3>1. /\ Healthy(Snapshot, document.from)
          /\ second' = Snapshot /\ first' = first /\ stage' = "go"
      BY <1>1, <2>1 DEF PreDecision
    <3>2. /\ ~jumped => second'.verdict = "OK"
          /\ second'.at = clock /\ second'.platform.writtenAt = ram.writtenAt
          /\ Remembers(second')
      BY <1>1, <3>1, HealthyIsShown, SnapshotAs
    <3>3. /\ ram.writtenAt # None /\ clock - ram.writtenAt \in 0..WriterAge
      BY <1>1, <3>1, SnapshotAs DEF Healthy, WriterFresh
    <3>4. /\ ram.writtenAt \in Int /\ ram.writtenAt <= clock
      BY <1>3, <3>3, GuardAssumption DEF AInv, RamTypes
    <3>5. Remembers(second)'
      BY <1>1, <1>3, <3>2 DEF Remembers, Stats
    <3>6. ~jumped => first'.verdict = "OK"
      BY <1>1, <3>1 DEF DInv, Snapped
    <3> QED
      BY <1>3, <3>2, <3>4, <3>5, <3>6 DEF Snapped
  <2>2. CASE decision' # "GO"
    BY <1>1, <2>2 DEF Snapped, Decided
  <2> QED
    BY <2>1, <2>2
<1>7. Restarted' /\ CountersKnown' /\ HealthyIsEarned' /\ NoFalseAlarm'
  BY <1>1, <1>3 DEF Restarted, CountersKnown, HealthyIsEarned, NoFalseAlarm
<1> QED
  BY <1>2, <1>4, <1>5, <1>6, <1>7 DEF DInv

LEMMA CopySourceStep ==
    ASSUME AInv, DInv, NEW target \in Releases, CopySource(target)
    PROVE  AInv' /\ Advance /\ DInv'
<1>1. /\ stage = "go" /\ stage' = "copied" /\ source' = target
      /\ clock' = clock /\ plant' = plant /\ release' = release
      /\ jumped' = jumped /\ episodes' = episodes /\ saved' = saved
      /\ worker' = worker /\ job' = job /\ ram' = ram /\ db' = db
      /\ samples' = samples /\ UNCHANGED history
      /\ broken' = broken
      /\ document' = document /\ first' = first /\ second' = second
      /\ post' = post /\ proof' = proof /\ herdr' = herdr
      /\ decision' = decision /\ fence' = fence /\ lost' = lost
  BY DEF CopySource, counted, history
<1>2. source' \in Releases /\ TableTypes(db')
  BY <1>1 DEF AInv
<1>7. AInv' /\ Advance
  BY <1>1, <1>2, Aside
<1>9. Stages' /\ Leased'
  BY <1>1 DEF DInv, Stages, Leased, Decided
<1>10. Snapped'
  BY <1>1 DEF DInv, Snapped, Decided, Remembers, Stats
<1>11. Restarted' /\ CountersKnown' /\ HealthyIsEarned'
  BY <1>1 DEF DInv, Restarted, CountersKnown, HealthyIsEarned, Stats, Stages,
              Decided
<1>12. NoFalseAlarm'
  BY <1>1 DEF DInv, NoFalseAlarm, Stages, Decided
<1> QED
  BY <1>7, <1>9, <1>10, <1>11, <1>12 DEF DInv

LEMMA RestartCoreStep ==
    ASSUME AInv, DInv, RestartCore
    PROVE  AInv' /\ Advance /\ DInv'
<1>1. /\ Stop /\ stage = "copied" /\ stage' = "restarted"
      /\ worker' = "down"
      /\ UNCHANGED <<document, first, second, post, proof, herdr, decision,
                     fence, lost>>
  BY DEF RestartCore, Stop
<1>2. AInv' /\ Advance
  BY <1>1, StopStep
<1> QED
  BY <1>1, <1>2, DeploymentWaits

\* The executor loses the evidence while Home Assistant is down.
LEMMA LoseEvidenceStep ==
    ASSUME AInv, DInv, LoseEvidence
    PROVE  AInv' /\ DInv'
<1>1. /\ stage = "restarted" /\ worker = "down" /\ db' = EmptyDatabase
      /\ lost' = TRUE
      /\ clock' = clock /\ plant' = plant /\ source' = source
      /\ release' = release /\ jumped' = jumped /\ episodes' = episodes
      /\ saved' = saved /\ worker' = worker /\ job' = job /\ ram' = ram
      /\ samples' = samples /\ verdict' = verdict /\ lagged' = lagged
      /\ lived' = lived /\ broken' = broken
      /\ stage' = stage /\ document' = document /\ first' = first
      /\ second' = second /\ post' = post /\ proof' = proof /\ herdr' = herdr
      /\ decision' = decision /\ fence' = fence
  BY DEF LoseEvidence, environment, history
<1>2. /\ DOMAIN db' = Tables /\ db'.samples = 0 /\ db'.replays = 0
      /\ db'.replay = None /\ db'.safety = None /\ db'.gate = None
      /\ db'.watchdog = None /\ db'.opportunities = <<>>
  BY <1>1 DEF EmptyDatabase, Tables
<1>3. DOMAIN db'.opportunities = {}
  BY <1>2
<1>4. TableTypes(db)'
  BY <1>2, <1>3, FS_EmptySet DEF TableTypes
<1>5. AroundTypes' /\ EpisodeTypes' /\ RamTypes(ram)'
  BY <1>1 DEF AInv, AroundTypes, EpisodeTypes, RamTypes, Working
<1>6. Counted'
  BY <1>1, <1>2 DEF AInv, AroundTypes, Counted
<1>7. Dated'
  BY <1>1, <1>2 DEF AInv, Dated
<1>8. Living'
  <2>1. Permitted(Duties)' <=> Permitted(Duties)
    BY <1>1 DEF Permitted
  <2> QED
    BY <2>1, <1>1 DEF AInv, Living, Working
<1>9. Shown' /\ Current' /\ JustReplayed' /\ Counting'
  BY <1>1 DEF Shown, Current, JustReplayed, Counting, Working
<1>11. AInv'
  BY <1>4, <1>5, <1>6, <1>7, <1>8, <1>9 DEF AInv
<1>12. Stages' /\ Leased'
  BY <1>1 DEF DInv, Stages, Leased, Decided
<1>13. Snapped'
  BY <1>1 DEF DInv, Snapped, Decided, Remembers
<1>14. Restarted' /\ CountersKnown'
  BY <1>1 DEF DInv, Restarted, CountersKnown, Stages, Decided
<1>15. HealthyIsEarned' /\ NoFalseAlarm'
  BY <1>1 DEF DInv, HealthyIsEarned, NoFalseAlarm, Stages, Decided
<1> QED
  BY <1>11, <1>12, <1>13, <1>14, <1>15 DEF DInv

\* A snapshot that gives no reason for a rollback seems in order: this life
\* is without failure, its writer is fresh and the watchdog found it healthy.
LEMMA NothingToReport ==
    ASSUME AInv, worker = "idle", ~jumped, ~broken, ~lagged, lived >= 2,
           verdict = "OK", PermissionAudit[release] # "FAIL",
           WriterFresh(Snapshot)
    PROVE  Healthy(Snapshot, release)
<1>1. /\ lived = 2 /\ release \in Releases
  BY DEF AInv, AroundTypes
<1>2. PermissionAudit[release] = "PASS" /\ ~Manifests[release].deployment
  BY <1>1 DEF PermissionAudit, Audit
<1>3. verdict # None
  BY NoneIsNoValue DEF Verdict
<1>4. ~ram.error
  BY <1>3 DEF AInv, Living
<1>5. Shows
  BY <1>3, <1>4 DEF AInv, Shown
<1>6. ram.safety.status = "OK" /\ ram.watchdog = "HEALTHY"
  BY <1>1, <1>2, <1>5 DEF Shows
<1> QED
  BY <1>2, <1>4, <1>6, SnapshotAs DEF Healthy

LEMMA EvaluatePostDeployStep ==
    ASSUME AInv, DInv, EvaluatePostDeploy
    PROVE  AInv' /\ Advance /\ DInv'
<1>1. /\ stage = "restarted" /\ worker = "idle" /\ post' = Snapshot
      /\ decision' = PostDecision(document, Snapshot) /\ stage' = "judged"
      /\ document' = document /\ first' = first /\ second' = second
      /\ proof' = proof /\ herdr' = herdr /\ fence' = fence /\ lost' = lost
      /\ UNCHANGED analysis
  BY DEF EvaluatePostDeploy
<1>2. AInv' /\ Advance
  BY <1>1, AnalysisWaits
<1>3. /\ clock' = clock /\ jumped' = jumped /\ db' = db
      /\ clock \in Int /\ decision' \in {"HEALTHY", "ROLLBACK_REQUIRED"}
  BY <1>1 DEF analysis, environment, history, PostDecision, AInv, AroundTypes
<1>4. Stages' /\ Leased'
  BY <1>1, <1>3 DEF DInv, Stages, Leased, Decided
<1>5. Snapped' /\ Restarted'
  BY <1>1 DEF Snapped, Restarted, Decided
<1>6. /\ second.at \in Int
      /\ second.platform.writtenAt \in Int
      /\ second.platform.writtenAt <= second.at
      /\ ~jumped => second.at <= clock
      /\ \A c \in Counters :
           second.platform.database[c] \in Nat \cup {None}
  BY <1>1 DEF DInv, Snapped, Decided, Remembers
<1>7. RamTypes(ram) /\ TableTypes(db)
  BY DEF AInv
<1>8. ASSUME decision' = "HEALTHY"
      PROVE  \A c \in Counters :
               /\ second.platform.database[c] \in Nat
               /\ Stats(db)[c] >= second.platform.database[c]
  <2>1. \A c \in Counters :
          /\ second.platform.database[c] # None /\ ram.stats[c] # None
          /\ ram.stats[c] >= second.platform.database[c]
    BY <1>1, <1>8, SnapshotAs
       DEF PostDecision, NotRegressing, PersistentCounters
  <2>2. \A c \in Counters :
          /\ Stats(db)[c] \in Nat
          /\ ram.stats[c] \in Nat \cup {None}
          /\ ram.stats[c] # None => ram.stats[c] <= Stats(db)[c]
    BY <1>1, <1>7, StatsType DEF AInv, RamTypes, Counting
  <2> QED
    BY <1>6, <2>1, <2>2
<1>9. CountersKnown'
  BY <1>1, <1>6, <1>8 DEF CountersKnown
<1>10. HealthyIsEarned'
  <2> SUFFICES ASSUME decision' = "HEALTHY"
               PROVE  /\ post'.platform.version = document'.target
                      /\ post'.platform.revision = second'.platform.revision
                      /\ ~jumped' => post'.verdict = "OK" /\ post'.lived = 2
                      /\ \A c \in Counters :
                           Stats(db')[c] >= second'.platform.database[c]
    BY DEF HealthyIsEarned, Stats
  <2>1. /\ Healthy(Snapshot, document.target)
        /\ Snapshot.platform.revision = second.platform.revision
    BY <1>1 DEF PostDecision
  <2>2. Snapshot.platform.version = document.target
    BY <2>1 DEF Healthy
  <2>3. ~jumped => Snapshot.verdict = "OK" /\ Snapshot.lived = 2
    BY <1>1, <2>1, HealthyIsShown, SnapshotAs
  <2> QED
    BY <1>1, <1>3, <1>8, <2>1, <2>2, <2>3
<1>11. NoFalseAlarm'
  <2> SUFFICES
        ASSUME decision' = "ROLLBACK_REQUIRED",
               Releasable(document), release = document.target,
               PermissionAudit[release] # "FAIL",
               ~lost, ~jumped, ~broken, Known(Snapshot), verdict = "OK",
               ~(lived < 2), ~lagged, WriterFresh(Snapshot),
               clock # second.at, revision = second.platform.revision,
               \A c \in Counters : second.platform.database[c] # None
        PROVE  FALSE
    <3>1. /\ Releasable(document)' <=> Releasable(document)
          /\ Known(post)' <=> Known(Snapshot)
          /\ WriterFresh(post)' <=> WriterFresh(Snapshot)
      BY <1>1
    <3>2. /\ post'.platform.version = release
          /\ post'.platform.revision = revision
          /\ post'.agents.permissions = PermissionAudit[release]
          /\ post'.broken = broken /\ post'.verdict = verdict
          /\ post'.lived = lived /\ post'.lagged = lagged
          /\ post'.at = clock
      BY <1>1, SnapshotAs
    <3> QED
      BY <1>1, <1>3, <3>1, <3>2 DEF NoFalseAlarm
  <2>1. Healthy(Snapshot, document.target)
    <3>1. lived >= 2
      BY DEF AInv, AroundTypes
    <3> QED
      BY <1>1, <3>1, NothingToReport
  <2>2. Snapshot.at > second.at
    BY <1>1, <1>3, <1>6, SnapshotAs
  <2>3. second.platform.writtenAt # None
    BY <1>6, NoneIsNoValue
  <2>4. ram.writtenAt # None /\ ram.writtenAt \in Int
    BY <1>1, <1>7, SnapshotAs DEF WriterFresh, RamTypes
  <2>5. ram.writtenAt >= second.at
    BY <1>1, <2>4 DEF DInv, Restarted
  <2>6. Snapshot.platform.writtenAt >= second.platform.writtenAt
    BY <1>1, <1>6, <2>4, <2>5, SnapshotAs
  <2>7. \A c \in Counters :
           /\ ram.stats[c] # None
           /\ ram.stats[c] >= second.platform.database[c]
    <3>1. \A c \in Counters : /\ ram.stats[c] # None
                              /\ ram.stats[c] \in Nat \cup {None}
                              /\ second.platform.database[c] <= ram.stats[c]
      BY <1>1, <1>7 DEF DInv, Restarted, RamTypes
    <3> QED
      BY <1>6, <3>1
  <2>8. NotRegressing(second.platform.database, Snapshot.platform.database)
    BY <1>1, <2>7, SnapshotAs DEF NotRegressing, PersistentCounters
  <2>9. PostDecision(document, Snapshot) = "HEALTHY"
    BY <2>1, <2>2, <2>3, <2>6, <2>8, SnapshotAs, <1>1 DEF PostDecision
  <2> QED
    BY <1>1, <2>9
<1> QED
  BY <1>2, <1>4, <1>5, <1>9, <1>10, <1>11 DEF DInv

-----------------------------------------------------------------------------
(***************************************************************************)
(* The invariant holds.                                                    *)
(***************************************************************************)
LEMMA Invariance == Spec => []IInv
<1>1. Init => IInv
  BY InitiallyAInv, InitiallyDInv DEF Init, IInv
<1>2. IInv /\ [Next]_vars => IInv'
  <2> SUFFICES ASSUME IInv, [Next]_vars PROVE IInv'
    OBVIOUS
  <2> USE DEF IInv
  <2>1. CASE AnalysisNext /\ UNCHANGED deployment
    BY <2>1, AnalysisStep, DeploymentWaits DEF deployment
  <2>2. CASE Acquire \/ Verify \/ Supersede
    BY <2>2, LeaseStep
  <2>3. CASE TakeFirst
    BY <2>3, TakeFirstStep
  <2>4. CASE EvaluatePreDeploy
    BY <2>4, EvaluatePreDeployStep
  <2>5. CASE \E target \in Releases \ {release} : CopySource(target)
    BY <2>5, CopySourceStep
  <2>6. CASE RestartCore
    BY <2>6, RestartCoreStep
  <2>7. CASE LoseEvidence
    BY <2>7, LoseEvidenceStep
  <2>8. CASE EvaluatePostDeploy
    BY <2>8, EvaluatePostDeployStep
  <2>9. CASE UNCHANGED vars
    BY <2>9, AnalysisWaits, DeploymentWaits DEF vars, deployment
  <2> QED
    BY <2>1, <2>2, <2>3, <2>4, <2>5, <2>6, <2>7, <2>8, <2>9 DEF Next, Deploy
<1> QED
  BY <1>1, <1>2, PTL DEF Spec

(***************************************************************************)
(* Every variable has its type: the checkpoint file holds the episodes the *)
(* engine had when it was written, there are no more replays than          *)
(* snapshots stored and no more of these than were processed, and a GO     *)
(* names the lease it was given under.                                     *)
(***************************************************************************)
THEOREM TypeCorrect == Spec => []TypeOK
<1>1. IInv => TypeOK
  <2> SUFFICES ASSUME IInv PROVE TypeOK
    OBVIOUS
  <2> USE DEF IInv
  <2>1. /\ clock \in 0..MaxClock /\ plant \in Plants /\ release \in Releases
        /\ worker \in {"down", "idle", "analysed", "written", "reviewed",
                       "stored"}
    BY DEF AInv, AroundTypes
  <2>2. \A i \in DOMAIN episodes : episodes[i] \in Episode
    BY DEF AInv, EpisodeTypes
  <2>3. saved = SubSeq(episodes, 1, Len(saved))
    <3>1. /\ episodes \in Seq(Episode) /\ saved \in Seq(Episode)
          /\ Len(saved) \in 0..Len(episodes)
          /\ \A i \in 1..Len(saved) : saved[i] = episodes[i]
      BY DEF AInv, EpisodeTypes
    <3>2. /\ SubSeq(episodes, 1, Len(saved)) \in Seq(Episode)
          /\ Len(SubSeq(episodes, 1, Len(saved))) = Len(saved)
          /\ \A i \in 1..Len(saved) :
                SubSeq(episodes, 1, Len(saved))[i] = episodes[i]
      BY <3>1
    <3> QED
      BY <3>1, <3>2, SeqEqual
  <2>4. /\ ram.safety \in SafetyResult
        /\ db.safety \in RowOf(SafetyResult) \cup {None}
        /\ \A f \in DOMAIN db.opportunities :
              db.opportunities[f] \in Open \cup {"RESOLVED"}
    BY DEF AInv, RamTypes, TableTypes
  <2>5. db.samples \in 0..samples /\ db.replays \in 0..db.samples
    BY DEF AInv, TableTypes, AroundTypes, Counted
  <2>6. /\ stage \in {"none", "first", "go", "copied", "restarted", "judged"}
        /\ decision \in {"GO", "NO_GO", "HEALTHY", "ROLLBACK_REQUIRED"}
        /\ decision = "GO" => fence # None
    BY NoneIsNoValue DEF DInv, Stages, Leased, Decided, Executor
  <2> QED
    BY <2>1, <2>2, <2>3, <2>4, <2>5, <2>6 DEF TypeOK, AnalysisTypeOK
<1> QED
  BY <1>1, Invariance, PTL

(***************************************************************************)
(* Between two snapshots the sensors show what the agents said of the last *)
(* one, although the caches are read back from the database, whatever      *)
(* failed and however often Home Assistant was restarted, unless the clock *)
(* was set back or the last write failed.                                  *)
(***************************************************************************)
THEOREM SensorsAreTrue == Spec => []ShownIsEvaluated
<1>1. IInv => ShownIsEvaluated
  BY DEF IInv, AInv, Shown, Shows, ShownIsEvaluated
<1> QED
  BY <1>1, Invariance, PTL

(***************************************************************************)
(* Once a life has processed a snapshot without failure, the candidate it  *)
(* shows was made by the policy it has loaded, from the episodes it now    *)
(* retains: none is left over from an older release or an older model.     *)
(***************************************************************************)
THEOREM CandidatesAreCurrent == Spec => []CandidateIsCurrent
<1>1. IInv => CandidateIsCurrent
  BY DEF IInv, AInv, Current, CandidateIsCurrent
<1> QED
  BY <1>1, Invariance, PTL

-----------------------------------------------------------------------------
(***************************************************************************)
(* The backlog.  A review settles what the sentinel says; until the next   *)
(* one is due it stays settled, unless the sentinel changed its mind since *)
(* the review, which a review period that has passed since rules out.      *)
(***************************************************************************)
Settled == FollowedUp <=> standing.warnings

StandingTypes ==
    /\ standing.warnings \in BOOLEAN /\ standing.since \in Int
    /\ ram.reviewedAt \in Int \cup {None}
    /\ ~jumped => /\ standing.since <= clock
                  /\ ram.reviewedAt # None => ram.reviewedAt <= clock

InHand ==
    /\ Working => ram.safety.warnings = standing.warnings
    /\ worker \in {"written", "reviewed", "stored"} => ram.writtenAt = clock

SettledByReview ==
    worker # "down" /\ ~jumped /\ ram.reviewedAt # None
    /\ ram.reviewedAt > standing.since => Settled

InTime == ~(ram.writtenAt - standing.since >= ReviewPeriod)

SettledInTime ==
    /\ ~jumped
    /\ \/ worker \in {"reviewed", "stored"}
       \/ worker = "idle" /\ ~ram.error /\ verdict # None
    => Settled \/ InTime

BInv == StandingTypes /\ InHand /\ SettledByReview /\ SettledInTime

\* The backlog asks for a follow-up when the sentinel warns, only then.
LEMMA FollowUpReported ==
    ASSUME NEW s \in Summaries, NEW safety, NEW p
    PROVE  FollowUp \in Reported(s, safety, p) <=> safety.warnings
<1>1. /\ FollowUp \notin EnergyFindings(s)
      /\ FollowUp \notin ScheduleFindings(s)
      /\ FollowUp \notin HydraulicsFindings(s)
      /\ FollowUp \notin DataQualityFindings(p)
  BY DEF FollowUp, EnergyFindings, ScheduleFindings, HydraulicsFindings,
         DataQualityFindings
<1>2. FollowUp \notin ComfortFindings(s)
  BY DEF FollowUp, ComfortFindings
<1>3. FollowUp \in MaintenanceFindings(s, safety) <=> safety.warnings
  BY DEF FollowUp, MaintenanceFindings
<1> QED
  BY <1>1, <1>2, <1>3 DEF Reported

\* A review settles what the sentinel said of the snapshot.
LEMMA ReviewSettles ==
    ASSUME AInv, BInv, worker = "written", NEW s \in Summaries,
           standing' = standing,
           db' = [db EXCEPT !.opportunities =
                    Upsert(@, Reported(s, ram.safety, job.plant))]
    PROVE  Settled'
<1> DEFINE found == Reported(s, ram.safety, job.plant)
<1>1. ram.safety.warnings = standing.warnings
  BY DEF BInv, InHand, Working
<1>2. FollowUp \in found <=> standing.warnings
  BY <1>1, FollowUpReported
<1>3. IsFiniteSet(found)
  BY FoundIsFinite
<1> HIDE DEF found
<1>4. db'.opportunities = Upsert(db.opportunities, found)
  BY DEF AInv, TableTypes, Tables, found
<1>5. {f \in DOMAIN db'.opportunities : db'.opportunities[f] \in Open} = found
  BY <1>3, <1>4, UpsertAs DEF AInv, TableTypes
<1> QED
  BY <1>2, <1>5 DEF Settled, FollowedUp

\* Nothing is in hand when the worker is at rest, and it keeps what it knew.
LEMMA AtRest ==
    ASSUME BInv, worker' \in {"down", "idle"}, worker' = "idle" => worker # "down",
           ram'.reviewedAt = ram.reviewedAt, standing' = standing,
           clock' >= clock \/ jumped', jumped => jumped',
           clock \in Int, clock' \in Int, Settled => Settled',
           worker' = "idle" /\ ~ram'.error /\ verdict' # None /\ ~jumped'
             => Settled' \/ InTime'
    PROVE  BInv'
<1>1. StandingTypes'
  BY DEF BInv, StandingTypes
<1>2. InHand' /\ SettledInTime'
  BY DEF InHand, SettledInTime, Working
<1>3. SettledByReview'
  BY DEF BInv, SettledByReview
<1> QED
  BY <1>1, <1>2, <1>3 DEF BInv

\* The clock runs forward and the caches are typed.
LEMMA BasicTypes ==
    ASSUME AInv, AInv'
    PROVE  /\ clock \in Int /\ clock' \in Int
           /\ RamTypes(ram) /\ RamTypes(ram') /\ ReviewPeriod \in Int
           /\ ram.writtenAt # None => ram.writtenAt \in Int
BY AnalysisAssumption DEF AInv, AroundTypes, RamTypes

\* The worker stays where it is and what it holds stays the same.
LEMMA BacklogWaits ==
    ASSUME AInv, AInv', BInv, worker' = worker, ram' = ram,
           standing' = standing, verdict' = verdict,
           clock' >= clock \/ jumped', jumped => jumped',
           Working => clock' = clock, Settled => Settled'
    PROVE  BInv'
<1>1. clock \in Int /\ clock' \in Int
  BY BasicTypes
<1>2. StandingTypes'
  BY <1>1 DEF BInv, StandingTypes
<1>3. InHand'
  BY DEF BInv, InHand, Working
<1>4. SettledByReview' /\ SettledInTime'
  BY DEF BInv, SettledByReview, SettledInTime, InTime
<1> QED
  BY <1>2, <1>3, <1>4 DEF BInv

LEMMA StartBacklog ==
    ASSUME AInv, AInv', BInv, Start
    PROVE  BInv'
<1>1. /\ worker' = "idle" /\ verdict' = None /\ ram'.reviewedAt = None
      /\ standing' = standing /\ clock' = clock /\ jumped' = jumped
  BY Beginning DEF Start
<1> QED
  BY <1>1
     DEF BInv, StandingTypes, InHand, SettledByReview, SettledInTime, Working

LEMMA AnalyseBacklog ==
    ASSUME AInv, AInv', BInv, Analyse
    PROVE  BInv'
<1>1. PICK learned \in Learnable, appendOnly \in BOOLEAN :
          Processed(learned, appendOnly)
  BY DEF Analyse
<1>2. /\ worker = "idle" /\ worker' = "analysed"
      /\ clock' = clock /\ jumped' = jumped /\ db' = db
  BY DEF Analyse, environment
<1>3. /\ ram'.safety = Judgement(appendOnly)
      /\ ram'.reviewedAt = ram.reviewedAt
      /\ ram'.safety.warnings \in BOOLEAN
  BY <1>1, SafetyType, Processing DEF Judgement, SafetyResult
<1>4. standing' = IF Judgement(appendOnly).warnings = standing.warnings
                  THEN standing
                  ELSE [warnings |-> Judgement(appendOnly).warnings,
                        since |-> clock]
  BY <1>1 DEF Processed
<1>5. clock \in Int
  BY BasicTypes
<1>6. /\ standing'.warnings = ram'.safety.warnings
      /\ standing' = standing \/ standing'.since = clock
  BY <1>3, <1>4
<1>7. StandingTypes'
  BY <1>2, <1>3, <1>5, <1>6 DEF BInv, StandingTypes
<1>8. InHand' /\ SettledInTime'
  BY <1>2, <1>6 DEF InHand, SettledInTime
<1>9. SettledByReview'
  <2>1. CASE standing' = standing
    <3>1. Settled' <=> Settled
      BY <1>2, <2>1 DEF Settled, FollowedUp
    <3> QED
      BY <1>2, <1>3, <2>1, <3>1 DEF BInv, SettledByReview
  <2>2. CASE standing'.since = clock
    BY <1>2, <1>3, <1>5, <2>2 DEF BInv, StandingTypes, SettledByReview
  <2> QED
    BY <1>6, <2>1, <2>2
<1> QED
  BY <1>7, <1>8, <1>9 DEF BInv

LEMMA DeniedBacklog ==
    ASSUME AInv, AInv', BInv, AnalysisDenied
    PROVE  BInv'
<1>1. /\ worker = "idle" /\ worker' = "idle" /\ ~Permitted(Duties)
      /\ clock' = clock /\ jumped' = jumped /\ db' = db
      /\ standing' = standing /\ verdict' = verdict
  BY DEF AnalysisDenied, environment, history
<1>2. verdict = None
  BY <1>1 DEF AInv, Living
<1>3. ram'.reviewedAt = ram.reviewedAt
  BY AnalysisDeniedStep
<1>4. Settled' <=> Settled
  BY <1>1 DEF Settled, FollowedUp
<1> QED
  BY <1>1, <1>2, <1>3, <1>4, AtRest, BasicTypes

LEMMA WriteBatchBacklog ==
    ASSUME AInv, AInv', BInv, WriteBatch
    PROVE  BInv'
<1>1. /\ worker = "analysed" /\ clock' = clock /\ jumped' = jumped
      /\ standing' = standing /\ db'.opportunities = db.opportunities
      /\ \/ /\ ram' = [ram EXCEPT !.writtenAt = clock, !.error = FALSE]
            /\ worker' = "written"
         \/ worker' = "idle" /\ ram' = [ram EXCEPT !.error = TRUE]
  <2>1. Batched(db).opportunities = db.opportunities
    BY DEF AInv, TableTypes, Tables, Batched
  <2> QED
    BY <2>1 DEF WriteBatch, environment, DatabaseFails
<1>2. Settled' <=> Settled
  BY <1>1 DEF Settled, FollowedUp
<1>3. CASE /\ ram' = [ram EXCEPT !.writtenAt = clock, !.error = FALSE]
           /\ worker' = "written"
  <2>1. /\ ram'.writtenAt = clock /\ ram'.safety = ram.safety
        /\ ram'.reviewedAt = ram.reviewedAt
    BY <1>3, BasicTypes DEF RamTypes, Attributes
  <2>2. StandingTypes'
    BY <1>1, <2>1 DEF BInv, StandingTypes
  <2>3. InHand' /\ SettledInTime'
    BY <1>1, <1>3, <2>1 DEF BInv, InHand, SettledInTime, Working
  <2>4. SettledByReview'
    BY <1>1, <1>2, <2>1 DEF BInv, SettledByReview
  <2> QED
    BY <2>2, <2>3, <2>4 DEF BInv
<1>4. CASE worker' = "idle" /\ ram' = [ram EXCEPT !.error = TRUE]
  BY <1>1, <1>2, <1>4, AtRest, BasicTypes, ErrorShown
<1> QED
  BY <1>1, <1>3, <1>4

LEMMA ReviewBacklog ==
    ASSUME AInv, AInv', BInv, Review
    PROVE  BInv'
<1>1. /\ worker = "written" /\ clock' = clock /\ jumped' = jumped
      /\ standing' = standing
      /\ \/ /\ ram' = [ram EXCEPT !.reviewedAt = clock]
            /\ worker' = "reviewed"
            /\ \E s \in Summaries :
                 db' = [db EXCEPT !.opportunities =
                          Upsert(@, Reported(s, ram.safety, job.plant))]
         \/ /\ worker' = "idle" /\ ram' = [ram EXCEPT !.error = TRUE]
            /\ \/ db' = db
               \/ \E s \in Summaries :
                    db' = [db EXCEPT !.opportunities =
                             Upsert(@, Reported(s, ram.safety, job.plant))]
  BY ZenonT(60) DEF Review, environment, DatabaseFails
<1>2. CASE /\ ram' = [ram EXCEPT !.reviewedAt = clock]
           /\ worker' = "reviewed"
           /\ \E s \in Summaries :
                db' = [db EXCEPT !.opportunities =
                         Upsert(@, Reported(s, ram.safety, job.plant))]
  <2>1. /\ ram'.writtenAt = ram.writtenAt /\ ram'.safety = ram.safety
        /\ ram'.reviewedAt = clock
    BY <1>2, BasicTypes DEF RamTypes, Attributes
  <2>2. Settled'
    BY <1>1, <1>2, ReviewSettles
  <2>3. StandingTypes'
    BY <1>1, <2>1, BasicTypes DEF BInv, StandingTypes
  <2>4. InHand'
    BY <1>1, <1>2, <2>1 DEF BInv, InHand, Working
  <2>5. SettledByReview' /\ SettledInTime'
    BY <2>2 DEF SettledByReview, SettledInTime
  <2> QED
    BY <2>3, <2>4, <2>5 DEF BInv
<1>3. CASE /\ worker' = "idle" /\ ram' = [ram EXCEPT !.error = TRUE]
           /\ \/ db' = db
              \/ \E s \in Summaries :
                   db' = [db EXCEPT !.opportunities =
                            Upsert(@, Reported(s, ram.safety, job.plant))]
  <2>1. Settled => Settled'
    <3>1. CASE db' = db
      BY <1>1, <3>1 DEF Settled, FollowedUp
    <3>2. CASE db' # db
      BY <1>1, <1>3, <3>2, ReviewSettles
    <3> QED
      BY <3>1, <3>2
  <2> QED
    BY <1>1, <1>3, <2>1, AtRest, BasicTypes, ErrorShown
<1> QED
  BY <1>1, <1>2, <1>3

\* A review that is not due was long enough after the sentinel changed its
\* mind, or it changed its mind less than a review period ago.
LEMMA WriteBundleBacklog ==
    ASSUME AInv, AInv', BInv, WriteBundle
    PROVE  BInv'
<1>1. /\ \/ worker = "reviewed"
         \/ worker = "written" /\ ~ReviewDue
      /\ clock' = clock /\ jumped' = jumped /\ standing' = standing
      /\ worker' \in {"idle", "stored"}
      /\ db'.opportunities = db.opportunities
      /\ \/ ram' \in {[ram EXCEPT !.audited = TRUE], ram}
         \/ worker' = "idle" /\ ram' = [ram EXCEPT !.error = TRUE]
  <2>1. Persisted(db).opportunities = db.opportunities
    BY DEF AInv, TableTypes, Tables, Persisted
  <2> QED
    BY <2>1 DEF WriteBundle, environment, DatabaseFails
<1>2. Settled' <=> Settled
  BY <1>1 DEF Settled, FollowedUp
<1>3. CASE ram' \in {[ram EXCEPT !.audited = TRUE], ram}
  <2>1. /\ ram'.writtenAt = ram.writtenAt /\ ram'.safety = ram.safety
        /\ ram'.reviewedAt = ram.reviewedAt /\ ram'.error = ram.error
    BY <1>3, BasicTypes DEF RamTypes, Attributes
  <2>2. StandingTypes'
    BY <1>1, <2>1 DEF BInv, StandingTypes
  <2>3. InHand'
    BY <1>1, <2>1 DEF BInv, InHand, Working
  <2>4. SettledByReview'
    BY <1>1, <1>2, <2>1 DEF BInv, SettledByReview
  <2>5. ~jumped => Settled \/ InTime
    <3>1. CASE worker = "reviewed"
      BY <3>1 DEF BInv, SettledInTime
    <3>2. CASE worker = "written" /\ ~ReviewDue
      <4>1. /\ ram.reviewedAt # None
            /\ ~(clock - ram.reviewedAt >= ReviewPeriod)
            /\ ram.writtenAt = clock
        BY <3>2 DEF ReviewDue, Elapsed, BInv, InHand
      <4>2. ram.reviewedAt \in Int /\ standing.since \in Int
        BY <4>1 DEF BInv, StandingTypes
      <4>3. ram.reviewedAt > standing.since \/ InTime
        BY <4>1, <4>2, BasicTypes DEF InTime
      <4> QED
        BY <3>2, <4>1, <4>3 DEF BInv, SettledByReview
    <3> QED
      BY <1>1, <3>1, <3>2
  <2>6. SettledInTime'
    BY <1>1, <1>2, <2>1, <2>5 DEF SettledInTime, InTime
  <2> QED
    BY <2>2, <2>3, <2>4, <2>6 DEF BInv
<1>4. CASE worker' = "idle" /\ ram' = [ram EXCEPT !.error = TRUE]
  BY <1>1, <1>2, <1>4, AtRest, BasicTypes, ErrorShown
<1> QED
  BY <1>1, <1>3, <1>4

LEMMA RefreshBacklog ==
    ASSUME AInv, AInv', BInv, Refresh
    PROVE  BInv'
<1>1. /\ worker = "stored" /\ worker' = "idle" /\ db' = db
      /\ clock' = clock /\ jumped' = jumped /\ standing' = standing
  BY DEF Refresh, environment, DatabaseFails
<1>2. Settled' <=> Settled
  BY <1>1 DEF Settled, FollowedUp
<1>3. TableTypes(db) /\ RamTypes(ram)
  BY DEF AInv
<1>4. CASE ram' = WithAnalysis(ram)
  <2>1. ram'.reviewedAt = ram.reviewedAt /\ ram'.writtenAt = ram.writtenAt
    BY <1>3, <1>4, AnalysisRead
  <2>2. ~jumped => Settled' \/ InTime'
    BY <1>1, <1>2, <2>1 DEF BInv, SettledInTime, InTime
  <2> QED
    BY <1>1, <1>2, <2>1, <2>2, AtRest, BasicTypes
<1>5. ASSUME NEW r \in PartlyRefreshed(ram), ram' = [r EXCEPT !.error = TRUE]
      PROVE  BInv'
  <2>1. RamTypes(r) /\ r.reviewedAt = ram.reviewedAt
    BY <1>3, PartlyRead
  <2>2. ram'.error /\ ram'.reviewedAt = ram.reviewedAt
    BY <1>5, <2>1, ErrorShown
  <2> QED
    BY <1>1, <1>2, <2>2, AtRest, BasicTypes
<1> QED
  BY <1>4, <1>5 DEF Refresh

\* Home Assistant stops, dies or waits, and people do what they do.
LEMMA AroundBacklog ==
    ASSUME AInv, AInv', BInv,
           Stop \/ Crash \/ Tick \/ SetBack \/ SelectRevision \/ Rule
    PROVE  BInv'
<1>1. CASE Stop \/ Crash
  <2>1. /\ worker' = "down" /\ ram' = ram /\ db' = db
        /\ standing' = standing /\ clock' = clock /\ jumped' = jumped
    BY <1>1 DEF Stop, Crash, environment, history
  <2>2. Settled' <=> Settled
    BY <2>1 DEF Settled, FollowedUp
  <2> QED
    BY <2>1, <2>2, AtRest, BasicTypes
<1>2. CASE Tick \/ SetBack \/ SelectRevision
  <2>1. /\ worker' = worker /\ ram' = ram /\ db' = db
        /\ standing' = standing /\ verdict' = verdict
        /\ jumped => jumped'
        /\ \/ clock' = clock
           \/ clock' = clock + 1 /\ ~Working
           \/ jumped' /\ ~Working
    BY <1>2 DEF Tick, SetBack, SelectRevision, history, Working
  <2>2. Settled' <=> Settled
    BY <2>1 DEF Settled, FollowedUp
  <2> QED
    BY <2>1, <2>2, BacklogWaits, BasicTypes
<1>3. CASE Rule
  <2>1. PICK f \in DOMAIN db.opportunities, status \in Rulings :
          /\ db.opportunities[f] \in Open
          /\ db' = [db EXCEPT !.opportunities[f] = status]
    BY <1>3 DEF Rule
  <2>2. /\ worker' = worker /\ ram' = ram /\ standing' = standing
        /\ verdict' = verdict /\ clock' = clock /\ jumped' = jumped
    BY <1>3 DEF Rule, environment, history
  <2>3. status \in Open
    BY AnalysisAssumption
  <2>4. db'.opportunities = [db.opportunities EXCEPT ![f] = status]
    BY <2>1 DEF AInv, TableTypes, Tables
  <2>5. FollowedUp' <=> FollowedUp
    BY <2>1, <2>3, <2>4 DEF FollowedUp
  <2>6. Settled' <=> Settled
    BY <2>2, <2>5 DEF Settled
  <2> QED
    BY <2>2, <2>6, BacklogWaits, BasicTypes
<1> QED
  BY <1>1, <1>2, <1>3

LEMMA DeployBacklog ==
    ASSUME AInv, AInv', BInv, Deploy \/ UNCHANGED vars
    PROVE  BInv'
<1>1. CASE UNCHANGED analysis
  <2>1. /\ worker' = worker /\ ram' = ram /\ db' = db
        /\ standing' = standing /\ verdict' = verdict /\ clock' = clock
        /\ jumped' = jumped
    BY <1>1 DEF analysis, environment, history
  <2>2. Settled' <=> Settled
    BY <2>1 DEF Settled, FollowedUp
  <2> QED
    BY <2>1, <2>2, BacklogWaits, BasicTypes
<1>2. CASE \E target \in Releases \ {release} : CopySource(target)
  <2>1. /\ worker' = worker /\ ram' = ram /\ db' = db
        /\ standing' = standing /\ verdict' = verdict /\ clock' = clock
        /\ jumped' = jumped
    BY <1>2 DEF CopySource, history
  <2>2. Settled' <=> Settled
    BY <2>1 DEF Settled, FollowedUp
  <2> QED
    BY <2>1, <2>2, BacklogWaits, BasicTypes
<1>3. CASE RestartCore
  BY <1>3, AroundBacklog DEF RestartCore
<1>4. CASE LoseEvidence
  <2>1. /\ worker = "down" /\ worker' = "down" /\ ram' = ram
        /\ standing' = standing /\ clock' = clock /\ jumped' = jumped
    BY <1>4 DEF LoseEvidence, environment, history
  <2> QED
    BY <2>1, BasicTypes
       DEF BInv, StandingTypes, InHand, SettledByReview, SettledInTime, Working
<1> QED
  BY <1>1, <1>2, <1>3, <1>4
     DEF Deploy, Acquire, Verify, Supersede, TakeFirst, EvaluatePreDeploy,
         EvaluatePostDeploy, vars

LEMMA BacklogInvariance == Spec => []BInv
<1>1. Init => BInv
  <2> SUFFICES ASSUME Init PROVE BInv
    OBVIOUS
  <2>1. /\ worker = "down" /\ clock = 1 /\ ram.reviewedAt = None
        /\ standing = [warnings |-> FALSE, since |-> clock]
    BY FreshType DEF Init, AnalysisInit
  <2>2. standing.warnings = FALSE /\ standing.since = 1
    BY <2>1
  <2>3. standing.warnings \in BOOLEAN
    BY <2>2, Zenon
  <2> QED
    BY <2>1, <2>2, <2>3
       DEF BInv, StandingTypes, InHand, SettledByReview, SettledInTime, Working
<1>2. BInv /\ IInv /\ IInv' /\ [Next]_vars => BInv'
  <2> SUFFICES ASSUME BInv, AInv, AInv', [Next]_vars PROVE BInv'
    BY DEF IInv
  <2>1. CASE AnalysisNext
    BY <2>1, StartBacklog, AnalyseBacklog, DeniedBacklog, WriteBatchBacklog,
       ReviewBacklog, WriteBundleBacklog, RefreshBacklog, AroundBacklog
       DEF AnalysisNext, Consume, Restart
  <2>2. CASE Deploy \/ UNCHANGED vars
    BY <2>2, DeployBacklog
  <2> QED
    BY <2>1, <2>2 DEF Next
<1> QED
  BY <1>1, <1>2, Invariance, PTL DEF Spec

(***************************************************************************)
(* A warning of the sentinel that has stood for a review period is an open *)
(* opportunity, and one that has been gone for as long is none, however    *)
(* far people took it and whatever failed before: unless the clock was set *)
(* back or the last write failed.                                          *)
(***************************************************************************)
THEOREM BacklogFollowsSentinel == Spec => []BacklogKeepsUp
<1>1. BInv => BacklogKeepsUp
  <2> SUFFICES ASSUME BInv, worker = "idle", verdict # None, ~jumped,
                      ~ram.error,
                      ram.writtenAt - standing.since >= ReviewPeriod
               PROVE  FollowedUp <=> standing.warnings
    BY DEF BacklogKeepsUp
  <2> QED
    BY DEF BInv, SettledInTime, Settled, InTime
<1> QED
  BY <1>1, BacklogInvariance, PTL

(***************************************************************************)
(* No step but the executor's own mistake ever makes a table smaller.      *)
(***************************************************************************)
THEOREM EvidenceIsKept == Spec => EvidenceGrows
<1>1. IInv /\ [Next]_vars => [LoseEvidence \/ Grows]_vars
  <2> SUFFICES ASSUME IInv, Next PROVE LoseEvidence \/ Grows
    OBVIOUS
  <2> USE DEF IInv
  <2>1. LoseEvidence \/ Advance
    BY AnalysisStep, LeaseStep, TakeFirstStep, EvaluatePreDeployStep,
       CopySourceStep, RestartCoreStep, EvaluatePostDeployStep
       DEF Next, Deploy
  <2> QED
    BY <2>1 DEF Advance
<1> QED
  BY <1>1, Invariance, PTL DEF Spec, EvidenceGrows

(***************************************************************************)
(* GO is only said of an installation whose agents found everything in     *)
(* order in both snapshots, and until the lease it was given under ends    *)
(* nobody else holds the deployment.                                       *)
(***************************************************************************)
THEOREM GoMeansGo == Spec => []GoIsEarned
<1>1. IInv => GoIsEarned
  <2> SUFFICES ASSUME IInv, decision = "GO", ~jumped
               PROVE  /\ first.verdict = "OK" /\ second.verdict = "OK"
                      /\ clock < proof.until => herdr.token = fence
    BY DEF GoIsEarned
  <2> USE DEF IInv, DInv
  <2>1. stage \in Decided
    BY DEF Stages
  <2>2. first.verdict = "OK" /\ second.verdict = "OK"
    BY <2>1 DEF Snapped
  <2>3. /\ proof.until \in Int /\ clock \in Int /\ fence = Executor
        /\ herdr.token = Executor \/ clock >= proof.until
    BY DEF Leased, AInv, AroundTypes
  <2> QED
    BY <2>2, <2>3
<1> QED
  BY <1>1, Invariance, PTL

(***************************************************************************)
(* HEALTHY is only said of the release in the document, after it evaluated *)
(* two snapshots of its own, the last with success, under the site         *)
(* revision GO was said of, and no counter of the PRE snapshot is ever     *)
(* missing from the database afterwards.                                   *)
(***************************************************************************)
THEOREM HealthyMeansHealthy == Spec => []HealthyIsEarned
<1>1. IInv => HealthyIsEarned
  BY DEF IInv, DInv
<1> QED
  BY <1>1, Invariance, PTL

(***************************************************************************)
(* Without one of the reasons it lists, a rollback is not asked for: the   *)
(* empty caches of a release that has just started are none, and neither   *)
(* are those a refresh has not filled yet.                                 *)
(***************************************************************************)
THEOREM RollbackHasReason == Spec => []NoFalseAlarm
<1>1. IInv => NoFalseAlarm
  BY DEF IInv, DInv
<1> QED
  BY <1>1, Invariance, PTL

-----------------------------------------------------------------------------
(***************************************************************************)
(* The candidate.                                                          *)
(***************************************************************************)
\* Every set of numbers has a least one.
LEMMA LeastNumber ==
    ASSUME NEW S \in SUBSET Nat, S # {}
    PROVE  \E m \in S : \A n \in S : m <= n
<1> DEFINE R == OpToRel(<, Nat)
<1>1. IsWellFoundedOn(R, Nat)
  BY NatLessThanWellFounded
<1>2. \A x, y \in Nat : <<x, y>> \notin R => y <= x
  BY DEF OpToRel
<1> HIDE DEF R
<1>3. PICK m \in S : \A n \in S : <<n, m>> \notin R
  BY <1>1, WFMin
<1>4. \A n \in S : m <= n
  BY <1>2, <1>3
<1> QED
  BY <1>4

\* Of the rules with a weight some weigh least.
LEMMA Lightest ==
    ASSUME NEW T, T # {}, NEW w \in [T -> Nat]
    PROVE  \E r \in T : \A s \in T : w[r] <= w[s]
<1>1. /\ {w[r] : r \in T} \in SUBSET Nat
      /\ {w[r] : r \in T} # {}
  OBVIOUS
<1>2. PICK m \in {w[r] : r \in T} : \A n \in {w[r] : r \in T} : m <= n
  BY <1>1, LeastNumber
<1>3. PICK r \in T : m = w[r]
  BY <1>2
<1> QED
  BY <1>2, <1>3

\* Faults are finitely many, each of an incident of its own.
LEMMA FaultsAreDistinct ==
    ASSUME NEW eps \in Seq(Episode)
    PROVE  /\ Faults(eps) \subseteq 1..Len(eps) /\ IsFiniteSet(Faults(eps))
           /\ \A i, j \in Faults(eps) :
                 eps[i].incident = eps[j].incident => i = j
<1>1. DOMAIN eps = 1..Len(eps) /\ Len(eps) \in Nat
  OBVIOUS
<1>2. Faults(eps) \subseteq 1..Len(eps)
  BY <1>1 DEF Faults
<1>3. IsFiniteSet(Faults(eps))
  <2>1. IsFiniteSet(1..Len(eps))
    BY <1>1, FS_Interval
  <2> QED
    BY <1>2, <2>1, FS_Subset
<1>4. ASSUME NEW i \in Faults(eps), NEW j \in Faults(eps), i < j,
             eps[i].incident = eps[j].incident
      PROVE  FALSE
  <2>1. i \in 1..(j - 1)
    BY <1>1, <1>2, <1>4
  <2> QED
    BY <2>1, <1>4 DEF Faults
<1>5. \A i, j \in Faults(eps) :
          eps[i].incident = eps[j].incident => i = j
  <2> SUFFICES ASSUME NEW i \in Faults(eps), NEW j \in Faults(eps),
                      eps[i].incident = eps[j].incident, i # j
               PROVE  FALSE
    OBVIOUS
  <2>1. i < j \/ j < i
    BY <1>1, <1>2
  <2> QED
    BY <2>1, <1>4
<1> QED
  BY <1>2, <1>3, <1>5

\* The numbers of a score.
LEMMA ScoreType ==
    ASSUME NEW eps, NEW rule, NEW data,
           IsFiniteSet(data.faults), IsFiniteSet(data.normal)
    PROVE  LET s == Score(eps, rule, data)
           IN /\ s.faults \in Nat /\ s.detected \in Nat /\ s.timely \in Nat
              /\ s.warned \in Nat /\ s.normal \in Nat
              /\ s.detected <= s.faults /\ s.timely <= s.detected
              /\ s.faults <= Cardinality(data.faults)
              /\ Cardinality(data.faults) \in Nat
              /\ s.timely = s.faults => \A i \in Usable(eps, data.faults, rule) :
                    rule \in eps[i].timely
<1> DEFINE faults == Usable(eps, data.faults, rule)
           normal == Usable(eps, data.normal, rule)
           detected == {i \in faults : rule \in eps[i].warned}
           timely == {i \in detected : rule \in eps[i].timely}
           warned == {i \in normal : rule \in eps[i].warned}
<1>1. /\ faults \subseteq data.faults /\ normal \subseteq data.normal
  BY DEF Usable
<1>2. /\ Score(eps, rule, data).faults = Cardinality(faults)
      /\ Score(eps, rule, data).detected = Cardinality(detected)
      /\ Score(eps, rule, data).timely = Cardinality(timely)
      /\ Score(eps, rule, data).normal = Cardinality(normal)
      /\ Score(eps, rule, data).warned = Cardinality(warned)
  BY DEF Score
<1>3. /\ detected \subseteq faults /\ timely \subseteq detected
      /\ warned \subseteq normal
      /\ \A i \in timely : rule \in eps[i].timely
  OBVIOUS
<1> HIDE DEF faults, normal, detected, timely, warned
<1>4. /\ IsFiniteSet(faults) /\ Cardinality(faults) <= Cardinality(data.faults)
      /\ IsFiniteSet(normal)
  BY <1>1, FS_Subset
<1>5. /\ IsFiniteSet(detected) /\ Cardinality(detected) <= Cardinality(faults)
      /\ Cardinality(detected) = Cardinality(faults) => detected = faults
      /\ IsFiniteSet(warned)
  BY <1>3, <1>4, FS_Subset
<1>6. /\ IsFiniteSet(timely) /\ Cardinality(timely) <= Cardinality(detected)
      /\ Cardinality(timely) = Cardinality(detected) => timely = detected
  BY <1>3, <1>5, FS_Subset
<1>7. /\ Cardinality(faults) \in Nat /\ Cardinality(detected) \in Nat
      /\ Cardinality(timely) \in Nat /\ Cardinality(warned) \in Nat
      /\ Cardinality(normal) \in Nat /\ Cardinality(data.faults) \in Nat
  BY <1>4, <1>5, <1>6, FS_CardinalityType
<1>8. Cardinality(timely) = Cardinality(faults) =>
          \A i \in faults : rule \in eps[i].timely
  <2> SUFFICES ASSUME Cardinality(timely) = Cardinality(faults)
               PROVE  \A i \in faults : rule \in eps[i].timely
    OBVIOUS
  <2>1. timely = detected /\ detected = faults
    BY <1>5, <1>6, <1>7
  <2> QED
    BY <2>1, <1>3
<1> QED
  BY <1>2, <1>4, <1>5, <1>6, <1>7, <1>8 DEF faults

\* The data sets of an installation are finite, and what is held out is not
\* what is chosen on.
LEMMA DataSets ==
    ASSUME NEW eps \in Seq(Episode)
    PROVE  /\ IsFiniteSet(Evidence(eps).faults)
           /\ IsFiniteSet(Evidence(eps).normal)
           /\ IsFiniteSet(Validation(eps).faults)
           /\ IsFiniteSet(Validation(eps).normal)
           /\ Evidence(eps).faults \subseteq Faults(eps)
           /\ Validation(eps).faults \subseteq Faults(eps)
           /\ Evidence(eps).faults \cap Validation(eps).faults = {}
<1>1. \A items : HeldOut(items) \subseteq items
  BY DEF HeldOut
<1>2. IsFiniteSet(Faults(eps))
  BY FaultsAreDistinct
<1>3. IsFiniteSet(Normal(eps))
  <2>1. Normal(eps) \subseteq 1..Len(eps) /\ Len(eps) \in Nat
    BY DEF Normal
  <2>2. IsFiniteSet(1..Len(eps))
    BY <2>1, FS_Interval
  <2> QED
    BY <2>1, <2>2, FS_Subset
<1>4. /\ Evidence(eps).faults = Faults(eps) \ HeldOut(Faults(eps))
      /\ Evidence(eps).normal = Normal(eps) \ HeldOut(Normal(eps))
      /\ Validation(eps).faults = HeldOut(Faults(eps))
      /\ Validation(eps).normal = HeldOut(Normal(eps))
  BY DEF Evidence, Validation
<1>5. /\ Evidence(eps).faults \subseteq Faults(eps)
      /\ Evidence(eps).normal \subseteq Normal(eps)
      /\ Validation(eps).faults \subseteq Faults(eps)
      /\ Validation(eps).normal \subseteq Normal(eps)
  BY <1>1, <1>4
<1> QED
  BY <1>2, <1>3, <1>4, <1>5, FS_Subset

\* The best of some rules is one of them.
LEMMA BestIsARule ==
    ASSUME NEW eps \in Seq(Episode), NEW rules, rules # {}
    PROVE  Best(eps, rules) \in rules
<1> DEFINE score(r) == Score(eps, r, Evidence(eps))
           most == Cardinality(Evidence(eps).faults)
           late == [r \in rules |-> most - score(r).timely]
           missed == [r \in rules |-> score(r).faults - score(r).detected]
           warned == [r \in rules |-> score(r).warned]
<1>1. \A r : /\ score(r).faults \in Nat /\ score(r).detected \in Nat
             /\ score(r).timely \in Nat /\ score(r).warned \in Nat
             /\ score(r).detected <= score(r).faults
             /\ score(r).timely <= most /\ most \in Nat
  <2> TAKE r
  <2>1. IsFiniteSet(Evidence(eps).faults) /\ IsFiniteSet(Evidence(eps).normal)
    BY DataSets
  <2>2. /\ score(r).faults \in Nat /\ score(r).detected \in Nat
        /\ score(r).timely \in Nat /\ score(r).warned \in Nat
        /\ score(r).detected <= score(r).faults
        /\ score(r).timely <= score(r).detected
        /\ score(r).faults <= most /\ most \in Nat
    BY <2>1, ScoreType
  <2> QED
    BY <2>2
<1> HIDE DEF score, most
<1>2. /\ late \in [rules -> Nat] /\ missed \in [rules -> Nat]
      /\ warned \in [rules -> Nat]
  BY <1>1
<1>3. PICK a \in rules : \A s \in rules : late[a] <= late[s]
  BY <1>2, Lightest
<1> DEFINE A == {s \in rules : late[s] = late[a]}
<1>4. PICK b \in A : \A s \in A : missed[b] <= missed[s]
  <2>1. A # {} /\ [s \in A |-> missed[s]] \in [A -> Nat]
    BY <1>2
  <2>2. \E b \in A : \A s \in A :
           [x \in A |-> missed[x]][b] <= [x \in A |-> missed[x]][s]
    <3> HIDE DEF A, missed, late
    <3> QED
      BY <2>1, Lightest
  <2> QED
    BY <2>2
<1> DEFINE B == {s \in A : missed[s] = missed[b]}
<1>5. PICK c \in B : \A s \in B : warned[c] <= warned[s]
  <2>1. B # {} /\ [s \in B |-> warned[s]] \in [B -> Nat]
    BY <1>2
  <2>2. \E c \in B : \A s \in B :
           [x \in B |-> warned[x]][c] <= [x \in B |-> warned[x]][s]
    <3> HIDE DEF B, warned
    <3> QED
      BY <2>1, Lightest
  <2> QED
    BY <2>2
<1>6. \A s \in rules : ~Better(score(s), score(c))
  <2> SUFFICES ASSUME NEW s \in rules, Better(score(s), score(c))
               PROVE  FALSE
    OBVIOUS
  <2>1. /\ c \in rules /\ late[c] = late[a] /\ missed[c] = missed[b]
        /\ late[b] = late[a]
    OBVIOUS
  <2>2. /\ late[s] = most - score(s).timely /\ late[c] = most - score(c).timely
        /\ missed[s] = score(s).faults - score(s).detected
        /\ missed[c] = score(c).faults - score(c).detected
        /\ warned[s] = score(s).warned /\ warned[c] = score(c).warned
    BY <2>1
  <2>3. late[c] <= late[s]
    BY <2>1, <1>3
  <2>4. late[s] = late[c] => missed[c] <= missed[s]
    BY <2>1, <1>4
  <2>5. late[s] = late[c] /\ missed[s] = missed[c] => warned[c] <= warned[s]
    BY <2>1, <1>5
  <2> HIDE DEF late, missed, warned
  <2>6. \/ score(s).timely > score(c).timely
        \/ /\ score(s).timely = score(c).timely
           /\ \/ score(s).faults - score(s).detected <
                   score(c).faults - score(c).detected
              \/ /\ score(s).faults - score(s).detected =
                      score(c).faults - score(c).detected
                 /\ score(s).warned < score(c).warned
    BY DEF Better
  <2>7. /\ score(s).timely \in Nat /\ score(c).timely \in Nat
        /\ score(s).faults \in Nat /\ score(c).faults \in Nat
        /\ score(s).detected \in Nat /\ score(c).detected \in Nat
        /\ score(s).warned \in Nat /\ score(c).warned \in Nat
        /\ most \in Nat
    BY <1>1
  <2>8. ~(score(s).timely > score(c).timely)
    BY <2>2, <2>3, <2>7
  <2>9. CASE score(s).timely = score(c).timely
    <3>1. late[s] = late[c]
      BY <2>2, <2>9
    <3>2. /\ missed[c] <= missed[s]
          /\ missed[s] = missed[c] => warned[c] <= warned[s]
      BY <2>4, <2>5, <3>1
    <3>3. score(c).faults - score(c).detected <=
            score(s).faults - score(s).detected
      BY <2>2, <3>2
    <3>4. score(s).faults - score(s).detected =
            score(c).faults - score(c).detected
      BY <2>6, <2>7, <2>9, <3>3
    <3>5. score(c).warned <= score(s).warned
      BY <2>2, <3>2, <3>4
    <3> QED
      BY <2>6, <2>7, <2>9, <3>4, <3>5
  <2> QED
    BY <2>6, <2>8, <2>9
<1>7. c \in rules
  OBVIOUS
<1> QED
  BY <1>6, <1>7 DEF Best, score

\* Distinct faults are distinct incidents.
LEMMA IncidentsCounted ==
    ASSUME NEW eps \in Seq(Episode), NEW S \in SUBSET Faults(eps)
    PROVE  Cardinality({eps[i].incident : i \in S}) = Cardinality(S)
<1> DEFINE T == {eps[i].incident : i \in S}
           f == [i \in S |-> eps[i].incident]
<1>1. IsFiniteSet(S)
  BY FaultsAreDistinct, FS_Subset
<1>2. \A i, j \in S : eps[i].incident = eps[j].incident => i = j
  BY FaultsAreDistinct
<1>3. f \in Bijection(S, T)
  <2>1. f \in [S -> T]
    OBVIOUS
  <2>2. \A i, j \in S : f[i] = f[j] => i = j
    BY <1>2
  <2>3. \A t \in T : \E i \in S : f[i] = t
    OBVIOUS
  <2> QED
    BY <2>1, <2>2, <2>3 DEF Bijection, Injection, Surjection, IsInjective
<1>4. ExistsBijection(S, T)
  BY <1>3 DEF ExistsBijection
<1> QED
  BY <1>1, <1>4, FS_Bijection

(***************************************************************************)
(* A candidate is only proposed to a person on enough distinct incidents,  *)
(* none of them among those it is validated on, and one of the rules it    *)
(* may be chosen from warned in time of every one of these.                *)
(***************************************************************************)
THEOREM ProposalsAreHeldOut == Spec => []ProposalIsHeldOut
<1>1. IInv => ProposalIsHeldOut
  <2> DEFINE chosenOn == Evidence(episodes).faults
             heldOut == Validation(episodes).faults
             base == Rules \ Composite
             best == Best(episodes, base)
  <2> SUFFICES ASSUME IInv, worker = "analysed", job.replayed,
                      ~ram.journalError,
                      ram.replay.candidate = "PROPOSED_FOR_HUMAN_REVIEW"
               PROVE  /\ {episodes[i].incident : i \in chosenOn}
                           \cap {episodes[i].incident : i \in heldOut} = {}
                      /\ Cardinality({episodes[i].incident : i \in chosenOn})
                           >= MinFaults
                      /\ \E rule \in base :
                           \A i \in heldOut : rule \in episodes[i].timely
    BY DEF ProposalIsHeldOut
  <2>1. episodes \in Seq(Episode)
    BY DEF IInv, AInv, EpisodeTypes
  <2>2. Proposal(episodes) = "PROPOSED_FOR_HUMAN_REVIEW"
    BY DEF IInv, AInv, JustReplayed, Replay
  <2>3. /\ EnoughFor(episodes, best)
        /\ PassesReview(Score(episodes, best, Validation(episodes)))
    BY <2>2 DEF Proposal
  <2>4. best \in base
    <3>1. base # {}
      BY PolicyAssumption
    <3> QED
      BY <2>1, <3>1, BestIsARule
  <2>5. /\ chosenOn \subseteq Faults(episodes)
        /\ heldOut \subseteq Faults(episodes)
        /\ chosenOn \cap heldOut = {}
        /\ IsFiniteSet(chosenOn)
    BY <2>1, DataSets
  <2>6. {episodes[i].incident : i \in chosenOn}
          \cap {episodes[i].incident : i \in heldOut} = {}
    <3> HIDE DEF chosenOn, heldOut
    <3> QED
      BY <2>1, <2>5, FaultsAreDistinct
  <2>7. Cardinality({episodes[i].incident : i \in chosenOn}) >= MinFaults
    <3>1. Cardinality(Usable(episodes, chosenOn, best)) >= MinFaults
      BY <2>3 DEF EnoughFor
    <3>2. Usable(episodes, chosenOn, best) \subseteq chosenOn
      BY DEF Usable
    <3> HIDE DEF chosenOn, best
    <3>3. /\ Cardinality(Usable(episodes, chosenOn, best))
               <= Cardinality(chosenOn)
          /\ Cardinality(Usable(episodes, chosenOn, best)) \in Nat
          /\ Cardinality(chosenOn) \in Nat
      BY <2>5, <3>2, FS_Subset, FS_CardinalityType
    <3>4. Cardinality({episodes[i].incident : i \in chosenOn})
            = Cardinality(chosenOn)
      BY <2>1, <2>5, IncidentsCounted
    <3>5. MinFaults \in Nat
      BY PolicyAssumption
    <3> QED
      BY <3>1, <3>3, <3>4, <3>5
  <2>8. \A i \in heldOut : best \in episodes[i].timely
    <3>1. Score(episodes, best, Validation(episodes)).timely =
            Score(episodes, best, Validation(episodes)).faults
      BY <2>3 DEF PassesReview
    <3>2. Usable(episodes, heldOut, best) = heldOut
      BY <2>4 DEF Usable
    <3>3. /\ IsFiniteSet(Validation(episodes).faults)
          /\ IsFiniteSet(Validation(episodes).normal)
      BY <2>1, DataSets
    <3> QED
      BY <3>1, <3>2, <3>3, ScoreType
  <2> QED
    BY <2>4, <2>6, <2>7, <2>8
<1> QED
  BY <1>1, Invariance, PTL

=============================================================================
