--------------------------- MODULE ObserverRuntime --------------------------
(***************************************************************************)
(* Runtime of custom_components/heating_observer/__init__.py with Journal  *)
(* (storage.py) and the incident table of AgentDatabase (database.py).     *)
(*                                                                         *)
(* Callbacks of Home Assistant capture snapshots into a bounded queue.     *)
(* One worker takes them out, feeds the engine and hands the result to two *)
(* stores in executor threads, while the callbacks go on.  stop() drains   *)
(* the queue and writes a last checkpoint.  Home Assistant may cancel the  *)
(* worker when it shuts down, or die at any moment, and the next life      *)
(* starts from the checkpoint file.                                        *)
(*                                                                         *)
(* The engine is reduced to what this protocol can spoil: when an episode  *)
(* starts and ends, whether it has been marked bad, and the numbers given  *)
(* to episodes and incidents.  Everything else about scoring an episode is *)
(* in ObserverEngine and only makes fewer episodes eligible.               *)
(***************************************************************************)
EXTENDS Integers, Sequences, FiniteSets

CONSTANTS QueueSize,    \* asyncio.Queue(maxsize=256)
          MaxBurns,     \* bound on burner starts and faults captured, for TLC
          MaxRestarts,  \* bound on the lives of Home Assistant, for TLC
          None


\* What a snapshot does to the engine: it starts a burner run, carries a new
\* fault code, ends the episode in progress, or does none of it.
Effect == {"start", "fault", "end", "run"}

\* hole tells, for the properties only, that something really is missing.
Item == [effect: Effect, gap: BOOLEAN, hole: BOOLEAN]

\* An episode in progress; of is the burner run it stands for.
Episode == [id: Nat, of: Nat, bad: BOOLEAN, fault: BOOLEAN]

ASSUME RuntimeAssumption ==
    /\ {QueueSize, MaxBurns, MaxRestarts} \subseteq Nat
    /\ None \notin Item \cup Episode

\* What stop() puts into the queue to end the worker is Python's None.
Poison == None

VARIABLES
    queue,       \* captured snapshots waiting for the worker
    capture_gap, \* the next snapshot must say that something is missing
    data,        \* engine.data: sequence, incidents, active and episodes
    pending,     \* events the engine has not handed out yet
    worker,      \* where _consume is suspended
    unfinished,  \* the worker has a snapshot and owes a task_done for it
    events,      \* what the engine returned for it
    checkpoint,  \* the worker decided to write a checkpoint
    stopping,    \* where stop() is suspended
    disk,        \* the checkpoint file model-<revision>.json
    adrift,      \* a checkpoint that a thread has yet to write although the
                 \* worker that asked for it is gone, or None
    rows,        \* incident_id |-> burner run, the table incidents
    restarts,
    (***********************************************************************)
    (* What really happened.                                               *)
    (***********************************************************************)
    captured,    \* burner runs and faults captured so far
    serial,      \* burner runs the engine has seen, over all lives
    lost,        \* something went missing since the last snapshot enqueued
    holes,       \* burner runs with a snapshot missing before their fault
    unrecorded,  \* burner runs with a snapshot the journal failed to append
    skipped,     \* burner runs with a snapshot the journal was never given,
                 \* or gave no answer for
    failed,      \* a journal write failed
    ignored      \* an incident was not stored because its number was taken

observer == <<data, pending>>
process == <<worker, unfinished, events, checkpoint>>
store == <<disk, adrift, rows>>
history == <<captured, serial, lost, holes, unrecorded, skipped, failed,
             ignored>>
vars == <<queue, capture_gap, observer, process, stopping, store, restarts,
          history>>

-----------------------------------------------------------------------------
(***************************************************************************)
(* The engine.                                                             *)
(***************************************************************************)
Empty == [sequence |-> 0, incidents |-> 0, active |-> None, episodes |-> {}]

Open(d, bad) ==
    [d EXCEPT !.sequence = @ + 1,
              !.active = [id |-> d.sequence + 1, of |-> serial + 1,
                          bad |-> bad, fault |-> FALSE]]

Merge(d, gap) ==
    IF d.active = None \/ d.active.fault THEN d
    ELSE [d EXCEPT !.active.bad = @ \/ gap]

Close(d, complete) ==
    IF d.active = None THEN d
    ELSE [d EXCEPT !.active = None,
                   !.episodes = @ \cup
                       {[id |-> d.active.id, of |-> d.active.of,
                         eligible |-> complete /\ ~d.active.bad]}]

\* The burner start closes what is open without merging the snapshot into it.
Fed(d, effect, gap) ==
    CASE effect = "start" -> Open(Close(d, TRUE), gap)
      [] effect = "end" -> Close(Merge(d, gap), TRUE)
      [] effect = "run" -> Merge(d, gap)
      [] effect = "fault" ->
           LET e == IF d.active = None THEN Open(d, TRUE) ELSE Merge(d, gap)
           IN  IF e.active.fault THEN e
               ELSE [e EXCEPT !.active.fault = TRUE, !.incidents = @ + 1]

EpisodeEvents(d, e) ==
    {[kind |-> "episode", id |-> x.id, of |-> x.of] :
        x \in e.episodes \ d.episodes}

IncidentEvents(d, e) ==
    IF e.incidents = d.incidents THEN {}
    ELSE {[kind |-> "incident_open", id |-> e.incidents, of |-> e.active.of]}

-----------------------------------------------------------------------------
(***************************************************************************)
(* Capturing, on the event loop.                                           *)
(***************************************************************************)
\* Mistake: the gap is forgotten with the snapshot.
ThrottleForgets(gap) == FALSE

\* A quiet periodic snapshot may be skipped; what it knew of a gap is kept.
ThrottleKeeps(gap) == gap

Throttle ==
    /\ stopping = "no"
    /\ data.active = None
    /\ capture_gap' = ThrottleKeeps(capture_gap)
    /\ UNCHANGED <<queue, observer, process, stopping, store, restarts,
                   history>>

\* Mistake: one snapshot more than the queue holds.
RoomOffByOne == Len(queue) <= QueueSize

Room == Len(queue) < QueueSize

\* enqueue: the snapshot takes the gap with it, or the queue is full.
Capture(effect) ==
    /\ stopping = "no"
    /\ effect \in {"start", "fault"} => captured < MaxBurns
    /\ captured' = captured + (IF effect \in {"start", "fault"} THEN 1 ELSE 0)
    /\ IF Room
       THEN /\ queue' = Append(queue, [effect |-> effect, gap |-> capture_gap,
                                       hole |-> lost])
            /\ capture_gap' = FALSE
            /\ lost' = FALSE
       ELSE /\ UNCHANGED queue
            /\ capture_gap' = TRUE
            /\ lost' = TRUE
    /\ UNCHANGED <<observer, process, stopping, store, restarts,
                   serial, holes, unrecorded, skipped, failed, ignored>>

-----------------------------------------------------------------------------
(***************************************************************************)
(* The worker.  Each step below runs to the next await.                    *)
(***************************************************************************)
\* Mistake: only the timer decides on a checkpoint.
NoteworthyNever(evs) == FALSE

Noteworthy(evs) == evs # {}

\* Get a snapshot, feed the engine, decide on a checkpoint.
Take ==
    LET s == Head(queue)
        fed == Fed(data, s.effect, s.gap)
        out == UNION {pending, EpisodeEvents(data, fed),
                      IncidentEvents(data, fed)}
    IN  /\ worker = "waiting"
        /\ queue # <<>>
        /\ s # Poison
        /\ queue' = Tail(queue)
        /\ unfinished' = TRUE
        /\ data' = fed
        /\ pending' = {}
        /\ events' = out
        /\ \E due \in BOOLEAN : checkpoint' = (Noteworthy(out) \/ due)
        /\ serial' = serial + (fed.sequence - data.sequence)
        /\ holes' = IF s.hole /\ data.active # None /\ s.effect # "start"
                    THEN holes \cup {x \in {data.active.of} :
                                         ~data.active.fault}
                    ELSE holes
        /\ worker' = "append"
        /\ UNCHANGED <<capture_gap, stopping, store, restarts,
                       captured, lost, unrecorded, skipped, failed, ignored>>

TakePoison ==
    /\ worker = "waiting"
    /\ queue # <<>>
    /\ Head(queue) = Poison
    /\ queue' = Tail(queue)
    /\ worker' = "ended"
    /\ UNCHANGED <<capture_gap, observer, unfinished, events, checkpoint,
                   stopping, store, restarts, history>>

\* Mistake: a snapshot that has been dealt with still counts as unfinished.
TaskNotDone ==
    /\ worker' = "waiting"
    /\ events' = {}
    /\ checkpoint' = FALSE
    /\ UNCHANGED unfinished

\* task_done
Done ==
    /\ worker' = "waiting"
    /\ unfinished' = FALSE
    /\ events' = {}
    /\ checkpoint' = FALSE

Finished == {e \in events : e.kind = "episode"}

\* The burner runs the snapshot in hand has to do with.
Runs == {e.of : e \in Finished}
            \cup (IF data.active = None THEN {} ELSE {data.active.of})

\* An agent raised: nothing is stored, the next snapshot says so.
ProcessingFails ==
    /\ worker = "append"
    /\ Done
    /\ capture_gap' = TRUE
    /\ lost' = TRUE
    /\ skipped' = skipped \cup Runs
    /\ UNCHANGED <<queue, observer, stopping, store, restarts,
                   captured, serial, holes, unrecorded, failed, ignored>>

\* Mistake: only finished episodes are censored.
CensoredActiveForgotten(d) ==
    [d EXCEPT !.episodes =
        {[e EXCEPT !.eligible = @ /\ \A x \in Finished : x.id # e.id] :
            e \in @}]

\* Whatever this snapshot belongs to must not be learned from.
Censored(d) ==
    [d EXCEPT !.active = IF @ = None THEN None ELSE [@ EXCEPT !.bad = TRUE],
              !.episodes =
        {[e EXCEPT !.eligible = @ /\ \A x \in Finished : x.id # e.id] :
            e \in @}]

\* journal.write raised
JournalFails ==
    /\ data' = Censored(data)
    /\ capture_gap' = TRUE
    /\ lost' = TRUE
    /\ failed' = TRUE
    /\ worker' = "database"

\* journal.write appends the snapshot and the events ...
AppendWorks ==
    /\ worker = "append"
    /\ worker' = IF checkpoint THEN "model" ELSE "database"
    /\ UNCHANGED <<queue, capture_gap, observer, unfinished, events,
                   checkpoint, stopping, store, restarts, history>>

AppendFails ==
    /\ worker = "append"
    /\ JournalFails
    /\ unrecorded' = unrecorded \cup Runs
    /\ UNCHANGED <<queue, pending, unfinished, events, checkpoint, stopping,
                   store, restarts, captured, serial, holes, skipped,
                   ignored>>

\* ... then replaces the model, and then the report.
SaveWorks ==
    /\ worker \in {"model", "report"}
    /\ disk' = IF worker = "model" THEN data ELSE disk
    /\ worker' = IF worker = "model" THEN "report" ELSE "database"
    /\ UNCHANGED <<queue, capture_gap, observer, unfinished, events,
                   checkpoint, stopping, adrift, rows, restarts, history>>

SaveFails ==
    /\ worker \in {"model", "report"}
    /\ JournalFails
    /\ UNCHANGED <<queue, pending, unfinished, events, checkpoint, stopping,
                   store, restarts, captured, serial, holes, unrecorded,
                   skipped, ignored>>

Incidents == {e \in events : e.kind = "incident_open"}

\* INSERT OR IGNORE: the first row with a number stays.
Inserted(table, new) ==
    [id \in DOMAIN table \cup {e.id : e \in new} |->
        IF id \in DOMAIN table THEN table[id]
        ELSE (CHOOSE e \in new : e.id = id).of]

\* write_batch is one transaction
DatabaseWorks ==
    /\ worker = "database"
    /\ Done
    /\ rows' = Inserted(rows, Incidents)
    /\ ignored' = (ignored \/ \E e \in Incidents : e.id \in DOMAIN rows)
    /\ UNCHANGED <<queue, capture_gap, observer, stopping, disk, adrift,
                   restarts, captured, serial, lost, holes, unrecorded,
                   skipped, failed>>

DatabaseFails ==
    /\ worker = "database"
    /\ Done
    /\ UNCHANGED <<queue, capture_gap, observer, stopping, store, restarts,
                   history>>

Worker == \/ Take \/ TakePoison \/ ProcessingFails
          \/ AppendWorks \/ AppendFails \/ SaveWorks \/ SaveFails
          \/ DatabaseWorks \/ DatabaseFails

-----------------------------------------------------------------------------
(***************************************************************************)
(* stop(), by itself or on the event of Home Assistant's shutdown.         *)
(***************************************************************************)
StopBegins ==
    /\ stopping = "no"
    /\ stopping' = "joining"
    /\ UNCHANGED <<queue, capture_gap, observer, process, store, restarts,
                   history>>

\* What becomes of the executor job that a cancelled worker waited for: it
\* never runs or fails, and nobody is told, or it goes on by itself.
JobGoesOn ==
    \/ /\ worker \in {"waiting", "report", "database"}
       /\ UNCHANGED <<adrift, rows, skipped, ignored>>
    \/ /\ worker = "append"
       /\ skipped' = skipped \cup Runs
       /\ UNCHANGED <<adrift, rows, ignored>>
    \/ /\ \/ worker = "append" /\ checkpoint
          \/ worker = "model"
       /\ adrift' = data
       /\ UNCHANGED <<rows, skipped, ignored>>
    \/ /\ worker = "append" /\ ~checkpoint
       /\ UNCHANGED <<adrift, rows, skipped, ignored>>
    \/ /\ worker = "database"
       /\ rows' = Inserted(rows, Incidents)
       /\ ignored' = (ignored \/ \E e \in Incidents : e.id \in DOMAIN rows)
       /\ UNCHANGED <<adrift, skipped>>

\* Home Assistant cancels its background tasks, the worker is one, and fires
\* the event stop() listens for.  CancelledError passes every except of the
\* worker; the finally still calls task_done for the snapshot in hand.
WorkerIsCancelled ==
    /\ worker # "ended"
    /\ worker' = "ended"
    /\ unfinished' = FALSE
    /\ events' = {}
    /\ checkpoint' = FALSE
    /\ stopping' = IF stopping = "no" THEN "joining" ELSE stopping
    /\ JobGoesOn
    /\ UNCHANGED <<queue, capture_gap, observer, disk, restarts,
                   captured, serial, lost, holes, unrecorded, failed>>

\* The job of the cancelled worker replaces the checkpoint file.
JobEnds ==
    /\ adrift # None
    /\ disk' = adrift
    /\ adrift' = None
    /\ UNCHANGED <<queue, capture_gap, observer, process, stopping, rows,
                   restarts, history>>

\* Mistake: stop() does not wait for the queue.
NotJoined == TRUE

\* queue.join: nothing waits and nothing is being processed.
Joined == queue = <<>> /\ ~unfinished

StopJoined ==
    /\ stopping = "joining"
    /\ Joined
    /\ data' = Close(data, FALSE)
    /\ stopping' = "saving"
    /\ UNCHANGED <<queue, capture_gap, pending, process, store, restarts,
                   history>>

\* The last checkpoint, whose failure is only logged.  The database gets
\* nothing here: write_batch stores no episodes.
StopSaves ==
    /\ stopping = "saving"
    /\ \/ disk' = data /\ UNCHANGED failed
       \/ failed' = TRUE /\ UNCHANGED disk
    /\ stopping' = "poisoning"
    /\ UNCHANGED <<queue, capture_gap, observer, process, adrift, rows,
                   restarts, captured, serial, lost, holes, unrecorded,
                   skipped, ignored>>

StopPoisons ==
    /\ stopping = "poisoning"
    /\ Room
    /\ queue' = Append(queue, Poison)
    /\ stopping' = "awaiting"
    /\ UNCHANGED <<capture_gap, observer, process, store, restarts, history>>

StopEnds ==
    /\ stopping = "awaiting"
    /\ worker = "ended"
    /\ stopping' = "ended"
    /\ UNCHANGED <<queue, capture_gap, observer, process, store, restarts,
                   history>>

Stop == StopJoined \/ StopSaves \/ StopPoisons \/ StopEnds

(***************************************************************************)
(* Home Assistant dies, or has stopped, and starts again: async_setup.     *)
(* What the checkpoint says is in progress is finished as a restart gap.   *)
(***************************************************************************)
\* Mistake: the episode in the checkpoint is finished like any other.
ReloadedAsComplete(d) == Close(d, TRUE)

Reloaded(d) == Close(d, FALSE)

Restart ==
    /\ restarts < MaxRestarts
    /\ restarts' = restarts + 1
    /\ data' = Reloaded(disk)
    /\ pending' = EpisodeEvents(disk, Reloaded(disk))
    /\ queue' = <<>>
    /\ capture_gap' = FALSE
    /\ lost' = FALSE
    /\ stopping' = "no"
    /\ Done
    /\ adrift' = None
    /\ UNCHANGED <<disk, rows, captured, serial, holes, unrecorded, skipped,
                   failed, ignored>>

Init ==
    /\ queue = <<>>
    /\ capture_gap = FALSE
    /\ data = Empty
    /\ pending = {}
    /\ worker = "waiting"
    /\ unfinished = FALSE
    /\ events = {}
    /\ checkpoint = FALSE
    /\ stopping = "no"
    /\ disk = Empty
    /\ adrift = None
    /\ rows = <<>>
    /\ restarts = 0
    /\ captured = 0
    /\ serial = 0
    /\ lost = FALSE
    /\ holes = {}
    /\ unrecorded = {}
    /\ skipped = {}
    /\ failed = FALSE
    /\ ignored = FALSE

Next ==
    \/ Throttle
    \/ \E effect \in Effect : Capture(effect)
    \/ Worker
    \/ StopBegins
    \/ WorkerIsCancelled
    \/ JobEnds
    \/ Stop
    \/ Restart

\* The event loop resumes every coroutine whose await is over, and executor
\* jobs end, one way or the other, for as long as Home Assistant does not
\* cancel the worker.  Nothing forces a snapshot, a stop, a cancellation, the
\* end of a job nobody waits for, or a restart to happen.
Spec == Init /\ [][Next]_vars /\ WF_vars(Worker) /\ WF_vars(Stop)

-----------------------------------------------------------------------------
Number == 0..MaxBurns + MaxRestarts

(* Every variable keeps its shape and the queue its bound. *)
TypeOK ==
    /\ {data.sequence, data.incidents, serial, captured} \subseteq Number
    /\ Len(queue) <= QueueSize
    /\ \A i \in DOMAIN queue : queue[i] = Poison \/ queue[i] \in Item
    /\ capture_gap \in BOOLEAN
    /\ data.active = None \/ data.active.id = data.sequence
    /\ worker \in {"waiting", "append", "model", "report", "database",
                   "ended"}
    /\ unfinished <=> worker \notin {"waiting", "ended"}
    /\ stopping \in {"no", "joining", "saving", "poisoning", "awaiting",
                     "ended"}
    /\ \A id \in DOMAIN rows : id \in Number /\ rows[id] \in Number

Learned(d) == {e.of : e \in {x \in d.episodes : x.eligible}}

(* No burner run is learned from when a snapshot before its fault never    *)
(* reached the engine: dropped by a full queue, or lost with a store or an *)
(* agent that failed.  A snapshot lost just before the next burner start   *)
(* belongs to no merged snapshot and is excepted, as in ScoredIsClean of   *)
(* ObserverEngine.                                                         *)
HoleIsCensored == (Learned(data) \cup Learned(disk)) \cap holes = {}

\* Burner runs with a snapshot that was passed over without being censored:
\* the run had ended or its fault was there before a snapshot captured
\* afterwards, which tells of the gap, was merged into it.
Unnoticed == skipped \ (unrecorded \cup holes)

(* A burner run one of whose snapshots is in no journal is not learned     *)
(* from, in memory or from the checkpoint file.  When the append failed    *)
(* that is so without exception, as soon as the failure has been dealt     *)
(* with.  When an agent raised, or the worker was cancelled, before the    *)
(* journal was given the snapshot, only the gap censors the run, so the    *)
(* runs that no gap can reach any more are the exception.                  *)
LearnedIsRecorded ==
    (Learned(data) \cup Learned(disk)) \cap (unrecorded \cup skipped)
        \subseteq Unnoticed

(* Incident numbers are used again after a crash only when a journal write *)
(* had failed: the checkpoint that records a number comes before the row   *)
(* in the database.                                                        *)
NumbersAreSavedFirst == ignored => failed

(* A restart knows what the checkpoint had learned and nothing more: the   *)
(* episode it cut short is not learned from.                               *)
RestartsTeachNothing ==
    [][restarts' # restarts => Learned(data') = Learned(disk)]_vars

(* After an orderly stop every captured snapshot has been processed, no    *)
(* episode is open, and the next life will load what memory was, unless    *)
(* writing the checkpoint failed; also when the worker was cancelled on    *)
(* the way and its last job lands after the last checkpoint.               *)
StopIsClean ==
    stopping = "ended" =>
        /\ \A i \in DOMAIN queue : queue[i] = Poison
        /\ ~unfinished
        /\ data.active = None
        /\ Reloaded(disk) = data \/ failed

\* join waits for snapshots that nobody takes out any more.
Hangs == stopping = "joining" /\ worker = "ended" /\ queue # <<>>

(* An orderly stop comes to its end, unless Home Assistant is restarted,   *)
(* or has cancelled the worker while snapshots were waiting: then join     *)
(* waits for ever and there is no last checkpoint.                         *)
StopTerminates == stopping = "joining" ~> stopping \in {"ended", "no"} \/ Hangs
=============================================================================
