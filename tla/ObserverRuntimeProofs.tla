------------------------ MODULE ObserverRuntimeProofs -----------------------
(***************************************************************************)
(* What the runtime of the observer keeps, proved for every length of the  *)
(* queue and any number of burner runs, failures and lives: nothing is     *)
(* learned from a burner run with a hole or an unrecorded snapshot,        *)
(* incident numbers are saved before they are used, an orderly stop leaves *)
(* nothing behind, and a restart teaches nothing.                          *)
(***************************************************************************)
EXTENDS ObserverRuntime, FiniteSetTheorems, TLAPS

Record == [id: Nat, of: Nat, eligible: BOOLEAN]

Model == [sequence: Nat, incidents: Nat, active: Episode \cup {None},
          episodes: SUBSET Record]

Event == [kind: {"episode", "incident_open"}, id: Nat, of: Nat]

(* A model that has seen n burner runs: numbers count up to n, the episode *)
(* in progress is the latest, and a burner run has one episode.            *)
Numbered(d, n) ==
    /\ d.sequence <= n
    /\ d.incidents <= d.sequence
    /\ d.active # None =>
         /\ d.active.id = d.sequence
         /\ d.active.of \in 1..n
         /\ ~d.active.fault => d.incidents < d.sequence
    /\ \A e \in d.episodes :
         /\ e.of \in 1..n
         /\ d.active # None => e.of < d.active.of
    /\ \A e, f \in d.episodes : e.of = f.of => e.id = f.id

Types ==
    /\ data \in Model /\ disk \in Model
    /\ queue \in Seq(Item \cup {None})
    /\ pending \in SUBSET Event /\ events \in SUBSET Event
    /\ serial \in Nat /\ captured \in Nat /\ restarts \in Nat
    /\ capture_gap \in BOOLEAN /\ checkpoint \in BOOLEAN
    /\ lost \in BOOLEAN /\ failed \in BOOLEAN /\ ignored \in BOOLEAN
    /\ unfinished \in BOOLEAN
    /\ adrift \in Model \cup {None}
    /\ holes \in SUBSET Nat /\ unrecorded \in SUBSET Nat
    /\ stopping \in {"no", "joining", "saving", "poisoning", "awaiting",
                     "ended"}
    /\ worker \in {"waiting", "append", "model", "report", "database",
                   "ended"}
    /\ unfinished <=> worker \notin {"waiting", "ended"}

(* Snapshots that are going to open an episode were counted when captured. *)
Opens(x) == x \in Item /\ x.effect \in {"start", "fault"}

Opening(q) == {i \in 1..Len(q) : Opens(q[i])}

Counted ==
    /\ Len(queue) <= QueueSize
    /\ serial + Cardinality(Opening(queue)) <= captured
    /\ captured <= MaxBurns
    /\ DOMAIN rows \subseteq 0..serial
    /\ \A id \in DOMAIN rows : rows[id] \in 0..serial

(* Numbers of memory and checkpoint; the episode in progress is the latest *)
(* burner run of all, which the checkpoint has not finished.               *)
Numbers ==
    /\ Numbered(data, serial) /\ Numbered(disk, serial)
    /\ disk.incidents <= data.incidents
    /\ data.active # None =>
         /\ data.active.of = serial
         /\ \A e \in disk.episodes : e.of < serial

Spoiled == holes \cup unrecorded

(* What is missing is said: a lost snapshot by the next one, a spoiled     *)
(* burner run by its episode, in progress or finished.                     *)
Said ==
    /\ lost => capture_gap
    /\ \A i \in 1..Len(queue) :
         queue[i] \in Item => (queue[i].hole => queue[i].gap)
    /\ Spoiled \subseteq 1..serial
    /\ data.active # None /\ data.active.of \in Spoiled => data.active.bad
    /\ \A e \in data.episodes \cup disk.episodes :
         e.eligible => e.of \notin Spoiled

(* What an event says is so, and an episode that finished with the         *)
(* snapshot at hand is not in the checkpoint as one to learn from.         *)
Told ==
    /\ worker \notin {"waiting", "ended"} => pending = {}
    /\ \A x \in pending :
         /\ x.kind = "episode"
         /\ \E e \in data.episodes : e.id = x.id /\ e.of = x.of
         /\ \A e \in data.episodes \cup disk.episodes :
              e.of = x.of => ~e.eligible
    /\ \A x \in Finished :
         \E e \in data.episodes : e.id = x.id /\ e.of = x.of
    /\ worker = "append" =>
         \A x \in Finished, e \in disk.episodes : e.of = x.of => ~e.eligible
    /\ \A x \in Incidents : x.id = data.incidents /\ x.of \in 1..serial

(* Until a journal write fails, a row has a number the checkpoint knows.   *)
SavedFirst ==
    ~failed =>
        /\ ~ignored
        /\ \A id \in DOMAIN rows : id <= disk.incidents
        /\ \A x \in Incidents : x.id \notin DOMAIN rows
        /\ Incidents # {} =>
             /\ worker = "append" => checkpoint
             /\ worker \in {"report", "database"} =>
                  disk.incidents = data.incidents

(* How far stop() has come, and what the next life would load.             *)
Stopped ==
    /\ stopping = "no" => worker # "ended"
    /\ stopping \in {"no", "joining"} =>
         \A i \in 1..Len(queue) : queue[i] # Poison
    /\ stopping \in {"saving", "poisoning"} =>
         queue = <<>> /\ worker \in {"waiting", "ended"}
    /\ stopping = "awaiting" =>
         \/ queue = <<Poison>> /\ worker \in {"waiting", "ended"}
         \/ queue = <<>> /\ worker = "ended"
    /\ stopping = "ended" =>
         queue \in {<<>>, <<Poison>>} /\ worker = "ended"
    /\ stopping \notin {"no", "joining"} => data.active = None
    /\ stopping \in {"poisoning", "awaiting", "ended"} =>
         Reloaded(disk) = data \/ failed

(* A checkpoint that may still land is what memory is, or was before       *)
(* stop() closed the episode in it.                                        *)
Afloat ==
    adrift # None =>
        /\ worker = "ended" /\ pending = {}
        /\ Numbered(adrift, serial)
        /\ adrift = data \/ (Reloaded(adrift) = data /\ data.active = None)

IInv == /\ Types /\ Counted /\ Numbers /\ Said /\ Told /\ SavedFirst
        /\ Stopped /\ Afloat

-----------------------------------------------------------------------------
(***************************************************************************)
(* The engine.                                                             *)
(***************************************************************************)
LEMMA NoneIsNothing == None \notin Item /\ None \notin Episode
BY RuntimeAssumption

(* e is d with gap merged: an episode without a fault is bad from then on, *)
(* and nothing else changes.                                               *)
Merged(d, e, gap) ==
    /\ e \in Model
    /\ e.sequence = d.sequence /\ e.incidents = d.incidents
    /\ e.episodes = d.episodes
    /\ e.active = None <=> d.active = None
    /\ d.active # None =>
         /\ e.active.id = d.active.id /\ e.active.of = d.active.of
         /\ e.active.fault = d.active.fault
         /\ e.active.bad <=> d.active.bad \/ (gap /\ ~d.active.fault)

LEMMA MergeMarks ==
    ASSUME NEW d \in Model, NEW gap \in BOOLEAN
    PROVE  Merged(d, Merge(d, gap), gap)
BY NoneIsNothing DEF Merge, Model, Episode, Merged

LEMMA MergeIsNumbered ==
    ASSUME NEW d, NEW e, NEW gap, NEW n, Merged(d, e, gap), Numbered(d, n)
    PROVE  Numbered(e, n)
BY DEF Numbered, Merged

(* e is d after the episode in progress has finished, with its number and  *)
(* its burner run; what was finished before stays.                         *)
Closed(d, e, complete) ==
    /\ e \in Model
    /\ e.sequence = d.sequence /\ e.incidents = d.incidents
    /\ e.active = None
    /\ d.episodes \subseteq e.episodes
    /\ \A x \in e.episodes \ d.episodes :
         /\ d.active # None
         /\ x.id = d.active.id /\ x.of = d.active.of
         /\ x.eligible => complete /\ ~d.active.bad

LEMMA CloseFinishes ==
    ASSUME NEW d \in Model, NEW complete \in BOOLEAN
    PROVE  Closed(d, Close(d, complete), complete)
<1>1. CASE d.active = None
  BY <1>1 DEF Close, Model, Closed
<1>2. CASE d.active # None
  <2> DEFINE r == [id |-> d.active.id, of |-> d.active.of,
                   eligible |-> complete /\ ~d.active.bad]
  <2>1. d.active \in Episode
    BY <1>2 DEF Model
  <2>2. r \in Record
    BY <2>1 DEF Record, Episode
  <2>3. Close(d, complete) = [d EXCEPT !.active = None,
                                       !.episodes = d.episodes \cup {r}]
    BY <1>2 DEF Close
  <2>4. /\ r.id = d.active.id /\ r.of = d.active.of
        /\ r.eligible => complete /\ ~d.active.bad
    OBVIOUS
  <2> HIDE DEF r
  <2>5. /\ Close(d, complete) \in Model
        /\ Close(d, complete).sequence = d.sequence
        /\ Close(d, complete).incidents = d.incidents
        /\ Close(d, complete).active = None
        /\ Close(d, complete).episodes = d.episodes \cup {r}
    BY <2>2, <2>3 DEF Model
  <2> QED
    BY <1>2, <2>4, <2>5 DEF Closed
<1> QED
  BY <1>1, <1>2

LEMMA CloseIsNumbered ==
    ASSUME NEW d \in Model, NEW e, NEW n \in Nat, NEW complete,
           Closed(d, e, complete), Numbered(d, n)
    PROVE  Numbered(e, n)
BY DEF Closed, Numbered, Model, Record, Episode

(* e is d with a new episode for the next burner run.                      *)
Opened(d, e, bad) ==
    /\ e \in Model
    /\ e.sequence = d.sequence + 1 /\ e.incidents = d.incidents
    /\ e.episodes = d.episodes
    /\ e.active # None
    /\ e.active.id = d.sequence + 1 /\ e.active.of = serial + 1
    /\ e.active.bad = bad /\ ~e.active.fault

LEMMA OpenBegins ==
    ASSUME NEW d \in Model, serial \in Nat, NEW bad \in BOOLEAN
    PROVE  Opened(d, Open(d, bad), bad)
<1> DEFINE a == [id |-> d.sequence + 1, of |-> serial + 1, bad |-> bad,
                 fault |-> FALSE]
           e == Open(d, bad)
<1>1. a \in Episode
  BY DEF Episode, Model
<1>2. e = [d EXCEPT !.sequence = d.sequence + 1, !.active = a]
  BY DEF Open
<1>3. /\ a.id = d.sequence + 1 /\ a.of = serial + 1 /\ a.bad = bad
      /\ a.fault = FALSE
  OBVIOUS
<1> HIDE DEF a
<1>4. e = [sequence |-> d.sequence + 1, incidents |-> d.incidents,
           active |-> a, episodes |-> d.episodes]
  BY <1>2 DEF Model
<1>5. /\ e \in Model /\ e.sequence = d.sequence + 1
      /\ e.incidents = d.incidents /\ e.episodes = d.episodes
      /\ e.active = a
  BY <1>1, <1>4 DEF Model
<1>6. a # None
  BY <1>1, NoneIsNothing
<1> HIDE DEF e
<1>7. Opened(d, e, bad)
  BY <1>3, <1>5, <1>6 DEF Opened
<1> QED
  BY <1>7 DEF e

LEMMA OpenIsNumbered ==
    ASSUME NEW d \in Model, NEW e, NEW bad, serial \in Nat,
           Opened(d, e, bad), Numbered(d, serial), d.active = None
    PROVE  Numbered(e, serial + 1)
BY DEF Opened, Numbered, Model, Record

(* What feeding one snapshot does to the model: n burner runs are known     *)
(* after it.  A burner run that is closed or goes on keeps its marks, and  *)
(* a gap in a snapshot that is merged into it before its fault marks it.   *)
FedFacts(d, f, effect, gap, n) ==
    /\ f \in Model
    /\ Numbered(f, n)
    /\ n \in {serial, serial + 1}
    /\ n = serial + 1 => effect \in {"start", "fault"}
    /\ f.sequence - d.sequence = n - serial
    /\ f.active # None =>
         /\ f.active.of = n
         /\ n = serial =>
              /\ d.active # None
              /\ d.active.bad => f.active.bad
              /\ gap /\ ~d.active.fault => f.active.bad
    /\ d.episodes \subseteq f.episodes
    /\ \A x \in f.episodes \ d.episodes :
         /\ d.active # None
         /\ x.id = d.active.id /\ x.of = d.active.of
         /\ x.eligible => ~d.active.bad
         /\ x.eligible /\ gap /\ effect # "start" => d.active.fault
    /\ f.incidents # d.incidents =>
         /\ f.incidents = d.incidents + 1
         /\ effect = "fault" /\ f.active # None

LEMMA StartFeeds ==
    ASSUME NEW d \in Model, serial \in Nat, Numbered(d, serial),
           d.active # None => d.active.of = serial, NEW gap \in BOOLEAN,
           NEW f, f = Fed(d, "start", gap)
    PROVE  FedFacts(d, f, "start", gap, serial + 1)
<1>1. PICK c : c = Close(d, TRUE)
  OBVIOUS
<1>2. f = Open(c, gap)
  BY <1>1 DEF Fed
<1>3. Closed(d, c, TRUE) /\ c \in Model
  BY <1>1, CloseFinishes DEF Closed
<1>4. Numbered(c, serial) /\ c.active = None
  BY <1>3, CloseIsNumbered DEF Closed
<1>5. Opened(c, f, gap)
  BY <1>2, <1>3, OpenBegins
<1>6. Numbered(f, serial + 1)
  BY <1>3, <1>4, <1>5, OpenIsNumbered
<1> QED
  BY <1>3, <1>5, <1>6 DEF FedFacts, Closed, Opened, Model

LEMMA RunFeeds ==
    ASSUME NEW d \in Model, serial \in Nat, Numbered(d, serial),
           d.active # None => d.active.of = serial, NEW gap \in BOOLEAN,
           NEW f, f = Fed(d, "run", gap)
    PROVE  FedFacts(d, f, "run", gap, serial)
<1>1. Merged(d, f, gap)
  BY MergeMarks DEF Fed
<1>2. Numbered(f, serial)
  BY <1>1, MergeIsNumbered
<1> QED
  BY <1>1, <1>2 DEF FedFacts, Merged, Model

LEMMA EndFeeds ==
    ASSUME NEW d \in Model, serial \in Nat, Numbered(d, serial),
           d.active # None => d.active.of = serial, NEW gap \in BOOLEAN,
           NEW f, f = Fed(d, "end", gap)
    PROVE  FedFacts(d, f, "end", gap, serial)
<1>1. PICK m : m = Merge(d, gap)
  OBVIOUS
<1>2. f = Close(m, TRUE)
  BY <1>1 DEF Fed
<1>3. Merged(d, m, gap) /\ m \in Model
  BY <1>1, MergeMarks DEF Merged
<1>4. Numbered(m, serial)
  BY <1>3, MergeIsNumbered
<1>5. Closed(m, f, TRUE)
  BY <1>2, <1>3, CloseFinishes
<1>6. Numbered(f, serial)
  BY <1>3, <1>4, <1>5, CloseIsNumbered
<1> QED
  BY <1>3, <1>5, <1>6 DEF FedFacts, Merged, Closed, Model

(* A new fault is noted in the episode, with a number of its own.          *)
Noted(e) == [e EXCEPT !.active.fault = TRUE, !.incidents = @ + 1]

LEMMA FaultNoted ==
    ASSUME NEW e \in Model, e.active # None, NEW n \in Nat, Numbered(e, n),
           ~e.active.fault,
           NEW f, f = Noted(e)
    PROVE  /\ f \in Model /\ Numbered(f, n)
           /\ f.sequence = e.sequence /\ f.incidents = e.incidents + 1
           /\ f.episodes = e.episodes
           /\ f.active # None
           /\ f.active.of = e.active.of /\ f.active.bad = e.active.bad
<1> DEFINE a == [e.active EXCEPT !.fault = TRUE]
<1>1. e.active \in Episode
  BY DEF Model
<1>2. /\ a \in Episode /\ a.id = e.active.id /\ a.of = e.active.of
      /\ a.bad = e.active.bad /\ a.fault
  BY <1>1 DEF Episode
<1>3. f = [e EXCEPT !.active = a, !.incidents = e.incidents + 1]
  BY DEF Model, Noted
<1> HIDE DEF a
<1>4. f = [sequence |-> e.sequence, incidents |-> e.incidents + 1,
           active |-> a, episodes |-> e.episodes]
  BY <1>3 DEF Model
<1>5. a # None
  BY <1>2, NoneIsNothing
<1>6. /\ f \in Model /\ f.sequence = e.sequence
      /\ f.incidents = e.incidents + 1
      /\ f.active = a /\ f.episodes = e.episodes
  BY <1>2, <1>4 DEF Model
<1>7. Numbered(f, n)
  BY <1>2, <1>5, <1>6 DEF Numbered, Model
<1> QED
  BY <1>2, <1>5, <1>6, <1>7

LEMMA FaultFeeds ==
    ASSUME NEW d \in Model, serial \in Nat, Numbered(d, serial),
           d.active # None => d.active.of = serial, NEW gap \in BOOLEAN,
           NEW f, f = Fed(d, "fault", gap)
    PROVE  FedFacts(d, f, "fault", gap,
                    IF d.active = None THEN serial + 1 ELSE serial)
<1>1. PICK e : e = IF d.active = None THEN Open(d, TRUE) ELSE Merge(d, gap)
  OBVIOUS
<1>2. PICK n : n = IF d.active = None THEN serial + 1 ELSE serial
  OBVIOUS
<1>3. f = IF e.active.fault THEN e
          ELSE Noted(e)
  BY <1>1 DEF Fed, Noted
<1>4. d.active = None => Opened(d, e, TRUE) /\ Numbered(e, serial + 1)
  BY <1>1, OpenBegins, OpenIsNumbered
<1>5. d.active # None => Merged(d, e, gap) /\ Numbered(e, serial)
  BY <1>1, MergeMarks, MergeIsNumbered
<1>6. /\ e \in Model /\ e.active # None
      /\ n \in Nat /\ Numbered(e, n)
      /\ e.sequence - d.sequence = n - serial
      /\ e.incidents = d.incidents /\ e.episodes = d.episodes
      /\ e.active.of = n
      /\ n = serial =>
           /\ d.active # None
           /\ d.active.bad => e.active.bad
           /\ gap /\ ~d.active.fault => e.active.bad
  BY <1>2, <1>4, <1>5 DEF Opened, Merged, Model
<1>7. CASE e.active.fault
  BY <1>2, <1>3, <1>6, <1>7 DEF FedFacts, Model
<1>8. CASE ~e.active.fault
  <2>1. f = Noted(e)
    BY <1>3, <1>8
  <2>2. /\ f \in Model /\ Numbered(f, n)
        /\ f.sequence = e.sequence /\ f.incidents = e.incidents + 1
        /\ f.episodes = e.episodes
        /\ f.active # None
        /\ f.active.of = e.active.of /\ f.active.bad = e.active.bad
    BY <1>6, <1>8, <2>1, FaultNoted
  <2> QED
    BY <1>2, <1>6, <2>2 DEF FedFacts, Model
<1> QED
  BY <1>7, <1>8

-----------------------------------------------------------------------------
(***************************************************************************)
(* The queue.                                                              *)
(***************************************************************************)
Slots == Seq(Item \cup {None})

LEMMA OpeningIsFinite ==
    ASSUME NEW q \in Slots
    PROVE  IsFiniteSet(Opening(q)) /\ Cardinality(Opening(q)) \in Nat
<1>1. Len(q) \in Nat
  BY DEF Slots
<1>2. IsFiniteSet(1..Len(q))
  BY <1>1, FS_Interval
<1>3. Opening(q) \in SUBSET (1..Len(q))
  BY DEF Opening
<1>4. IsFiniteSet(Opening(q))
  BY <1>2, <1>3, FS_Subset
<1> QED
  BY <1>4, FS_CardinalityType

LEMMA OpeningAfterAppend ==
    ASSUME NEW q \in Slots, NEW x \in Item \cup {None}
    PROVE  Cardinality(Opening(Append(q, x))) =
             Cardinality(Opening(q)) + (IF Opens(x) THEN 1 ELSE 0)
<1>1. Opening(Append(q, x)) =
        Opening(q) \cup (IF Opens(x) THEN {Len(q) + 1} ELSE {})
  BY DEF Opening, Slots
<1>2. Len(q) + 1 \notin Opening(q)
  BY DEF Opening, Slots
<1>3. IsFiniteSet(Opening(q)) /\ Cardinality(Opening(q)) \in Nat
  BY OpeningIsFinite
<1>4. CASE Opens(x)
  <2>1. Opening(Append(q, x)) = Opening(q) \cup {Len(q) + 1}
    BY <1>1, <1>4
  <2> QED
    BY <1>2, <1>3, <1>4, <2>1, FS_AddElement
<1>5. CASE ~Opens(x)
  BY <1>1, <1>3, <1>5
<1> QED
  BY <1>4, <1>5

LEMMA OpeningAfterTail ==
    ASSUME NEW q \in Slots, q # <<>>
    PROVE  Cardinality(Opening(Tail(q))) + (IF Opens(Head(q)) THEN 1 ELSE 0)
             <= Cardinality(Opening(q))
<1> DEFINE f == [i \in Opening(Tail(q)) |-> i + 1]
           rest == Opening(q) \ {1}
<1>1. \A i \in Opening(Tail(q)) : i \in Nat /\ i + 1 \in rest
  BY DEF Opening, Slots
<1>2. f \in Injection(Opening(Tail(q)), rest)
  BY <1>1 DEF Injection, IsInjective
<1>3. IsFiniteSet(Opening(q)) /\ Cardinality(Opening(q)) \in Nat
  BY OpeningIsFinite
<1>4. /\ IsFiniteSet(rest)
      /\ Cardinality(rest) = IF 1 \in Opening(q)
                             THEN Cardinality(Opening(q)) - 1
                             ELSE Cardinality(Opening(q))
  BY <1>3, FS_RemoveElement
<1>5. Cardinality(Opening(Tail(q))) <= Cardinality(rest)
  BY <1>2, <1>4, FS_Injection
<1>6. Opens(Head(q)) <=> 1 \in Opening(q)
  BY DEF Opening, Slots
<1>7. Tail(q) \in Slots
  BY DEF Slots
<1>8. Cardinality(Opening(Tail(q))) \in Nat
  BY <1>7, OpeningIsFinite
<1> QED
  BY <1>3, <1>4, <1>5, <1>6, <1>8

-----------------------------------------------------------------------------
(***************************************************************************)
(* The steps.                                                              *)
(***************************************************************************)
USE DEF observer, process, store, history

LEMMA InitInv == Init => IInv
<1> SUFFICES ASSUME Init PROVE IInv
  OBVIOUS
<1> USE DEF Init
<1>1. Empty \in Model /\ Numbered(Empty, 0)
  BY DEF Empty, Model, Numbered
<1>2. Empty.active = None /\ Empty.incidents = 0 /\ Empty.episodes = {}
  BY DEF Empty
<1>3. Types
  <2>1. data \in Model /\ disk \in Model
    BY <1>1
  <2>2. queue \in Seq(Item \cup {None})
    OBVIOUS
  <2>3. /\ unfinished \in BOOLEAN
        /\ unfinished <=> worker \notin {"waiting", "ended"}
        /\ adrift \in Model \cup {None}
    OBVIOUS
  <2> QED
    BY <2>1, <2>2, <2>3 DEF Types
<1>4. Opening(queue) = {} /\ queue \in Slots
  BY DEF Opening, Slots
<1>5. Counted
  <2>1. /\ QueueSize \in Nat /\ MaxBurns \in Nat
        /\ Cardinality(Opening(queue)) = 0
    BY <1>4, FS_EmptySet, RuntimeAssumption
  <2>2. Len(queue) = 0 /\ DOMAIN rows = {}
    OBVIOUS
  <2>3. serial = 0 /\ captured = 0
    OBVIOUS
  <2> QED
    BY <2>1, <2>2, <2>3 DEF Counted
<1>6. Numbers
  BY <1>1, <1>2 DEF Numbers
<1>7. Finished = {} /\ Incidents = {}
  BY DEF Finished, Incidents
<1>8. Said /\ Told /\ SavedFirst /\ Stopped /\ Afloat
  BY <1>2, <1>7 DEF Said, Spoiled, Told, SavedFirst, Stopped, Afloat
<1> QED
  BY <1>3, <1>5, <1>6, <1>8 DEF IInv

LEMMA StutterStep ==
    ASSUME IInv, UNCHANGED vars
    PROVE  IInv'
BY DEF IInv, Types, Counted, Numbers, Said, Spoiled, Told, SavedFirst,
       Stopped, Afloat, Finished, Incidents, vars

LEMMA ThrottleStep ==
    ASSUME IInv, Throttle
    PROVE  IInv'
BY DEF IInv, Types, Counted, Numbers, Said, Spoiled, Told, SavedFirst,
       Stopped, Afloat, Finished, Incidents, Throttle, ThrottleKeeps

LEMMA CaptureStep ==
    ASSUME IInv, NEW effect \in Effect, Capture(effect)
    PROVE  IInv'
<1> DEFINE x == [effect |-> effect, gap |-> capture_gap, hole |-> lost]
<1> USE DEF IInv, Capture
<1>1. x \in Item /\ x.gap = capture_gap /\ x.hole = lost /\ x # Poison
      /\ (Opens(x) <=> effect \in {"start", "fault"})
  BY NoneIsNothing DEF Types, Item, Opens, Poison
<1>2. queue \in Slots
  BY DEF Types, Slots
<1>3. \/ Room /\ queue' = Append(queue, x) /\ capture_gap' = FALSE
         /\ lost' = FALSE
      \/ queue' = queue /\ capture_gap' = TRUE /\ lost' = TRUE
  OBVIOUS
<1> HIDE DEF x
<1>4. Types'
  <2>1. queue' \in Slots
    BY <1>1, <1>2, <1>3 DEF Slots
  <2>2. captured' \in Nat
    BY DEF Types
  <2>3. capture_gap' \in BOOLEAN /\ lost' \in BOOLEAN
    BY <1>3 DEF Types
  <2> QED
    BY <2>1, <2>2, <2>3 DEF Types, Slots
<1>5. Counted'
  <2>1. Len(queue') <= QueueSize
    BY <1>2, <1>3, RuntimeAssumption DEF Counted, Room, Slots
  <2>2. Cardinality(Opening(queue)) \in Nat
    BY <1>2, OpeningIsFinite
  <2>3. Cardinality(Opening(queue')) <= Cardinality(Opening(queue)) +
                                          (IF Opens(x) THEN 1 ELSE 0)
    <3>1. Cardinality(Opening(Append(queue, x))) =
            Cardinality(Opening(queue)) + (IF Opens(x) THEN 1 ELSE 0)
      BY <1>1, <1>2, OpeningAfterAppend
    <3>2. CASE queue' = queue
      BY <2>2, <3>2
    <3>3. CASE queue' = Append(queue, x)
      BY <2>2, <3>1, <3>3
    <3> QED
      BY <1>3, <3>2, <3>3
  <2>4. Cardinality(Opening(queue')) \in Nat
    BY <1>4, OpeningIsFinite DEF Types, Slots
  <2>5. /\ captured' = captured + (IF Opens(x) THEN 1 ELSE 0)
        /\ captured' <= MaxBurns
    BY <1>1, RuntimeAssumption DEF Types, Counted
  <2> QED
    BY <2>1, <2>2, <2>3, <2>4, <2>5 DEF Types, Counted
<1>6. Numbers' /\ Told' /\ SavedFirst'
  BY DEF Numbers, Told, SavedFirst, Finished, Incidents
<1>7. Said'
  BY <1>1, <1>2, <1>3 DEF Said, Spoiled, Slots
<1>8. Stopped'
  BY <1>1, <1>2, <1>3 DEF Stopped, Slots
<1>9. Afloat'
  BY DEF Afloat
<1> QED
  BY <1>4, <1>5, <1>6, <1>7, <1>8, <1>9

LEMMA PoisonStep ==
    ASSUME IInv, TakePoison
    PROVE  IInv'
<1> USE DEF IInv, TakePoison
<1>1. stopping = "awaiting" /\ queue = <<Poison>> /\ queue' = <<>>
  <2>1. queue \in Slots /\ queue # <<>>
    BY DEF Types, Slots
  <2>2. queue[1] = Poison /\ 1 \in 1..Len(queue)
    BY <2>1 DEF Slots
  <2>3. stopping = "awaiting"
    BY <2>1, <2>2 DEF Types, Stopped
  <2> QED
    BY <2>1, <2>3 DEF Stopped
<1>2. Types'
  BY <1>1 DEF Types
<1>3. Opening(queue') = {} /\ Opening(queue) \in SUBSET (1..Len(queue))
  BY <1>1 DEF Opening
<1>4. Cardinality(Opening(queue')) = 0 /\ Cardinality(Opening(queue)) \in Nat
  BY <1>3, FS_EmptySet, OpeningIsFinite DEF Types, Slots
<1>5. Counted'
  BY <1>1, <1>4, RuntimeAssumption DEF Counted, Types
<1>6. Numbers' /\ Told' /\ SavedFirst' /\ Said' /\ Stopped' /\ Afloat'
  BY <1>1 DEF Numbers, Told, SavedFirst, Said, Spoiled, Stopped, Afloat,
              Finished, Incidents
<1> QED
  BY <1>2, <1>5, <1>6

(* Taking a snapshot: what the engine makes of it, step by step.           *)
LEMMA TakeFeeds ==
    ASSUME IInv, Take
    PROVE  LET s == Head(queue) IN
           /\ s \in Item
           /\ FedFacts(data, data', s.effect, s.gap, serial')
           /\ serial' = serial + 1 => Opens(s)
<1> DEFINE s == Head(queue)
<1>1. data \in Model /\ serial \in Nat /\ Numbered(data, serial)
      /\ (data.active # None => data.active.of = serial)
  BY DEF IInv, Types, Numbers
<1>2. queue \in Slots /\ queue # <<>> /\ s # None
  BY DEF IInv, Types, Slots, Take, Poison
<1>3. s \in Item
  BY <1>2 DEF Slots
<1>4. s.effect \in Effect /\ s.gap \in BOOLEAN
  BY <1>3 DEF Item
<1>5. data' = Fed(data, s.effect, s.gap)
      /\ serial' = serial + (data'.sequence - data.sequence)
  BY DEF Take
<1> HIDE DEF s
<1>6. \E n \in Nat : FedFacts(data, data', s.effect, s.gap, n)
  <2>1. CASE s.effect = "start"
    BY <1>1, <1>4, <1>5, <2>1, StartFeeds
  <2>2. CASE s.effect = "end"
    BY <1>1, <1>4, <1>5, <2>2, EndFeeds
  <2>3. CASE s.effect = "run"
    BY <1>1, <1>4, <1>5, <2>3, RunFeeds
  <2>4. CASE s.effect = "fault"
    BY <1>1, <1>4, <1>5, <2>4, FaultFeeds
  <2> QED
    BY <1>4, <2>1, <2>2, <2>3, <2>4 DEF Effect
<1>7. PICK n \in Nat : FedFacts(data, data', s.effect, s.gap, n)
  BY <1>6
<1>8. serial' = n
  BY <1>1, <1>5, <1>7 DEF FedFacts, Model
<1> QED
  BY <1>1, <1>3, <1>7, <1>8 DEF FedFacts, Opens, s

LEMMA TakeTells ==
    ASSUME IInv, Take
    PROVE  /\ events' \in SUBSET Event
           /\ \A y \in Finished' :
                \/ y \in pending
                \/ \E e \in data'.episodes \ data.episodes :
                     y.id = e.id /\ y.of = e.of
           /\ \A y \in Incidents' :
                /\ y.id = data'.incidents /\ data'.incidents # data.incidents
                /\ y.of = data'.active.of
           /\ Incidents' # {} => checkpoint'
<1> DEFINE s == Head(queue)
<1>1. FedFacts(data, data', s.effect, s.gap, serial')
  BY TakeFeeds
<1>2. data \in Model /\ data' \in Model
  BY <1>1 DEF FedFacts, IInv, Types
<1>3. events' = UNION {pending, EpisodeEvents(data, data'),
                       IncidentEvents(data, data')}
      /\ (Noteworthy(events') => checkpoint')
  BY DEF Take
<1> HIDE DEF s
<1>4. \A y \in EpisodeEvents(data, data') :
        /\ y \in Event /\ y.kind = "episode"
        /\ \E e \in data'.episodes \ data.episodes : y.id = e.id /\ y.of = e.of
  <2>1. \A e \in data'.episodes : e.id \in Nat /\ e.of \in Nat
    BY <1>2 DEF Model, Record
  <2> QED
    BY <2>1 DEF EpisodeEvents, Event
<1>5. \A y \in IncidentEvents(data, data') :
        /\ y \in Event /\ y.kind = "incident_open"
        /\ y.id = data'.incidents /\ data'.incidents # data.incidents
        /\ y.of = data'.active.of
  <2>1. data'.incidents # data.incidents => data'.active \in Episode
    BY <1>1, <1>2 DEF FedFacts, Model
  <2>2. data'.incidents \in Nat
    BY <1>2 DEF Model
  <2> QED
    BY <2>1, <2>2 DEF IncidentEvents, Event, Episode
<1>6. \A y \in pending : y \in Event /\ y.kind = "episode"
  BY DEF IInv, Types, Told
<1>7. \A y \in events' :
        \/ y \in pending
        \/ y \in EpisodeEvents(data, data')
        \/ y \in IncidentEvents(data, data')
  BY <1>3
<1>8. Incidents' # {} => checkpoint'
  BY <1>3 DEF Noteworthy, Incidents
<1> QED
  BY <1>4, <1>5, <1>6, <1>7, <1>8 DEF Finished, Incidents

LEMMA TakeStep ==
    ASSUME IInv, Take
    PROVE  IInv'
<1> DEFINE s == Head(queue)
<1>1. /\ s \in Item
      /\ FedFacts(data, data', s.effect, s.gap, serial')
      /\ serial' = serial + 1 => Opens(s)
  BY TakeFeeds
<1>2. /\ queue \in Slots /\ queue # <<>>
      /\ queue' = Tail(queue) /\ queue' \in Slots
      /\ s = queue[1] /\ Len(queue) \in Nat /\ Len(queue') = Len(queue) - 1
      /\ \A i \in 1..Len(queue') : queue'[i] = queue[i + 1]
  BY DEF IInv, Types, Slots, Take
<1>3. /\ events' \in SUBSET Event
      /\ \A y \in Finished' :
           \/ y \in pending
           \/ \E e \in data'.episodes \ data.episodes :
                y.id = e.id /\ y.of = e.of
      /\ \A y \in Incidents' :
           /\ y.id = data'.incidents /\ data'.incidents # data.incidents
           /\ y.of = data'.active.of
      /\ Incidents' # {} => checkpoint'
  BY TakeTells
<1>4. /\ worker = "waiting" /\ worker' = "append" /\ unfinished' = TRUE
      /\ pending' = {} /\ checkpoint' \in BOOLEAN
      /\ UNCHANGED <<capture_gap, stopping, disk, adrift, rows, restarts,
                     captured, lost, unrecorded, failed, ignored>>
  BY DEF Take, Noteworthy
<1>5. holes' = IF s.hole /\ data.active # None /\ s.effect # "start"
               THEN holes \cup {x \in {data.active.of} : ~data.active.fault}
               ELSE holes
  BY DEF Take
<1>6. stopping \in {"no", "joining"}
  BY <1>2, <1>4 DEF IInv, Stopped, Take, Poison, Types, Slots
<1>7. /\ data \in Model /\ disk \in Model /\ data' \in Model
      /\ serial \in Nat /\ serial' \in {serial, serial + 1}
      /\ data.active # None => data.active \in Episode
      /\ data'.active # None => data'.active \in Episode
  BY <1>1 DEF IInv, Types, FedFacts, Model
<1>8. s # None
  BY <1>1, NoneIsNothing
<1> HIDE DEF s
<1>9. Types'
  <2>1. holes' \in SUBSET Nat
    BY <1>5, <1>7 DEF IInv, Types, Episode
  <2> QED
    BY <1>1, <1>2, <1>3, <1>4, <1>7, <1>8, <2>1 DEF IInv, Types, Slots
<1>10. Counted'
  <2>1. Cardinality(Opening(queue')) + (IF Opens(s) THEN 1 ELSE 0)
          <= Cardinality(Opening(queue))
    BY <1>2, OpeningAfterTail DEF s
  <2>2. Cardinality(Opening(queue)) \in Nat /\ Cardinality(Opening(queue')) \in Nat
    BY <1>2, OpeningIsFinite
  <2>3. serial' + Cardinality(Opening(queue')) <= captured'
    BY <1>1, <1>4, <1>7, <2>1, <2>2 DEF IInv, Types, Counted
  <2> QED
    BY <1>2, <1>4, <1>7, <2>3, RuntimeAssumption DEF IInv, Types, Counted
<1>11. Numbers'
  <2>1. Numbered(data', serial')
    BY <1>1 DEF FedFacts
  <2>2. Numbered(disk', serial')
    BY <1>4, <1>7 DEF IInv, Numbers, Numbered, Model, Record
  <2>3. disk'.incidents <= data'.incidents
    BY <1>1, <1>4, <1>7 DEF IInv, Numbers, FedFacts, Model
  <2>4. \A e \in disk'.episodes : e.of \in 1..serial
    BY <1>4 DEF IInv, Numbers, Numbered
  <2>5. data'.active # None =>
          data'.active.of = serial' /\ \A e \in disk'.episodes : e.of < serial'
    BY <1>1, <1>4, <1>7, <2>4 DEF IInv, Numbers, FedFacts
  <2> QED
    BY <2>1, <2>2, <2>3, <2>5 DEF Numbers
<1>12. Said'
  <2>1. \A i \in 1..Len(queue') :
          queue'[i] \in Item => (queue'[i].hole => queue'[i].gap)
    BY <1>2 DEF IInv, Said
  <2>2. s.hole => s.gap
    BY <1>1, <1>2 DEF IInv, Said
  <2>3. Spoiled' = Spoiled \/
          /\ data.active # None /\ s.hole /\ s.gap /\ s.effect # "start"
          /\ ~data.active.fault
          /\ Spoiled' = Spoiled \cup {data.active.of}
    BY <1>4, <1>5, <2>2 DEF Spoiled
  <2>4. Spoiled \subseteq 1..serial
    BY DEF IInv, Said
  <2>5. Spoiled' \subseteq 1..serial'
    <3>1. data.active # None => data.active.of \in 1..serial
      BY DEF IInv, Numbers, Numbered
    <3>2. 1..serial \subseteq 1..serial'
      BY <1>7
    <3>3. CASE Spoiled' = Spoiled
      BY <2>4, <3>2, <3>3
    <3>4. CASE data.active # None /\ Spoiled' = Spoiled \cup {data.active.of}
      BY <2>4, <3>1, <3>2, <3>4
    <3> QED
      BY <2>3, <3>3, <3>4
  <2>6. ASSUME data'.active # None, data'.active.of \in Spoiled'
        PROVE  data'.active.bad
    <3>1. data'.active.of = serial'
      BY <1>1, <2>6 DEF FedFacts
    <3>2. data.active # None => data.active.of = serial
      BY DEF IInv, Numbers
    <3>3. serial' = serial
      BY <1>7, <2>3, <2>4, <2>6, <3>1, <3>2
    <3>4. /\ data.active # None
          /\ data.active.bad => data'.active.bad
          /\ s.gap /\ ~data.active.fault => data'.active.bad
      BY <1>1, <2>6, <3>3 DEF FedFacts
    <3> QED
      BY <2>3, <2>6, <3>1, <3>2, <3>3, <3>4 DEF IInv, Said
  <2>7. ASSUME NEW e \in data'.episodes, e.eligible
        PROVE  e.of \notin Spoiled'
    <3>1. CASE e \in data.episodes
      <4>1. e.of \notin Spoiled
        BY <2>7, <3>1 DEF IInv, Said
      <4>2. data.active # None => e.of < data.active.of
        BY <3>1 DEF IInv, Numbers, Numbered
      <4>3. e.of \in 1..serial
        BY <3>1 DEF IInv, Numbers, Numbered
      <4> QED
        BY <1>7, <2>3, <4>1, <4>2, <4>3 DEF Episode
    <3>2. CASE e \notin data.episodes
      <4>1. /\ data.active # None /\ e.of = data.active.of
            /\ ~data.active.bad
            /\ s.gap /\ s.effect # "start" => data.active.fault
        BY <1>1, <2>7, <3>2 DEF FedFacts
      <4>2. e.of \notin Spoiled
        BY <4>1 DEF IInv, Said
      <4> QED
        BY <2>3, <4>1, <4>2
    <3> QED
      BY <3>1, <3>2
  <2>8. ASSUME NEW e \in disk'.episodes, e.eligible
        PROVE  e.of \notin Spoiled'
    <3>1. e \in disk.episodes /\ e.of \notin Spoiled
      BY <1>4, <2>8 DEF IInv, Said
    <3>2. data.active # None => e.of < serial /\ data.active.of = serial
      BY <3>1 DEF IInv, Numbers
    <3> QED
      BY <1>7, <2>3, <3>1, <3>2
  <2>9. lost' => capture_gap'
    BY <1>4 DEF IInv, Said
  <2> QED
    BY <2>1, <2>5, <2>6, <2>7, <2>8, <2>9 DEF Said
<1>13. Told'
  <2>1. ASSUME NEW y \in Finished'
        PROVE  /\ \E e \in data'.episodes : e.id = y.id /\ e.of = y.of
               /\ \A e \in disk'.episodes : e.of = y.of => ~e.eligible
    <3>1. CASE y \in pending
      <4>1. data.episodes \subseteq data'.episodes
        BY <1>1 DEF FedFacts
      <4>2. /\ \E e \in data.episodes : e.id = y.id /\ e.of = y.of
            /\ \A e \in disk.episodes : e.of = y.of => ~e.eligible
        BY <3>1 DEF IInv, Told
      <4>3. disk' = disk
        BY <1>4
      <4> QED
        BY <4>1, <4>2, <4>3
    <3>2. CASE \E e \in data'.episodes \ data.episodes :
                 y.id = e.id /\ y.of = e.of
      <4>1. data.active # None /\ y.of = data.active.of
        BY <1>1, <3>2 DEF FedFacts
      <4>2. y.of = serial
        BY <4>1 DEF IInv, Numbers
      <4>3. \A e \in disk'.episodes : e.of < serial
        BY <1>4, <4>1 DEF IInv, Numbers
      <4> QED
        <5>1. \E e \in data'.episodes : e.id = y.id /\ e.of = y.of
          BY <3>2
        <5>2. \A e \in disk'.episodes : e.of # y.of
          BY <1>7, <4>2, <4>3
        <5> QED
          BY <5>1, <5>2
    <3> QED
      BY <1>3, <3>1, <3>2
  <2>2. ASSUME NEW y \in Incidents'
        PROVE  y.id = data'.incidents /\ y.of \in 1..serial'
    BY <1>1, <1>3 DEF FedFacts, Numbered
  <2> QED
    BY <1>4, <2>1, <2>2 DEF Told
<1>14. SavedFirst'
  <2>1. ASSUME ~failed, NEW y \in Incidents'
        PROVE  y.id \notin DOMAIN rows
    <3>1. y.id = data.incidents + 1
      BY <1>1, <1>3 DEF FedFacts
    <3>2. \A id \in DOMAIN rows : id <= data.incidents
      BY <1>7, <2>1 DEF IInv, SavedFirst, Numbers, Counted, Model
    <3> QED
      BY <1>7, <3>1, <3>2 DEF Model
  <2> QED
    BY <1>3, <1>4, <2>1 DEF IInv, SavedFirst
<1>15. Stopped' /\ Afloat'
  BY <1>2, <1>4, <1>6 DEF IInv, Stopped, Afloat
<1> QED
  BY <1>9, <1>10, <1>11, <1>12, <1>13, <1>14, <1>15 DEF IInv

\* What changes with worker, events and checkpoint alone.
LEMMA ProcessingFailsStep ==
    ASSUME IInv, ProcessingFails
    PROVE  IInv'
<1> USE DEF IInv, ProcessingFails, Done
<1>1. Types'
  BY DEF Types
<1>2. Counted' /\ Numbers' /\ Said' /\ Stopped' /\ Afloat'
  BY DEF Counted, Numbers, Said, Spoiled, Stopped, Afloat
<1>3. Told' /\ SavedFirst'
  BY DEF Told, SavedFirst, Finished, Incidents
<1> QED
  BY <1>1, <1>2, <1>3

LEMMA AppendWorksStep ==
    ASSUME IInv, AppendWorks
    PROVE  IInv'
<1> USE DEF IInv, AppendWorks
<1>1. Types'
  BY DEF Types
<1>2. Counted' /\ Numbers' /\ Said' /\ Stopped' /\ Afloat'
  BY DEF Counted, Numbers, Said, Spoiled, Stopped, Afloat
<1>3. Told' /\ SavedFirst'
  BY DEF Told, SavedFirst, Finished, Incidents
<1> QED
  BY <1>1, <1>2, <1>3

(* e is d with everything marked that the snapshot at hand belongs to.     *)
Marked(d, e) ==
    /\ e \in Model
    /\ e.sequence = d.sequence /\ e.incidents = d.incidents
    /\ e.active = None <=> d.active = None
    /\ d.active # None =>
         /\ e.active.id = d.active.id /\ e.active.of = d.active.of
         /\ e.active.fault = d.active.fault /\ e.active.bad
    /\ \A x \in d.episodes : \E y \in e.episodes : y.id = x.id /\ y.of = x.of
    /\ \A y \in e.episodes : \E x \in d.episodes :
         /\ y.id = x.id /\ y.of = x.of
         /\ y.eligible => x.eligible /\ \A f \in Finished : f.id # x.id

LEMMA CensoredMarks ==
    ASSUME NEW d \in Model
    PROVE  Marked(d, Censored(d))
<1> DEFINE a == IF d.active = None THEN None ELSE [d.active EXCEPT !.bad = TRUE]
           m(x) == [x EXCEPT !.eligible = @ /\ \A f \in Finished : f.id # x.id]
           s == {m(x) : x \in d.episodes}
           e == Censored(d)
<1>1. e = [d EXCEPT !.active = a, !.episodes = s]
  BY DEF Censored
<1>2. /\ a \in Episode \cup {None}
      /\ a = None <=> d.active = None
      /\ d.active # None =>
           /\ a.id = d.active.id /\ a.of = d.active.of
           /\ a.fault = d.active.fault /\ a.bad
  BY NoneIsNothing DEF Model, Episode
<1>3. \A x \in d.episodes :
        /\ m(x) \in Record
        /\ m(x).id = x.id /\ m(x).of = x.of
        /\ m(x).eligible => x.eligible /\ \A f \in Finished : f.id # x.id
  BY DEF Model, Record
<1> HIDE DEF a, m
<1>4. /\ s \in SUBSET Record
      /\ \A x \in d.episodes : \E y \in s : y.id = x.id /\ y.of = x.of
      /\ \A y \in s : \E x \in d.episodes :
           /\ y.id = x.id /\ y.of = x.of
           /\ y.eligible => x.eligible /\ \A f \in Finished : f.id # x.id
  BY <1>3
<1> HIDE DEF s
<1>5. e = [sequence |-> d.sequence, incidents |-> d.incidents,
           active |-> a, episodes |-> s]
  BY <1>1 DEF Model
<1>6. /\ e \in Model /\ e.sequence = d.sequence /\ e.incidents = d.incidents
      /\ e.active = a /\ e.episodes = s
  BY <1>2, <1>4, <1>5 DEF Model
<1> HIDE DEF e
<1>7. Marked(d, e)
  BY <1>2, <1>4, <1>6 DEF Marked
<1> QED
  BY <1>7 DEF e

LEMMA MarkIsNumbered ==
    ASSUME NEW d \in Model, NEW e, NEW n \in Nat, Marked(d, e), Numbered(d, n)
    PROVE  Numbered(e, n)
<1>1. \A y \in e.episodes : \E x \in d.episodes : y.id = x.id /\ y.of = x.of
  BY DEF Marked
<1>2. \A y \in e.episodes :
        y.of \in 1..n /\ (e.active # None => y.of < e.active.of)
  BY <1>1 DEF Marked, Numbered
<1>3. \A y, z \in e.episodes : y.of = z.of => y.id = z.id
  BY <1>1 DEF Numbered
<1> QED
  BY <1>2, <1>3 DEF Marked, Numbered

(* After a journal write has failed everything at hand is marked.          *)
LEMMA JournalFailsStep ==
    ASSUME IInv, JournalFails, worker \in {"append", "model", "report"},
           unrecorded' \in {unrecorded, unrecorded \cup Runs},
           unrecorded' # unrecorded => worker = "append",
           UNCHANGED <<queue, pending, unfinished, events, checkpoint,
                       stopping, store, restarts, captured, serial, holes, ignored>>
    PROVE  IInv'
<1> USE DEF IInv
<1>1. /\ data \in Model /\ disk \in Model /\ serial \in Nat
      /\ Numbered(data, serial)
  BY DEF Types, Numbers
<1>2. /\ Marked(data, data')
      /\ capture_gap' = TRUE /\ lost' = TRUE /\ failed' = TRUE
      /\ worker' = "database"
  BY <1>1, CensoredMarks DEF JournalFails
<1>3. Numbered(data', serial)
  BY <1>1, <1>2, MarkIsNumbered
<1>4. \A x \in Finished : x.of \in 1..serial /\ \E e \in data.episodes : e.id = x.id /\ e.of = x.of
  BY DEF Told, Numbers, Numbered
<1>5. unrecorded' \subseteq unrecorded \cup 1..serial
  BY <1>1, <1>4 DEF Numbers, Numbered, Runs
<1>6. Types'
  BY <1>1, <1>2, <1>5 DEF Types, Marked
<1>7. Counted'
  BY DEF Counted
<1>8. Numbers'
  BY <1>1, <1>2, <1>3 DEF Numbers, Marked
<1>9. Said'
  <2>1. Spoiled' \subseteq 1..serial
    BY <1>5 DEF Said, Spoiled
  <2>2. data'.active # None => data'.active.bad
    BY <1>2 DEF Marked
  <2>3. ASSUME NEW z \in Spoiled', z \notin Spoiled
        PROVE  /\ worker = "append"
               /\ \/ \E x \in Finished : z = x.of
                  \/ data.active # None /\ z = data.active.of
    BY <2>3 DEF Spoiled, Runs
  <2>4. ASSUME NEW y \in data'.episodes, y.eligible
        PROVE  y.of \notin Spoiled'
    <3>1. PICK x \in data.episodes :
             /\ y.id = x.id /\ y.of = x.of
             /\ x.eligible /\ \A f \in Finished : f.id # x.id
      BY <1>2, <2>4 DEF Marked
    <3>2. x.of \notin Spoiled
      BY <3>1 DEF Said
    <3>3. \A f \in Finished : f.of # x.of
      BY <1>4, <3>1 DEF Numbers, Numbered
    <3>4. data.active # None => x.of # data.active.of
      BY <1>1 DEF Numbered
    <3> QED
      BY <2>3, <3>1, <3>2, <3>3, <3>4
  <2>5. ASSUME NEW e \in disk.episodes, e.eligible
        PROVE  e.of \notin Spoiled'
    <3>1. e.of \notin Spoiled
      BY <2>5 DEF Said
    <3>2. worker = "append" => \A x \in Finished : e.of # x.of
      BY <2>5 DEF Told
    <3>3. data.active # None => e.of # data.active.of
      BY <1>1 DEF Numbers
    <3> QED
      BY <2>3, <3>1, <3>2, <3>3
  <2>6. disk' = disk /\ queue' = queue
    BY DEF store
  <2> QED
    BY <1>2, <2>1, <2>2, <2>4, <2>5, <2>6 DEF Said
<1>10. Told'
  <2>1. \A x \in data.episodes : \E y \in data'.episodes : y.id = x.id /\ y.of = x.of
    BY <1>2 DEF Marked
  <2>2. data'.incidents = data.incidents
    BY <1>2 DEF Marked
  <2>3. Finished' = Finished /\ Incidents' = Incidents
    BY DEF Finished, Incidents
  <2>4. \A y \in data'.episodes : \E x \in data.episodes :
          y.of = x.of /\ (y.eligible => x.eligible)
    BY <1>2 DEF Marked
  <2>5. ASSUME NEW x \in pending, NEW e \in data'.episodes \cup disk.episodes,
               e.of = x.of
        PROVE  ~e.eligible
    BY <2>4, <2>5 DEF Told
  <2> QED
    BY <1>2, <2>1, <2>2, <2>3, <2>5 DEF Told
<1>11. SavedFirst'
  BY <1>2 DEF SavedFirst
<1>12. Stopped' /\ Afloat'
  BY <1>2 DEF Stopped, Afloat, Marked
<1> QED
  BY <1>6, <1>7, <1>8, <1>9, <1>10, <1>11, <1>12

LEMMA AppendFailsStep ==
    ASSUME IInv, AppendFails
    PROVE  IInv'
BY JournalFailsStep DEF AppendFails

LEMMA SaveFailsStep ==
    ASSUME IInv, SaveFails
    PROVE  IInv'
BY JournalFailsStep DEF SaveFails

LEMMA SaveWorksStep ==
    ASSUME IInv, SaveWorks
    PROVE  IInv'
<1> USE DEF IInv, SaveWorks
<1>1. (disk' = data /\ worker = "model") \/ disk' = disk
  OBVIOUS
<1>2. Types' /\ Counted'
  BY <1>1 DEF Types, Counted
<1>3. Numbers'
  BY <1>1 DEF Numbers, Numbered, Types, Model
<1>4. Said'
  BY <1>1 DEF Said, Spoiled
<1>5. Told'
  BY <1>1 DEF Told, Finished, Incidents
<1>6. SavedFirst'
  <2>1. disk'.incidents \in Nat /\ disk.incidents \in Nat
        /\ disk.incidents <= disk'.incidents
    BY <1>1 DEF Types, Model, Numbers
  <2>2. \A id \in DOMAIN rows : id \in Nat
    BY DEF Counted
  <2> QED
    BY <1>1, <2>1, <2>2 DEF SavedFirst, Incidents
<1>7. Stopped' /\ Afloat'
  BY <1>1 DEF Stopped, Afloat, Types
<1> QED
  BY <1>2, <1>3, <1>4, <1>5, <1>6, <1>7

(* write_batch: rows keep numbers that were given out, and nothing is      *)
(* ignored as long as every number given out has been saved before.        *)
LEMMA RowsAreInserted ==
    ASSUME IInv, worker = "database",
           rows' = Inserted(rows, Incidents),
           ignored' = (ignored \/ \E e \in Incidents : e.id \in DOMAIN rows)
    PROVE  /\ DOMAIN rows' \subseteq 0..serial
           /\ \A id \in DOMAIN rows' : rows'[id] \in 0..serial
           /\ ignored' \in BOOLEAN
           /\ ~failed => ~ignored' /\ \A id \in DOMAIN rows' :
                                         id <= disk.incidents
<1> USE DEF IInv
<1>1. \A x \in Incidents :
        /\ x.id = data.incidents /\ x.id \in 0..serial
        /\ x.of \in 0..serial
  BY DEF Told, Numbers, Numbered, Types, Model
<1>2. /\ DOMAIN rows' = DOMAIN rows \cup {x.id : x \in Incidents}
      /\ \A id \in DOMAIN rows' :
           rows'[id] = IF id \in DOMAIN rows THEN rows[id]
                       ELSE (CHOOSE x \in Incidents : x.id = id).of
  BY DEF Inserted
<1>3. DOMAIN rows' \subseteq 0..serial
  BY <1>1, <1>2 DEF Counted
<1>4. ASSUME NEW id \in DOMAIN rows'
      PROVE  rows'[id] \in 0..serial
  <2>1. CASE id \in DOMAIN rows
    BY <1>2, <2>1 DEF Counted
  <2>2. CASE id \notin DOMAIN rows
    <3>1. \E x \in Incidents : x.id = id
      BY <1>2, <2>2
    <3>2. (CHOOSE x \in Incidents : x.id = id) \in Incidents
      BY <3>1
    <3> QED
      BY <1>1, <1>2, <2>2, <3>2
  <2> QED
    BY <2>1, <2>2
<1>5. ASSUME ~failed
      PROVE  ~ignored' /\ \A id \in DOMAIN rows' : id <= disk.incidents
  <2>1. \A x \in Incidents : x.id \notin DOMAIN rows
    BY <1>5 DEF SavedFirst
  <2>2. ~ignored'
    BY <1>5, <2>1 DEF SavedFirst
  <2>3. \A x \in Incidents : x.id <= disk.incidents
    BY <1>1, <1>5 DEF SavedFirst, Types, Model
  <2> QED
    BY <1>2, <1>5, <2>2, <2>3 DEF SavedFirst
<1> QED
  BY <1>3, <1>4, <1>5 DEF Types

LEMMA DatabaseWorksStep ==
    ASSUME IInv, DatabaseWorks
    PROVE  IInv'
<1> USE DEF IInv, DatabaseWorks, Done
<1>1. Types'
  BY DEF Types
<1>2. Finished' = {} /\ Incidents' = {}
  BY DEF Finished, Incidents
<1>3. Numbers' /\ Said' /\ Told'
  BY <1>2 DEF Numbers, Said, Spoiled, Told
<1>4. Stopped' /\ Afloat'
  BY DEF Stopped, Afloat
<1>5. /\ DOMAIN rows' \subseteq 0..serial
      /\ \A id \in DOMAIN rows' : rows'[id] \in 0..serial
      /\ ~failed => ~ignored' /\ \A id \in DOMAIN rows' :
                                    id <= disk.incidents
  BY RowsAreInserted
<1>6. Counted'
  BY <1>5 DEF Counted
<1>7. SavedFirst'
  BY <1>2, <1>5 DEF SavedFirst
<1> QED
  BY <1>1, <1>3, <1>4, <1>6, <1>7

LEMMA DatabaseFailsStep ==
    ASSUME IInv, DatabaseFails
    PROVE  IInv'
<1> USE DEF IInv, DatabaseFails, Done
<1>1. Types'
  BY DEF Types
<1>2. Counted' /\ Numbers' /\ Said' /\ Stopped' /\ Afloat'
  BY DEF Counted, Numbers, Said, Spoiled, Stopped, Afloat
<1>3. Told' /\ SavedFirst'
  BY DEF Told, SavedFirst, Finished, Incidents
<1> QED
  BY <1>1, <1>2, <1>3

LEMMA StopBeginsStep ==
    ASSUME IInv, StopBegins
    PROVE  IInv'
<1> USE DEF IInv, StopBegins
<1>1. Types'
  BY DEF Types
<1>2. Counted' /\ Numbers' /\ Said' /\ Stopped' /\ Afloat'
  BY DEF Counted, Numbers, Said, Spoiled, Stopped, Afloat
<1>3. Told' /\ SavedFirst'
  BY DEF Told, SavedFirst, Finished, Incidents
<1> QED
  BY <1>1, <1>2, <1>3

(* The worker is cancelled: what it was at is dropped, or goes on by       *)
(* itself.                                                                 *)
LEMMA WorkerIsCancelledStep ==
    ASSUME IInv, WorkerIsCancelled
    PROVE  IInv'
<1> USE DEF IInv, WorkerIsCancelled
<1>1. adrift = None
  BY DEF Afloat
<1>2. \/ adrift' = adrift
      \/ adrift' = data /\ worker \in {"append", "model"}
  BY DEF JobGoesOn
<1>3. \/ rows' = rows /\ ignored' = ignored
      \/ /\ worker = "database"
         /\ rows' = Inserted(rows, Incidents)
         /\ ignored' = (ignored \/ \E e \in Incidents : e.id \in DOMAIN rows)
  BY DEF JobGoesOn
<1>4. /\ DOMAIN rows' \subseteq 0..serial
      /\ \A id \in DOMAIN rows' : rows'[id] \in 0..serial
      /\ ignored' \in BOOLEAN
      /\ ~failed => ~ignored' /\ \A id \in DOMAIN rows' :
                                    id <= disk.incidents
  <2>1. CASE rows' = rows /\ ignored' = ignored
    BY <2>1 DEF Types, Counted, SavedFirst
  <2>2. CASE ~(rows' = rows /\ ignored' = ignored)
    BY <1>3, <2>2, RowsAreInserted
  <2> QED
    BY <2>1, <2>2
<1>5. Finished' = {} /\ Incidents' = {}
  BY DEF Finished, Incidents
<1>6. Types'
  <2>1. adrift' \in Model \cup {None}
    BY <1>2 DEF Types
  <2> QED
    BY <1>4, <2>1 DEF Types
<1>7. Counted'
  BY <1>4 DEF Counted
<1>8. Numbers' /\ Said' /\ Told'
  BY <1>5 DEF Numbers, Said, Spoiled, Told
<1>9. SavedFirst'
  BY <1>4, <1>5 DEF SavedFirst
<1>10. Stopped'
  BY DEF Stopped
<1>11. Afloat'
  BY <1>1, <1>2 DEF Afloat, Told, Numbers
<1> QED
  BY <1>6, <1>7, <1>8, <1>9, <1>10, <1>11

(* The job of a cancelled worker lands, before or after the last           *)
(* checkpoint of stop().                                                   *)
LEMMA JobEndsStep ==
    ASSUME IInv, JobEnds
    PROVE  IInv'
<1> USE DEF IInv, JobEnds
<1>1. /\ adrift \in Model /\ data \in Model /\ disk \in Model
      /\ serial \in Nat /\ worker = "ended" /\ pending = {}
      /\ Numbered(adrift, serial)
      /\ adrift = data \/ (Reloaded(adrift) = data /\ data.active = None)
  BY DEF Types, Afloat
<1>2. /\ adrift.incidents = data.incidents
      /\ adrift.episodes \subseteq data.episodes
  <2>1. Closed(adrift, Reloaded(adrift), FALSE)
    BY <1>1, CloseFinishes DEF Reloaded
  <2> QED
    BY <1>1, <2>1 DEF Closed
<1>3. Types' /\ Counted'
  BY <1>1 DEF Types, Counted
<1>4. Numbers'
  <2>1. data.active # None => \A e \in adrift.episodes : e.of < serial
    BY <1>1, <1>2 DEF Numbers, Numbered
  <2> QED
    BY <1>1, <1>2, <2>1 DEF Numbers, Numbered, Model
<1>5. Said'
  BY <1>2 DEF Said, Spoiled
<1>6. Told'
  BY <1>1 DEF Told, Finished, Incidents
<1>7. SavedFirst'
  <2>1. disk.incidents \in Nat /\ data.incidents \in Nat
        /\ disk.incidents <= data.incidents
    BY <1>1 DEF Numbers, Model
  <2>2. \A id \in DOMAIN rows : id \in Nat
    BY DEF Counted
  <2> QED
    BY <1>1, <1>2, <2>1, <2>2 DEF SavedFirst, Incidents
<1>8. Stopped'
  <2>1. data.active = None => Reloaded(data) = data
    BY DEF Reloaded, Close
  <2>2. data.active = None => Reloaded(adrift) = data
    BY <1>1, <2>1
  <2> QED
    BY <2>2 DEF Stopped
<1>9. Afloat'
  BY DEF Afloat
<1> QED
  BY <1>3, <1>4, <1>5, <1>6, <1>7, <1>8, <1>9

LEMMA StopJoinedStep ==
    ASSUME IInv, StopJoined
    PROVE  IInv'
<1> USE DEF IInv, StopJoined, Joined
<1>1. data \in Model /\ disk \in Model /\ serial \in Nat
      /\ Numbered(data, serial)
  BY DEF Types, Numbers
<1>2. Closed(data, data', FALSE)
  BY <1>1, CloseFinishes
<1>3. Numbered(data', serial)
  BY <1>1, <1>2, CloseIsNumbered
<1>4. worker \in {"waiting", "ended"} /\ queue = <<>>
  BY DEF Types, Stopped
<1>5. Types'
  BY <1>2 DEF Types, Closed
<1>6. Counted'
  BY DEF Counted
<1>7. Numbers'
  BY <1>2, <1>3 DEF Numbers, Closed
<1>8. Said'
  BY <1>2 DEF Said, Spoiled, Closed
<1>9. Told'
  BY <1>2, <1>4 DEF Told, Closed, Finished, Incidents
<1>10. SavedFirst'
  BY <1>2 DEF SavedFirst, Closed, Incidents
<1>11. Stopped'
  BY <1>2, <1>4 DEF Stopped, Closed
<1>12. Afloat'
  <2>1. adrift = data => Reloaded(adrift) = data'
    BY DEF Reloaded
  <2>2. data.active = None => data' = data
    BY DEF Close
  <2>3. data'.active = None
    BY <1>2 DEF Closed
  <2> QED
    BY <2>1, <2>2, <2>3 DEF Afloat
<1> QED
  BY <1>5, <1>6, <1>7, <1>8, <1>9, <1>10, <1>11, <1>12

LEMMA StopSavesStep ==
    ASSUME IInv, StopSaves
    PROVE  IInv'
<1> USE DEF IInv, StopSaves
<1>1. /\ \/ disk' = data /\ failed' = failed
         \/ disk' = disk /\ failed' = TRUE
      /\ worker \in {"waiting", "ended"} /\ data.active = None
  BY DEF Stopped
<1>2. Types' /\ Counted'
  BY <1>1 DEF Types, Counted
<1>3. Numbers'
  BY <1>1 DEF Numbers, Numbered, Types, Model
<1>4. Said'
  BY <1>1 DEF Said, Spoiled
<1>5. Told'
  BY <1>1 DEF Told, Finished, Incidents
<1>6. SavedFirst'
  <2>1. disk'.incidents \in Nat /\ disk.incidents \in Nat
        /\ disk.incidents <= disk'.incidents
    BY <1>1 DEF Types, Model, Numbers
  <2>2. \A id \in DOMAIN rows : id \in Nat
    BY DEF Counted
  <2> QED
    BY <1>1, <2>1, <2>2 DEF SavedFirst, Incidents
<1>7. Stopped' /\ Afloat'
  <2>1. Reloaded(data) = data
    BY <1>1 DEF Reloaded, Close
  <2> QED
    BY <1>1, <2>1 DEF Stopped, Afloat
<1> QED
  BY <1>2, <1>3, <1>4, <1>5, <1>6, <1>7

LEMMA StopPoisonsStep ==
    ASSUME IInv, StopPoisons
    PROVE  IInv'
<1> USE DEF IInv, StopPoisons
<1>1. queue = <<>> /\ queue' = <<Poison>>
      /\ worker \in {"waiting", "ended"}
  BY DEF Stopped
<1>2. Poison \in Item \cup {None} /\ Poison \notin Item
  BY NoneIsNothing DEF Poison
<1>3. Types'
  BY <1>1, <1>2 DEF Types
<1>4. Opening(queue') = {}
  BY <1>1, <1>2 DEF Opening, Opens
<1>5. Cardinality(Opening(queue)) \in Nat
  BY OpeningIsFinite DEF Types, Slots
<1>6. Counted'
  <2>1. 0 < QueueSize /\ QueueSize \in Nat
    BY <1>1, RuntimeAssumption DEF Room
  <2>2. Len(queue') <= QueueSize
    BY <1>1, <2>1
  <2>3. Cardinality(Opening(queue')) = 0
    BY <1>4, FS_EmptySet
  <2> QED
    BY <1>5, <2>2, <2>3 DEF Counted, Types
<1>7. Numbers' /\ Told' /\ SavedFirst'
  BY DEF Numbers, Told, SavedFirst, Finished, Incidents
<1>8. Said'
  BY <1>1, <1>2 DEF Said, Spoiled
<1>9. Stopped' /\ Afloat'
  BY <1>1 DEF Stopped, Afloat
<1> QED
  BY <1>3, <1>6, <1>7, <1>8, <1>9

LEMMA StopEndsStep ==
    ASSUME IInv, StopEnds
    PROVE  IInv'
<1> USE DEF IInv, StopEnds
<1>1. Types'
  BY DEF Types
<1>2. Counted' /\ Numbers' /\ Said' /\ Stopped' /\ Afloat'
  BY DEF Counted, Numbers, Said, Spoiled, Stopped, Afloat
<1>3. Told' /\ SavedFirst'
  BY DEF Told, SavedFirst, Finished, Incidents
<1> QED
  BY <1>1, <1>2, <1>3

(* The next life starts from the checkpoint and finishes what it says is   *)
(* in progress.                                                            *)
LEMMA RestartStep ==
    ASSUME IInv, Restart
    PROVE  IInv'
<1> USE DEF IInv, Restart, Done
<1>1. data \in Model /\ disk \in Model /\ serial \in Nat
      /\ Numbered(disk, serial)
  BY DEF Types, Numbers
<1>2. Closed(disk, data', FALSE)
  BY <1>1, CloseFinishes DEF Reloaded
<1>3. Numbered(data', serial)
  BY <1>1, <1>2, CloseIsNumbered
<1>4. pending' = EpisodeEvents(disk, data')
  OBVIOUS
<1>5. \A x \in pending' :
        /\ x \in Event /\ x.kind = "episode"
        /\ \E e \in data'.episodes \ disk.episodes : e.id = x.id /\ e.of = x.of
  <2>1. \A e \in data'.episodes : e.id \in Nat /\ e.of \in Nat
    BY <1>2 DEF Closed, Model, Record
  <2> QED
    BY <1>4, <2>1 DEF EpisodeEvents, Event
<1>6. Finished' = {} /\ Incidents' = {} /\ Opening(queue') = {}
  BY DEF Finished, Incidents, Opening
<1>7. Types'
  <2>1. data' \in Model /\ pending' \in SUBSET Event
    BY <1>2, <1>5 DEF Closed
  <2>2. /\ queue' = <<>> /\ events' = {} /\ unfinished' = FALSE
        /\ adrift' = None
    OBVIOUS
  <2>3. /\ restarts' \in Nat /\ serial' \in Nat /\ captured' \in Nat
        /\ disk' \in Model
        /\ holes' \in SUBSET Nat /\ unrecorded' \in SUBSET Nat
    BY DEF Types
  <2>4. /\ stopping' = "no" /\ worker' = "waiting"
        /\ capture_gap' \in BOOLEAN /\ checkpoint' \in BOOLEAN
        /\ lost' \in BOOLEAN
    OBVIOUS
  <2>5. /\ failed' \in BOOLEAN /\ ignored' \in BOOLEAN
    BY DEF Types
  <2>6. queue' \in Seq(Item \cup {None})
    BY <2>2
  <2> QED
    BY <2>1, <2>2, <2>3, <2>4, <2>5, <2>6 DEF Types
<1>8. Counted'
  <2>1. Cardinality(Opening(queue)) \in Nat
    BY OpeningIsFinite DEF Types, Slots
  <2>2. Cardinality(Opening(queue')) = 0
    BY <1>6, FS_EmptySet
  <2>3. Len(queue') <= QueueSize
    BY RuntimeAssumption
  <2> QED
    BY <2>1, <2>2, <2>3 DEF Counted, Types
<1>9. Numbers'
  BY <1>1, <1>2, <1>3 DEF Numbers, Closed, Model
<1>10. Said'
  BY <1>2 DEF Said, Spoiled, Closed
<1>11. Told'
  <2>1. ASSUME NEW x \in pending', NEW e \in data'.episodes \cup disk.episodes,
               e.of = x.of
        PROVE  ~e.eligible
    <3>1. disk.active # None /\ x.of = disk.active.of
      BY <1>2, <1>5 DEF Closed
    <3>2. e \notin disk.episodes
      BY <1>1, <2>1, <3>1 DEF Numbered, Model, Episode
    <3> QED
      BY <1>2, <3>2 DEF Closed
  <2> QED
    BY <1>5, <1>6, <2>1 DEF Told
<1>12. SavedFirst'
  BY <1>6 DEF SavedFirst
<1>13. Stopped' /\ Afloat'
  BY DEF Stopped, Afloat
<1> QED
  BY <1>7, <1>8, <1>9, <1>10, <1>11, <1>12, <1>13

LEMMA StepInv == IInv /\ [Next]_vars => IInv'
<1> SUFFICES ASSUME IInv, [Next]_vars PROVE IInv'
  OBVIOUS
<1>1. CASE Throttle
  BY <1>1, ThrottleStep
<1>2. CASE \E effect \in Effect : Capture(effect)
  BY <1>2, CaptureStep
<1>3. CASE Worker
  BY <1>3, TakeStep, PoisonStep, ProcessingFailsStep, AppendWorksStep,
     AppendFailsStep, SaveWorksStep, SaveFailsStep, DatabaseWorksStep,
     DatabaseFailsStep DEF Worker
<1>4. CASE StopBegins
  BY <1>4, StopBeginsStep
<1>5. CASE Stop
  BY <1>5, StopJoinedStep, StopSavesStep, StopPoisonsStep, StopEndsStep
     DEF Stop
<1>6. CASE Restart
  BY <1>6, RestartStep
<1>7. CASE WorkerIsCancelled \/ JobEnds
  BY <1>7, WorkerIsCancelledStep, JobEndsStep
<1>8. CASE UNCHANGED vars
  BY <1>8, StutterStep
<1> QED
  BY <1>1, <1>2, <1>3, <1>4, <1>5, <1>6, <1>7, <1>8 DEF Next

(* The inductive invariant: every state of the runtime, through any number *)
(* of dropped snapshots, failed writes, stops and restarts.                *)
THEOREM Invariance == Spec => []IInv
BY InitInv, StepInv, PTL DEF Spec

-----------------------------------------------------------------------------
(***************************************************************************)
(* What follows.                                                           *)
(***************************************************************************)
(* Every variable keeps its shape, the queue of __init__.py its bound, and *)
(* no counter of the engine outruns what was captured.                     *)
THEOREM TypeCorrect == Spec => []TypeOK
<1>1. IInv => TypeOK
  <2> SUFFICES ASSUME IInv PROVE TypeOK
    OBVIOUS
  <2> USE DEF IInv
  <2>1. MaxBurns \in Nat /\ MaxRestarts \in Nat
    BY RuntimeAssumption
  <2>2. Cardinality(Opening(queue)) \in Nat
    BY OpeningIsFinite DEF Types, Slots
  <2>3. serial \in Nat /\ captured \in Nat /\ serial <= captured
        /\ captured <= MaxBurns
    BY <2>2 DEF Types, Counted
  <2>4. 0..serial \subseteq Number
    BY <2>1, <2>3 DEF Number
  <2>5. data.sequence \in 0..serial /\ data.incidents \in 0..serial
    BY DEF Types, Numbers, Numbered, Model
  <2>6. {data.sequence, data.incidents, serial, captured} \subseteq Number
    BY <2>1, <2>3, <2>4, <2>5 DEF Number
  <2>7. \A i \in DOMAIN queue : queue[i] = Poison \/ queue[i] \in Item
    BY DEF Types, Poison
  <2>8. data.active = None \/ data.active.id = data.sequence
    BY DEF Numbers, Numbered
  <2>9. \A id \in DOMAIN rows : id \in Number /\ rows[id] \in Number
    BY <2>4 DEF Counted
  <2> QED
    BY <2>6, <2>7, <2>8, <2>9 DEF TypeOK, Types, Counted
<1> QED
  BY <1>1, Invariance, PTL

(* A burner run of which a snapshot is missing before its fault, dropped   *)
(* by a full queue or lost with a store or an agent that failed, is not    *)
(* learned from: not in memory and not from the checkpoint.                *)
THEOREM HolesAreCensored == Spec => []HoleIsCensored
<1>1. IInv => HoleIsCensored
  BY DEF IInv, Said, Spoiled, HoleIsCensored, Learned
<1> QED
  BY <1>1, Invariance, PTL

(* A burner run one of whose snapshots is in no journal is learned from,   *)
(* in this life or a later one, only if processing raised or was cancelled *)
(* before journal.write and no snapshot captured afterwards reached the    *)
(* run before its fault or its end; never if journal.write itself failed.  *)
THEOREM LearningIsRecorded == Spec => []LearnedIsRecorded
<1>1. IInv => LearnedIsRecorded
  BY DEF IInv, Said, Spoiled, LearnedIsRecorded, Unnoticed, Learned
<1> QED
  BY <1>1, Invariance, PTL

(* INSERT OR IGNORE drops an incident because its number was used before   *)
(* only if a journal write had failed.                                     *)
THEOREM SavingComesFirst == Spec => []NumbersAreSavedFirst
<1>1. IInv => NumbersAreSavedFirst
  BY DEF IInv, SavedFirst, NumbersAreSavedFirst, Types
<1> QED
  BY <1>1, Invariance, PTL

(* When stop() has ended nothing waits, nothing is in hand, no episode is  *)
(* open, and the next life will load what memory was unless a journal      *)
(* write failed; also when the worker was cancelled on the way.            *)
THEOREM StoppingIsClean == Spec => []StopIsClean
<1>1. IInv => StopIsClean
  BY DEF IInv, Types, Stopped, StopIsClean, Poison
<1> QED
  BY <1>1, Invariance, PTL

(* async_setup starts from what the checkpoint had learned: the episode it *)
(* cut short adds nothing.                                                 *)
THEOREM RestartsLearnNothing == Spec => RestartsTeachNothing
<1>1. ASSUME NEW d \in Model
      PROVE  Learned(Close(d, FALSE)) = Learned(d)
  <2>1. Closed(d, Close(d, FALSE), FALSE)
    BY CloseFinishes
  <2> QED
    BY <2>1 DEF Closed, Learned
<1>2. IInv /\ [Next]_vars =>
        (restarts' # restarts => Learned(data') = Learned(disk))
  <2> SUFFICES ASSUME IInv, [Next]_vars, restarts' # restarts
               PROVE  Learned(data') = Learned(disk)
    OBVIOUS
  <2>1. CASE Restart
    BY <1>1, <2>1 DEF Restart, Reloaded, IInv, Types
  <2>2. CASE Throttle \/ (\E effect \in Effect : Capture(effect))
    BY <2>2 DEF Throttle, Capture
  <2>3. CASE Worker
    BY <2>3 DEF Worker, Take, TakePoison, ProcessingFails, AppendWorks,
                AppendFails, SaveWorks, SaveFails, DatabaseWorks,
                DatabaseFails
  <2>4. CASE StopBegins \/ Stop \/ WorkerIsCancelled \/ JobEnds
    BY <2>4 DEF StopBegins, Stop, StopJoined, StopSaves, StopPoisons,
                StopEnds, WorkerIsCancelled, JobEnds
  <2>5. CASE UNCHANGED vars
    BY <2>5 DEF vars
  <2> QED
    BY <2>1, <2>2, <2>3, <2>4, <2>5 DEF Next
<1>3. IInv /\ [Next]_vars =>
        [restarts' # restarts => Learned(data') = Learned(disk)]_vars
  BY <1>2
<1> QED
  BY <1>3, Invariance, PTL DEF Spec, RestartsTeachNothing
=============================================================================
