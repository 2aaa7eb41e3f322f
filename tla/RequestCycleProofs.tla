------------------------- MODULE RequestCycleProofs -------------------------
(***************************************************************************)
(* The verdict of the request-cycle builder, proved for every set of       *)
(* snapshots, every clock and every gap length.  The clock may stand still *)
(* or jump either way: no step uses that it moves forward.                 *)
(***************************************************************************)
EXTENDS RequestCycle, TLAPS

(***************************************************************************)
(* The inductive invariant ties the flags of the open cycle to the defects *)
(* of the open request, and says where the two may be apart: a restart     *)
(* leaves a request open without a cycle, and only until a reading of the  *)
(* relay that starts an incomplete cycle or closes the request.            *)
(***************************************************************************)
AgreeWith(c, r) ==
    IF "restart" \in r
    THEN c.incomplete
    ELSE /\ c.incomplete <=> "silence" \in r \/ "unseen_start" \in r
         /\ c.fault_codes # {} <=> "fault_later" \in r
         /\ c.service_seen <=> "service" \in r
         /\ c.master_off_seen <=> "master_not_on" \in r
         /\ c.dhw_seen <=> "dhw" \in r
         /\ c.quality_flags # {} <=> "quality" \in r \/ "silence" \in r

Aligned ==
    /\ active # None => request # None
    /\ request # None /\ active = None =>
           LastRelay = "unknown" /\ "restart" \in request
    /\ LastRelay = "on" => active # None
    /\ LastRelay = "off" => request = None

IInv ==
    /\ TypeOK
    /\ Aligned
    /\ active # None => AgreeWith(active, request)
    /\ EligibleIsClean

-----------------------------------------------------------------------------
(* What the outside reader notes of one snapshot, defect by defect. *)
LEMMA DefectsOfMembers ==
    ASSUME NEW s
    PROVE  /\ DefectsOf(s) \subseteq Defect
           /\ "service" \in DefectsOf(s) <=> s.service = "on"
           /\ "master_not_on" \in DefectsOf(s) <=> s.master # "on"
           /\ "dhw" \in DefectsOf(s) <=> s.dhw
           /\ "quality" \in DefectsOf(s) <=> Poor(s)
           /\ DefectsOf(s) \cap {"fault_at_start", "fault_later", "silence",
                                 "unseen_start", "restart"} = {}
BY DEF DefectsOf, Defect

(* What a snapshot that opens a request makes of the request. *)
LEMMA OpeningMembers ==
    ASSUME NEW s, NEW t
    PROVE  /\ Opening(s, t) \subseteq Defect
           /\ "unseen_start" \in Opening(s, t) <=> ~SeenOff(t)
           /\ "service" \in Opening(s, t) <=> s.service = "on"
           /\ "master_not_on" \in Opening(s, t) <=> s.master # "on"
           /\ "dhw" \in Opening(s, t) <=> s.dhw
           /\ "quality" \in Opening(s, t) <=> Poor(s)
           /\ Opening(s, t) \cap {"fault_later", "silence", "restart"} = {}
BY DefectsOfMembers DEF Opening, Defect

(* What a later snapshot makes of an open request. *)
LEMMA RunningMembers ==
    ASSUME NEW s, NEW t, request \subseteq Defect
    PROVE  /\ Running(s, t) \subseteq Defect
           /\ request \subseteq Running(s, t)
           /\ "restart" \in Running(s, t) <=> "restart" \in request
           /\ "unseen_start" \in Running(s, t) <=> "unseen_start" \in request
           /\ "silence" \in Running(s, t) <=>
                  "silence" \in request \/ Silence(t)
           /\ "fault_later" \in Running(s, t) <=>
                  "fault_later" \in request \/ s.code \in FaultCodes
           /\ "service" \in Running(s, t) <=>
                  "service" \in request \/ s.service = "on"
           /\ "master_not_on" \in Running(s, t) <=>
                  "master_not_on" \in request \/ s.master # "on"
           /\ "dhw" \in Running(s, t) <=> "dhw" \in request \/ s.dhw
           /\ "quality" \in Running(s, t) <=> "quality" \in request \/ Poor(s)
BY DefectsOfMembers DEF Running, Defect

(* The builder flags a snapshot exactly when the outside reader calls it   *)
(* poor.                                                                   *)
LEMMA FlagsArePoor ==
    ASSUME NEW s \in Snapshot
    PROVE  /\ QualityFlags(s) \subseteq QualityFlag
           /\ QualityFlags(s) # {} <=> Poor(s)
<1>1. "unknown_relay" \in QualityFlags(s) <=>
          s.relay = "unknown" \/ "unknown_relay" \in s.flags
  BY DEF QualityFlags, QualityFlag
<1>2. "unknown_master" \in QualityFlags(s) <=>
          s.master = "unknown" \/ "unknown_master" \in s.flags
  BY DEF QualityFlags, QualityFlag
<1>3. "unknown_service" \in QualityFlags(s) <=>
          s.service = "unknown" \/ "unknown_service" \in s.flags
  BY DEF QualityFlags, QualityFlag
<1>4. s.flags \subseteq QualityFlags(s) /\ s.flags \subseteq DataFlags
  BY DEF QualityFlags, Snapshot
<1>5. \A f \in QualityFlags(s) : f \in s.flags \/ Poor(s)
  BY DEF QualityFlags, Poor
<1>6. QualityFlags(s) \subseteq QualityFlag
  BY <1>4 DEF QualityFlags, QualityFlag
<1> QED
  BY <1>1, <1>2, <1>3, <1>4, <1>5, <1>6 DEF Poor

-----------------------------------------------------------------------------
(* While the flags agree with the defects, the verdict is the intended one. *)
LEMMA VerdictOfAgreement ==
    ASSUME NEW c, NEW r \in SUBSET Defect, AgreeWith(c, r)
    PROVE  EligibleForBaseline(c) <=> r \subseteq {"fault_at_start"}
<1>1. CASE "restart" \in r
  BY <1>1 DEF AgreeWith, EligibleForBaseline
<1>2. CASE "restart" \notin r
  <2>1. r \subseteq {"fault_at_start"} <=>
            r \cap {"fault_later", "service", "master_not_on", "dhw",
                    "quality", "silence", "unseen_start"} = {}
    BY <1>2 DEF Defect
  <2> QED
    BY <1>2, <2>1 DEF AgreeWith, EligibleForBaseline
<1> QED
  BY <1>1, <1>2

(* The flags of a merged snapshot, one by one. *)
LEMMA MergedCycle ==
    ASSUME NEW c \in Cycle, NEW s \in Snapshot, NEW t
    PROVE  LET m == Update(AfterGap(c, t), s) IN
           /\ m \in Cycle
           /\ m.incomplete <=> c.incomplete \/ Silence(t)
           /\ m.fault_codes = c.fault_codes \cup ({s.code} \cap FaultCodes)
           /\ m.service_seen <=> c.service_seen \/ s.service = "on"
           /\ m.master_off_seen <=> c.master_off_seen \/ s.master # "on"
           /\ m.dhw_seen <=> c.dhw_seen \/ s.dhw
           /\ m.quality_flags =
                  c.quality_flags \cup QualityFlags(s)
                  \cup (IF Silence(t) THEN {"capture_gap"} ELSE {})
<1> DEFINE g == AfterGap(c, t)
<1> DEFINE m == Update(g, s)
<1>1. Silence(t) \in BOOLEAN
  BY DEF Silence
<1>2. /\ g \in Cycle
      /\ g.incomplete = (c.incomplete \/ Silence(t))
      /\ g.fault_codes = c.fault_codes
      /\ g.service_seen = c.service_seen
      /\ g.master_off_seen = c.master_off_seen
      /\ g.dhw_seen = c.dhw_seen
      /\ g.quality_flags =
             c.quality_flags \cup (IF Silence(t) THEN {"capture_gap"} ELSE {})
  BY <1>1 DEF AfterGap, Cycle, QualityFlag
<1>3. QualityFlags(s) \subseteq QualityFlag /\ s.dhw \in BOOLEAN
  BY FlagsArePoor DEF Snapshot
<1> HIDE DEF g
<1>4. /\ m \in Cycle
      /\ m.incomplete = g.incomplete
      /\ m.fault_codes = g.fault_codes \cup ({s.code} \cap FaultCodes)
      /\ m.service_seen = (g.service_seen \/ s.service = "on")
      /\ m.master_off_seen = (g.master_off_seen \/ s.master # "on")
      /\ m.dhw_seen = (g.dhw_seen \/ s.dhw)
      /\ m.quality_flags = g.quality_flags \cup QualityFlags(s)
  BY <1>2, <1>3 DEF Update, Cycle
<1> HIDE DEF m
<1>5. m.quality_flags = c.quality_flags \cup QualityFlags(s)
                        \cup (IF Silence(t) THEN {"capture_gap"} ELSE {})
  BY <1>2, <1>4
<1> QED
  BY <1>2, <1>4, <1>5 DEF g, m

(* Merging a snapshot into the cycle and noting it in the request keeps    *)
(* the two in agreement.                                                   *)
LEMMA MergeAgrees ==
    ASSUME NEW c \in Cycle, NEW s \in Snapshot, NEW t,
           request \subseteq Defect, AgreeWith(c, request)
    PROVE  AgreeWith(Update(AfterGap(c, t), s), Running(s, t))
<1> DEFINE m == Update(AfterGap(c, t), s)
<1> DEFINE r == Running(s, t)
<1>1. m.quality_flags # {} <=>
          c.quality_flags # {} \/ Poor(s) \/ Silence(t)
  BY MergedCycle, FlagsArePoor
<1>2. m.fault_codes # {} <=> c.fault_codes # {} \/ s.code \in FaultCodes
  BY MergedCycle
<1>3. CASE "restart" \in request
  BY <1>3, MergedCycle, RunningMembers DEF AgreeWith
<1>4. CASE "restart" \notin request
  <2>1. "restart" \notin r
    BY <1>4, RunningMembers
  <2>2. /\ m.incomplete <=> "silence" \in r \/ "unseen_start" \in r
        /\ m.fault_codes # {} <=> "fault_later" \in r
        /\ m.service_seen <=> "service" \in r
        /\ m.master_off_seen <=> "master_not_on" \in r
        /\ m.dhw_seen <=> "dhw" \in r
        /\ m.quality_flags # {} <=> "quality" \in r \/ "silence" \in r
    BY <1>1, <1>2, <1>4, MergedCycle, RunningMembers DEF AgreeWith
  <2> QED
    BY <2>1, <2>2 DEF AgreeWith
<1> QED
  BY <1>3, <1>4

(* A cycle that starts agrees with the request it finds: with the one it   *)
(* opens, or with the rest of one that a restart cut in two.               *)
LEMMA StartAgrees ==
    ASSUME TypeOK, Aligned, NEW s \in Snapshot, NEW t \in Times,
           StartCycle(s, t), Witness(s, t)
    PROVE  /\ active' \in Cycle
           /\ request' \in SUBSET Defect
           /\ closed' = None
           /\ AgreeWith(active', request')
<1> USE RequestCycleAssumption
<1> DEFINE inc == LastRelay = "unknown" \/ Silence(t)
<1>1. s.relay = "on" /\ active = None /\ LastRelay # "on"
  BY DEF StartCycle, Starting
<1>2. inc \in BOOLEAN
  BY DEF Silence
<1>3. /\ active' = Start(s, inc)
      /\ active' \in Cycle
      /\ active'.incomplete = inc
      /\ active'.fault_codes = {}
      /\ active'.service_seen = (s.service = "on")
      /\ active'.master_off_seen = (s.master # "on")
      /\ active'.dhw_seen = s.dhw
      /\ active'.quality_flags = QualityFlags(s)
  <2>1. active' = Start(s, inc)
    BY DEF StartCycle
  <2>2. s.dhw \in BOOLEAN
    BY DEF Snapshot
  <2> QED
    BY <1>2, <2>1, <2>2, FlagsArePoor DEF Start, Cycle
<1>4. active'.quality_flags # {} <=> Poor(s)
  BY <1>3, FlagsArePoor
<1>5. CASE request = None
  <2>1. request' = Opening(s, t) /\ closed' = None
    BY <1>1, <1>5 DEF Witness
  <2>2. inc <=> ~SeenOff(t)
    BY <1>1 DEF SeenOff, LastRelay, TypeOK, Reading, Tri, Silence
  <2> QED
    BY <1>3, <1>4, <2>1, <2>2, OpeningMembers DEF AgreeWith
<1>6. CASE request # None
  <2>1. request' = Running(s, t) /\ closed' = None
    BY <1>1, <1>6 DEF Witness
  <2>2. "restart" \in request /\ inc
    BY <1>1, <1>6 DEF Aligned
  <2>3. request \subseteq Defect
    BY <1>6 DEF TypeOK
  <2> QED
    BY <1>3, <2>1, <2>2, <2>3, RunningMembers DEF AgreeWith
<1> QED
  BY <1>5, <1>6

(* The relay reading a snapshot leaves behind. *)
LEMMA NextRelay ==
    ASSUME NEW s \in Snapshot, NEW t \in Times,
           previous' = [t |-> t, relay |-> s.relay]
    PROVE  /\ previous' \in Reading
           /\ previous' # None
           /\ LastRelay' = s.relay
BY RequestCycleAssumption DEF Reading, Snapshot, LastRelay

(* Every call of feed keeps the invariant: one case per action. *)
LEMMA FeedStep ==
    ASSUME IInv, NEW s \in Samples, NEW t \in Times, Feed(s, t)
    PROVE  IInv'
<1> USE RequestCycleAssumption
<1>0. s \in Snapshot
  OBVIOUS
<1>1. Witness(s, t) /\ previous' = [t |-> t, relay |-> s.relay]
  BY DEF Feed
<1>2. /\ previous' \in Reading
      /\ LastRelay' = s.relay
  BY <1>0, <1>1, NextRelay
<1>4. CASE StartCycle(s, t)
  <2>1. /\ active' \in Cycle
        /\ request' \in SUBSET Defect
        /\ closed' = None
        /\ AgreeWith(active', request')
    BY <1>0, <1>1, <1>4, StartAgrees DEF IInv
  <2>2. emitted' = [kind |-> "cycle_started", eligible |-> FALSE]
    BY <1>4 DEF StartCycle
  <2>3. s.relay = "on"
    BY <1>4 DEF StartCycle, Starting
  <2>4. TypeOK'
    BY <1>2, <2>1, <2>2 DEF TypeOK, Transition
  <2>5. Aligned'
    BY <1>2, <2>1, <2>3 DEF Aligned
  <2> QED
    BY <2>1, <2>2, <2>4, <2>5 DEF IInv, EligibleIsClean
<1>5. CASE StayIdle(s)
  <2>1. active = None /\ active' = None /\ emitted' = None
    BY <1>5 DEF StayIdle
  <2>2. s.relay # "on"
    BY <1>5, <2>1 DEF StayIdle, Starting, IInv, Aligned
  <2>3. CASE request = None
    <3>1. request' = None /\ closed' = None
      BY <1>1, <2>2, <2>3 DEF Witness
    <3> QED
      BY <1>2, <2>1, <2>2, <3>1 DEF IInv, TypeOK, Aligned, EligibleIsClean
  <2>4. CASE request # None
    <3>1. request \in SUBSET Defect /\ "restart" \in request
      BY <2>1, <2>4 DEF IInv, TypeOK, Aligned
    <3>2. /\ Running(s, t) \in SUBSET Defect
          /\ "restart" \in Running(s, t)
      BY <3>1, RunningMembers
    <3>3. \/ s.relay = "off" /\ request' = None /\ closed' = Running(s, t)
          \/ s.relay # "off" /\ request' = Running(s, t) /\ closed' = None
      BY <1>1, <2>4 DEF Witness
    <3>4. TypeOK'
      BY <1>2, <2>1, <3>2, <3>3 DEF TypeOK
    <3>5. s.relay \in Tri
      BY <1>0 DEF Snapshot
    <3>6. Aligned'
      BY <1>2, <2>1, <2>2, <3>2, <3>3, <3>5 DEF Aligned, Tri
    <3> QED
      BY <2>1, <3>4, <3>6 DEF IInv, EligibleIsClean
  <2> QED
    BY <2>3, <2>4
<1>6. CASE ContinueCycle(s, t)
  <2>1. /\ active # None
        /\ s.relay # "off"
        /\ active' = Update(AfterGap(active, t), s)
        /\ emitted' = None
    BY <1>6 DEF ContinueCycle
  <2>2. active \in Cycle /\ request # None /\ request \in SUBSET Defect
    BY <2>1 DEF IInv, TypeOK, Aligned
  <2>3. request' = Running(s, t) /\ closed' = None
    BY <1>1, <2>1, <2>2 DEF Witness
  <2>4. /\ active' \in Cycle
        /\ request' \in SUBSET Defect
        /\ AgreeWith(active', request')
    BY <1>0, <2>1, <2>2, <2>3, MergedCycle, MergeAgrees, RunningMembers DEF IInv
  <2>5. TypeOK'
    BY <1>2, <2>1, <2>3, <2>4 DEF TypeOK
  <2>6. Aligned'
    BY <1>2, <2>1, <2>4 DEF Aligned
  <2> QED
    BY <2>1, <2>4, <2>5, <2>6 DEF IInv, EligibleIsClean
<1>7. CASE CompleteCycle(s, t)
  <2> DEFINE m == Update(AfterGap(active, t), s)
  <2>1. /\ active # None
        /\ s.relay = "off"
        /\ active' = None
        /\ emitted' = [kind |-> "cycle_completed",
                       eligible |-> EligibleForBaseline(m)]
    BY <1>7 DEF CompleteCycle
  <2>2. active \in Cycle /\ request # None /\ request \in SUBSET Defect
    BY <2>1 DEF IInv, TypeOK, Aligned
  <2>3. request' = None /\ closed' = Running(s, t)
    BY <1>1, <2>1, <2>2 DEF Witness
  <2>4. Running(s, t) \in SUBSET Defect
    BY <2>2, RunningMembers
  <2>5. AgreeWith(m, Running(s, t))
    BY <1>0, <2>1, <2>2, MergeAgrees DEF IInv
  <2>6. EligibleForBaseline(m) <=> Running(s, t) \subseteq {"fault_at_start"}
    BY <2>4, <2>5, VerdictOfAgreement
  <2>7. EligibleForBaseline(m) \in BOOLEAN
    BY DEF EligibleForBaseline
  <2> HIDE DEF m
  <2>8. TypeOK'
    BY <1>2, <2>1, <2>3, <2>4, <2>7 DEF TypeOK, Transition
  <2>9. Aligned'
    BY <1>2, <2>1, <2>3 DEF Aligned
  <2>10. EligibleIsClean'
    BY <2>1, <2>3, <2>4, <2>6, <2>7 DEF EligibleIsClean
  <2> QED
    BY <2>1, <2>8, <2>9, <2>10 DEF IInv
<1> QED
  BY <1>4, <1>5, <1>6, <1>7 DEF Feed

(* A restart drops the cycle and leaves the request open. *)
LEMMA RestartStep ==
    ASSUME IInv, Restart
    PROVE  IInv'
<1> USE RequestCycleAssumption
<1>1. /\ previous' = None /\ active' = None /\ emitted' = None
      /\ closed' = None
      /\ request' = IF request = None THEN None ELSE request \cup {"restart"}
  BY DEF Restart
<1>2. request' \in (SUBSET Defect) \cup {None}
  BY <1>1 DEF IInv, TypeOK, Defect
<1>3. LastRelay' = "unknown"
  BY <1>1 DEF LastRelay
<1>4. request' # None => "restart" \in request'
  BY <1>1
<1> QED
  BY <1>1, <1>2, <1>3, <1>4 DEF IInv, TypeOK, Aligned, EligibleIsClean

(* The invariant holds in every reachable state of the builder. *)
THEOREM Invariance == Spec => []IInv
<1>1. Init => IInv
  BY DEF Init, IInv, TypeOK, Aligned, LastRelay, EligibleIsClean
<1>2. IInv /\ [Next]_vars => IInv'
  <2> SUFFICES ASSUME IInv, [Next]_vars PROVE IInv'
    OBVIOUS
  <2>1. CASE \E s \in Samples, t \in Times : Feed(s, t)
    BY <2>1, FeedStep
  <2>2. CASE Restart
    BY <2>2, RestartStep
  <2>3. CASE UNCHANGED vars
    BY <2>3 DEF vars, IInv, TypeOK, Aligned, LastRelay, AgreeWith,
                EligibleIsClean
  <2> QED
    BY <2>1, <2>2, <2>3 DEF Next
<1> QED
  BY <1>1, <1>2, PTL DEF Spec

(* The builder's variables keep their shapes: _start, _update and feed of  *)
(* cycle.py write nothing else into them.                                  *)
THEOREM TypeCorrect == Spec => []TypeOK
<1>1. IInv => TypeOK
  BY DEF IInv
<1> QED
  BY <1>1, Invariance, PTL

(* A completed cycle is baseline material exactly when its whole request   *)
(* was free of every defect but a fault code in its first snapshot: the    *)
(* verdict of _summary in cycle.py, against the snapshots themselves.      *)
THEOREM BaselineVerdict == Spec => []EligibleIsClean
<1>1. IInv => EligibleIsClean
  BY DEF IInv
<1> QED
  BY <1>1, Invariance, PTL

(* A request that a restart of Home Assistant cut in two, or whose start   *)
(* was not seen, never becomes baseline material (cycle.py:27).            *)
RestartedRequestIsEvidence ==
    emitted # None /\ emitted.kind = "cycle_completed" /\ emitted.eligible =>
        closed # None /\ closed \cap {"restart", "unseen_start"} = {}

THEOREM RestartsStayEvidence == Spec => []RestartedRequestIsEvidence
<1>1. EligibleIsClean => RestartedRequestIsEvidence
  BY DEF EligibleIsClean, RestartedRequestIsEvidence
<1> QED
  BY <1>1, BaselineVerdict, PTL
=============================================================================
