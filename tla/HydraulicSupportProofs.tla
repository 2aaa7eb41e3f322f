----------------------- MODULE HydraulicSupportProofs -----------------------
(***************************************************************************)
(* The loan of the boiler threshold, proved for every set of zones, every  *)
(* scale of demands and any number of changes around.                      *)
(***************************************************************************)
EXTENDS HydraulicSupport, FiniteSetTheorems, TLAPS

(***************************************************************************)
(* TypeOK and LentToSupport are inductive together: a run of the guard     *)
(* ends the loan whenever it finds no support, and whoever deselects gives *)
(* the threshold back in the same step.                                    *)
(***************************************************************************)
IInv == TypeOK /\ LentToSupport

-----------------------------------------------------------------------------
(* The bridge is a threshold, and is lowered only below the original one.  *)
LEMMA DesiredIsLevel ==
    ASSUME TypeOK, support # None
    PROVE  Original \in Level /\ Desired \in Level
<1>1. pi[support] \in Level
    BY DEF TypeOK, Zones
<1>2. PiMin \in Level
    BY SupportAssumption
<1> QED
    BY <1>1, <1>2 DEF Desired, Original, TypeOK

(* Giving back and lending leave thresholds behind. *)
LEMMA LoanTypes ==
    ASSUME TypeOK
    PROVE  /\ Restore =>
                  threshold' \in Level /\ saved' \in Level /\ lowered' = FALSE
           /\ support # None /\ Lend =>
                  threshold' \in Level /\ saved' \in Level /\ lowered' = TRUE
BY DesiredIsLevel DEF TypeOK, Restore, Lend

LEMMA DeselectTypes ==
    ASSUME Deselect
    PROVE  /\ support' = None /\ support' \in Candidates \cup {None}
           /\ age' \in 0..2
BY DEF Deselect

LEMMA InitInv == Init => IInv
<1> SUFFICES ASSUME Init PROVE IInv
    OBVIOUS
<1>1. support \in Candidates \cup {None} /\ age \in 0..2
    BY DEF Init
<1>2. threshold \in Level /\ saved \in Level
    BY DEF Init, Whole
<1>3. pi \in [Zones -> Level] /\ live \subseteq Candidates
    BY SupportAssumption DEF Init
<1> QED
    BY <1>1, <1>2, <1>3, Zenon DEF Init, IInv, TypeOK, LentToSupport

(* No branch of the guard leaves the threshold lowered without a support.  *)
LEMMA GuardInv ==
    ASSUME IInv, Guard
    PROVE  IInv'
<1> USE DEF IInv, world, loan
<1>1. CASE GuardFindsNone
    BY <1>1, LoanTypes DEF GuardFindsNone, Looks, TypeOK, LentToSupport
<1>2. CASE GuardReleases
    BY <1>2, LoanTypes, DeselectTypes
    DEF GuardReleases, ReleaseEnds, Looks, TypeOK, LentToSupport
<1>3. CASE GuardSettles
    BY <1>3, LoanTypes DEF GuardSettles, Looks, TypeOK, LentToSupport
<1>4. CASE GuardReopens
    BY <1>4, LoanTypes DEF GuardReopens, Looks, TypeOK, LentToSupport
<1>5. CASE GuardGivesUp
    BY <1>5, LoanTypes, DeselectTypes
    DEF GuardGivesUp, Looks, TypeOK, LentToSupport
<1>6. CASE GuardWaits
    BY <1>6, LoanTypes DEF GuardWaits, Looks, TypeOK, LentToSupport
<1>7. CASE GuardConfirms
    BY <1>7, LoanTypes DEF GuardConfirms, Looks, TypeOK, LentToSupport
<1>8. CASE GuardApplied
    BY <1>8 DEF GuardApplied, TypeOK, LentToSupport
<1> QED
    BY <1>1, <1>2, <1>3, <1>4, <1>5, <1>6, <1>7, <1>8 DEF Guard

(* The start gives the threshold back before it lets its support go.       *)
LEMMA StartInv ==
    ASSUME IInv, Start
    PROVE  IInv'
<1> USE DEF IInv, world, loan, Idle
<1>1. CASE StartApplied
    BY <1>1 DEF StartApplied, TypeOK, LentToSupport
<1>2. CASE StartSucceeds
    BY <1>2 DEF StartSucceeds, TypeOK, LentToSupport
<1>3. ASSUME NEW cool \in BOOLEAN, Abandons(cool)
      PROVE  IInv'
    <2>1. /\ threshold' \in Level /\ saved' \in Level
          /\ lowered' = FALSE
          /\ support' \in Candidates \cup {None} /\ age' \in 0..2
          /\ support' = None
        BY <1>3, LoanTypes, DeselectTypes DEF Abandons
    <2>2. guard' \in {"idle", "delay"}
        BY <1>3 DEF Abandons, Triggered, TypeOK
    <2>3. cooldown' \in BOOLEAN
        BY <1>3 DEF Abandons, TypeOK
    <2> QED
        BY <1>3, <2>1, <2>2, <2>3 DEF Abandons, TypeOK, LentToSupport
<1> QED
    BY <1>1, <1>2, <1>3 DEF Start, StartAborts, StartFails

(* Selecting, people, valves, clocks and restarts. *)
LEMMA AroundInv ==
    ASSUME IInv,
           \/ \E z \in Candidates : StartSelects(z)
           \/ Minute \/ WorldChanges \/ SetThreshold
           \/ Tick \/ CooldownEnds \/ Restart
    PROVE  IInv'
<1> USE DEF IInv, world, loan, Idle
<1>1. CASE \E z \in Candidates : StartSelects(z)
    BY <1>1 DEF StartSelects, TypeOK, LentToSupport
<1>2. CASE Minute
    BY <1>2 DEF Minute, TypeOK, LentToSupport
<1>3. CASE WorldChanges
    <2>1. /\ pi' \in [Zones -> Level] /\ live' \subseteq Candidates
          /\ open' \subseteq Candidates /\ needs' \subseteq Candidates
          /\ healthy' \subseteq Candidates /\ permitted' \in BOOLEAN
        BY <1>3 DEF WorldChanges, Flip, TypeOK, Whole
    <2> QED
        BY <1>3, <2>1 DEF WorldChanges, TypeOK, LentToSupport
<1>4. CASE SetThreshold
    BY <1>4 DEF SetThreshold, TypeOK, LentToSupport, Whole
<1>5. CASE Tick
    <2>1. age' \in 0..2
        BY <1>5 DEF Tick, TypeOK
    <2> QED
        BY <1>5, <2>1 DEF Tick, TypeOK, LentToSupport
<1>6. CASE CooldownEnds
    BY <1>6 DEF CooldownEnds, TypeOK, LentToSupport
<1>7. CASE Restart
    BY <1>7 DEF Restart, TypeOK, LentToSupport
<1> QED
    BY <1>1, <1>2, <1>3, <1>4, <1>5, <1>6, <1>7

LEMMA StepInv == IInv /\ [Next]_vars => IInv'
<1> SUFFICES ASSUME IInv, [Next]_vars PROVE IInv'
    OBVIOUS
<1>1. CASE Next
    BY <1>1, GuardInv, StartInv, AroundInv DEF Next
<1>2. CASE UNCHANGED vars
    BY <1>2 DEF vars, loan, world, IInv, TypeOK, LentToSupport
<1> QED
    BY <1>1, <1>2

(* Every reachable state is well formed and lends only to a selected       *)
(* support.                                                                *)
THEOREM SupportInvariant == Spec => []IInv
<1> QED
    BY InitInv, StepInv, PTL DEF Spec

(* Every variable keeps its type: the threshold and what was saved of it   *)
(* stay on the scale of the demands.                                       *)
THEOREM TypeCorrect == Spec => []TypeOK
<1> QED
    BY SupportInvariant, PTL DEF IInv

(* The threshold is lowered only for a support that is selected, whoever   *)
(* of guard, start and restart ends it (automations.yaml, both hydraulic   *)
(* support automations).                                                   *)
THEOREM LoansHaveSupports == Spec => []LentToSupport
<1> QED
    BY SupportInvariant, PTL DEF IInv

-----------------------------------------------------------------------------
(* A step that gives back is a step of the loan, lent or not. *)
LEMMA RestoreGivesBack ==
    ASSUME TypeOK, Restore
    PROVE  [Loan!Next]_Loan!vars
BY DEF TypeOK, Restore, Original, Loan!Next, Loan!GiveBack, Loan!vars

LEMMA LendLends ==
    ASSUME TypeOK, support # None, Desired < Original, Lend
    PROVE  Loan!Next
BY DesiredIsLevel DEF TypeOK, Lend, Original, Loan!Next, Loan!Lend

LEMMA LoanStandsStill ==
    ASSUME UNCHANGED loan
    PROVE  UNCHANGED Loan!vars
BY DEF loan, Original, Loan!vars

LEMMA StepLoan ==
    ASSUME TypeOK, [Next]_vars
    PROVE  [Loan!Next]_Loan!vars
<1>1. CASE Restore
    BY <1>1, RestoreGivesBack
<1>2. CASE UNCHANGED loan
    BY <1>2, LoanStandsStill
<1>3. CASE GuardConfirms
    BY <1>3, RestoreGivesBack, LendLends DEF GuardConfirms
<1>4. CASE SetThreshold
    BY <1>4 DEF SetThreshold, TypeOK, Original, Whole, Loan!Next, Loan!Set
<1>5. Restore \/ UNCHANGED loan \/ GuardConfirms \/ SetThreshold
    <2>1. CASE Guard
        BY <2>1 DEF Guard, GuardFindsNone, GuardReleases, ReleaseEnds,
               GuardSettles, GuardReopens, GuardGivesUp, GuardWaits,
               GuardApplied
    <2>2. CASE Start
        BY <2>2 DEF Start, StartApplied, StartSucceeds, StartAborts,
               StartFails, Abandons
    <2>3. CASE \E z \in Candidates : StartSelects(z)
        BY <2>3 DEF StartSelects
    <2>4. CASE Minute \/ WorldChanges \/ Tick \/ CooldownEnds \/ Restart
        BY <2>4 DEF Minute, WorldChanges, Tick, CooldownEnds, Restart
    <2>5. CASE UNCHANGED vars
        BY <2>5 DEF vars
    <2> QED
        BY <2>1, <2>2, <2>3, <2>4, <2>5 DEF Next
<1> QED
    BY <1>1, <1>2, <1>3, <1>4, <1>5

(* The two automations implement the loan: whatever the guard, the start,  *)
(* people and restarts do in whatever order, what people had set before    *)
(* the first lowering is what comes back.                                  *)
THEOREM ImplementsLoan == Spec => LoanIsKept
<1>1. Init => Loan!Init
    BY DEF Init, Loan!Init, Original, Whole
<1>2. TypeOK /\ [Next]_vars => [Loan!Next]_Loan!vars
    BY StepLoan
<1> QED
    BY <1>1, <1>2, SupportInvariant, PTL
    DEF Spec, LoanIsKept, Loan!Spec, IInv

-----------------------------------------------------------------------------
(* The guard is the only one that lowers a threshold that is not lowered.  *)
LEMMA OnlyConfirmingLends ==
    ASSUME Next, ~lowered, lowered'
    PROVE  GuardConfirms
<1> USE DEF loan
<1>1. CASE Guard
    BY <1>1 DEF Guard, GuardFindsNone, GuardReleases, ReleaseEnds,
           GuardSettles, GuardReopens, GuardGivesUp, GuardWaits,
           GuardApplied, Restore
<1>2. CASE Start
    BY <1>2 DEF Start, StartApplied, StartSucceeds, StartAborts,
           StartFails, Abandons, Restore
<1>3. CASE \E z \in Candidates : StartSelects(z)
    BY <1>3 DEF StartSelects
<1>4. CASE Minute \/ WorldChanges \/ SetThreshold \/ Tick \/ CooldownEnds
             \/ Restart
    BY <1>4 DEF Minute, WorldChanges, SetThreshold, Tick, CooldownEnds,
           Restart
<1> QED
    BY <1>1, <1>2, <1>3, <1>4 DEF Next

LEMMA ModIsBelow ==
    ASSUME NEW n \in Nat, NEW d \in Nat \ {0}
    PROVE  n % d \in Nat /\ n % d <= n
OBVIOUS

(* The demand of a zone is not above what its valve reports. *)
LEMMA DemandIsBelow ==
    ASSUME TypeOK, NEW z \in Zones
    PROVE  /\ pi[z] \in Nat /\ Demand(z) \in Nat
           /\ Demand(z) <= pi[z]
<1>1. pi[z] \in Nat /\ Unit \in Nat \ {0}
    BY SupportAssumption DEF TypeOK
<1>2. pi[z] % Unit \in Nat /\ pi[z] % Unit <= pi[z]
    BY <1>1, ModIsBelow
<1> QED
    BY <1>1, <1>2 DEF Demand, Truncated

(* A bridge that is laid is as high as what the valve of its support       *)
(* reports.                                                                *)
LEMMA BridgeIsReport ==
    ASSUME TypeOK, GuardConfirms, ~lowered, lowered'
    PROVE  /\ support \in Candidates /\ Original = threshold
           /\ threshold' = pi[support]
           /\ pi[support] > 0 /\ pi[support] < threshold
           /\ OneRequester
           /\ UNCHANGED <<pi, live>>
<1>1. /\ support # None /\ OneRequester /\ Feedback(support)
      /\ IF Desired < Original THEN Lend ELSE Restore
      /\ UNCHANGED <<pi, live>>
    BY DEF GuardConfirms, Looks, world
<1>2. Desired < Original /\ Lend
    BY <1>1 DEF Restore
<1>3. Original = threshold /\ support \in Candidates
    BY <1>1 DEF Original, TypeOK
<1>4. /\ pi[support] \in Nat /\ PiMin \in Nat \ {0} /\ threshold \in Nat
      /\ pi[support] >= PiMin
    <2>1. pi[support] \in Level /\ threshold \in Level
        BY <1>3 DEF TypeOK, Zones
    <2> QED
        BY <1>1, <2>1, SupportAssumption DEF Feedback
<1>5. Desired = pi[support]
    BY <1>2, <1>3, <1>4 DEF Desired
<1> QED
    BY <1>1, <1>2, <1>3, <1>4, <1>5 DEF Lend

(* The support is not among the zones that are counted before.  It is      *)
(* added to all of them exactly when its demand shows what it reports.     *)
LEMMA BridgeAddsSupport ==
    ASSUME TypeOK, GuardConfirms, ~lowered, lowered'
    PROVE  /\ Count = 1
           /\ Counted(support, threshold') <=> Shown(support)
           /\ Shown(support) => Count' >= 2
<1> DEFINE before == {z \in Zones : Counted(z, threshold)}
           after == {z \in Zones : Counted(z, threshold')}
<1>1. /\ support \in Candidates /\ Original = threshold
      /\ threshold' = pi[support]
      /\ pi[support] > 0 /\ pi[support] < threshold
      /\ OneRequester
      /\ UNCHANGED <<pi, live>>
    BY BridgeIsReport
<1>2. /\ support \in Zones /\ threshold \in Nat /\ pi[support] \in Nat
      /\ \A z \in Zones : Demand(z) \in Nat
      /\ Demand(support) <= pi[support]
    BY <1>1, SupportAssumption, DemandIsBelow DEF TypeOK, Zones
<1>3. ~Counted(support, threshold)
    BY <1>1, <1>2 DEF Counted
<1>4. Counted(support, threshold') <=> Shown(support)
    BY <1>1, <1>2 DEF Counted, Shown
<1>5. before = Requesters
    BY <1>1, <1>3 DEF Requesters
<1>6. Cardinality(before) = 1
    BY <1>1, <1>5 DEF OneRequester
<1>7. \A z \in before : z \in after
    BY <1>1, <1>2 DEF Counted
<1>8. IsFiniteSet(before) /\ IsFiniteSet(after)
    BY SupportAssumption, FS_Subset
<1>9. Count = Cardinality(before)
    BY DEF Count
<1>10. Count' = Cardinality(after)
    <2>1. Count' = Cardinality({z \in Zones : Demand(z)' > 0
                                               /\ Demand(z)' >= threshold'})
        BY DEF Count, Counted, Zones
    <2>2. ASSUME NEW z \in Zones PROVE Demand(z)' = Demand(z)
        BY <1>1 DEF Demand, Truncated
    <2>3. {z \in Zones : Demand(z)' > 0 /\ Demand(z)' >= threshold'} = after
        BY <2>2 DEF Counted
    <2> QED
        BY <2>1, <2>3
<1>11. support \notin before /\ (Shown(support) => support \in after)
    BY <1>2, <1>3, <1>4
<1> HIDE DEF before, after
<1>12. Cardinality(before \cup {support}) = 2
    <2>1. Cardinality(before \cup {support}) = Cardinality(before) + 1
        BY <1>8, <1>11, FS_AddElement
    <2> QED
        BY <1>6, <2>1
<1>13. ASSUME Shown(support)
       PROVE  Cardinality(before \cup {support}) <= Cardinality(after)
    <2>1. before \cup {support} \in SUBSET after
        BY <1>7, <1>11, <1>13
    <2> QED
        BY <1>8, <2>1, FS_Subset
<1>14. Cardinality(after) \in Nat
    BY <1>8, FS_CardinalityType
<1> QED
    BY <1>4, <1>6, <1>9, <1>10, <1>12, <1>13, <1>14

(* The threshold is lowered only when one zone is counted, and afterwards  *)
(* two are, the support among them, exactly when the zone demand of the    *)
(* support shows what its valve reports (desired_bridge_threshold and the  *)
(* confirmation of the guard, automations.yaml; zona_<zone>_demand).       *)
THEOREM BridgesAreExact == Spec => BridgeIsExact
<1>1. ASSUME TypeOK, Next, ~lowered, lowered'
      PROVE  /\ Count = 1
             /\ Counted(support, threshold') <=> Shown(support)
             /\ Shown(support) => Count' >= 2
    <2>1. GuardConfirms
        BY <1>1, OnlyConfirmingLends
    <2> QED
        BY <1>1, <2>1, BridgeAddsSupport, Zenon
<1>2. TypeOK /\ [Next]_vars =>
          [~lowered /\ lowered' =>
              /\ Count = 1
              /\ Counted(support, threshold') <=> Shown(support)
              /\ Shown(support) => Count' >= 2]_vars
    BY <1>1, Zenon DEF vars, loan
<1> QED
    BY <1>2, TypeCorrect, PTL DEF Spec, BridgeIsExact

=============================================================================
