---------------------------- MODULE ThresholdLoan ---------------------------
(***************************************************************************)
(* What the hydraulic support promises about the boiler's zone threshold,  *)
(* docs/single-zone-hydraulic-support.md: "only when needed, temporarily   *)
(* lower the threshold; the original value is saved and restored".         *)
(*                                                                         *)
(* The threshold belongs to people.  The controller may borrow it, put a   *)
(* lower value in its place, and give back exactly what it had borrowed.   *)
(***************************************************************************)
EXTENDS Integers

CONSTANT Level  \* the values a threshold can have, numbers

VARIABLES own,       \* the value people have set
          threshold, \* the value in force
          lent       \* it is borrowed

vars == <<own, threshold, lent>>

Init ==
    /\ own \in Level
    /\ threshold = own
    /\ lent = FALSE

\* People set the threshold.  While it is lent they only override the loan.
Set ==
    /\ threshold' \in Level
    /\ own' = IF lent THEN own ELSE threshold'
    /\ UNCHANGED lent

Lend ==
    /\ threshold' \in Level
    /\ threshold' < own
    /\ lent' = TRUE
    /\ UNCHANGED own

GiveBack ==
    /\ lent
    /\ lent' = FALSE
    /\ threshold' = own
    /\ UNCHANGED own

Next == Set \/ Lend \/ GiveBack

Spec == Init /\ [][Next]_vars

-----------------------------------------------------------------------------
(* The threshold in force is the one people set, unless it is lent: no     *)
(* lower value outlives the loan.                                          *)
NothingKept == ~lent => threshold = own
=============================================================================
