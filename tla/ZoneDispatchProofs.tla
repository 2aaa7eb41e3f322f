------------------------- MODULE ZoneDispatchProofs ------------------------
(***************************************************************************)
(* What the central dispatch and the script heating_apply_zone_target keep *)
(* for any zones, any length of the script's queue and any interleaving of *)
(* the dispatch, the support automations, people and valves: a run and its *)
(* call come and go together, and no stale decision is written.            *)
(***************************************************************************)
EXTENDS ZoneDispatch, FiniteSetTheorems, SequenceTheorems, TLAPS

Temp == {Eco, Comfort, Floor}

\* What decision inputs ask for: Want, of the inputs a call was made with.
Meant(i) == IF i[1] = "Auto" /\ i[2] THEN Comfort ELSE Eco

(* The calls the automations make: the dispatch says on which inputs its   *)
(* target rests.                                                           *)
Calling ==
    {c \in [by: {"dispatch", "start", "guard"}, zone: Zones, temp: Temp,
            expected: (Mode \X BOOLEAN) \cup {None}] :
        c.by = "dispatch" => c.expected # None /\ c.temp = Meant(c.expected)}

Running == [at: {"idle", "delay", "loop", "calling"},
            intent: {"off", "eco", "auto"}, rest: Seq(Zones)]

Deciding == [target: Temp \cup {None}, inputs: (Mode \X BOOLEAN) \cup {None}]

Types ==
    /\ mode \in Mode /\ window \in SUBSET Zones
    /\ master \in BOOLEAN /\ enabled \in BOOLEAN /\ normal \in BOOLEAN
    /\ support \in SupportZones \cup {None}
    /\ valve \in [Zones -> Temp \cup {None}]
    /\ run \in Running
    /\ calls \in Seq(Calling) /\ Len(calls) <= MaxCalls
    /\ heat \in SUBSET Zones
    /\ step \in {"start", "write", "wait", "backoff", "retry", "wait_again"}
    /\ decision \in Deciding
    /\ notified \in SUBSET Zones /\ refused \in SUBSET Zones

Distinct(cs) == \A i, j \in 1..Len(cs) : cs[i].by = cs[j].by => i = j

Asks(cs, by) == \E i \in 1..Len(cs) : cs[i].by = by

(* Each automation has one call at most, and the run of the dispatch waits *)
(* exactly when the script has its call.                                   *)
Paired ==
    /\ Distinct(calls)
    /\ Asks(calls, "dispatch") <=> run.at = "calling"

(* What the executing call decided rests on inputs under which heating is  *)
(* wanted, and for the dispatch on those it was called with.               *)
Decided ==
    IF step = "start" THEN decision = Undecided
    ELSE /\ calls # <<>>
         /\ decision.inputs \in Mode \X BOOLEAN
         /\ decision.inputs[1] # "Off"
         /\ decision.target \in {This.temp, Floor}
         /\ This.by = "dispatch" => decision.inputs = This.expected

IInv == Types /\ Paired /\ Decided

-----------------------------------------------------------------------------
(***************************************************************************)
(* The queue of the script.                                                *)
(***************************************************************************)
LEMMA AppendAdds ==
    ASSUME NEW cs \in Seq(Calling), NEW c \in Calling,
           Distinct(cs), ~Asks(cs, c.by)
    PROVE  /\ Append(cs, c) \in Seq(Calling)
           /\ Len(Append(cs, c)) = Len(cs) + 1
           /\ Distinct(Append(cs, c))
           /\ \A by : Asks(Append(cs, c), by) <=> Asks(cs, by) \/ c.by = by
           /\ cs # <<>> => Append(cs, c)[1] = cs[1]
<1> DEFINE new == Append(cs, c)
<1>1. /\ new \in Seq(Calling) /\ Len(new) = Len(cs) + 1 /\ Len(cs) \in Nat
      /\ \A i \in 1..Len(cs) : new[i] = cs[i]
      /\ new[Len(cs) + 1] = c
  OBVIOUS
<1>2. cs # <<>> => new[1] = cs[1]
  OBVIOUS
<1> HIDE DEF new
<1>3. Distinct(new)
  BY <1>1 DEF Distinct, Asks
<1>4. ASSUME NEW by
      PROVE  Asks(new, by) <=> Asks(cs, by) \/ c.by = by
  BY <1>1 DEF Asks
<1>5. /\ new \in Seq(Calling) /\ Len(new) = Len(cs) + 1 /\ Distinct(new)
      /\ \A by : Asks(new, by) <=> Asks(cs, by) \/ c.by = by
      /\ cs # <<>> => new[1] = cs[1]
  BY <1>1, <1>2, <1>3, <1>4
<1> QED
  BY <1>5 DEF new

LEMMA TailDrops ==
    ASSUME NEW cs \in Seq(Calling), cs # <<>>, Distinct(cs)
    PROVE  /\ Tail(cs) \in Seq(Calling)
           /\ Len(Tail(cs)) = Len(cs) - 1
           /\ Distinct(Tail(cs))
           /\ \A by : Asks(Tail(cs), by) <=> Asks(cs, by) /\ cs[1].by # by
<1> DEFINE new == Tail(cs)
<1>1. /\ new \in Seq(Calling) /\ Len(new) = Len(cs) - 1
      /\ Len(cs) \in Nat /\ Len(cs) > 0
      /\ \A i \in 1..Len(new) : new[i] = cs[i + 1]
  OBVIOUS
<1> HIDE DEF new
<1>2. Distinct(new)
  <2> SUFFICES ASSUME NEW i \in 1..Len(new), NEW j \in 1..Len(new),
                      new[i].by = new[j].by
               PROVE  i = j
    BY DEF Distinct
  <2>1. i + 1 \in 1..Len(cs) /\ j + 1 \in 1..Len(cs)
    BY <1>1
  <2>2. i + 1 = j + 1
    BY <1>1, <2>1 DEF Distinct
  <2> QED
    BY <1>1, <2>2
<1>3. ASSUME NEW by
      PROVE  Asks(new, by) <=> Asks(cs, by) /\ cs[1].by # by
  <2>1. ASSUME Asks(new, by)
        PROVE  Asks(cs, by) /\ cs[1].by # by
    <3>1. PICK i \in 1..Len(new) : new[i].by = by
      BY <2>1 DEF Asks
    <3>2. i + 1 \in 1..Len(cs) /\ 1 \in 1..Len(cs) /\ i + 1 # 1
      BY <1>1
    <3> QED
      BY <1>1, <3>1, <3>2 DEF Asks, Distinct
  <2>2. ASSUME Asks(cs, by), cs[1].by # by
        PROVE  Asks(new, by)
    <3>1. PICK i \in 1..Len(cs) : cs[i].by = by
      BY <2>2 DEF Asks
    <3>2. i - 1 \in 1..Len(new) /\ (i - 1) + 1 = i
      BY <1>1, <2>2, <3>1
    <3> QED
      BY <1>1, <3>1, <3>2 DEF Asks
  <2> QED
    BY <2>1, <2>2
<1>4. /\ new \in Seq(Calling) /\ Len(new) = Len(cs) - 1 /\ Distinct(new)
      /\ \A by : Asks(new, by) <=> Asks(cs, by) /\ cs[1].by # by
  BY <1>1, <1>2, <1>3
<1> QED
  BY <1>4 DEF new

(* A run that goes takes its one call with it and leaves the others in     *)
(* their order.                                                            *)
LEMMA CancelRemoves ==
    ASSUME NEW cs \in Seq(Calling), NEW by, Distinct(cs)
    PROVE  /\ Cancelled(by, cs) \in Seq(Calling)
           /\ Len(Cancelled(by, cs)) <= Len(cs)
           /\ Distinct(Cancelled(by, cs))
           /\ \A b : Asks(Cancelled(by, cs), b) <=> Asks(cs, b) /\ b # by
<1>1. CASE \A i \in DOMAIN cs : cs[i].by # by
  <2>1. Cancelled(by, cs) = cs
    BY <1>1 DEF Cancelled
  <2> QED
    BY <1>1, <2>1 DEF Asks
<1>2. CASE \E i \in DOMAIN cs : cs[i].by = by
  <2>1. PICK i : i = CHOOSE j \in DOMAIN cs : cs[j].by = by
    OBVIOUS
  <2>2. i \in 1..Len(cs) /\ cs[i].by = by /\ Len(cs) \in Nat
    BY <1>2, <2>1
  <2>3. PICK new : new = SubSeq(cs, 1, i - 1) \o SubSeq(cs, i + 1, Len(cs))
    OBVIOUS
  <2>4. Cancelled(by, cs) = new
    BY <1>2, <2>1, <2>3 DEF Cancelled
  <2>5. /\ new \in Seq(Calling) /\ Len(new) = Len(cs) - 1
        /\ \A j \in 1..Len(new) :
             new[j] = IF j < i THEN cs[j] ELSE cs[j + 1]
    <3> DEFINE a == SubSeq(cs, 1, i - 1)
               b == SubSeq(cs, i + 1, Len(cs))
    <3>1. /\ a \in Seq(Calling) /\ Len(a) = i - 1
          /\ \A j \in 1..i - 1 : a[j] = cs[j]
      BY <2>2
    <3>2. /\ b \in Seq(Calling) /\ Len(b) = Len(cs) - i
          /\ \A j \in 1..Len(cs) - i : b[j] = cs[i + j]
      BY <2>2
    <3>3. new = a \o b
      BY <2>3
    <3> HIDE DEF a, b
    <3>4. /\ new \in Seq(Calling) /\ Len(new) = Len(a) + Len(b)
          /\ \A j \in 1..Len(new) :
               new[j] = IF j <= Len(a) THEN a[j] ELSE b[j - Len(a)]
      <4>1. a \in Seq(Calling) /\ b \in Seq(Calling)
        BY <3>1, <3>2
      <4>2. /\ a \o b \in Seq(Calling) /\ Len(a \o b) = Len(a) + Len(b)
            /\ \A j \in 1..Len(a) + Len(b) :
                 (a \o b)[j] = IF j <= Len(a) THEN a[j] ELSE b[j - Len(a)]
        BY ONLY <4>1, ConcatProperties
      <4> QED
        BY ONLY <3>3, <4>2
    <3>5. ASSUME NEW j \in 1..Len(new)
          PROVE  new[j] = IF j < i THEN cs[j] ELSE cs[j + 1]
      <4>1. CASE j < i
        <5>1. j <= Len(a) /\ j \in 1..i - 1
          BY <2>2, <3>1, <3>4, <4>1
        <5> QED
          BY <3>1, <3>4, <4>1, <5>1
      <4>2. CASE j >= i
        <5>1. /\ i \in Int /\ j \in Int /\ Len(cs) \in Int /\ Len(a) = i - 1
              /\ 1 <= j /\ j <= Len(a) + Len(b) /\ Len(b) = Len(cs) - i
          BY <2>2, <3>1, <3>2, <3>4
        <5>2. ~(j <= Len(a)) /\ j - (i - 1) \in 1..Len(cs) - i
          BY ONLY <4>2, <5>1
        <5>3. new[j] = b[j - (i - 1)]
          BY <3>4, <5>1, <5>2
        <5>4. i + (j - (i - 1)) = j + 1 /\ ~(j < i)
          BY ONLY <4>2, <5>1
        <5> QED
          BY <3>2, <5>2, <5>3, <5>4
      <4> QED
        BY <2>2, <4>1, <4>2
    <3> QED
      BY <2>2, <3>1, <3>2, <3>4, <3>5
  <2> DEFINE k(j) == IF j < i THEN j ELSE j + 1
  <2>6. \A j \in 1..Len(new) :
          k(j) \in 1..Len(cs) /\ k(j) # i /\ new[j] = cs[k(j)]
    BY <2>2, <2>5
  <2>7. Distinct(new)
    <3> SUFFICES ASSUME NEW j \in 1..Len(new), NEW l \in 1..Len(new),
                        new[j].by = new[l].by
                 PROVE  j = l
      BY DEF Distinct
    <3>1. k(j) = k(l)
      BY <2>6 DEF Distinct
    <3> QED
      BY <2>2, <2>5, <3>1
  <2>8. ASSUME NEW b
        PROVE  Asks(new, b) <=> Asks(cs, b) /\ b # by
    <3>1. ASSUME Asks(new, b)
          PROVE  Asks(cs, b) /\ b # by
      <4>1. PICK j \in 1..Len(new) : new[j].by = b
        BY <3>1 DEF Asks
      <4>2. cs[k(j)].by = b /\ k(j) \in 1..Len(cs) /\ k(j) # i
        BY <2>6, <4>1
      <4> HIDE DEF k
      <4> QED
        BY <2>2, <4>2 DEF Asks, Distinct
    <3>2. ASSUME Asks(cs, b), b # by
          PROVE  Asks(new, b)
      <4>1. PICK j \in 1..Len(cs) : cs[j].by = b
        BY <3>2 DEF Asks
      <4>2. j # i
        BY <2>2, <3>2, <4>1
      <4>3. CASE j < i
        BY <2>2, <2>5, <4>1, <4>3 DEF Asks
      <4>4. CASE j > i
        <5>1. j - 1 \in 1..Len(new) /\ (j - 1) + 1 = j /\ ~(j - 1 < i)
          BY <2>2, <2>5, <4>4
        <5> QED
          BY <2>5, <4>1, <5>1 DEF Asks
      <4> QED
        BY <2>2, <4>2, <4>3, <4>4
    <3> QED
      BY <3>1, <3>2
  <2> QED
    BY <2>2, <2>4, <2>5, <2>7, <2>8
<1> QED
  BY <1>1, <1>2

(* What the three things that happen to the queue do to the invariant.     *)
LEMMA CallAdded ==
    ASSUME IInv, NEW c \in Calling, ~Asks(calls, c.by), Room(calls),
           calls' = Append(calls, c), UNCHANGED <<step, decision>>
    PROVE  /\ calls' \in Seq(Calling) /\ Len(calls') <= MaxCalls
           /\ Distinct(calls')
           /\ \A by : Asks(calls', by) <=> Asks(calls, by) \/ c.by = by
           /\ Decided'
<1> USE DEF IInv
<1>1. calls \in Seq(Calling) /\ Distinct(calls) /\ Len(calls) < MaxCalls
  BY DEF Types, Paired, Room
<1>2. MaxCalls \in Nat
  BY DispatchAssumption
<1>3. /\ calls' \in Seq(Calling) /\ Len(calls') = Len(calls) + 1
      /\ Distinct(calls')
      /\ \A by : Asks(calls', by) <=> Asks(calls, by) \/ c.by = by
      /\ calls # <<>> => calls'[1] = calls[1]
  BY <1>1, AppendAdds
<1>4. Len(calls') <= MaxCalls /\ calls' # <<>>
  BY <1>1, <1>2, <1>3
<1>5. Decided'
  BY <1>3, <1>4 DEF Decided, This
<1> QED
  BY <1>3, <1>4, <1>5

LEMMA CallCancelled ==
    ASSUME IInv, NEW by, calls' = Cancelled(by, calls), Rewind(calls')
    PROVE  /\ calls' \in Seq(Calling) /\ Len(calls') <= MaxCalls
           /\ Distinct(calls')
           /\ \A b : Asks(calls', b) <=> Asks(calls, b) /\ b # by
           /\ step' \in {step, "start"} /\ decision' \in Deciding
           /\ Decided'
<1> USE DEF IInv
<1>1. calls \in Seq(Calling) /\ Distinct(calls) /\ Len(calls) <= MaxCalls
  BY DEF Types, Paired
<1>2. MaxCalls \in Nat
  BY DispatchAssumption
<1>3. /\ calls' \in Seq(Calling) /\ Len(calls') <= Len(calls)
      /\ Distinct(calls')
      /\ \A b : Asks(calls', b) <=> Asks(calls, b) /\ b # by
  BY <1>1, CancelRemoves
<1>4. Len(calls') <= MaxCalls
  BY <1>1, <1>2, <1>3
<1>5. Undecided \in Deciding
  BY DEF Undecided, Deciding
<1>6. CASE /\ calls' # <<>> /\ calls # <<>> /\ calls'[1] = calls[1]
           /\ UNCHANGED <<step, decision>>
  BY <1>3, <1>4, <1>6 DEF Decided, This, Types
<1>7. CASE step' = "start" /\ decision' = Undecided
  BY <1>3, <1>4, <1>5, <1>7 DEF Decided
<1> QED
  BY <1>6, <1>7 DEF Rewind

LEMMA CallReturns ==
    ASSUME IInv, calls # <<>>, Returns
    PROVE  /\ calls' \in Seq(Calling) /\ Len(calls') <= MaxCalls
           /\ run' \in Running
           /\ step' = "start" /\ decision' = Undecided
           /\ decision' \in Deciding
           /\ Paired' /\ Decided'
<1> USE DEF IInv
<1>1. calls \in Seq(Calling) /\ Distinct(calls) /\ Len(calls) <= MaxCalls
      /\ run \in Running
  BY DEF Types, Paired
<1>2. MaxCalls \in Nat
  BY DispatchAssumption
<1>3. calls' = Tail(calls) /\ step' = "start" /\ decision' = Undecided
      /\ run' = IF calls[1].by = "dispatch" THEN [run EXCEPT !.at = "loop"]
                ELSE run
  BY DEF Returns, This
<1>4. /\ calls' \in Seq(Calling) /\ Len(calls') = Len(calls) - 1
      /\ Distinct(calls')
      /\ \A by : Asks(calls', by) <=> Asks(calls, by) /\ calls[1].by # by
  BY <1>1, <1>3, TailDrops
<1>5. Len(calls') <= MaxCalls
  BY <1>1, <1>2, <1>4
<1>6. run' \in Running /\ run'.at = IF calls[1].by = "dispatch" THEN "loop"
                                    ELSE run.at
  BY <1>1, <1>3 DEF Running
<1>7. Paired'
  <2>1. Asks(calls, calls[1].by)
    BY <1>1 DEF Asks
  <2> QED
    BY <1>4, <1>6, <2>1 DEF Paired
<1>8. Decided'
  BY <1>3 DEF Decided
<1>9. Undecided \in Deciding
  BY DEF Undecided, Deciding
<1> QED
  BY <1>3, <1>4, <1>5, <1>6, <1>7, <1>8, <1>9

-----------------------------------------------------------------------------
(***************************************************************************)
(* The steps.                                                              *)
(***************************************************************************)
USE DEF inputs, script

LEMMA NoneIsNothing == None \notin Temp /\ None \notin Mode \X BOOLEAN
BY DispatchAssumption DEF Temp

LEMMA IdleRuns == Idle \in Running /\ Idle.at = "idle"
<1>1. <<>> \in Seq(Zones)
  OBVIOUS
<1> QED
  BY <1>1 DEF Idle, Running

LEMMA InputsAreInputs ==
    ASSUME IInv, NEW z
    PROVE  Inputs(z) \in Mode \X BOOLEAN /\ Want(z) = Meant(Inputs(z))
<1>1. mode \in Mode
  BY DEF IInv, Types
<1>2. CASE z \in window
  <2>1. (z \in window) = TRUE
    BY <1>2
  <2>2. Inputs(z) = <<mode, TRUE>>
    BY <2>1, Zenon DEF Inputs
  <2>3. Meant(<<mode, TRUE>>) = IF mode = "Auto" THEN Comfort ELSE Eco
    BY DEF Meant
  <2>4. Want(z) = IF mode = "Auto" THEN Comfort ELSE Eco
    BY <1>2 DEF Want
  <2>5. <<mode, TRUE>> \in Mode \X BOOLEAN
    BY <1>1
  <2> QED
    BY <2>2, <2>3, <2>4, <2>5
<1>3. CASE z \notin window
  <2>1. (z \in window) = FALSE
    BY <1>3
  <2>2. Inputs(z) = <<mode, FALSE>>
    BY <2>1, Zenon DEF Inputs
  <2>3. Meant(<<mode, FALSE>>) = Eco
    BY DEF Meant
  <2>4. Want(z) = Eco
    BY <1>3 DEF Want
  <2>5. <<mode, FALSE>> \in Mode \X BOOLEAN
    BY <1>1
  <2> QED
    BY <2>2, <2>3, <2>4, <2>5
<1> QED
  BY <1>2, <1>3

LEMMA InitInv == Init => IInv
<1> SUFFICES ASSUME Init PROVE IInv
  OBVIOUS
<1> USE DEF Init
<1>1. Types
  <2>1. run \in Running
    BY DEF Idle, Running
  <2>2. decision \in Deciding
    BY DEF Undecided, Deciding
  <2>3. valve \in [Zones -> Temp \cup {None}]
    BY DEF Temp
  <2>4. MaxCalls \in Nat
    BY DispatchAssumption
  <2>5. calls \in Seq(Calling) /\ Len(calls) <= MaxCalls
    BY <2>4
  <2>6. mode \in Mode
    BY DEF Mode
  <2> QED
    BY <2>1, <2>2, <2>3, <2>5, <2>6 DEF Types
<1>2. Paired /\ Decided
  BY DEF Paired, Distinct, Asks, Decided, Idle
<1> QED
  BY <1>1, <1>2 DEF IInv

LEMMA ThisCalls ==
    ASSUME IInv, calls # <<>>
    PROVE  /\ This \in Calling /\ This.zone \in Zones /\ This.temp \in Temp
           /\ This.by \in {"dispatch", "start", "guard"}
BY DEF IInv, Types, This, Calling

\* A step of the script that ends the call, with or without a notification.
LEMMA EndsStep ==
    ASSUME IInv, calls # <<>>, Stops \/ Confirms \/ Fails,
           UNCHANGED <<inputs, valve, heat, due, refused, changes>>
    PROVE  IInv'
<1>1. Returns /\ notified' \in SUBSET Zones
  BY ThisCalls DEF IInv, Types, Stops, Confirms, Fails
<1>2. /\ calls' \in Seq(Calling) /\ Len(calls') <= MaxCalls
      /\ run' \in Running
      /\ step' = "start" /\ decision' \in Deciding
      /\ Paired' /\ Decided'
  BY <1>1, CallReturns
<1>3. Types'
  BY <1>1, <1>2 DEF IInv, Types
<1> QED
  BY <1>2, <1>3 DEF IInv

LEMMA SendSends ==
    ASSUME IInv, NEW target \in Temp, Send(target) \/ TurnToHeat, calls # <<>>
    PROVE  valve' \in [Zones -> Temp \cup {None}] /\ heat' \in SUBSET Zones
<1>1. CASE Send(target)
  BY <1>1 DEF Send, IInv, Types
<1>2. CASE TurnToHeat
  BY <1>2, ThisCalls DEF TurnToHeat, IInv, Types
<1> QED
  BY <1>1, <1>2

LEMMA GoesOnStep ==
    ASSUME IInv, NEW to \in {"wait", "backoff", "retry", "wait_again"},
           GoesTo(to), step # "start",
           valve' \in [Zones -> Temp \cup {None}], heat' \in SUBSET Zones,
           UNCHANGED <<inputs, due, refused, changes>>
    PROVE  IInv'
<1>1. Types'
  BY DEF IInv, Types, GoesTo
<1>2. Paired' /\ Decided'
  BY DEF IInv, Paired, Decided, GoesTo, This
<1> QED
  BY <1>1, <1>2 DEF IInv

LEMMA BeginStep ==
    ASSUME IInv, Begin
    PROVE  IInv'
<1> DEFINE target == IF Supporting(This.zone) THEN Floor ELSE This.temp
<1>1. calls # <<>> /\ step = "start" /\ UNCHANGED <<inputs, due, refused, changes>>
  BY DEF Begin
<1>2. CASE Stops /\ UNCHANGED <<valve, heat>>
  BY <1>1, <1>2, EndsStep
<1>3. CASE /\ mode # "Off" /\ AsExpected(This)
           /\ decision' = [target |-> target, inputs |-> Inputs(This.zone)]
           /\ step' \in {"wait", "write"} /\ (Send(target) \/ TurnToHeat)
           /\ UNCHANGED <<calls, run, notified>>
  <2>1. Inputs(This.zone) \in Mode \X BOOLEAN /\ Inputs(This.zone)[1] = mode
    BY InputsAreInputs DEF Inputs
  <2>2. /\ decision'.inputs = Inputs(This.zone)
        /\ decision'.target \in {This.temp, Floor}
    BY <1>3
  <2>3. target \in Temp
    BY <1>1, ThisCalls DEF Temp
  <2>4. decision' \in Deciding
    BY <1>3, <2>1, <2>3 DEF Deciding
  <2>5. valve' \in [Zones -> Temp \cup {None}] /\ heat' \in SUBSET Zones
    BY <1>1, <1>3, <2>3, SendSends
  <2>6. Types'
    BY <1>1, <1>3, <2>4, <2>5 DEF IInv, Types
  <2>7. Paired'
    BY <1>3 DEF IInv, Paired
  <2>8. This.by = "dispatch" => This.expected # None
    BY <1>1, ThisCalls DEF Calling
  <2>9. Decided'
    BY <1>1, <1>3, <2>1, <2>2, <2>8 DEF Decided, AsExpected, This
  <2> QED
    BY <2>6, <2>7, <2>9 DEF IInv
<1> QED
  BY <1>2, <1>3 DEF Begin

LEMMA WriteStep ==
    ASSUME IInv, Write \/ Retry \/ Resend
    PROVE  IInv'
<1>1. /\ calls # <<>> /\ step # "start"
      /\ UNCHANGED <<inputs, due, refused, changes>>
  BY DEF Write, Retry, Resend
<1>2. decision.target \in Temp
  BY <1>1, ThisCalls DEF IInv, Decided, Temp
<1>3. CASE Stops /\ UNCHANGED <<valve, heat>>
  BY <1>1, <1>3, EndsStep
<1>4. CASE /\ Send(decision.target) \/ TurnToHeat
           /\ \E to \in {"wait", "retry", "wait_again"} : GoesTo(to)
  <2>1. valve' \in [Zones -> Temp \cup {None}] /\ heat' \in SUBSET Zones
    BY <1>1, <1>2, <1>4, SendSends
  <2> QED
    BY <1>1, <1>4, <2>1, GoesOnStep
<1> QED
  BY <1>3, <1>4 DEF Write, Retry, Resend

LEMMA WaitEndsStep ==
    ASSUME IInv, FirstWaitEnds \/ SecondWaitEnds
    PROVE  IInv'
<1>1. /\ calls # <<>> /\ step \in {"wait", "wait_again"}
      /\ UNCHANGED <<inputs, valve, heat, due, refused, changes>>
      /\ Stops \/ Confirms \/ Fails \/ GoesTo("backoff")
  BY DEF FirstWaitEnds, SecondWaitEnds
<1>2. CASE Stops \/ Confirms \/ Fails
  BY <1>1, <1>2, EndsStep
<1>3. CASE GoesTo("backoff")
  BY <1>1, <1>3, GoesOnStep DEF IInv, Types
<1> QED
  BY <1>1, <1>2, <1>3

LEMMA FireStep ==
    ASSUME IInv, Fire
    PROVE  IInv'
<1>1. /\ due' \in BOOLEAN
      /\ UNCHANGED <<inputs, valve, heat, notified, refused, changes>>
  BY DEF Fire
<1>2. CASE Permitted
  <2>1. /\ run' = [Idle EXCEPT !.at = "delay"]
        /\ calls' = Cancelled("dispatch", calls) /\ Rewind(calls')
    BY <1>2 DEF Fire
  <2>2. run' \in Running /\ run'.at = "delay"
    BY <2>1, IdleRuns DEF Running
  <2>3. /\ calls' \in Seq(Calling) /\ Len(calls') <= MaxCalls
        /\ Distinct(calls') /\ ~Asks(calls', "dispatch")
        /\ step' \in {step, "start"} /\ decision' \in Deciding
        /\ Decided'
    BY <2>1, CallCancelled
  <2>4. Types'
    BY <1>1, <2>2, <2>3 DEF IInv, Types
  <2> QED
    BY <2>2, <2>3, <2>4 DEF IInv, Paired
<1>3. CASE ~Permitted
  BY <1>1, <1>3 DEF Fire, IInv, Types, Paired, Decided, This
<1> QED
  BY <1>2, <1>3

LEMMA DispatchStep ==
    ASSUME IInv, DelayEnds \/ LoopEnds
    PROVE  IInv'
<1>1. /\ run.at \in {"delay", "loop"}
      /\ \/ run' = [at |-> "loop", intent |-> Intent, rest |-> ZoneOrder]
         \/ run' = Idle
      /\ UNCHANGED <<inputs, valve, heat, due, script, notified, refused, changes>>
  BY DEF DelayEnds, LoopEnds
<1>2. run' \in Running /\ run'.at # "calling"
  <2>1. ZoneOrder \in Seq(Zones) /\ Intent \in {"off", "eco", "auto"}
    BY DispatchAssumption DEF Intent
  <2> QED
    BY <1>1, <2>1, IdleRuns DEF Running
<1>3. Types'
  BY <1>1, <1>2 DEF IInv, Types
<1>4. Paired' /\ Decided'
  BY <1>1, <1>2 DEF IInv, Paired, Decided, This
<1> QED
  BY <1>3, <1>4 DEF IInv

LEMMA VisitStep ==
    ASSUME IInv, Visit
    PROVE  IInv'
<1> DEFINE z == Head(run.rest)
           left == [run EXCEPT !.rest = Tail(@)]
           c == Call("dispatch", z, Want(z), Inputs(z))
<1>1. /\ run \in Running /\ run.at = "loop" /\ run.rest # <<>>
      /\ UNCHANGED <<inputs, valve, heat, due, step, decision, notified, changes>>
  BY DEF Visit, IInv, Types
<1>2. z \in Zones /\ left \in Running /\ left.at = "loop"
  <2>1. run.rest \in Seq(Zones)
    BY <1>1 DEF Running
  <2>2. z \in Zones /\ Tail(run.rest) \in Seq(Zones)
    BY <1>1, <2>1
  <2> QED
    BY <1>1, <2>2 DEF Running
<1>3. \/ /\ Room(calls) /\ calls' = Append(calls, c)
         /\ run' = [left EXCEPT !.at = "calling"]
         /\ refused' = refused \ {z}
      \/ /\ run' = left /\ refused' \in {refused, refused \cup {z}}
         /\ UNCHANGED calls
  BY DEF Visit
<1>4. c \in Calling /\ c.by = "dispatch"
  BY <1>2, InputsAreInputs, NoneIsNothing DEF Call, Calling, Want, Temp
<1> HIDE DEF z, left, c
<1>5. refused' \in SUBSET Zones
  BY <1>2, <1>3 DEF IInv, Types
<1>6. CASE /\ Room(calls) /\ calls' = Append(calls, c)
           /\ run' = [left EXCEPT !.at = "calling"]
  <2>1. run' \in Running /\ run'.at = "calling"
    BY <1>2, <1>6 DEF Running
  <2>2. ~Asks(calls, "dispatch")
    BY <1>1 DEF IInv, Paired
  <2>3. /\ calls' \in Seq(Calling) /\ Len(calls') <= MaxCalls
        /\ Distinct(calls') /\ Asks(calls', "dispatch") /\ Decided'
    BY <1>1, <1>4, <1>6, <2>2, CallAdded
  <2>4. Types'
    BY <1>1, <1>5, <2>1, <2>3 DEF IInv, Types
  <2> QED
    BY <2>1, <2>3, <2>4 DEF IInv, Paired
<1>7. CASE run' = left /\ UNCHANGED calls
  <2>1. Types'
    BY <1>1, <1>2, <1>5, <1>7 DEF IInv, Types
  <2>2. Paired' /\ Decided'
    BY <1>1, <1>2, <1>7 DEF IInv, Paired, Decided, This
  <2> QED
    BY <2>1, <2>2 DEF IInv
<1> QED
  BY <1>3, <1>6, <1>7

LEMMA SupportCalls ==
    ASSUME IInv, NEW by \in {"start", "guard"}, NEW z \in Zones,
           CallsOf(by) = {}, Room(calls),
           calls' = Append(calls, Call(by, z, Floor, None)),
           UNCHANGED <<run, step, decision>>
    PROVE  /\ calls' \in Seq(Calling) /\ Len(calls') <= MaxCalls
           /\ Paired' /\ Decided'
<1> DEFINE c == Call(by, z, Floor, None)
<1>1. c \in Calling /\ c.by = by
  BY DEF Call, Calling, Temp
<1>2. ~Asks(calls, by)
  BY DEF CallsOf, Asks, IInv, Types
<1> HIDE DEF c
<1>3. calls' = Append(calls, c)
  BY DEF c
<1>4. /\ calls' \in Seq(Calling) /\ Len(calls') <= MaxCalls
      /\ Distinct(calls')
      /\ \A b : Asks(calls', b) <=> Asks(calls, b) \/ c.by = b
      /\ Decided'
  BY <1>1, <1>2, <1>3, CallAdded
<1> QED
  BY <1>1, <1>4 DEF IInv, Paired

LEMMA SelectStep ==
    ASSUME IInv, NEW z \in SupportZones, Select(z)
    PROVE  IInv'
<1>1. /\ support' = z /\ z \in Zones /\ CallsOf("start") = {}
      /\ UNCHANGED <<mode, window, master, enabled, normal, valve, heat, due,
                     run, step, decision, notified, refused>>
      /\ \/ Room(calls) /\ calls' = Append(calls, Call("start", z, Floor, None))
         \/ calls' = calls
  BY DispatchAssumption DEF Select
<1>2. calls' \in Seq(Calling) /\ Len(calls') <= MaxCalls /\ Paired' /\ Decided'
  <2>1. CASE calls' = calls
    BY <1>1, <2>1 DEF IInv, Types, Paired, Decided, This
  <2>2. CASE Room(calls) /\ calls' = Append(calls, Call("start", z, Floor, None))
    BY <1>1, <2>2, SupportCalls
  <2> QED
    BY <1>1, <2>1, <2>2
<1>3. Types'
  BY <1>1, <1>2 DEF IInv, Types
<1> QED
  BY <1>2, <1>3 DEF IInv

LEMMA DeselectStep ==
    ASSUME IInv, Deselect
    PROVE  IInv'
<1>1. /\ support' = None /\ due' = TRUE
      /\ calls' = Cancelled("guard", calls) /\ Rewind(calls')
      /\ UNCHANGED <<mode, window, master, enabled, normal, valve, heat, run,
                     notified, refused>>
  BY DEF Deselect, Released
<1>2. /\ calls' \in Seq(Calling) /\ Len(calls') <= MaxCalls
      /\ Distinct(calls')
      /\ \A b : Asks(calls', b) <=> Asks(calls, b) /\ b # "guard"
      /\ step' \in {step, "start"} /\ decision' \in Deciding
      /\ Decided'
  BY <1>1, CallCancelled
<1>3. Types'
  BY <1>1, <1>2 DEF IInv, Types
<1>4. Paired'
  BY <1>1, <1>2 DEF IInv, Paired
<1> QED
  BY <1>2, <1>3, <1>4 DEF IInv

LEMMA MaintainStep ==
    ASSUME IInv, Maintain
    PROVE  IInv'
<1>1. /\ support \in Zones /\ CallsOf("guard") = {} /\ Room(calls)
      /\ calls' = Append(calls, Call("guard", support, Floor, None))
      /\ UNCHANGED <<inputs, valve, heat, due, run, step, decision, notified,
                     refused, changes>>
  BY DispatchAssumption DEF Maintain, IInv, Types
<1>2. calls' \in Seq(Calling) /\ Len(calls') <= MaxCalls /\ Paired' /\ Decided'
  BY <1>1, SupportCalls
<1>3. Types'
  BY <1>1, <1>2 DEF IInv, Types
<1> QED
  BY <1>2, <1>3 DEF IInv

LEMMA SurroundingStep ==
    ASSUME IInv,
           \/ SetInputs \/ SetNormal
           \/ \E z \in Zones : Vanish(z) \/ Return(z) \/ SwitchOff(z)
    PROVE  IInv'
<1>1. UNCHANGED <<support, run, calls, step, decision, notified, refused>>
  BY DEF SetInputs, SetNormal, Vanish, Return, SwitchOff, Unmoved
<1>2. /\ mode' \in Mode /\ window' \in SUBSET Zones
      /\ master' \in BOOLEAN /\ enabled' \in BOOLEAN /\ normal' \in BOOLEAN
  BY DEF SetInputs, SetNormal, Vanish, Return, SwitchOff, IInv, Types
<1>3. valve' \in [Zones -> Temp \cup {None}] /\ heat' \in SUBSET Zones
  BY DEF SetInputs, SetNormal, Vanish, Return, SwitchOff, IInv, Types, Temp
<1>4. Types'
  BY <1>1, <1>2, <1>3 DEF IInv, Types
<1>5. Paired' /\ Decided'
  BY <1>1 DEF IInv, Paired, Decided, This
<1> QED
  BY <1>4, <1>5 DEF IInv

LEMMA StepInv == IInv /\ [Next]_vars => IInv'
<1> SUFFICES ASSUME IInv, [Next]_vars PROVE IInv'
  OBVIOUS
<1>1. CASE Script
  BY <1>1, BeginStep, WriteStep, WaitEndsStep DEF Script
<1>2. CASE Fire
  BY <1>2, FireStep
<1>3. CASE Dispatch
  BY <1>3, DispatchStep, VisitStep DEF Dispatch
<1>4. CASE \E z \in SupportZones : Select(z)
  BY <1>4, SelectStep
<1>5. CASE Deselect \/ Maintain
  BY <1>5, DeselectStep, MaintainStep
<1>6. CASE \/ SetInputs \/ SetNormal
           \/ \E z \in Zones : Vanish(z) \/ Return(z) \/ SwitchOff(z)
  BY <1>6, SurroundingStep
<1>7. CASE UNCHANGED vars
  BY <1>7 DEF vars, IInv, Types, Paired, Decided, This
<1> QED
  BY <1>1, <1>2, <1>3, <1>4, <1>5, <1>6, <1>7 DEF Next

(* The inductive invariant.                                                *)
THEOREM Invariance == Spec => []IInv
BY InitInv, StepInv, PTL DEF Spec

-----------------------------------------------------------------------------
(***************************************************************************)
(* What follows.                                                           *)
(***************************************************************************)
(* Every variable keeps its shape, and the script has never more calls     *)
(* than its max.                                                           *)
THEOREM TypeCorrect == Spec => []TypeOK
<1>1. IInv => TypeOK
  <2> SUFFICES ASSUME IInv PROVE TypeOK
    OBVIOUS
  <2>1. decision.target = None <=> step = "start"
    BY ThisCalls, NoneIsNothing DEF IInv, Decided, Undecided, Temp
  <2> QED
    BY <2>1 DEF IInv, Types, TypeOK, Temp, Running
<1> QED
  BY <1>1, Invariance, PTL

(* The run of the dispatch waits for a call exactly when the script has    *)
(* one of its calls, through any number of restarts of the run.            *)
THEOREM CallsArePaired == Spec => []OneCallPerRun
<1>1. IInv => OneCallPerRun
  <2> SUFFICES ASSUME IInv PROVE OneCallPerRun
    OBVIOUS
  <2>1. /\ \A i, j \in CallsOf("dispatch") : i = j
        /\ CallsOf("dispatch") # {} <=> run.at = "calling"
    BY DEF IInv, Types, Paired, Distinct, Asks, CallsOf
  <2>2. CASE run.at = "calling"
    <3>1. PICK i : CallsOf("dispatch") = {i}
      BY <2>1, <2>2
    <3> QED
      BY <2>2, <3>1, FS_Singleton DEF OneCallPerRun
  <2>3. CASE run.at # "calling"
    BY <2>1, <2>3, FS_EmptySet DEF OneCallPerRun
  <2> QED
    BY <2>2, <2>3
<1> QED
  BY <1>1, Invariance, PTL

(* heating_apply_zone_target never writes while the master is off or the   *)
(* mode is Off, and for the dispatch it writes only what the inputs ask    *)
(* for at that very moment, or the 29 degrees of a support; the one write  *)
(* outside is that of a retry which first turns the valve back to heat:    *)
(* it is fresh when that begins.                                           *)
THEOREM WritesAreFresh == Spec => NoStaleWrite
<1>1. ASSUME IInv, calls # <<>>, step # "start", StillValid
      PROVE  Fresh(This.zone, decision.target)
  <2>1. /\ master /\ Inputs(This.zone) = decision.inputs
        /\ decision.inputs[1] # "Off"
        /\ decision.target \in {This.temp, Floor}
        /\ This.by = "dispatch" => decision.inputs = This.expected
    BY <1>1 DEF StillValid, IInv, Decided
  <2>2. mode # "Off"
    BY <2>1 DEF Inputs
  <2>3. This.by = "dispatch" => This.temp = Meant(This.expected)
    BY <1>1, ThisCalls DEF Calling
  <2>4. Want(This.zone) = Meant(Inputs(This.zone))
    BY <1>1, InputsAreInputs
  <2> QED
    BY <2>1, <2>2, <2>3, <2>4 DEF Fresh
<1>2. ASSUME IInv, calls # <<>>, master, mode # "Off", AsExpected(This),
             NEW target \in {This.temp, Floor}
      PROVE  Fresh(This.zone, target)
  <2>1. This.by = "dispatch" =>
          This.expected = Inputs(This.zone) /\ This.temp = Meant(This.expected)
    BY <1>2, ThisCalls DEF Calling, AsExpected
  <2>2. Want(This.zone) = Meant(Inputs(This.zone))
    BY <1>2, InputsAreInputs
  <2> QED
    BY <1>2, <2>1, <2>2 DEF Fresh
<1>3. ASSUME IInv, calls # <<>>, NEW target, Send(target),
             NEW z \in Zones, Written(z)
      PROVE  z = This.zone /\ valve'[z] = target
  <2>1. valve \in [Zones -> Temp \cup {None}]
    BY <1>3 DEF IInv, Types
  <2> QED
    BY <1>3, <2>1, ThisCalls DEF Send, Written
<1>4. ASSUME IInv, [Next]_vars, NEW z \in Zones, Written(z)
      PROVE  Fresh(z, valve'[z]) \/ step = "retry"
  <2>1. valve \in [Zones -> Temp \cup {None}] /\ valve' # valve
    BY <1>4 DEF IInv, Types, Written
  <2>2. CASE Begin
    <3>1. PICK target \in {This.temp, Floor} :
            /\ calls # <<>> /\ master /\ mode # "Off" /\ AsExpected(This)
            /\ Send(target)
      BY <2>1, <2>2 DEF Begin, TurnToHeat
    <3> QED
      BY <1>2, <1>3, <1>4, <3>1
  <2>3. CASE Write \/ Retry
    <3>1. calls # <<>> /\ step # "start" /\ StillValid /\ Send(decision.target)
      BY <2>1, <2>3 DEF Write, Retry, TurnToHeat
    <3> QED
      BY <1>1, <1>3, <1>4, <3>1
  <2>4. CASE Resend
    BY <2>4 DEF Resend
  <2>5. CASE FirstWaitEnds \/ SecondWaitEnds
    BY <2>1, <2>5 DEF FirstWaitEnds, SecondWaitEnds
  <2>6. CASE Fire \/ Dispatch
    BY <2>1, <2>6 DEF Fire, Dispatch, DelayEnds, Visit, LoopEnds
  <2>7. CASE (\E s \in SupportZones : Select(s)) \/ Deselect \/ Maintain
    BY <2>1, <2>7 DEF Select, Deselect, Maintain
  <2>8. CASE SetInputs \/ SetNormal
    BY <2>1, <2>8 DEF SetInputs, SetNormal
  <2>9. ASSUME NEW y \in Zones, Vanish(y) \/ Return(y) \/ SwitchOff(y)
        PROVE  FALSE
    BY <1>4, <2>1, <2>9 DEF Vanish, Return, SwitchOff, Written
  <2>10. CASE UNCHANGED vars
    BY <2>1, <2>10 DEF vars
  <2> QED
    BY <1>4, <2>2, <2>3, <2>4, <2>5, <2>6, <2>7, <2>8, <2>9, <2>10
    DEF Next, Script
<1>5. ASSUME IInv, [Next]_vars, step' = "retry", step # "retry"
      PROVE  Fresh(This.zone, decision.target)
  <2>1. CASE Retry
    <3>1. calls # <<>> /\ step # "start" /\ StillValid
      BY <1>5, <2>1 DEF Retry, Stops, Returns
    <3> QED
      BY <1>1, <1>5, <3>1
  <2>2. CASE Begin \/ Write \/ Resend \/ FirstWaitEnds \/ SecondWaitEnds
    BY <1>5, <2>2 DEF Begin, Write, Resend, FirstWaitEnds, SecondWaitEnds,
                      Stops, Confirms, Fails, Returns, GoesTo
  <2>3. CASE Fire \/ Dispatch
    BY <1>5, <2>3 DEF Fire, Rewind, Dispatch, DelayEnds, Visit, LoopEnds
  <2>4. CASE (\E s \in SupportZones : Select(s)) \/ Deselect \/ Maintain
    BY <1>5, <2>4 DEF Select, Deselect, Rewind, Maintain
  <2>5. CASE \/ SetInputs \/ SetNormal
             \/ \E y \in Zones : Vanish(y) \/ Return(y) \/ SwitchOff(y)
    BY <1>5, <2>5 DEF SetInputs, SetNormal, Vanish, Return, SwitchOff, Unmoved
  <2>6. CASE UNCHANGED vars
    BY <1>5, <2>6 DEF vars
  <2> QED
    BY <1>5, <2>1, <2>2, <2>3, <2>4, <2>5, <2>6 DEF Next, Script
<1>6. IInv /\ [Next]_vars =>
        [/\ \A z \in Zones :
               Written(z) => Fresh(z, valve'[z]) \/ step = "retry"
         /\ step' = "retry" /\ step # "retry" =>
                Fresh(This.zone, decision.target)]_vars
  BY <1>4, <1>5
<1> QED
  BY <1>6, Invariance, PTL DEF Spec, NoStaleWrite
=============================================================================
