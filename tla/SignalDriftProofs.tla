-------------------------- MODULE SignalDriftProofs --------------------------
(***************************************************************************)
(* Proofs about SignalDrift for every grid, signal, input and rule bound.   *)
(***************************************************************************)
EXTENDS SignalDrift, TLAPS

(* What a run calls for without a history is a value of the grid.           *)
LEMMA TargetIsValue ==
  ASSUME NEW w \in Worlds
  PROVE  Target(w) \in Values
<1>1. w.value \in Values /\ w.bound \in Values /\ w.stress \in Values
  BY SignalDriftAssumption DEF Worlds
<1>2. Ruled(w) \in Values
  BY <1>1 DEF Ruled, Least, Most, Values
<1>3. \A r, s \in Values : (65 * r + 35 * (Unit - s)) \div 100 \in Values
  BY SignalDriftAssumption DEF Values
<1>4. QED
  BY <1>1, <1>2, <1>3 DEF Target, Most

LEMMA ReadBackIsValue ==
  ASSUME NEW row \in Values
  PROVE  ReadBack(row) \in Values
BY SignalDriftAssumption DEF ReadBack, Values

(* The step of the limiter lies between the base step and 0.30.             *)
LEMMA StepBounds ==
  ASSUME NEW current \in Values, NEW history \in Values, NEW grade \in Reliabilities
  PROVE  /\ AdaptiveStep(current, history, grade) \in Nat
         /\ BaseStep <= AdaptiveStep(current, history, grade)
         /\ AdaptiveStep(current, history, grade) <= LargestStep
<1>1. BaseStep \in Nat /\ LargestStep \in Nat /\ BaseStep <= LargestStep
  BY SignalDriftAssumption DEF BaseStep, LargestStep
<1>2. (BaseStep * (4 * Grades + 9 * grade)) \div (4 * Grades) \in Int
  <2>1. BaseStep * (4 * Grades + 9 * grade) \in Int
    BY <1>1, SignalDriftAssumption
  <2>2. 4 * Grades \in Nat \ {0}
    BY SignalDriftAssumption
  <2>3. QED
    BY <2>1, <2>2
<1>3. QED
  BY <1>1, <1>2 DEF AdaptiveStep, Least, Most

(* Clamping to an interval around a value of the grid.                      *)
LEMMA LimitDriftFacts ==
  ASSUME NEW current \in Values, NEW history \in Values, NEW step \in Nat
  PROVE  LET new == LimitDrift(current, history, step)
         IN /\ new \in Values
            /\ Distance(new, history) <= step
            /\ Distance(new, current) + Distance(history, new) = Distance(history, current)
            /\ new = current \/ Distance(history, new) >= step
BY SignalDriftAssumption DEF LimitDrift, Least, Most, Distance, Values

LEMMA FallbackIsValue ==
  ASSUME NEW history \in Values, NEW value \in Values, NEW stress \in Values
  PROVE  Fallback(history, value, stress) \in Values
<1>1. (9 * history + value) \div 10 \in Values
  BY SignalDriftAssumption DEF Values
<1>2. (35 * Unit) \div 100 \in Values
  BY SignalDriftAssumption DEF Values
<1>3. Unit - stress \in Values
  BY SignalDriftAssumption DEF Values
<1>4. QED
  BY <1>1, <1>2, <1>3 DEF Fallback, Most

-----------------------------------------------------------------------------
(* Whatever the rows a run reads, and whatever goes wrong in it, the signal *)
(* it publishes is a fraction between 0 and 1.                              *)
THEOREM SignalDriftTypeOK == Spec => []TypeOK
<1>1. Init => TypeOK
  BY SignalDriftAssumption DEF Init, TypeOK
<1>2. TypeOK /\ [Next]_vars => TypeOK'
  <2> SUFFICES ASSUME TypeOK, [Next]_vars
               PROVE  TypeOK'
    OBVIOUS
  <2>0. world \in Worlds /\ (stored # NoRow => stored \in Values) /\ shocks \in Nat
    BY SignalDriftAssumption DEF TypeOK
  <2>1. CASE FirstRun
    BY <2>1, <2>0, TargetIsValue DEF FirstRun, TypeOK
  <2>2. CASE ScoredRun
    <3>1. PICK grade \in Reliabilities :
            stored' = LimitDrift(Target(world), ReadBack(stored),
                        AdaptiveStep(Target(world), ReadBack(stored), grade))
      BY <2>2 DEF ScoredRun
    <3>2. Target(world) \in Values /\ ReadBack(stored) \in Values
      BY <2>2, <2>0, TargetIsValue, ReadBackIsValue DEF ScoredRun
    <3>3. stored' \in Values
      BY <3>1, <3>2, StepBounds, LimitDriftFacts
    <3>4. QED
      BY <2>2, <3>3 DEF ScoredRun, TypeOK
  <2>3. CASE GapRun
    <3>1. PICK value \in Inputs, stress \in Values :
            stored' = Fallback(ReadBack(stored), value, stress)
      BY <2>3 DEF GapRun
    <3>2. value \in Values /\ stress \in Values /\ ReadBack(stored) \in Values
      BY <2>3, <2>0, ReadBackIsValue, SignalDriftAssumption DEF GapRun
    <3>3. stored' \in Values
      BY <3>1, <3>2, FallbackIsValue
    <3>4. QED
      BY <2>3, <3>3, SignalDriftAssumption DEF GapRun, Shock, TypeOK
  <2>4. CASE BlankRun
    <3>1. PICK blank \in Worlds, grade \in Reliabilities :
            stored' = IF stored = NoRow THEN Target(blank)
                      ELSE LimitDrift(Target(blank), ReadBack(stored),
                             AdaptiveStep(Target(blank), ReadBack(stored), grade))
      BY <2>4 DEF BlankRun
    <3>2. Target(blank) \in Values /\ (stored # NoRow => ReadBack(stored) \in Values)
      BY <2>0, TargetIsValue, ReadBackIsValue
    <3>3. stored' \in Values
      BY <3>1, <3>2, StepBounds, LimitDriftFacts
    <3>4. QED
      BY <2>4, <3>3, SignalDriftAssumption DEF BlankRun, Shock, TypeOK
  <2>5. CASE BlindRun
    BY <2>5, <2>0, TargetIsValue, SignalDriftAssumption DEF BlindRun, Shock, TypeOK
  <2>6. CASE SubnetChanges
    BY <2>6, SignalDriftAssumption DEF SubnetChanges, Shock, TypeOK
  <2>7. CASE UNCHANGED vars
    BY <2>7 DEF vars, TypeOK
  <2>8. QED
    BY <2>1, <2>2, <2>3, <2>4, <2>5, <2>6, <2>7 DEF Next
<1>3. QED
  BY <1>1, <1>2, PTL DEF Spec

(* A step that leaves a row marked "scored" and no shock behind is a run    *)
(* with complete telemetry, or changes nothing.                             *)
LEMMA ScoredSteps ==
  ASSUME TypeOK, [Next]_vars, via' = "scored", shocks' = shocks
  PROVE  ScoredRun \/ UNCHANGED vars
BY SignalDriftAssumption
   DEF Next, FirstRun, GapRun, BlankRun, BlindRun, SubnetChanges, Shock, TypeOK

(* What one such run does to a row that was read back as it was written.    *)
LEMMA ScoredRunFacts ==
  ASSUME TypeOK, ScoredRun, Readable(stored)
  PROVE  /\ Distance(stored', stored) <= LargestStep
         /\ Distance(stored', Target(world)) + Distance(stored, stored')
              = Distance(stored, Target(world))
         /\ stored' = Target(world) \/ Distance(stored, stored') >= BaseStep
<1>1. stored \in Values /\ Target(world) \in Values
  BY TargetIsValue DEF TypeOK, ScoredRun
<1>2. PICK grade \in Reliabilities :
        stored' = LimitDrift(Target(world), stored,
                             AdaptiveStep(Target(world), stored, grade))
  BY DEF ScoredRun, Readable
<1> DEFINE step == AdaptiveStep(Target(world), stored, grade)
<1>3. step \in Nat /\ BaseStep <= step /\ step <= LargestStep
  BY <1>1, StepBounds
<1>4. stored' = LimitDrift(Target(world), stored, step)
  BY <1>2
<1> HIDE DEF step
<1>5. /\ stored' \in Values
      /\ Distance(stored', stored) <= step
      /\ Distance(stored', Target(world)) + Distance(stored, stored')
           = Distance(stored, Target(world))
      /\ stored' = Target(world) \/ Distance(stored, stored') >= step
  BY <1>1, <1>3, <1>4, LimitDriftFacts
<1>6. BaseStep \in Int /\ LargestStep \in Int
  BY SignalDriftAssumption DEF BaseStep, LargestStep
<1>7. Distance(stored', stored) \in Int /\ Distance(stored, stored') \in Int
  BY <1>1, <1>5 DEF Distance, Values
<1>8. QED
  BY <1>3, <1>5, <1>6, <1>7

(* The limiter bounds the run-to-run jump of every signal, for any history  *)
(* of runs, gaps and unread histories, as long as the previous row is read  *)
(* back as written.                                                         *)
THEOREM JumpsAreBounded == Spec => DriftBounded
<1>1. TypeOK /\ [Next]_vars =>
        [via' = "scored" /\ shocks' = shocks /\ stored # NoRow /\ Readable(stored)
           => Distance(stored', stored) <= LargestStep]_vars
  BY ScoredSteps, ScoredRunFacts
<1>2. QED
  BY <1>1, SignalDriftTypeOK, PTL DEF Spec, DriftBounded

(* Every such run brings the signal nearer to what the model and the hard   *)
(* rules call for, by at least the base step, and never past it: a rule's   *)
(* cap that stays on is reached after a bounded number of runs.             *)
THEOREM SignalsApproach == Spec => Approaches
<1>1. TypeOK /\ [Next]_vars =>
        [via' = "scored" /\ shocks' = shocks /\ stored # NoRow /\ Readable(stored)
           => /\ Distance(stored', Target(world)) + Distance(stored, stored')
                   = Distance(stored, Target(world))
              /\ \/ stored' = Target(world)
                 \/ Distance(stored, stored') >= BaseStep]_vars
  BY ScoredSteps, ScoredRunFacts
<1>2. QED
  BY <1>1, SignalDriftTypeOK, PTL DEF Spec, Approaches
=============================================================================
