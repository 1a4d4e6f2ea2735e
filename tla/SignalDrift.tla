----------------------------- MODULE SignalDrift -----------------------------
(***************************************************************************)
(* How a published signal of one subnet moves from run to run: what the     *)
(* model computes is capped by the hard rules, kept near the value of the   *)
(* latest stored row (scoring/engine.py), written as a percentage           *)
(* (explain/engine.py) and read back by the next run (storage/history.py).  *)
(* Signals are multiples of 1/Unit; the numbers of the code are hundredths. *)
(***************************************************************************)
EXTENDS Integers

CONSTANTS
  Tracked,    \* the primary signals looked at, one per behaviour
  Unit,       \* the value 1.0
  Grades,     \* the runtime reliability 1.0; it is a multiple of 1/Grades
  Reliabilities,  \* the runtime reliabilities a run may have
  Inputs,     \* what the feature model may compute for the subnet
  Bounds,     \* the caps (for fragility_risk the floors) of the hard rules
  Stresses,   \* the robustness the stress tests may find
  MaxShocks   \* bound: changes of the input, telemetry gaps, unread histories

Signals ==
  {"fundamental_quality", "mispricing_signal", "fragility_risk", "signal_confidence"}

Values == 0..Unit

ASSUME SignalDriftAssumption ==
  /\ Tracked \subseteq Signals
  /\ Unit \in Nat \ {0}
  /\ Grades \in Nat \ {0}
  /\ Reliabilities \subseteq 0..Grades
  /\ Inputs \subseteq Values
  /\ Bounds \subseteq Values
  /\ Stresses \subseteq Values
  /\ MaxShocks \in Nat

VARIABLES
  signal,  \* the primary signal; it never changes
  world,   \* the subnet as a run sees it: model value, rule bound, stress
  stored,  \* the signal of the latest row of subnet_scores
  via,     \* how that row came about
  shocks   \* irregular events so far

vars == <<signal, world, stored, via, shocks>>

NoRow == -1
Worlds == [value : Inputs, bound : Bounds, stress : Stresses]

TypeOK ==
  /\ signal \in Tracked
  /\ world \in Worlds
  /\ stored \in Values \cup {NoRow}
  /\ via \in {"none", "first", "scored", "gap", "blank", "blind"}
  /\ shocks \in 0..MaxShocks

-----------------------------------------------------------------------------
Least(a, b) == IF a <= b THEN a ELSE b
Most(a, b) == IF a >= b THEN a ELSE b
Distance(a, b) == IF a <= b THEN b - a ELSE a - b

(* The row holds round(100 * signal, 2); _pct_to_unit divides by 100 only   *)
(* what is above 1, so a signal of at most 1 % is read back as a fraction.  *)
ReadBack(row) == IF 100 * row > Unit THEN row ELSE 100 * row

Readable(row) == ReadBack(row) = row

(* PRIMARY_SIGNAL_DRIFT_CAPS and the 0.30 of _adaptive_history_step.        *)
BaseStep == ((IF signal = "mispricing_signal" THEN 10 ELSE 8) * Unit) \div 100
LargestStep == (30 * Unit) \div 100

(* Mutant of AdaptiveStep: without the limit of 0.30.                       *)
AdaptiveStepUnlimited(current, history, grade) ==
  IF Distance(current, history) <= BaseStep
  THEN BaseStep
  ELSE (BaseStep * (4 * Grades + 9 * grade)) \div (4 * Grades)

(* The step widens with the reliability of the run's own telemetry.         *)
AdaptiveStep(current, history, grade) ==
  IF Distance(current, history) <= BaseStep
  THEN BaseStep
  ELSE Least(Most(BaseStep, (BaseStep * (4 * Grades + 9 * grade)) \div (4 * Grades)),
             LargestStep)

(* Mutants of LimitDrift: always a full step; no step at all inside the     *)
(* band.                                                                    *)
LimitDriftFullStep(current, history, step) ==
  IF current >= history THEN Least(Unit, history + step) ELSE Most(0, history - step)

LimitDriftDeadBand(current, history, step) ==
  IF Distance(current, history) <= step
  THEN history
  ELSE Most(Most(0, history - step), Least(Least(Unit, history + step), current))

LimitDrift(current, history, step) ==
  Most(Most(0, history - step), Least(Least(Unit, history + step), current))

(* apply_rule_caps: a ceiling, for the fragility a floor.                   *)
Ruled(w) ==
  IF signal = "fragility_risk" THEN Most(w.value, w.bound) ELSE Least(w.value, w.bound)

(* What the run would publish without a history: stress raises fragility.   *)
Target(w) ==
  IF signal = "fragility_risk"
  THEN Most(Ruled(w), (65 * Ruled(w) + 35 * (Unit - w.stress)) \div 100)
  ELSE Ruled(w)

(* Mutants of Fallback: the weights of the blend do not add up to one; the  *)
(* floor of the confidence is below what shows a subnet alive.              *)
FallbackUnweighted(history, value, stress) == (9 * history + 10 * value) \div 10

FallbackLowFloor(history, value, stress) ==
  LET blend == (9 * history + value) \div 10
  IN CASE signal = "fragility_risk" -> Most(blend, Unit - stress)
       [] signal = "signal_confidence" -> Most((20 * Unit) \div 100, blend)
       [] OTHER -> blend

(* The telemetry-gap path: nine tenths history, one tenth of what the model *)
(* makes of the missing data; fragility and confidence have a floor.        *)
Fallback(history, value, stress) ==
  LET blend == (9 * history + value) \div 10
  IN CASE signal = "fragility_risk" -> Most(blend, Unit - stress)
       [] signal = "signal_confidence" -> Most((35 * Unit) \div 100, blend)
       [] OTHER -> blend

-----------------------------------------------------------------------------
Init ==
  /\ signal \in Tracked
  /\ world \in Worlds
  /\ stored = NoRow
  /\ via = "none"
  /\ shocks = 0

(* A run without a stored row of the subnet.                                *)
FirstRun ==
  /\ stored = NoRow
  /\ stored' = Target(world)
  /\ via' = "first"
  /\ UNCHANGED <<signal, world, shocks>>

(* A run with complete telemetry, of the given runtime reliability.         *)
ScoredRun ==
  /\ stored # NoRow
  /\ via' = "scored"
  /\ \E grade \in Reliabilities :
       LET history == ReadBack(stored)
           current == Target(world)
       IN stored' = LimitDrift(current, history, AdaptiveStep(current, history, grade))
  /\ UNCHANGED <<signal, world, shocks>>

Shock == shocks < MaxShocks /\ shocks' = shocks + 1

(* The chain answered nothing for a subnet that was alive: the run is given *)
(* blank metrics, no rule is evaluated, and the stress tests run on blanks. *)
GapRun ==
  /\ Shock
  /\ stored # NoRow
  /\ via' = "gap"
  /\ \E value \in Inputs, stress \in Values :
       stored' = Fallback(ReadBack(stored), value, stress)
  /\ UNCHANGED <<signal, world>>

(* It answered nothing for a subnet whose latest row shows no life, or that *)
(* has none: the blank metrics are scored as if they were its state.        *)
BlankRun ==
  /\ Shock
  /\ via' = "blank"
  /\ \E blank \in Worlds, grade \in Reliabilities :
       LET history == ReadBack(stored)
           current == Target(blank)
       IN stored' = IF stored = NoRow THEN current
                    ELSE LimitDrift(current, history, AdaptiveStep(current, history, grade))
  /\ UNCHANGED <<signal, world>>

(* Reading the history fails: compute_all_subnets goes on with none, and    *)
(* the model, without it, sees the subnet differently.                      *)
BlindRun ==
  /\ Shock
  /\ stored # NoRow
  /\ via' = "blind"
  /\ \E unread \in Worlds : stored' = Target(unread)
  /\ UNCHANGED <<signal, world>>

(* Between two runs the subnet changes.                                     *)
SubnetChanges ==
  /\ Shock
  /\ world' \in Worlds
  /\ UNCHANGED <<signal, stored, via>>

Next == FirstRun \/ ScoredRun \/ GapRun \/ BlankRun \/ BlindRun \/ SubnetChanges

(* Runs go on (Scheduler); irregular events are bounded by MaxShocks.       *)
Spec == Init /\ [][Next]_vars
FairSpec == Spec /\ WF_vars(FirstRun) /\ WF_vars(ScoredRun)

-----------------------------------------------------------------------------
(* A run with complete telemetry moves a signal that was read back as it    *)
(* was written by at most 0.30, however far the model's value has jumped.   *)
DriftBounded ==
  [][via' = "scored" /\ shocks' = shocks /\ stored # NoRow /\ Readable(stored)
       => Distance(stored', stored) <= LargestStep]_vars

(* It moves towards what the model and the rules call for, without passing  *)
(* it, and by no less than the base step while it is further away: history  *)
(* delays a rule's cap, it never weakens it for good.                       *)
Approaches ==
  [][via' = "scored" /\ shocks' = shocks /\ stored # NoRow /\ Readable(stored)
       => /\ Distance(stored', Target(world)) + Distance(stored, stored')
               = Distance(stored, Target(world))
          /\ \/ stored' = Target(world)
             \/ Distance(stored, stored') >= BaseStep]_vars

(* Once a subnet and its telemetry are steady, its published signal comes   *)
(* to rest at the capped value of the model, whatever rows came before.     *)
Settles == <>[](stored = Target(world))

(* The title of tests/test_scoring_engine.py:125 taken of every row: the    *)
(* stabilisation against history "limits run to run jumps".                 *)
JumpsLimited ==
  [][via' = "scored" /\ shocks' = shocks /\ stored # NoRow
       => Distance(stored', stored) <= LargestStep]_vars
=============================================================================
