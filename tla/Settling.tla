------------------------------ MODULE Settling ------------------------------
(***************************************************************************)
(* How long the history of a subnet keeps what Scoring publishes from what  *)
(* the model and the rules call for (_limit_signal_drift and                *)
(* _stabilize_priority_with_history of scoring/engine.py): Scoring, with    *)
(* the regular runs counted since the last irregular event.                 *)
(***************************************************************************)
EXTENDS Scoring

VARIABLE calm  \* history: regular runs since the last irregular event

(* The base step of a signal is 80 thousandths at least: thirteen runs cross *)
(* the whole scale, and the score follows with the next.  Not counted on.   *)
Enough == 14

CountedInit == Init /\ calm = 0

(* Whatever is not a Shock is a FirstRun or a ScoredRun.                    *)
CountedNext ==
  /\ Next
  /\ calm' = IF shocks' = shocks THEN Least(calm + 1, Enough) ELSE 0

CountedSpec == CountedInit /\ [][CountedNext]_<<vars, calm>>

(* A signal that should be at most 1 % is not read back as it was written.  *)
Steady == \A s \in Primary : 100 * Targets[obs][s] > U

AsIfAfresh ==
  LET a == Analysis[obs]
      target == Targets[obs]
  IN /\ row.signals = target
     /\ score = TotalCap(Priority(target, a.bundle), target, a.cap, a.negative)
     /\ label = Label(target, obs, a.bundle, a.reading, a.stress.drawdown)

(* History delays and never decides: whatever rows came before, and however *)
(* unreliable the telemetry, after fourteen regular runs the signals, score *)
(* and label of a subnet are those of a run that has no history.            *)
HistoryOnlyDelays == calm = Enough /\ Steady => AsIfAfresh
=============================================================================
