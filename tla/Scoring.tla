------------------------------- MODULE Scoring -------------------------------
(***************************************************************************)
(* What build_scores (scoring/engine.py) publishes of one subnet from run   *)
(* to run: signals made of the readings of the run, capped by the hard      *)
(* rules, raised by the stress tests (stress/scenarios.py), held near the   *)
(* latest stored row; a score for the ranking, and a label (labels/         *)
(* engine.py). A run the chain did not answer, or that could not read the   *)
(* history, publishes as well.                                              *)
(***************************************************************************)
EXTENDS PrimarySignals, FiniteSetsExt

CONSTANTS
  Observed,   \* the observations the subnet may offer while the chain answers
  Blank,      \* the observation made of the defaults, when it does not
  MaxShocks,  \* bound: changes of the subnet, silent chains, unread histories
  Analysis    \* what is made of each observation, the table of Analyse below

ASSUME ScoringAssumption ==
  /\ DOMAIN Ln1p \subseteq Nat
  /\ {50000, 200000} \subseteq DOMAIN Ln1p
  /\ \A v \in DOMAIN Ln1p : Ln1p[v] \in Nat \ {0}
  /\ \A v, w \in DOMAIN Ln1p : v <= w => Ln1p[v] <= Ln1p[w]
  /\ Observed \cup {Blank} \subseteq Observations
  /\ Peers \in Seq(Observations)
  /\ \A o \in Observed \cup {Blank} \cup {Peers[i] : i \in DOMAIN Peers} : o.pool \in DOMAIN Ln1p \cup {0}
  /\ MaxShocks \in Nat

VARIABLES
  obs,     \* what a run sees of the subnet
  row,     \* the signals of its latest row, and whether they show it alive
  score,   \* the score of that row, before it is ranked
  label,   \* and its label
  via,     \* how that row came about
  shocks   \* irregular events so far

vars == <<obs, row, score, label, via, shocks>>

Rules == INSTANCE HardRules

Primary == {"fundamental_quality", "mispricing_signal", "fragility_risk", "signal_confidence"}
SignalVectors == [Primary -> Fraction]

Unrated == [signals |-> [s \in Primary |-> Missing], alive |-> FALSE]
Positive == {"Compounding Quality", "Underpriced Quality", "Quality Leader"}
Adverse == {"Dereg Risk", "Overrewarded", "Consensus Hollow"}
Labels == Positive \cup Adverse \cup {"Fragile Yield", "Crowded Reflexive", "Evidence Limited"}

TypeOK ==
  /\ obs \in Observed
  /\ row = Unrated \/ row \in [signals : SignalVectors, alive : BOOLEAN]
  /\ score \in Fraction
  /\ label \in Labels \cup {"none"}
  /\ via \in {"none", "first", "scored", "gap", "blank", "blind"}
  /\ shocks \in 0..MaxShocks

-----------------------------------------------------------------------------
(* The rules' view of an observation and of the bundle b made of it. A      *)
(* consensus is hollow when all validators give everyone the same weights.  *)
Reading(o, b) ==
  [active |-> o.active, breadth |-> o.breadth, fresh |-> o.fresh, staffed |-> o.staffed,
   pool |-> o.pool, yield |-> Yield(o), slippage |-> MaxSlippage(o),
   concentration |-> Concentration(o), drift |-> o.dConcentration,
   relevance |-> b.components.quality.relevance, floor |-> StructureFloor(o),
   crowding |-> Crowding(o), crowded |-> b.crowded, overreaction |-> Overreaction(o),
   underreaction |-> Underreaction(o), coherence |-> Coherence(o),
   coverage |-> DataCoverage(o), proxies |-> ProxyReliance(o),
   fabrication |-> Fabrication(o), conviction |-> Conviction(o), gate |-> b.gate,
   hollow |-> o.entropy > 920 /\ o.disagreement < 80 /\ U - o.entropy < 120,
   closed |-> o.closed, immune |-> o.immune, dereg |-> DeregRisk(o)]

RuleBounds(r) ==
  [fundamental_quality |-> Rules!QualityCap(r), mispricing_signal |-> Rules!MispricingCap(r),
   fragility_risk |-> Rules!FragilityFloor(r), signal_confidence |-> Rules!ConfidenceCap(r)]

Capped(signals, bounds) ==
  [s \in Primary |-> IF s = "fragility_risk" THEN Most(signals[s], bounds[s])
                     ELSE Least(signals[s], bounds[s])]

(* The older axes that stress and history still read.                       *)
Axes(signals, b, robustness) ==
  [intrinsic |-> Clamp(W(82 * signals.fundamental_quality + 18 * b.edge)),
   economic |-> Clamp(W(45 * signals.fundamental_quality + 35 * (U - signals.fragility_risk)
                          + 20 * Above(signals.signal_confidence, 100))),
   reflexivity |-> Clamp(W(55 * signals.fragility_risk + 30 * b.crowding
                             + 15 * (U - signals.mispricing_signal))),
   robustness |-> robustness]

(* What each shock would cost; the worst of them is the drawdown.           *)
Shortfall(value) == Above(550, value)
Penalties(b) ==
  LET thin == b.components.fragility.thin
      owned == b.components.fragility.concentration
      weak == b.components.fragility.weak
      validators == b.components.quality.validators
  IN {W(9 * thin + 5 * owned + 3 * weak),
      W(17 * thin + 9 * owned + 5 * weak),
      W(8 * U + 20 * owned + 6 * Shortfall(validators)),
      W(18 * Most(thin, 150) + 4 * weak),
      W(8 * Shortfall(b.components.quality.participation) + 6 * Shortfall(b.health)),
      W(10 * Shortfall(validators) + 8 * Shortfall(b.components.confidence.market)),
      W(16 * owned + 6 * b.components.fragility.crowding)}

StressTest(axes, b) ==
  LET base == W(34 * axes.intrinsic + 28 * axes.economic
                  + 18 * (U - axes.reflexivity) + 20 * axes.robustness)
      drawdown == Least(base, Max(Penalties(b)))
  IN [drawdown |-> drawdown, robustness |-> Above(U, (drawdown * U) \div Most(base, 200))]

(* How far the telemetry of this run is trusted against the history.        *)
Reliability(o, confidence) ==
  Clamp(W(35 * MarketReliability(o) + 30 * ValidatorReliability(o) + 20 * o.priceTrust
            + 5 * ExternalReliability(o.github) + 10 * confidence))

(* The score that the ranking sorts by, of signals over a bundle.           *)
Headwind(fragility) == (Above(fragility, 550) * U) \div 450
Priority(signals, b) ==
  LET raw == Clamp(W(26 * signals.fundamental_quality + 20 * b.opportunity + 20 * b.thesis
                       + 16 * signals.signal_confidence + 10 * (U - b.fragility)
                       + 8 * b.components.quality.relevance))
      discount == Most(650, U - W(14 * (U - b.gate) + 12 * b.components.confidence.penalty
                                    + 8 * Headwind(signals.fragility_risk)))
  IN Least(Times(raw, discount), b.ceiling)

(* A rule that forces a label shapes its cap by what quality is left.       *)
TotalCap(value, signals, cap, negative) ==
  LET regime == Clamp(W(45 * signals.fundamental_quality + 35 * (U - signals.fragility_risk)
                          + 20 * signals.signal_confidence))
  IN Least(value, IF negative THEN Times(cap, 550 + W(45 * regime)) ELSE cap)

Label(signals, o, b, r, drawdown) ==
  LET q == signals.fundamental_quality
      m == signals.mispricing_signal
      f == signals.fragility_risk
      c == signals.signal_confidence
      conf == b.components.confidence
      compounding == q > 720 /\ b.health > 700 /\ m > 640 /\ f < 380 /\ c > 580 /\ conf.market > 550
      underpriced == q > 600 /\ b.opportunity > 550 /\ m > 580 /\ PriceLag(o) > 100
                       /\ c > 480 /\ b.legitimacy > 450
      sound == q > 620 /\ b.health > 580 /\ f < 350
      spread == \/ r.concentration < 550
                \/ b.legitimacy > 650 /\ conf.market > 550 /\ conf.data > 450
      leading == sound /\ c > 450 /\ conf.thesis > 420 /\ b.legitimacy > 400 /\ r.crowding < 350
                   /\ spread
      retained == q > 560 /\ b.health > 500 /\ StickyUsage(o) > 50 /\ Retention(o) > 50
                    /\ f < 550 /\ conf.thesis > 450
      reflexive == \/ r.crowding > 550 /\ f > 500 /\ m < 500
                   \/ r.crowding > 500 /\ r.concentration > 580 /\ drawdown > 200
                   \/ r.concentration > 580 /\ f > 550 /\ m < 500 /\ drawdown > 200
      limited == c < 400 \/ conf.data < 350 \/ conf.thesis < 350 \/ Rules!ThinEvidence(r)
  IN IF Rules!ForcedLabel(r) # "none" THEN Rules!ForcedLabel(r)
     ELSE IF r.dereg > 600 THEN "Dereg Risk"
     ELSE IF f > 720 /\ r.concentration > 550 THEN "Fragile Yield"
     ELSE IF compounding THEN "Compounding Quality"
     ELSE IF underpriced THEN "Underpriced Quality"
     ELSE IF leading \/ retained THEN "Quality Leader"
     ELSE IF reflexive THEN "Crowded Reflexive"
     ELSE IF ~limited /\ sound /\ b.legitimacy > 550 /\ conf.thesis > 450 THEN "Quality Leader"
     ELSE "Evidence Limited"

-----------------------------------------------------------------------------
(* What a run makes of an observation before it looks at the history, for   *)
(* every observation there is: the subnet's, a silent chain's, and what is  *)
(* seen of them when the history could not be read.                         *)
Unread(o) ==
  LET unread == {"rows", "dPrice", "dQuality", "dActive", "dBreadth", "dStructure", "dEmission",
                 "dReserve", "dConcentration", "accel", "trend", "priceLevel", "anchor"}
  IN [field \in DOMAIN o |-> IF field \in unread THEN 0 ELSE o[field]]
Views == LET Read == Observed \cup {Blank} IN Read \cup {Unread(o) : o \in Read}

Analyse(o) ==
  LET b == Bundle(o)
      r == Reading(o, b)
      capped == Capped(b.signals, RuleBounds(r))
      stress == StressTest(Axes(capped, b, U - capped.fragility_risk), b)
  IN [bundle |-> b, reading |-> r, bounds |-> RuleBounds(r), capped |-> capped, stress |-> stress,
      cap |-> Rules!ScoreCap(r), negative |-> Rules!ForcesNegative(r),
      grade |-> Reliability(o, capped.signal_confidence),
      rankGrade |-> Reliability(o, b.signals.signal_confidence)]

ASSUME AnalysisAssumption == Analysis = [o \in Views |-> Analyse(o)]

WorldOf(o, s) ==
  [value |-> Analysis[o].bundle.signals[s], bound |-> Analysis[o].bounds[s],
   stress |-> Analysis[o].stress.robustness]
Drift(s) ==
  INSTANCE SignalDrift WITH
    Tracked <- {s}, Unit <- U, Grades <- U, signal <- s,
    Inputs <- {WorldOf(o, s).value : o \in Views}, Bounds <- {WorldOf(o, s).bound : o \in Views},
    Stresses <- {WorldOf(o, s).stress : o \in Views},
    Reliabilities <- {Analysis[o].grade : o \in Views},
    world <- WorldOf(obs, s), stored <- row.signals[s]

(* The signals that a run without history publishes of o, and those of one  *)
(* with the history h.                                                      *)
Targets == [o \in Views |-> [s \in Primary |-> Drift(s)!Target(WorldOf(o, s))]]
History == [s \in Primary |-> Drift(s)!ReadBack(row.signals[s])]
(* Mutant of Steadied: one wide step for every signal.                      *)
SteadiedLoosely(o, h) ==
  [s \in Primary |-> Drift(s)!LimitDrift(Targets[o][s], h[s], 300)]

Steadied(o, h) ==
  [s \in Primary |->
     Drift(s)!LimitDrift(Targets[o][s], h[s],
                         Drift(s)!AdaptiveStep(Targets[o][s], h[s], Analysis[o].grade))]

(* _stabilize_priority_with_history: the history's score is the score of    *)
(* the stored signals over the bundle of this run.                          *)
SteadiedScore(o, signals, h) ==
  LET grade == Analysis[o].rankGrade
      past == Priority(h, Analysis[o].bundle)
      weight == Times(700, Most(200, U - W(85 * grade)))
      step == Least(150, (35 * (2 * U + 5 * grade)) \div (2 * U))
      blend == (weight * past + (U - weight) * Priority(signals, Analysis[o].bundle)) \div U
  IN Most(Above(past, step), Least(Least(U, past + step), blend))

(* _is_incomplete_snapshot reads the alive mark back from the row's parts.  *)
ReadsAlive(fraction) == (IF fraction > 10 THEN fraction ELSE 100 * fraction) > 250
Alive(o, signals, robustness) ==
  LET axes == Axes(signals, Analysis[o].bundle, robustness)
  IN o.pool > 1000 \/ \E part \in {signals.fundamental_quality, signals.signal_confidence,
                                   axes.intrinsic, axes.economic, robustness} : ReadsAlive(part)

Publish(o, signals, robustness, newScore, newLabel) ==
  /\ row' = [signals |-> signals, alive |-> Alive(o, signals, robustness)]
  /\ score' = newScore
  /\ label' = newLabel

(* The branch of a complete snapshot, from the signals it has settled on.   *)
Complete(o, signals, rankedScore) ==
  \E a \in {Analysis[o]} :
    \E rated \in {TotalCap(rankedScore, signals, a.cap, a.negative)} :
      Publish(o, signals, a.stress.robustness, rated,
              Label(signals, o, a.bundle, a.reading, a.stress.drawdown))
Afresh(o) == \E new \in {Targets[o]} : Complete(o, new, Priority(new, Analysis[o].bundle))
Onward(o) ==
  \E history \in {History} :
    \E new \in {Steadied(o, history)} : Complete(o, new, SteadiedScore(o, new, history))

-----------------------------------------------------------------------------
Init ==
  /\ obs \in Observed
  /\ row = Unrated
  /\ score = 0
  /\ label = "none"
  /\ via = "none"
  /\ shocks = 0

(* No stored row of the subnet has signals.                                 *)
FirstRun ==
  /\ row = Unrated
  /\ Afresh(obs)
  /\ via' = "first"
  /\ UNCHANGED <<obs, shocks>>

ScoredRun ==
  /\ row # Unrated
  /\ Onward(obs)
  /\ via' = "scored"
  /\ UNCHANGED <<obs, shocks>>

Shock == shocks < MaxShocks /\ shocks' = shocks + 1

(* The chain is silent about a subnet whose latest row shows it alive: the  *)
(* rules are not evaluated, and history carries nine tenths.                *)
GapRun ==
  /\ Shock
  /\ row.alive
  /\ LET b == Analysis[Blank].bundle
         kept == [s \in Primary |-> (9 * History[s] + b.signals[s]) \div 10]
         stress == StressTest(Axes(kept, b, U - kept.fragility_risk), b)
         new == [s \in Primary |->
                   Drift(s)!Fallback(History[s], b.signals[s], stress.robustness)]
     IN Publish(Blank, new, stress.robustness, SteadiedScore(Blank, new, History), "Evidence Limited")
  /\ via' = "gap"
  /\ UNCHANGED obs

(* It is silent about a subnet that no row shows alive.                     *)
BlankRun ==
  /\ Shock
  /\ ~row.alive
  /\ IF row = Unrated THEN Afresh(Blank) ELSE Onward(Blank)
  /\ via' = "blank"
  /\ UNCHANGED obs

(* The stored rows could not be read: compute_all_subnets goes on without.  *)
BlindRun ==
  /\ Shock
  /\ row # Unrated
  /\ Afresh(Unread(obs))
  /\ via' = "blind"
  /\ UNCHANGED obs

SubnetChanges ==
  /\ Shock
  /\ obs' \in Observed \ {obs}
  /\ UNCHANGED <<row, score, label, via>>

Next == FirstRun \/ ScoredRun \/ GapRun \/ BlankRun \/ BlindRun \/ SubnetChanges

(* Irregular events are bounded by MaxShocks.                               *)
Spec == Init /\ [][Next]_vars

-----------------------------------------------------------------------------
(* The row a gap run leaves always shows the subnet alive, so a chain that  *)
(* stays silent is bridged for ever and never scored as the subnet's death. *)
GapSticks == [][via' = "blank" => via # "gap"]_vars

(* A pool that drains, all else equal, loosens no bound of the rules, until *)
(* it is empty (then no trade is priced and no yield known), and unless the *)
(* subnet loses the standing that a rule asks for.                          *)
Drained(p, o) == p.pool \in 1..o.pool /\ p = [o EXCEPT !.pool = p.pool]

DrainNeverEases ==
  \A o \in Observed :
    Drained(obs, o) /\ Rules!Unrelieved(Analysis[obs].reading, Analysis[o].reading) =>
      /\ \A s \in Primary :
           IF s = "fragility_risk"
           THEN Analysis[obs].bounds[s] >= Analysis[o].bounds[s]
           ELSE Analysis[obs].bounds[s] <= Analysis[o].bounds[s]
      /\ Analysis[obs].cap <= Analysis[o].cap

(* Each of the four signals moves as SignalDrift says, with the world that  *)
(* the model, the rules and the stress tests make of the observation.       *)
SignalsDrift ==
  /\ \A s \in Primary : Drift(s)!Init
  /\ [][\A s \in Primary : [Drift(s)!Next]_(Drift(s)!vars)]_vars

(* The title of tests/test_scoring_model_v2.py:167 taken from run to run: a *)
(* "higher concentration does not reduce fragility" of a subnet that is     *)
(* otherwise the same, among the same peers.                                *)
ConcentrationNeverReducesFragility ==
  [][obs'.ownership > obs.ownership /\ obs' = [obs EXCEPT !.ownership = obs'.ownership]
       => Analysis[obs'].bundle.fragility >= Analysis[obs].bundle.fragility]_vars
=============================================================================
