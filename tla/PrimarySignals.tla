---------------------------- MODULE PrimarySignals ----------------------------
(***************************************************************************)
(* From raw features to the four primary signals: every metric is put on a  *)
(* scale of its own or ranked among the subnets of the run (features/       *)
(* normalization.py, scorer/normalizer.py), the normalised metrics are      *)
(* grouped into components (features/components_*.py), and the components   *)
(* make the signals (normalize_features in features/model_v2.py).           *)
(***************************************************************************)
EXTENDS Features, Sequences, FiniteSets

CONSTANT
  Peers       \* the other subnets of a run: a sequence of observations

-----------------------------------------------------------------------------
(* percentile_rank of x among itself and the values of others, by peer:     *)
(* ties count half.                                                         *)
Rank(x, others) ==
  IF DOMAIN others = {} THEN 0
  ELSE ((2 * Cardinality({i \in DOMAIN others : others[i] < x})
           + Cardinality({i \in DOMAIN others : others[i] = x})) * U)
         \div (2 * Cardinality(DOMAIN others))

Piecewise(x, points) ==
  LET Reached == {i \in DOMAIN points : points[i][1] <= x}
      left == Cardinality(Reached)
  IN CASE Reached = {} -> points[1][2]
       [] left = Len(points) -> points[left][2]
       [] OTHER ->
            points[left][2] + ((x - points[left][1]) * (points[left + 1][2] - points[left][2]))
                                \div (points[left + 1][1] - points[left][1])

(* ABSOLUTE_SCORE_MAP.  The scores of thinness and of concentration fall:   *)
(* the larger either of them is, the smaller the score it gets.             *)
ReservePoints == << <<0, 0>>, <<500, 80>>, <<2500, 240>>, <<10000, 620>>, <<75000, U>> >>
ValidatorPoints == << <<0, 0>>, <<150, 250>>, <<350, 550>>, <<600, 820>>, <<900, U>> >>
BreadthPoints == << <<0, 0>>, <<100, 180>>, <<200, 420>>, <<350, 700>>, <<550, U>> >>
ThinnessPoints == << <<0, U>>, <<10, 920>>, <<30, 750>>, <<80, 380>>, <<200, 0>> >>
ConcentrationPoints == << <<0, U>>, <<200, 880>>, <<350, 680>>, <<550, 350>>, <<800, 0>> >>
HistoryPoints == << <<0, 0>>, <<200, 200>>, <<450, 500>>, <<700, 780>>, <<950, U>> >>

(* The raw metrics that are ranked among the subnets of a run.              *)
Raw(metric, o) ==
  CASE metric = "breadth" -> o.breadth
    [] metric = "validators" -> o.validators
    [] metric = "reserve" -> o.pool
    [] metric = "concentration" -> Concentration(o)
    [] metric = "historyDepth" -> HistoryDepth(o)
    [] metric = "overreaction" -> Overreaction(o)
    [] metric = "qualityChange" -> o.dQuality
    [] metric = "acceleration" -> o.accel
    [] metric = "reserveChange" -> o.dReserve
    [] metric = "reserveWithoutPrice" -> ReserveGrowthWithoutPrice(o)
    [] metric = "priceLag" -> PriceLag(o)
    [] metric = "priceGap" -> ExpectedPriceGap(o)
    [] metric = "uncrowded" -> ParticipationWithoutCrowding(o)
    [] metric = "fairValue" -> FairValueGap(o)
    [] metric = "underreaction" -> Underreaction(o)

Among(metric) == [i \in DOMAIN Peers |-> Raw(metric, Peers[i])]

(* The four ways normalize_metric_value scales a metric; the fourth takes a *)
(* bounded metric as it is.                                                 *)
Scored(metric, points, o) ==
  Clamp(W(60 * Piecewise(Raw(metric, o), points) + 40 * Rank(Raw(metric, o), Among(metric))))
RankedIfPositive(metric, o) ==
  IF Raw(metric, o) <= 0 THEN 0
  ELSE LET positive == {i \in DOMAIN Peers : Raw(metric, Peers[i]) > 0}
       IN Rank(Raw(metric, o), [i \in positive |-> Raw(metric, Peers[i])])
Ranked(metric, o) ==
  IF Raw(metric, o) = 0 THEN 0 ELSE Rank(Raw(metric, o), Among(metric))

(* An empty pool has no slippage: its thinness is missing, and scores 0.    *)
ScoredThinness(o) ==
  IF o.pool = 0 THEN 0
  ELSE LET traded == {i \in DOMAIN Peers : Peers[i].pool > 0}
       IN Clamp(W(60 * Piecewise(Thinness(o), ThinnessPoints)
                    + 40 * Rank(Thinness(o), [i \in traded |-> Thinness(Peers[i])])))

(* METRIC_MAP: the metrics that are normalised. update_freshness and        *)
(* validator_signal_coverage are not among them; the components that read   *)
(* them get the default 0.                                                  *)
Normalised(o) ==
  [active |-> Clamp(o.active),
   breadth |-> Scored("breadth", BreadthPoints, o),
   validators |-> Scored("validators", ValidatorPoints, o),
   reserve |-> Scored("reserve", ReservePoints, o),
   thinness |-> ScoredThinness(o),
   concentration |-> Scored("concentration", ConcentrationPoints, o),
   historyDepth |-> Scored("historyDepth", HistoryPoints, o),
   discrimination |-> IF o.entropy = Missing THEN 500 ELSE U - o.entropy,
   disagreement |-> IF o.disagreement = Missing THEN 500 ELSE o.disagreement,
   relevance |-> MarketRelevance(o),
   floor |-> StructureFloor(o),
   crowding |-> Crowding(o),
   overreaction |-> Ranked("overreaction", o),
   reversal |-> Clamp(ReversalRisk(o)),
   qualityChange |-> RankedIfPositive("qualityChange", o),
   acceleration |-> RankedIfPositive("acceleration", o),
   reserveChange |-> RankedIfPositive("reserveChange", o),
   reserveWithoutPrice |-> RankedIfPositive("reserveWithoutPrice", o),
   priceLag |-> RankedIfPositive("priceLag", o),
   priceGap |-> RankedIfPositive("priceGap", o),
   uncrowded |-> RankedIfPositive("uncrowded", o),
   fairValue |-> RankedIfPositive("fairValue", o),
   underreaction |-> RankedIfPositive("underreaction", o),
   coverage |-> DataCoverage(o),
   consensusGap |-> U - ValidatorCoverage(o),
   coherence |-> Coherence(o),
   fabrication |-> Fabrication(o),
   market |-> MarketReliability(o),
   validator |-> ValidatorReliability(o),
   history |-> HistoryReliability(o),
   external |-> ExternalReliability(o.github),
   source |-> SourceLegitimacy(o.github),
   recency |-> DevRecency(o.github),
   continuity |-> o.github.continuity,
   freshness |-> 0,
   validatorCoverage |-> 0]

-----------------------------------------------------------------------------
(* The components of one subnet; n holds its normalised metrics.            *)
QualityComponents(n) ==
  LET participation == Clamp(W(42 * n.active + 38 * n.breadth + 20 * n.freshness))
      liquidity == Clamp(W(55 * n.reserve + 45 * n.thinness))
  IN [participation |-> participation,
      validators |-> Clamp(W(42 * n.validators + 28 * n.validatorCoverage
                               + 15 * n.discrimination + 15 * (U - n.disagreement))),
      liquidity |-> liquidity,
      spread |-> Clamp(W(55 * (U - n.concentration) + 25 * n.breadth + 20 * n.floor)),
      relevance |-> Clamp(W(38 * n.relevance + 32 * n.reserve + 15 * participation + 15 * liquidity))]

OpportunityComponents(n) ==
  LET level == Clamp(W(45 * n.active + 35 * n.breadth + 20 * n.validators))
  IN [momentum |-> Clamp(W(60 * n.qualityChange + 40 * n.acceleration)),
      reserve |-> Clamp(W(65 * n.reserveChange + 35 * n.reserveWithoutPrice)),
      lag |-> Clamp(W(72 * n.priceLag + 28 * n.priceGap)),
      uncrowded |-> Clamp(W(48 * n.uncrowded + 20 * n.breadth + 12 * (U - n.crowding) + 20 * level)),
      value |-> Clamp(W(50 * n.fairValue + 50 * n.underreaction))]

FragilityComponents(n, quality) ==
  [crowding |-> Clamp(W(48 * n.crowding + 20 * n.overreaction
                          + 20 * Above(n.relevance, 550) + 12 * n.concentration)),
   concentration |-> Clamp(n.concentration),
   thin |-> Clamp(U - quality.liquidity),
   reversal |-> Clamp(n.reversal),
   weak |-> Clamp(W(55 * (U - n.floor) + 30 * (U - n.relevance) + 15 * (U - n.freshness)))]

(* External evidence corroborates and never carries: 6, 6, 5 and 5 hundredths. *)
ConfidenceComponents(n, proxies, quality, opportunity, fragility) ==
  LET depth == Clamp(W(52 * n.historyDepth + 34 * n.coverage + 14 * (U - proxies)))
      consistency == Clamp(W(38 * (U - n.consensusGap) + 38 * n.coherence + 24 * (U - n.fabrication)))
      telemetry == Clamp(W(30 * n.freshness + 28 * n.market + 22 * n.validator + 20 * n.history))
      data == Clamp(W(40 * depth + 30 * consistency + 24 * telemetry + 6 * n.external))
  IN [depth |-> depth,
      data |-> data,
      market |-> Clamp(W(30 * quality.relevance + 32 * quality.liquidity
                           + 24 * quality.spread + 16 * n.market)),
      thesis |-> Clamp(W(30 * consistency + 24 * opportunity.uncrowded + 14 * opportunity.value
                           + 16 * (U - fragility.reversal) + 6 * n.source
                           + 5 * n.recency + 5 * n.continuity)),
      penalty |-> Clamp(W(34 * (U - depth) + 22 * (U - telemetry) + 18 * proxies
                            + 16 * n.fabrication + (10 * Above(580, n.floor) * U) \div 580)),
      footing |-> Clamp(W(60 * data + 25 * n.historyDepth + 15 * n.coverage
                            - 18 * proxies - 12 * n.fabrication))]

-----------------------------------------------------------------------------
(* The blocks that the rules, the stress tests and the labels read as well. *)
CrowdedStructure(concentration, yield, fragility) ==
  Clamp(W(35 * fragility.crowding + 30 * concentration + 20 * fragility.thin
            + 15 * Clamp((Above(yield, 90) * U) \div 120)))

Investability(quality, confidence) ==
  Clamp(W(24 * quality.liquidity + 18 * quality.spread + 16 * quality.participation
            + 12 * quality.validators + 12 * quality.relevance
            + 10 * confidence.market + 8 * confidence.footing))

(* _build_cohort_edges: subnets of like size, maturity, emission and        *)
(* breadth; the rank of a subnet's activity among them.                     *)
Cohort(o) ==
  [size |-> IF o.pool >= 75000 THEN "deep" ELSE IF o.pool >= 10000 THEN "mid" ELSE "thin",
   mature |-> o.active >= 450, forming |-> o.active >= 150,
   efficient |-> o.efficient, broad |-> o.breadth >= 350]
CohortQualityEdge(o) ==
  LET cohort == {i \in DOMAIN Peers : Cohort(Peers[i]) = Cohort(o)}
  IN Rank(o.active, [i \in cohort |-> Peers[i].active])

Blocks(o, q, opp, f, c) ==
  LET crowded == CrowdedStructure(Concentration(o), Apy(o), f)
      gate == Investability(q, c)
      fragility == Clamp(W(24 * f.crowding + 24 * f.concentration + 22 * f.thin
                             + 18 * f.reversal + 12 * f.weak))
  IN [crowded |-> crowded, gate |-> gate, fragility |-> fragility,
      legitimacy |-> Clamp(W(40 * q.relevance + 35 * q.liquidity + 25 * q.spread)),
      health |-> Clamp(W(22 * q.participation + 20 * q.validators + 22 * q.liquidity
                           + 18 * q.spread + 18 * q.relevance)),
      opportunity |-> Clamp(W(24 * opp.momentum + 20 * opp.reserve + 22 * opp.lag
                                + 16 * opp.uncrowded + 18 * opp.value)),
      ceiling |-> Clamp(920 - W(28 * c.penalty + 22 * fragility + 16 * (U - gate) + 10 * crowded))]

(* The signals before any rule; b holds the blocks, and the fragility block *)
(* is the fourth signal.                                                    *)
FundamentalQuality(owned, q, f, c, b) ==
  LET resolved == Clamp(W(45 * q.liquidity + 30 * q.participation + 25 * q.validators))
      strained == Clamp(W(220 * Above(owned, 750) + 180 * Above(f.thin, 750)))
      structural == Clamp(W(86 * b.health + 14 * b.legitimacy + 4 * (resolved - 500) - 10 * strained))
  IN Least(structural, Clamp(Times(structural, W(90 * U + 10 * b.gate)) - W(6 * c.penalty)))

MispricingSignal(overreaction, q, f, c, b) ==
  LET factor == Clamp(450 + W(55 * W(55 * c.data + 45 * c.thesis)))
      validity == Clamp(W(35 * c.market + 25 * (U - b.fragility) + 20 * q.liquidity + 20 * q.relevance))
      breaks == Clamp(W(40 * Clamp((Above(overreaction, 200) * U) \div 800)
                          + 35 * Clamp((Above(f.crowding, 700) * U) \div 300)
                          + 25 * Clamp((Above(450, b.legitimacy) * U) \div 450)))
      drag == Clamp(W(52 * c.penalty + (28 * Above(550, c.footing) * U) \div 550
                        + (20 * Above(600, c.market) * U) \div 600))
      discount == Clamp(W(46 * (U - b.gate) + 32 * b.fragility + 22 * b.crowded))
  IN Least(Clamp(Times(Times(Times(b.opportunity, factor), validity), W(82 * U + 18 * b.gate))
                   - W(20 * breaks + 12 * drag + 8 * discount)),
           b.ceiling)

SignalConfidence(owned, n, f, c, b) ==
  LET evidence == Clamp(W(40 * c.data + 30 * c.market + 30 * c.thesis))
      limit == Clamp(840 - W(26 * f.crowding + 22 * f.thin + 16 * owned
                               + 10 * n.consensusGap + 12 * b.crowded))
      thesis == Clamp(Times(c.thesis, U - W(20 * f.crowding + 16 * f.thin
                                              + 12 * owned + 10 * b.crowded)))
      bounded == Least(Least(Clamp(Times(evidence, W(75 * U + 25 * c.depth))), limit),
                       Least(thesis, evidence))
  IN Least(bounded, Clamp(bounded - W(16 * c.penalty + 10 * (U - b.gate))))

(* Everything normalize_features leaves in the bundle of a subnet: the      *)
(* components, the blocks, and the four signals before any rule.            *)
Bundle(o) ==
  LET n == Normalised(o)
      q == QualityComponents(n)
      opp == OpportunityComponents(n)
      f == FragilityComponents(n, q)
      c == ConfidenceComponents(n, ProxyReliance(o), q, opp, f)
      b == Blocks(o, q, opp, f, c)
      quality == FundamentalQuality(Concentration(o), q, f, c, b)
      mispricing == MispricingSignal(Overreaction(o), q, f, c, b)
      confidence == SignalConfidence(Concentration(o), n, f, c, b)
  IN [components |-> [quality |-> q, fragility |-> f, confidence |-> c],
      legitimacy |-> b.legitimacy, health |-> b.health, opportunity |-> b.opportunity,
      fragility |-> b.fragility, gate |-> b.gate, ceiling |-> b.ceiling, crowded |-> b.crowded,
      edge |-> CohortQualityEdge(o), crowding |-> Crowding(o),
      thesis |-> Clamp(W(42 * quality + 33 * mispricing + 15 * confidence + 10 * (U - b.fragility))),
      signals |-> [fundamental_quality |-> quality, mispricing_signal |-> mispricing,
                   fragility_risk |-> b.fragility, signal_confidence |-> confidence]]
=============================================================================
