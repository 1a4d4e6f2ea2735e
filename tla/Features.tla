------------------------------- MODULE Features -------------------------------
(***************************************************************************)
(* The raw features of one subnet (features/model_v2.py, features/          *)
(* conditioning.py): what compute_raw_features makes of a conditioned       *)
(* snapshot, as far as the signals, the hard rules and the labels read it.  *)
(* Fractions are thousandths, rounded down at every step; relative changes  *)
(* that the code has as None are 0, which every use of them makes of None.  *)
(***************************************************************************)
EXTENDS Integers

CONSTANT
  Ln1p        \* 1000 * log1p(v), for the pool depths v of the model

U == 1000
Missing == -1

Least(a, b) == IF a <= b THEN a ELSE b
Most(a, b) == IF a >= b THEN a ELSE b
Above(a, b) == Most(a - b, 0)
Gain(a) == Most(a, 0)
Clamp(x) == Most(0, Least(U, x))

(* A sum of weights in hundredths times fractions, and a product.           *)
W(sum) == sum \div 100
Times(a, b) == (a * b) \div U

(* What a run sees of a subnet. `ownership` is the larger of the two raw    *)
(* concentrations; `rows` counts the stored points of history; `github` is  *)
(* the row of external evidence; the d-fields are the smoothed changes.     *)
Fraction == 0..U
Repositories ==
  [status : {"none", "active_repo", "mapped_no_data", "fetch_failed", "other"}, age : Nat,
   continuity : Fraction, breadth : Fraction]
Observations ==
  [pool : Nat, emission : Nat, active : Fraction, breadth : Fraction,
   validators : Fraction, ownership : Fraction, fresh : Fraction,
   entropy : Fraction \cup {Missing}, disagreement : Fraction \cup {Missing},
   stakes : BOOLEAN, rows : Nat, github : Repositories,
   dPrice : Int, dQuality : Int, dActive : Int, dBreadth : Int, dStructure : Int,
   dEmission : Int, dReserve : Int, dConcentration : Int, accel : Int, trend : Int,
   priceTrust : {250, 600, U}, priceLevel : Fraction, anchor : Fraction,
   staffed : BOOLEAN, allowed : BOOLEAN, closed : BOOLEAN, immune : BOOLEAN,
   efficient : BOOLEAN]

-----------------------------------------------------------------------------
(* Conditioning: how far each source of data can be relied upon.            *)
SourceLegitimacy(g) ==
  CASE g.status = "none" -> 0
    [] g.status \in {"active_repo", "mapped_no_data"} -> U
    [] g.status = "fetch_failed" -> 350
    [] OTHER -> 700

DevRecency(g) ==
  CASE g.status = "none" -> 0
    [] g.age <= 14 -> U
    [] g.age <= 45 -> 820
    [] g.age <= 90 -> 600
    [] g.age <= 180 -> 380
    [] g.age <= 365 -> 180
    [] OTHER -> 0

ExternalReliability(g) ==
  IF g.status = "none" THEN 0
  ELSE Clamp(W(30 * SourceLegitimacy(g) + 25 * DevRecency(g) + 30 * g.continuity + 15 * g.breadth))

MarketReliability(o) == IF o.pool > 0 THEN U ELSE 0

ValidatorReliability(o) ==
  ((IF o.validators > 0 THEN U ELSE 0) + (IF o.stakes THEN U ELSE 0)
     + (IF o.entropy # Missing THEN U ELSE 0)) \div 3

HistoryReliability(o) ==
  IF o.rows = 0 THEN 0 ELSE (2 * U + Clamp((o.rows * U) \div 14)) \div 3

HistoryDepth(o) ==
  IF o.rows = 0 THEN 0
  ELSE Clamp(W(40 * Clamp((o.rows * U) \div 18) + 35 * U + 25 * Clamp((o.rows * U) \div 14)))

(* The share of the inputs that are there: of 7 of the market, 9 of the     *)
(* history, 7 of the repository, 4 of the validators' weights.              *)
ValidatorCoverage(o) == IF o.entropy = Missing THEN 0 ELSE U
MarketCoverage(o) == IF o.pool > 0 THEN U ELSE (3 * U) \div 7
HistoryCoverage(o) ==
  ((CASE o.rows = 0 -> 3 [] o.rows = 1 -> 6 [] o.rows = 2 -> 7 [] OTHER -> 9) * U) \div 9
DataCoverage(o) ==
  Clamp(W(35 * MarketCoverage(o) + 30 * HistoryCoverage(o)
            + 15 * (IF o.github.status = "none" THEN 0 ELSE U) + 20 * ValidatorCoverage(o)))

-----------------------------------------------------------------------------
(* Buying x TAO's worth moves the price of a constant-product pool by x/T.  *)
Slippage(o, x) == IF o.pool = 0 THEN 0 ELSE Clamp((x * U) \div o.pool)
(* For the thresholds of the rules, rounded up: x > k iff its ceiling is.    *)
MaxSlippage(o) == IF o.pool = 0 THEN 0 ELSE Least(U, (50 * U + o.pool - 1) \div o.pool)
Thinness(o) == (Slippage(o, 1) + Slippage(o, 10) + Slippage(o, 50)) \div 3

(* A year's emission over the pool, in percent; rounded up for the rules.   *)
Apy(o) == IF o.pool = 0 THEN 0 ELSE (o.emission * 2628) \div (10 * o.pool)
Yield(o) ==
  IF o.pool = 0 THEN 0 ELSE (o.emission * 2628 + 10 * o.pool - 1) \div (10 * o.pool)

LogScaled(v, scale) == IF v = 0 THEN 0 ELSE Clamp((U * Ln1p[v]) \div Ln1p[scale])

MarketRelevance(o) ==
  Clamp((LogScaled(o.pool, 200000) + o.active + o.breadth + o.validators) \div 4)

(* An empty pool has no slippage, and so no thinness: 1 - (None or 0).      *)
StructureFloor(o) ==
  Clamp((LogScaled(o.pool, 50000) + (U - Thinness(o)) + o.active + o.breadth + o.validators) \div 5)

Absorption(o) ==
  Clamp(W(32 * StructureFloor(o) + 24 * MarketRelevance(o) + 24 * o.breadth + 20 * o.validators))

Concentration(o) == Clamp(Times(o.ownership, U - W(42 * Absorption(o))))

-----------------------------------------------------------------------------
(* How the price has answered to what the subnet did.                       *)
PriceChange(o) == Times(o.dPrice, o.priceTrust)
PriceResponse(o) == Gain(PriceChange(o))
QualityMomentum(o) == W(60 * Gain(o.dQuality) + 40 * Gain(o.accel))

PriceLag(o) == Gain(QualityMomentum(o) + W(20 * Gain(o.trend) - 75 * PriceResponse(o)))
StickyUsage(o) ==
  Gain(W(50 * Gain(o.dActive) + 25 * Gain(o.dBreadth) + 25 * Gain(o.dStructure)) - Gain(o.dEmission))
Retention(o) ==
  Gain(W(45 * StickyUsage(o) + 30 * Gain(o.dQuality) + 25 * Gain(o.dStructure) - 40 * PriceResponse(o)))
ReserveGrowthWithoutPrice(o) == Above(o.dReserve, PriceResponse(o))
ParticipationWithoutCrowding(o) ==
  Gain(W(35 * Gain(o.dActive) + 20 * Gain(o.dBreadth) + 15 * Gain(- o.dConcentration)
           + 20 * Clamp(W(55 * o.active + 45 * o.breadth))
           + 10 * Clamp(U - W(75 * Concentration(o)))))
ReversalRisk(o) == Above(PriceChange(o), Gain(o.dQuality))
Crowding(o) ==
  Clamp(W(45 * Concentration(o) + 25 * Thinness(o) + 30 * Clamp(PriceResponse(o))))

(* Each term is what is missing of a floor of participation.                *)
DeregRisk(o) ==
  Clamp(W(45 * Above(350, o.active) + 25 * Above(200, o.breadth) + 20 * Concentration(o)
            + 10 * (IF o.allowed THEN U ELSE 0)))

Magnitude(x) == IF x < 0 THEN -x ELSE x
Elasticity(o) == (Magnitude(PriceChange(o)) * U) \div (Magnitude(o.dReserve) + 10)

MarketIntegrity(o) ==
  Clamp(W(40 * StructureFloor(o) + 25 * (U - DeregRisk(o)) + 20 * (U - Crowding(o))
            + 15 * (U - Thinness(o))))

Coherence(o) ==
  Clamp(U - Clamp(W(35 * ReversalRisk(o) + 30 * ReversalRisk(o)
                      + 20 * Above(o.dEmission, Gain(o.dActive))
                      + 15 * Clamp(Above(Elasticity(o), U)))))

-----------------------------------------------------------------------------
(* The valuation gap: what the price should have done, and what it did.     *)
ExpectedPriceResponse(o) ==
  W(45 * Gain(o.dQuality) + 25 * Gain(o.dReserve) + 20 * Gain(o.dActive) + 10 * Gain(- o.dConcentration))
ExpectedReserveResponse(o) ==
  W(40 * Gain(o.dQuality) + 30 * Gain(o.dActive) + 20 * StickyUsage(o) + 10 * Retention(o))
ExpectedPriceGap(o) ==
  Times(Gain(W(75 * ExpectedPriceResponse(o) + 25 * QualityMomentum(o) - 85 * PriceResponse(o))),
        o.priceTrust)
FairValueAnchor(o) ==
  Clamp(W(40 * MarketRelevance(o) + 30 * StructureFloor(o) + 20 * MarketIntegrity(o)
            + 10 * Clamp(o.anchor)))
RealizedLevel(o) ==
  Clamp(Times(FairValueAnchor(o), U - o.priceTrust) + Times(o.priceLevel, o.priceTrust))
Saturation(o) ==
  Clamp(W(45 * MarketRelevance(o) + 35 * Crowding(o) + 20 * RealizedLevel(o)))
FairValueGap(o) ==
  Times(Above(FairValueAnchor(o), RealizedLevel(o)), U - W(45 * Saturation(o)))
    - Above(RealizedLevel(o), FairValueAnchor(o))
Underreaction(o) ==
  LET raw == Clamp(W(45 * ExpectedPriceGap(o)
                       + 30 * Above(ExpectedReserveResponse(o), Gain(o.dReserve))
                       + 25 * Gain(FairValueGap(o))))
  IN Clamp(Times(raw, U - W(35 * Saturation(o))))
Overreaction(o) ==
  Clamp(W(50 * Above(PriceResponse(o), ExpectedPriceResponse(o))
            + 30 * Above(RealizedLevel(o), FairValueAnchor(o)) + 20 * ReversalRisk(o)))

(* How much of the reading rests on proxies.                                *)
OnchainSupport(o) ==
  Clamp(W(35 * StructureFloor(o) + 25 * MarketRelevance(o) + 20 * (U - Concentration(o))
            + 20 * MarketReliability(o)))
ProxyReliance(o) ==
  Clamp(Times(W(23 * (U - o.fresh) + 18 * (U - HistoryDepth(o)) + 14 * (U - DataCoverage(o))
                  + 14 * (U - MarketReliability(o)) + 12 * (U - ValidatorReliability(o))
                  + 9 * (U - ValidatorCoverage(o)) + 10 * (U - o.priceTrust)),
              U - W(45 * OnchainSupport(o))))
LowManipulation(o) ==
  Clamp(W(22 * o.fresh + 20 * (U - Concentration(o)) + 20 * StructureFloor(o)
            + 18 * MarketRelevance(o) + 10 * DataCoverage(o) + 10 * MarketReliability(o)))
Fabrication(o) ==
  Clamp(W(30 * ProxyReliance(o) + 20 * (U - DataCoverage(o)) + 15 * (U - ValidatorCoverage(o))
            + 15 * (U - Coherence(o)) + 10 * Overreaction(o) + 10 * Crowding(o)
            - 12 * LowManipulation(o) - 8 * StructureFloor(o)))
Conviction(o) ==
  Clamp(W(50 * Fabrication(o) + 30 * Above(Underreaction(o), DataCoverage(o))
            + 20 * Above(Underreaction(o), Coherence(o))))
=============================================================================
