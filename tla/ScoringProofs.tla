---------------------------- MODULE ScoringProofs ----------------------------
(***************************************************************************)
(* Proofs about what build_scores publishes: the features, signals and rule *)
(* bounds are fractions for every observation and any peers, the hard rules *)
(* never reward a subnet for getting worse, and each published signal moves *)
(* as SignalDrift says.                                                     *)
(***************************************************************************)
EXTENDS Settling, FiniteSetTheorems, SequenceTheorems, WellFoundedInduction, TLAPS

-----------------------------------------------------------------------------
(* The arithmetic of thousandths.                                           *)
LEMMA Arithmetic ==
  /\ \A x \in Int : W(x) \in Int /\ Clamp(x) \in Int /\ Clamp(x) \in Fraction /\ Gain(x) \in Int
  /\ \A x, y \in Int : /\ Least(x, y) \in Int /\ Most(x, y) \in Int
                       /\ Above(x, y) \in Int /\ Times(x, y) \in Int
  /\ \A x \in Fraction : x \in Int
<1>1. \A x \in Int : x \div 100 \in Int
  OBVIOUS
<1>2. \A x, y \in Int : (x * y) \div 1000 \in Int
  <2>1. \A x, y \in Int : x * y \in Int
    OBVIOUS
  <2>2. \A z \in Int : z \div 1000 \in Int
    OBVIOUS
  <2> QED
    BY <2>1, <2>2
<1>3. \A x \in Int : Clamp(x) \in Fraction
  BY DEF Clamp, Most, Least, Fraction, U
<1>4. \A x \in Fraction : x \in Int
  BY DEF Fraction, U
<1>5. \A x \in Int : W(x) \in Int /\ Clamp(x) \in Int /\ Gain(x) \in Int
  BY <1>1, <1>3, <1>4 DEF W, Gain, Most
<1>6. \A x, y \in Int : Least(x, y) \in Int /\ Most(x, y) \in Int /\ Above(x, y) \in Int
  BY DEF Least, Most, Above
<1>7. \A x, y \in Int : Times(x, y) \in Int
  BY <1>2 DEF Times, U
<1> QED
  BY <1>3, <1>4, <1>5, <1>6, <1>7

LEMMA ClampTyped == \A x \in Int : Clamp(x) \in Int
  BY Arithmetic
LEMMA WTyped == \A x \in Int : W(x) \in Int
  BY Arithmetic
LEMMA GainTyped == \A x \in Int : Gain(x) \in Int
  BY Arithmetic
LEMMA AboveTyped == \A x, y \in Int : Above(x, y) \in Int
  BY Arithmetic
LEMMA TimesTyped == \A x, y \in Int : Times(x, y) \in Int
  BY Arithmetic

(* An observation whose pool is one of those the logarithms are given for.  *)
Known(o) == o \in Observations /\ o.pool \in DOMAIN Ln1p \cup {0}

LEMMA KnownTypes ==
  ASSUME NEW o, Known(o)
  PROVE  /\ o.pool \in Nat /\ o.emission \in Nat /\ o.active \in Int /\ o.breadth \in Int
         /\ o.validators \in Int /\ o.ownership \in Int /\ o.fresh \in Int
         /\ o.entropy \in Int /\ o.disagreement \in Int /\ o.rows \in Nat
         /\ o.dPrice \in Int /\ o.dQuality \in Int /\ o.dActive \in Int /\ o.dBreadth \in Int
         /\ o.dStructure \in Int /\ o.dEmission \in Int /\ o.dReserve \in Int
         /\ o.dConcentration \in Int /\ o.accel \in Int /\ o.trend \in Int
         /\ o.priceTrust \in Int /\ o.priceLevel \in Int /\ o.anchor \in Int
         /\ o.github \in Repositories
<1>1. \A x \in Fraction : x \in Int
  BY Arithmetic
<1>2. \A x \in Fraction \cup {Missing} : x \in Int
  BY <1>1 DEF Missing
<1>3. \A x \in {250, 600, U} : x \in Int
  BY DEF U
<1> QED
  BY <1>1, <1>2, <1>3 DEF Known, Observations

-----------------------------------------------------------------------------
(* Every feature of an observation is a number.                             *)
LEMMA ConditionedTypes ==
  ASSUME NEW o, Known(o)
  PROVE  /\ SourceLegitimacy(o.github) \in Int /\ DevRecency(o.github) \in Int
         /\ o.github.continuity \in Int /\ ExternalReliability(o.github) \in Int
         /\ MarketReliability(o) \in Int /\ ValidatorReliability(o) \in Int
         /\ HistoryReliability(o) \in Int /\ HistoryDepth(o) \in Int
         /\ ValidatorCoverage(o) \in Int /\ DataCoverage(o) \in Int
<1>0. o.rows \in Nat /\ o.github \in Repositories
  BY KnownTypes
<1>1. o.github.continuity \in Int /\ o.github.breadth \in Int
  BY <1>0, Arithmetic DEF Repositories
<1>2. SourceLegitimacy(o.github) \in Int
  BY DEF SourceLegitimacy, U
<1>3. DevRecency(o.github) \in Int
  BY DEF DevRecency, U
<1>4. ExternalReliability(o.github) \in Int
  BY <1>1, <1>2, <1>3, ClampTyped, WTyped DEF ExternalReliability, U
<1>5. MarketReliability(o) \in Int /\ ValidatorCoverage(o) \in Int
  BY DEF MarketReliability, ValidatorCoverage, U
<1>6. ValidatorReliability(o) \in Int
  BY DEF ValidatorReliability, U
<1>7. HistoryReliability(o) \in Int
  BY <1>0, ClampTyped DEF HistoryReliability, U
<1>8. HistoryDepth(o) \in Int
  BY <1>0, ClampTyped, WTyped DEF HistoryDepth, U
<1>9. DataCoverage(o) \in Int
  <2>1. MarketCoverage(o) \in Int
    BY DEF MarketCoverage, U
  <2>2. HistoryCoverage(o) \in Int
    BY DEF HistoryCoverage, U
  <2> QED
    BY <1>5, <2>1, <2>2, ClampTyped, WTyped DEF DataCoverage, U
<1> QED
  BY <1>1, <1>2, <1>3, <1>4, <1>5, <1>6, <1>7, <1>8, <1>9

LEMMA MarketTypes ==
  ASSUME NEW o, Known(o)
  PROVE  /\ Thinness(o) \in Int /\ Apy(o) \in Int /\ MarketRelevance(o) \in Int
         /\ StructureFloor(o) \in Int /\ Concentration(o) \in Int
<1>0. /\ o.pool \in Nat /\ o.emission \in Nat /\ o.active \in Int /\ o.breadth \in Int
      /\ o.validators \in Int /\ o.ownership \in Int
  BY KnownTypes
<1>1. \A x \in Nat : Slippage(o, x) \in Int
  <2>1. \A x \in Nat : o.pool # 0 => (x * U) \div o.pool \in Int
    BY <1>0 DEF U
  <2> QED
    BY <2>1, ClampTyped DEF Slippage, U
<1>2. Thinness(o) \in Int
  BY <1>1 DEF Thinness
<1>3. Apy(o) \in Int
  <2>1. o.emission * 2628 \in Int /\ 10 * o.pool \in Nat /\ (o.pool # 0 => 10 * o.pool > 0)
    BY <1>0
  <2> QED
    BY <2>1 DEF Apy
<1>4. LogScaled(o.pool, 50000) \in Int /\ LogScaled(o.pool, 200000) \in Int
  <2>1. /\ Ln1p[50000] \in Nat \ {0} /\ Ln1p[200000] \in Nat \ {0}
        /\ o.pool # 0 => Ln1p[o.pool] \in Nat
    BY ScoringAssumption DEF Known
  <2>2. /\ o.pool # 0 => (U * Ln1p[o.pool]) \div Ln1p[50000] \in Int
        /\ o.pool # 0 => (U * Ln1p[o.pool]) \div Ln1p[200000] \in Int
    BY <2>1 DEF U
  <2> QED
    BY <2>2, ClampTyped DEF LogScaled, U
<1>5. MarketRelevance(o) \in Int
  BY <1>0, <1>4, ClampTyped DEF MarketRelevance, U
<1>6. StructureFloor(o) \in Int
  BY <1>0, <1>2, <1>4, ClampTyped DEF StructureFloor, U
<1>7. Absorption(o) \in Int
  BY <1>0, <1>5, <1>6, ClampTyped, WTyped DEF Absorption, U
<1>8. Concentration(o) \in Int
  <2>1. U - W(42 * Absorption(o)) \in Int
    BY <1>7, WTyped DEF U
  <2>2. Times(o.ownership, U - W(42 * Absorption(o))) \in Int
    BY <1>0, <2>1, Arithmetic
  <2> QED
    BY <2>2, Arithmetic DEF Concentration
<1> QED
  BY <1>2, <1>3, <1>5, <1>6, <1>8

LEMMA DeregTyped ==
  ASSUME NEW o, Known(o)
  PROVE  DeregRisk(o) \in Int
<1>1. o.active \in Int /\ o.breadth \in Int
  BY KnownTypes
<1>2. Concentration(o) \in Int
  BY MarketTypes
<1>3. Above(350, o.active) \in Int /\ Above(200, o.breadth) \in Int
  BY <1>1 DEF Above, Most
<1>4. (IF o.allowed THEN U ELSE 0) \in Int
  BY DEF U
<1> QED
  BY <1>2, <1>3, <1>4, ClampTyped, WTyped DEF DeregRisk

LEMMA PriceTypes ==
  ASSUME NEW o, Known(o)
  PROVE  /\ PriceResponse(o) \in Int /\ QualityMomentum(o) \in Int /\ PriceLag(o) \in Int
         /\ StickyUsage(o) \in Int /\ Retention(o) \in Int
         /\ ReserveGrowthWithoutPrice(o) \in Int /\ ParticipationWithoutCrowding(o) \in Int
         /\ ReversalRisk(o) \in Int /\ Crowding(o) \in Int /\ MarketIntegrity(o) \in Int
         /\ Coherence(o) \in Int
<1>0. /\ o.dPrice \in Int /\ o.dQuality \in Int /\ o.dActive \in Int /\ o.dBreadth \in Int
      /\ o.dStructure \in Int /\ o.dEmission \in Int /\ o.dReserve \in Int
      /\ o.dConcentration \in Int /\ o.accel \in Int /\ o.trend \in Int
      /\ o.priceTrust \in Int /\ o.active \in Int /\ o.breadth \in Int
  BY KnownTypes
<1>1. /\ Thinness(o) \in Int /\ StructureFloor(o) \in Int /\ Concentration(o) \in Int
  BY MarketTypes
<1>2. PriceChange(o) \in Int
  BY <1>0, Arithmetic DEF PriceChange
<1>3. PriceResponse(o) \in Int
  BY <1>2, GainTyped DEF PriceResponse
<1>4. QualityMomentum(o) \in Int
  BY <1>0, WTyped, GainTyped DEF QualityMomentum
<1>5. PriceLag(o) \in Int
  BY <1>0, <1>3, <1>4, WTyped, GainTyped DEF PriceLag
<1>6. StickyUsage(o) \in Int
  BY <1>0, WTyped, GainTyped DEF StickyUsage
<1>7. Retention(o) \in Int
  BY <1>0, <1>3, <1>6, WTyped, GainTyped DEF Retention
<1>8. ReserveGrowthWithoutPrice(o) \in Int
  BY <1>0, <1>3, AboveTyped DEF ReserveGrowthWithoutPrice
<1>9. ParticipationWithoutCrowding(o) \in Int
  <2>1. Clamp(W(55 * o.active + 45 * o.breadth)) \in Int
    BY <1>0, ClampTyped, WTyped DEF U
  <2>2. Clamp(U - W(75 * Concentration(o))) \in Int
    BY <1>1, ClampTyped, WTyped DEF U
  <2> QED
    BY <1>0, <2>1, <2>2, WTyped, GainTyped DEF ParticipationWithoutCrowding
<1>10. ReversalRisk(o) \in Int
  BY <1>0, <1>2, AboveTyped, GainTyped DEF ReversalRisk
<1>11. Crowding(o) \in Int
  BY <1>1, <1>3, ClampTyped, WTyped DEF Crowding, U
<1>12. DeregRisk(o) \in Int
  BY DeregTyped
<1>13. MarketIntegrity(o) \in Int
  BY <1>1, <1>11, <1>12, ClampTyped, WTyped DEF MarketIntegrity, U
<1>14. Elasticity(o) \in Int
  <2>1. Magnitude(PriceChange(o)) * U \in Int
    BY <1>2 DEF Magnitude, U
  <2>2. Magnitude(o.dReserve) + 10 \in Nat \ {0}
    BY <1>0 DEF Magnitude
  <2> QED
    BY <2>1, <2>2 DEF Elasticity
<1>15. Coherence(o) \in Int
  <2>1. Above(o.dEmission, Gain(o.dActive)) \in Int
    BY <1>0, AboveTyped, GainTyped
  <2>2. Clamp(Above(Elasticity(o), U)) \in Int
    BY <1>14, ClampTyped, AboveTyped DEF U
  <2> QED
    BY <1>10, <2>1, <2>2, ClampTyped, WTyped DEF Coherence, U
<1> QED
  BY <1>3, <1>4, <1>5, <1>6, <1>7, <1>8, <1>9, <1>10, <1>11, <1>13, <1>15

LEMMA ValuationTypes ==
  ASSUME NEW o, Known(o)
  PROVE  /\ ExpectedPriceGap(o) \in Int /\ FairValueGap(o) \in Int /\ Underreaction(o) \in Int
         /\ Overreaction(o) \in Int
<1>0. /\ o.dQuality \in Int /\ o.dActive \in Int /\ o.dReserve \in Int
      /\ o.dConcentration \in Int /\ o.priceTrust \in Int /\ o.priceLevel \in Int
      /\ o.anchor \in Int
  BY KnownTypes
<1>1. MarketRelevance(o) \in Int /\ StructureFloor(o) \in Int
  BY MarketTypes
<1>2. /\ PriceResponse(o) \in Int /\ QualityMomentum(o) \in Int /\ StickyUsage(o) \in Int
      /\ Retention(o) \in Int /\ ReversalRisk(o) \in Int /\ Crowding(o) \in Int
      /\ MarketIntegrity(o) \in Int
  BY PriceTypes
<1>3. ExpectedPriceResponse(o) \in Int
  BY <1>0, WTyped, GainTyped DEF ExpectedPriceResponse
<1>4. ExpectedReserveResponse(o) \in Int
  BY <1>0, <1>2, WTyped, GainTyped DEF ExpectedReserveResponse
<1>5. ExpectedPriceGap(o) \in Int
  <2>1. Gain(W(75 * ExpectedPriceResponse(o) + 25 * QualityMomentum(o)
                 - 85 * PriceResponse(o))) \in Int
    BY <1>2, <1>3, WTyped, GainTyped
  <2> QED
    BY <1>0, <2>1, Arithmetic DEF ExpectedPriceGap
<1>6. FairValueAnchor(o) \in Int
  BY <1>0, <1>1, <1>2, ClampTyped, WTyped DEF FairValueAnchor, U
<1>7. RealizedLevel(o) \in Int
  <2>1. U - o.priceTrust \in Int
    BY <1>0 DEF U
  <2>2. Times(FairValueAnchor(o), U - o.priceTrust) \in Int
    BY <1>6, <2>1, Arithmetic
  <2>3. Times(o.priceLevel, o.priceTrust) \in Int
    BY <1>0, Arithmetic
  <2> QED
    BY <2>2, <2>3, ClampTyped DEF RealizedLevel, U
<1>8. Saturation(o) \in Int
  BY <1>1, <1>2, <1>7, ClampTyped, WTyped DEF Saturation, U
<1>9. FairValueGap(o) \in Int
  <2>1. U - W(45 * Saturation(o)) \in Int
    BY <1>8, WTyped DEF U
  <2>2. /\ Above(FairValueAnchor(o), RealizedLevel(o)) \in Int
        /\ Above(RealizedLevel(o), FairValueAnchor(o)) \in Int
    BY <1>6, <1>7, AboveTyped
  <2>3. Times(Above(FairValueAnchor(o), RealizedLevel(o)), U - W(45 * Saturation(o))) \in Int
    BY <2>1, <2>2, Arithmetic
  <2> QED
    BY <2>2, <2>3 DEF FairValueGap
<1>10. Underreaction(o) \in Int
  <2> DEFINE raw == Clamp(W(45 * ExpectedPriceGap(o)
                              + 30 * Above(ExpectedReserveResponse(o), Gain(o.dReserve))
                              + 25 * Gain(FairValueGap(o))))
  <2>1. raw \in Int
    <3>1. /\ Above(ExpectedReserveResponse(o), Gain(o.dReserve)) \in Int
          /\ Gain(FairValueGap(o)) \in Int
      BY <1>0, <1>4, <1>9, AboveTyped, GainTyped
    <3> QED
      BY <1>5, <3>1, ClampTyped, WTyped
  <2>2. U - W(35 * Saturation(o)) \in Int
    BY <1>8, WTyped DEF U
  <2> HIDE DEF raw
  <2>3. Times(raw, U - W(35 * Saturation(o))) \in Int
    BY <2>1, <2>2, Arithmetic
  <2>4. Clamp(Times(raw, U - W(35 * Saturation(o)))) \in Int
    BY <2>3, Arithmetic
  <2> QED
    BY <2>4 DEF Underreaction, raw
<1>11. Overreaction(o) \in Int
  <2>1. /\ Above(PriceResponse(o), ExpectedPriceResponse(o)) \in Int
        /\ Above(RealizedLevel(o), FairValueAnchor(o)) \in Int
    BY <1>2, <1>3, <1>6, <1>7, AboveTyped
  <2> QED
    BY <1>2, <2>1, ClampTyped, WTyped DEF Overreaction
<1> QED
  BY <1>5, <1>9, <1>10, <1>11

LEMMA EvidenceTypes ==
  ASSUME NEW o, Known(o)
  PROVE  ProxyReliance(o) \in Int /\ Fabrication(o) \in Int
<1>0. o.fresh \in Int /\ o.priceTrust \in Int
  BY KnownTypes
<1>1. /\ MarketReliability(o) \in Int /\ ValidatorReliability(o) \in Int
      /\ HistoryDepth(o) \in Int /\ ValidatorCoverage(o) \in Int /\ DataCoverage(o) \in Int
  BY ConditionedTypes
<1>2. MarketRelevance(o) \in Int /\ StructureFloor(o) \in Int /\ Concentration(o) \in Int
  BY MarketTypes
<1>3. Crowding(o) \in Int /\ Coherence(o) \in Int /\ Overreaction(o) \in Int
  BY PriceTypes, ValuationTypes
<1>4. OnchainSupport(o) \in Int
  BY <1>1, <1>2, ClampTyped, WTyped DEF OnchainSupport, U
<1>5. ProxyReliance(o) \in Int
  <2> DEFINE lack == W(23 * (U - o.fresh) + 18 * (U - HistoryDepth(o)) + 14 * (U - DataCoverage(o))
                         + 14 * (U - MarketReliability(o)) + 12 * (U - ValidatorReliability(o))
                         + 9 * (U - ValidatorCoverage(o)) + 10 * (U - o.priceTrust))
             rest == U - W(45 * OnchainSupport(o))
  <2>1. lack \in Int /\ rest \in Int
    BY <1>0, <1>1, <1>4, WTyped DEF U
  <2> HIDE DEF lack, rest
  <2>2. Clamp(Times(lack, rest)) \in Int
    BY <2>1, Arithmetic
  <2> QED
    BY <2>2 DEF ProxyReliance, lack, rest
<1>6. LowManipulation(o) \in Int
  BY <1>0, <1>1, <1>2, ClampTyped, WTyped DEF LowManipulation, U
<1>7. Fabrication(o) \in Int
  BY <1>1, <1>2, <1>3, <1>5, <1>6, ClampTyped, WTyped DEF Fabrication, U
<1> QED
  BY <1>5, <1>7

-----------------------------------------------------------------------------
(* Ranks among the peers, and the absolute scales.                          *)
Group == DOMAIN Peers

LEMMA PeersKnown ==
  /\ \A i \in Group : Known(Peers[i])
  /\ IsFiniteSet(Group)
<1>1. Peers \in Seq(Observations)
  BY ScoringAssumption
<1>2. Len(Peers) \in Nat /\ DOMAIN Peers = 1..Len(Peers)
  BY <1>1, LenProperties
<1>3. \A i \in Group : Peers[i] \in Observations
  BY <1>1, <1>2 DEF Group
<1>4. \A i \in Group : Peers[i].pool \in DOMAIN Ln1p \cup {0}
  BY ScoringAssumption DEF Group
<1>5. IsFiniteSet(1..Len(Peers))
  BY <1>2, FS_Interval
<1> QED
  BY <1>2, <1>3, <1>4, <1>5 DEF Known, Group

LEMMA RankTyped ==
  ASSUME NEW x, NEW others, DOMAIN others \in SUBSET Group
  PROVE  Rank(x, others) \in Int
<1>1. IsFiniteSet(DOMAIN others)
  BY PeersKnown, FS_Subset
<1> DEFINE Below == {i \in DOMAIN others : others[i] < x}
           Tied == {i \in DOMAIN others : others[i] = x}
<1>2. IsFiniteSet(Below) /\ IsFiniteSet(Tied)
  BY <1>1, FS_Subset
<1>3. Cardinality(Below) \in Nat /\ Cardinality(Tied) \in Nat /\ Cardinality(DOMAIN others) \in Nat
  BY <1>1, <1>2, FS_CardinalityType
<1>4. DOMAIN others # {} => Cardinality(DOMAIN others) # 0
  BY <1>1, FS_EmptySet
<1> HIDE DEF Below, Tied
<1>5. (2 * Cardinality(Below) + Cardinality(Tied)) * U \in Int
  BY <1>3 DEF U
<1>6. DOMAIN others # {} => 2 * Cardinality(DOMAIN others) \in Nat \ {0}
  BY <1>3, <1>4
<1>7. DOMAIN others # {} =>
        ((2 * Cardinality(Below) + Cardinality(Tied)) * U) \div (2 * Cardinality(DOMAIN others)) \in Int
  BY <1>5, <1>6
<1>8. Rank(x, others) =
        IF DOMAIN others = {} THEN 0
        ELSE ((2 * Cardinality(Below) + Cardinality(Tied)) * U) \div (2 * Cardinality(DOMAIN others))
  BY DEF Rank, Below, Tied
<1>9. CASE DOMAIN others = {}
  BY <1>8, <1>9
<1>10. CASE DOMAIN others # {}
  BY <1>7, <1>8, <1>10
<1> QED
  BY <1>9, <1>10

(* A scale rises in its first coordinate.                                   *)
Scale(points) ==
  /\ Len(points) \in Nat \ {0}
  /\ DOMAIN points = 1..Len(points)
  /\ \A i \in DOMAIN points : points[i][1] \in Int /\ points[i][2] \in Int
  /\ \A i \in 1..(Len(points) - 1) : points[i][1] < points[i + 1][1]

LEMMA PiecewiseTyped ==
  ASSUME NEW x \in Int, NEW points, Scale(points)
  PROVE  Piecewise(x, points) \in Int
<1> DEFINE Reached == {i \in DOMAIN points : points[i][1] <= x}
           left == Cardinality(Reached)
<1>1. Len(points) \in Nat \ {0} /\ DOMAIN points = 1..Len(points)
  BY DEF Scale
<1>2. IsFiniteSet(1..Len(points)) /\ Cardinality(1..Len(points)) = Len(points)
  BY <1>1, FS_Interval
<1>3. Reached \in SUBSET (1..Len(points))
  BY <1>1
<1>4. IsFiniteSet(Reached) /\ left \in Nat /\ left <= Len(points)
  BY <1>2, <1>3, FS_Subset, FS_CardinalityType
<1>5. Reached # {} => left # 0
  BY <1>4, FS_EmptySet
<1>6. Reached = {} => Piecewise(x, points) = points[1][2]
  <2>1. Reached = {} => left = 0
    BY FS_EmptySet
  <2>2. Reached = {} => left # Len(points)
    BY <1>1, <2>1
  <2> QED
    BY <2>2, Zenon DEF Piecewise
<1>7. Reached # {} /\ left = Len(points) => Piecewise(x, points) = points[left][2]
  BY DEF Piecewise
<1>8. Reached # {} /\ left # Len(points) =>
         Piecewise(x, points) =
           points[left][2] + ((x - points[left][1]) * (points[left + 1][2] - points[left][2]))
             \div (points[left + 1][1] - points[left][1])
  BY DEF Piecewise
<1> HIDE DEF Reached, left
<1>9. CASE Reached = {}
  <2>1. points[1][2] \in Int
    BY <1>1 DEF Scale
  <2> QED
    BY <1>9, <1>6, <2>1
<1>10. CASE Reached # {} /\ left = Len(points)
  <2>1. points[left][2] \in Int
    BY <1>1, <1>10 DEF Scale
  <2> QED
    BY <1>10, <1>7, <2>1
<1>11. CASE Reached # {} /\ left # Len(points)
  <2>1. left \in 1..(Len(points) - 1) /\ left \in DOMAIN points /\ left + 1 \in DOMAIN points
    <3>1. left \in Nat /\ left # 0 /\ left <= Len(points) /\ left # Len(points)
      BY <1>4, <1>5, <1>11
    <3> DEFINE n == Len(points)
    <3>2. n \in Nat /\ left \in Nat /\ left # 0 /\ left <= n /\ left # n
      BY <1>1, <3>1
    <3> HIDE DEF n
    <3>3. left \in 1..(n - 1) /\ left \in 1..n /\ left + 1 \in 1..n
      BY <3>2
    <3> QED
      BY <1>1, <3>3 DEF n
  <2>2. /\ points[left][1] \in Int /\ points[left][2] \in Int
        /\ points[left + 1][1] \in Int /\ points[left + 1][2] \in Int
        /\ points[left][1] < points[left + 1][1]
    BY <2>1 DEF Scale
  <2>3. points[left + 1][1] - points[left][1] \in Nat \ {0}
    BY <2>2
  <2>4. (x - points[left][1]) * (points[left + 1][2] - points[left][2]) \in Int
    <3>1. x - points[left][1] \in Int /\ points[left + 1][2] - points[left][2] \in Int
      BY <2>2
    <3> QED
      BY <3>1
  <2>5. ((x - points[left][1]) * (points[left + 1][2] - points[left][2]))
           \div (points[left + 1][1] - points[left][1]) \in Int
    BY <2>3, <2>4
  <2>6. points[left][2] + ((x - points[left][1]) * (points[left + 1][2] - points[left][2]))
           \div (points[left + 1][1] - points[left][1]) \in Int
    BY <2>2, <2>5
  <2> QED
    BY <1>11, <1>8, <2>6
<1> QED
  BY <1>9, <1>10, <1>11

LEMMA Scales ==
  /\ Scale(ReservePoints) /\ Scale(ValidatorPoints) /\ Scale(BreadthPoints)
  /\ Scale(ThinnessPoints) /\ Scale(ConcentrationPoints) /\ Scale(HistoryPoints)
<1>1. Scale(ReservePoints)
  BY DEF Scale, ReservePoints, U
<1>2. Scale(ValidatorPoints)
  BY DEF Scale, ValidatorPoints, U
<1>3. Scale(BreadthPoints)
  BY DEF Scale, BreadthPoints, U
<1>4. Scale(ThinnessPoints)
  BY DEF Scale, ThinnessPoints, U
<1>5. Scale(ConcentrationPoints)
  BY DEF Scale, ConcentrationPoints, U
<1>6. Scale(HistoryPoints)
  BY DEF Scale, HistoryPoints, U
<1> QED
  BY <1>1, <1>2, <1>3, <1>4, <1>5, <1>6

(* Every normalised metric is a number.                                     *)
Numeric(n) ==
  /\ n.active \in Int /\ n.breadth \in Int /\ n.validators \in Int
  /\ n.reserve \in Int /\ n.thinness \in Int /\ n.concentration \in Int
  /\ n.historyDepth \in Int /\ n.discrimination \in Int /\ n.disagreement \in Int
  /\ n.relevance \in Int /\ n.floor \in Int /\ n.crowding \in Int
  /\ n.overreaction \in Int /\ n.reversal \in Int /\ n.qualityChange \in Int
  /\ n.acceleration \in Int /\ n.reserveChange \in Int
  /\ n.reserveWithoutPrice \in Int /\ n.priceLag \in Int /\ n.priceGap \in Int
  /\ n.uncrowded \in Int /\ n.fairValue \in Int /\ n.underreaction \in Int
  /\ n.coverage \in Int /\ n.consensusGap \in Int /\ n.coherence \in Int
  /\ n.fabrication \in Int /\ n.market \in Int /\ n.validator \in Int
  /\ n.history \in Int /\ n.external \in Int /\ n.source \in Int
  /\ n.recency \in Int /\ n.continuity \in Int /\ n.freshness \in Int
  /\ n.validatorCoverage \in Int

LEMMA ScoredTyped ==
  ASSUME NEW o, NEW metric, Raw(metric, o) \in Int, NEW points, Scale(points)
  PROVE  Scored(metric, points, o) \in Int
<1>1. Piecewise(Raw(metric, o), points) \in Int
  BY PiecewiseTyped
<1>2. Rank(Raw(metric, o), Among(metric)) \in Int
  <2>1. DOMAIN Among(metric) \in SUBSET Group
    BY DEF Among, Group
  <2> QED
    BY <2>1, RankTyped
<1> QED
  BY <1>1, <1>2, ClampTyped, WTyped DEF Scored

LEMMA RankedTyped ==
  ASSUME NEW o, NEW metric
  PROVE  RankedIfPositive(metric, o) \in Int /\ Ranked(metric, o) \in Int
<1> DEFINE positive == {i \in DOMAIN Peers : Raw(metric, Peers[i]) > 0}
<1>1. DOMAIN Among(metric) \in SUBSET Group
  BY DEF Among, Group
<1>2. DOMAIN [i \in positive |-> Raw(metric, Peers[i])] \in SUBSET Group
  BY DEF Group
<1>3. /\ Rank(Raw(metric, o), Among(metric)) \in Int
      /\ Rank(Raw(metric, o), [i \in positive |-> Raw(metric, Peers[i])]) \in Int
  BY <1>1, <1>2, RankTyped
<1> QED
  BY <1>3 DEF RankedIfPositive, Ranked

LEMMA ScoredThinnessTyped ==
  ASSUME NEW o, Known(o)
  PROVE  ScoredThinness(o) \in Int
<1> DEFINE traded == {i \in DOMAIN Peers : Peers[i].pool > 0}
           others == [i \in traded |-> Thinness(Peers[i])]
<1>1. DOMAIN others \in SUBSET Group
  BY DEF Group
<1>2. Rank(Thinness(o), others) \in Int
  BY <1>1, RankTyped
<1>3. Piecewise(Thinness(o), ThinnessPoints) \in Int
  BY MarketTypes, Scales, PiecewiseTyped
<1> HIDE DEF others
<1>4. Clamp(W(60 * Piecewise(Thinness(o), ThinnessPoints) + 40 * Rank(Thinness(o), others))) \in Int
  BY <1>2, <1>3, ClampTyped, WTyped
<1> QED
  BY <1>4 DEF ScoredThinness, others

LEMMA NormalisedTypes ==
  ASSUME NEW o, Known(o)
  PROVE  Numeric(Normalised(o))
<1> DEFINE n == Normalised(o)
<1>0. /\ o.active \in Int /\ o.breadth \in Int /\ o.validators \in Int /\ o.pool \in Int
      /\ o.entropy \in Int /\ o.disagreement \in Int
  BY KnownTypes
<1>1. n.active \in Int /\ n.relevance \in Int /\ n.floor \in Int
  BY <1>0, MarketTypes, ClampTyped DEF Normalised
<1>2. n.breadth \in Int
  <2>1. Raw("breadth", o) \in Int
    BY <1>0 DEF Raw
  <2> QED
    BY <2>1, ScoredTyped, Scales DEF Normalised
<1>3. n.validators \in Int
  <2>1. Raw("validators", o) \in Int
    BY <1>0 DEF Raw
  <2> QED
    BY <2>1, ScoredTyped, Scales DEF Normalised
<1>4. n.reserve \in Int
  <2>1. Raw("reserve", o) \in Int
    BY <1>0 DEF Raw
  <2> QED
    BY <2>1, ScoredTyped, Scales DEF Normalised
<1>5. n.concentration \in Int
  <2>1. Raw("concentration", o) \in Int
    BY MarketTypes DEF Raw
  <2> QED
    BY <2>1, ScoredTyped, Scales DEF Normalised
<1>6. n.historyDepth \in Int
  <2>1. Raw("historyDepth", o) \in Int
    BY ConditionedTypes DEF Raw
  <2> QED
    BY <2>1, ScoredTyped, Scales DEF Normalised
<1>7. n.thinness \in Int
  BY ScoredThinnessTyped DEF Normalised
<1>8. n.discrimination \in Int /\ n.disagreement \in Int
  BY <1>0 DEF Normalised, U
<1>9. n.crowding \in Int /\ n.reversal \in Int /\ n.coherence \in Int /\ n.fabrication \in Int
  BY PriceTypes, EvidenceTypes, ClampTyped DEF Normalised
<1>10. /\ n.overreaction \in Int /\ n.qualityChange \in Int /\ n.acceleration \in Int
       /\ n.reserveChange \in Int /\ n.reserveWithoutPrice \in Int /\ n.priceLag \in Int
       /\ n.priceGap \in Int /\ n.uncrowded \in Int /\ n.fairValue \in Int
       /\ n.underreaction \in Int
  BY RankedTyped DEF Normalised
<1>11. n.coverage \in Int /\ n.consensusGap \in Int /\ n.market \in Int
  BY ConditionedTypes DEF Normalised, U
<1>12. n.validator \in Int /\ n.history \in Int /\ n.external \in Int
  BY ConditionedTypes DEF Normalised
<1>13. n.source \in Int /\ n.recency \in Int /\ n.continuity \in Int
  BY ConditionedTypes DEF Normalised
<1>14. n.freshness \in Int /\ n.validatorCoverage \in Int
  BY DEF Normalised
<1> HIDE DEF n
<1>15. Numeric(n)
  BY <1>1, <1>2, <1>3, <1>4, <1>5, <1>6, <1>7, <1>8, <1>9, <1>10, <1>11, <1>12, <1>13, <1>14
  DEF Numeric
<1> QED
  BY <1>15 DEF n

-----------------------------------------------------------------------------
(* Every component is a fraction.                                           *)
LEMMA ClampFraction == \A x \in Int : Clamp(x) \in Fraction
  BY Arithmetic
LEMMA FractionInt == \A x \in Fraction : x \in Int
  BY Arithmetic
LEMMA FractionBounds == \A x \in Fraction : x \in Int /\ 0 <= x /\ x <= U
  BY DEF Fraction, U
LEMMA LeastOfFraction == \A x \in Nat, y \in Fraction : Least(x, y) \in Fraction
  BY DEF Least, Fraction, U

LEMMA QualityTypes ==
  ASSUME NEW n, Numeric(n)
  PROVE  LET q == QualityComponents(n)
         IN /\ q.participation \in Fraction /\ q.validators \in Fraction
            /\ q.liquidity \in Fraction /\ q.spread \in Fraction /\ q.relevance \in Fraction
<1> DEFINE participation == Clamp(W(42 * n.active + 38 * n.breadth + 20 * n.freshness))
           liquidity == Clamp(W(55 * n.reserve + 45 * n.thinness))
           relevance == Clamp(W(38 * n.relevance + 32 * n.reserve + 15 * participation + 15 * liquidity))
<1>1. participation \in Fraction /\ liquidity \in Fraction
  BY ClampFraction, WTyped DEF Numeric
<1>2. participation \in Int /\ liquidity \in Int
  BY <1>1, FractionInt
<1> HIDE DEF participation, liquidity
<1>3. relevance \in Fraction
  BY <1>2, ClampFraction, WTyped DEF Numeric
<1> HIDE DEF relevance
<1>4. Clamp(W(42 * n.validators + 28 * n.validatorCoverage
                + 15 * n.discrimination + 15 * (U - n.disagreement))) \in Fraction
  BY ClampFraction, WTyped DEF Numeric, U
<1>5. Clamp(W(55 * (U - n.concentration) + 25 * n.breadth + 20 * n.floor)) \in Fraction
  BY ClampFraction, WTyped DEF Numeric, U
<1> QED
  BY <1>1, <1>3, <1>4, <1>5 DEF QualityComponents, participation, liquidity, relevance

LEMMA OpportunityTypes ==
  ASSUME NEW n, Numeric(n)
  PROVE  LET opp == OpportunityComponents(n)
         IN /\ opp.momentum \in Fraction /\ opp.reserve \in Fraction /\ opp.lag \in Fraction
            /\ opp.uncrowded \in Fraction /\ opp.value \in Fraction
<1> DEFINE level == Clamp(W(45 * n.active + 35 * n.breadth + 20 * n.validators))
<1>1. level \in Int
  BY ClampTyped, WTyped DEF Numeric
<1> HIDE DEF level
<1>2. Clamp(W(60 * n.qualityChange + 40 * n.acceleration)) \in Fraction
  BY ClampFraction, WTyped DEF Numeric
<1>3. Clamp(W(65 * n.reserveChange + 35 * n.reserveWithoutPrice)) \in Fraction
  BY ClampFraction, WTyped DEF Numeric
<1>4. Clamp(W(72 * n.priceLag + 28 * n.priceGap)) \in Fraction
  BY ClampFraction, WTyped DEF Numeric
<1>5. Clamp(W(48 * n.uncrowded + 20 * n.breadth + 12 * (U - n.crowding) + 20 * level)) \in Fraction
  BY <1>1, ClampFraction, WTyped DEF Numeric, U
<1>6. Clamp(W(50 * n.fairValue + 50 * n.underreaction)) \in Fraction
  BY ClampFraction, WTyped DEF Numeric
<1> QED
  BY <1>2, <1>3, <1>4, <1>5, <1>6 DEF OpportunityComponents, level

LEMMA FragilityTypes ==
  ASSUME NEW n, Numeric(n), NEW q, q.liquidity \in Int
  PROVE  LET f == FragilityComponents(n, q)
         IN /\ f.crowding \in Fraction /\ f.concentration \in Fraction /\ f.thin \in Fraction
            /\ f.reversal \in Fraction /\ f.weak \in Fraction
<1>1. Above(n.relevance, 550) \in Int
  BY DEF Numeric, Above, Most
<1>2. Clamp(W(48 * n.crowding + 20 * n.overreaction
                + 20 * Above(n.relevance, 550) + 12 * n.concentration)) \in Fraction
  BY <1>1, ClampFraction, WTyped DEF Numeric
<1>3. Clamp(n.concentration) \in Fraction /\ Clamp(n.reversal) \in Fraction
  BY ClampFraction DEF Numeric
<1>4. Clamp(U - q.liquidity) \in Fraction
  BY ClampFraction DEF U
<1>5. Clamp(W(55 * (U - n.floor) + 30 * (U - n.relevance) + 15 * (U - n.freshness))) \in Fraction
  BY ClampFraction, WTyped DEF Numeric, U
<1> QED
  BY <1>2, <1>3, <1>4, <1>5 DEF FragilityComponents

LEMMA ConfidenceTypes ==
  ASSUME NEW n, Numeric(n), NEW proxies \in Int, NEW q, NEW opp, NEW f,
         q.relevance \in Int, q.liquidity \in Int, q.spread \in Int,
         opp.uncrowded \in Int, opp.value \in Int, f.reversal \in Int
  PROVE  LET c == ConfidenceComponents(n, proxies, q, opp, f)
         IN /\ c.depth \in Fraction /\ c.data \in Fraction /\ c.market \in Fraction
            /\ c.thesis \in Fraction /\ c.penalty \in Fraction /\ c.footing \in Fraction
<1> DEFINE depth == Clamp(W(52 * n.historyDepth + 34 * n.coverage + 14 * (U - proxies)))
           consistency == Clamp(W(38 * (U - n.consensusGap) + 38 * n.coherence + 24 * (U - n.fabrication)))
           telemetry == Clamp(W(30 * n.freshness + 28 * n.market + 22 * n.validator + 20 * n.history))
           data == Clamp(W(40 * depth + 30 * consistency + 24 * telemetry + 6 * n.external))
           market == Clamp(W(30 * q.relevance + 32 * q.liquidity + 24 * q.spread + 16 * n.market))
           thesis == Clamp(W(30 * consistency + 24 * opp.uncrowded + 14 * opp.value
                               + 16 * (U - f.reversal) + 6 * n.source
                               + 5 * n.recency + 5 * n.continuity))
           lack == (10 * Above(580, n.floor) * U) \div 580
           penalty == Clamp(W(34 * (U - depth) + 22 * (U - telemetry) + 18 * proxies
                                + 16 * n.fabrication + (10 * Above(580, n.floor) * U) \div 580))
           footing == Clamp(W(60 * data + 25 * n.historyDepth + 15 * n.coverage
                                - 18 * proxies - 12 * n.fabrication))
<1>1. depth \in Fraction /\ consistency \in Fraction
  BY ClampFraction, WTyped DEF Numeric, U
<1>2. telemetry \in Fraction
  BY ClampFraction, WTyped DEF Numeric
<1>3. depth \in Int /\ consistency \in Int /\ telemetry \in Int
  BY <1>1, <1>2, FractionInt
<1> HIDE DEF depth, consistency, telemetry
<1>4. data \in Fraction
  BY <1>3, ClampFraction, WTyped DEF Numeric
<1>5. data \in Int
  BY <1>4, FractionInt
<1> HIDE DEF data
<1>6. market \in Fraction
  BY ClampFraction, WTyped DEF Numeric
<1>7. thesis \in Fraction
  BY <1>3, ClampFraction, WTyped DEF Numeric, U
<1>8. lack \in Int
  <2>1. Above(580, n.floor) \in Int
    BY DEF Numeric, Above, Most
  <2> QED
    BY <2>1 DEF U
<1> HIDE DEF lack
<1>9. Clamp(W(34 * (U - depth) + 22 * (U - telemetry) + 18 * proxies
                + 16 * n.fabrication + lack)) \in Fraction
  BY <1>3, <1>8, ClampFraction, WTyped DEF Numeric, U
<1>10. penalty \in Fraction
  BY <1>9 DEF lack
<1>11. footing \in Fraction
  BY <1>5, ClampFraction, WTyped DEF Numeric
<1> HIDE DEF market, thesis, penalty, footing
<1> QED
  BY <1>1, <1>4, <1>6, <1>7, <1>10, <1>11
  DEF ConfidenceComponents, depth, consistency, telemetry, data, market, thesis, penalty, footing
-----------------------------------------------------------------------------
(* The blocks and the signals of a bundle are fractions.                    *)
Fractional(rec, fields) == \A x \in fields : rec[x] \in Fraction

QualityNames == {"participation", "validators", "liquidity", "spread", "relevance"}
OpportunityNames == {"momentum", "reserve", "lag", "uncrowded", "value"}
FragilityNames == {"crowding", "concentration", "thin", "reversal", "weak"}
ConfidenceNames == {"depth", "data", "market", "thesis", "penalty", "footing"}
BlockNames == {"crowded", "gate", "fragility", "legitimacy", "health", "opportunity", "ceiling"}

LEMMA QualityFractions ==
  ASSUME NEW q, Fractional(q, QualityNames)
  PROVE  /\ q.participation \in Int /\ q.validators \in Int /\ q.liquidity \in Int
         /\ q.spread \in Int /\ q.relevance \in Int
  BY FractionInt DEF Fractional, QualityNames

LEMMA OpportunityFractions ==
  ASSUME NEW opp, Fractional(opp, OpportunityNames)
  PROVE  /\ opp.momentum \in Int /\ opp.reserve \in Int /\ opp.lag \in Int
         /\ opp.uncrowded \in Int /\ opp.value \in Int
  BY FractionInt DEF Fractional, OpportunityNames

LEMMA FragilityFractions ==
  ASSUME NEW f, Fractional(f, FragilityNames)
  PROVE  /\ f.crowding \in Int /\ f.concentration \in Int /\ f.thin \in Int
         /\ f.reversal \in Int /\ f.weak \in Int
  BY FractionInt DEF Fractional, FragilityNames

LEMMA ConfidenceFractions ==
  ASSUME NEW c, Fractional(c, ConfidenceNames)
  PROVE  /\ c.depth \in Int /\ c.data \in Int /\ c.market \in Int
         /\ c.thesis \in Int /\ c.penalty \in Int /\ c.footing \in Int
  BY FractionInt DEF Fractional, ConfidenceNames

LEMMA BlockFractions ==
  ASSUME NEW b, Fractional(b, BlockNames)
  PROVE  /\ b.crowded \in Int /\ b.gate \in Int /\ b.fragility \in Int /\ b.legitimacy \in Int
         /\ b.health \in Int /\ b.opportunity \in Int /\ b.ceiling \in Int
  BY FractionInt DEF Fractional, BlockNames

LEMMA BlocksTypes ==
  ASSUME NEW o, Known(o), NEW q, NEW opp, NEW f, NEW c,
         Fractional(q, QualityNames), Fractional(opp, OpportunityNames),
         Fractional(f, FragilityNames), Fractional(c, ConfidenceNames)
  PROVE  Fractional(Blocks(o, q, opp, f, c), BlockNames)
<1> DEFINE crowded == CrowdedStructure(Concentration(o), Apy(o), f)
           gate == Investability(q, c)
           fragility == Clamp(W(24 * f.crowding + 24 * f.concentration + 22 * f.thin
                                  + 18 * f.reversal + 12 * f.weak))
<1>1. crowded \in Fraction
  <2>1. Concentration(o) \in Int /\ Apy(o) \in Int
    BY MarketTypes
  <2>2. Clamp((Above(Apy(o), 90) * U) \div 120) \in Int
    <3>1. Above(Apy(o), 90) \in Int
      BY <2>1 DEF Above, Most
    <3>2. (Above(Apy(o), 90) * U) \div 120 \in Int
      BY <3>1 DEF U
    <3> QED
      BY <3>2, ClampTyped
  <2> QED
    BY <2>1, <2>2, FragilityFractions, ClampFraction, WTyped DEF CrowdedStructure
<1>2. gate \in Fraction
  BY QualityFractions, ConfidenceFractions, ClampFraction, WTyped DEF Investability
<1>3. fragility \in Fraction
  BY FragilityFractions, ClampFraction, WTyped
<1>4. crowded \in Int /\ gate \in Int /\ fragility \in Int
  BY <1>1, <1>2, <1>3, FractionInt
<1> HIDE DEF crowded, gate, fragility
<1>5. Clamp(W(40 * q.relevance + 35 * q.liquidity + 25 * q.spread)) \in Fraction
  BY QualityFractions, ClampFraction, WTyped
<1>6. Clamp(W(22 * q.participation + 20 * q.validators + 22 * q.liquidity
                + 18 * q.spread + 18 * q.relevance)) \in Fraction
  BY QualityFractions, ClampFraction, WTyped
<1>7. Clamp(W(24 * opp.momentum + 20 * opp.reserve + 22 * opp.lag
                + 16 * opp.uncrowded + 18 * opp.value)) \in Fraction
  BY OpportunityFractions, ClampFraction, WTyped
<1>8. Clamp(920 - W(28 * c.penalty + 22 * fragility + 16 * (U - gate) + 10 * crowded)) \in Fraction
  BY <1>4, ConfidenceFractions, ClampFraction, WTyped DEF U
<1> QED
  BY <1>1, <1>2, <1>3, <1>5, <1>6, <1>7, <1>8
  DEF Blocks, Fractional, BlockNames, crowded, gate, fragility

LEMMA LeastFraction == \A x, y \in Fraction : Least(x, y) \in Fraction /\ Most(x, y) \in Fraction
  BY DEF Least, Most

LEMMA QualitySignal ==
  ASSUME NEW owned \in Int, NEW q, NEW f, NEW c, NEW b,
         Fractional(q, QualityNames), Fractional(f, FragilityNames),
         Fractional(c, ConfidenceNames), Fractional(b, BlockNames)
  PROVE  FundamentalQuality(owned, q, f, c, b) \in Fraction
<1> DEFINE resolved == Clamp(W(45 * q.liquidity + 30 * q.participation + 25 * q.validators))
           strained == Clamp(W(220 * Above(owned, 750) + 180 * Above(f.thin, 750)))
           structural == Clamp(W(86 * b.health + 14 * b.legitimacy + 4 * (resolved - 500) - 10 * strained))
           gated == Clamp(Times(structural, W(90 * U + 10 * b.gate)) - W(6 * c.penalty))
<1>1. resolved \in Int
  BY QualityFractions, ClampTyped, WTyped
<1>2. strained \in Int
  <2>1. Above(owned, 750) \in Int /\ Above(f.thin, 750) \in Int
    BY FragilityFractions DEF Above, Most
  <2> QED
    BY <2>1, ClampTyped, WTyped
<1> HIDE DEF resolved, strained
<1>3. structural \in Fraction
  BY <1>1, <1>2, BlockFractions, ClampFraction, WTyped
<1>4. structural \in Int
  BY <1>3, FractionInt
<1> HIDE DEF structural
<1>5. gated \in Fraction
  <2>1. W(90 * U + 10 * b.gate) \in Int /\ W(6 * c.penalty) \in Int
    BY BlockFractions, ConfidenceFractions, WTyped DEF U
  <2>2. Times(structural, W(90 * U + 10 * b.gate)) \in Int
    BY <1>4, <2>1, TimesTyped
  <2> QED
    BY <2>1, <2>2, ClampFraction
<1> HIDE DEF gated
<1>6. Least(structural, gated) \in Fraction
  BY <1>3, <1>5, LeastFraction
<1> QED
  BY <1>6 DEF FundamentalQuality, resolved, strained, structural, gated

LEMMA MispricingTyped ==
  ASSUME NEW overreaction \in Int, NEW q, NEW f, NEW c, NEW b,
         Fractional(q, QualityNames), Fractional(f, FragilityNames),
         Fractional(c, ConfidenceNames), Fractional(b, BlockNames)
  PROVE  MispricingSignal(overreaction, q, f, c, b) \in Fraction
<1> DEFINE factor == Clamp(450 + W(55 * W(55 * c.data + 45 * c.thesis)))
           validity == Clamp(W(35 * c.market + 25 * (U - b.fragility) + 20 * q.liquidity + 20 * q.relevance))
           overshoot == (Above(overreaction, 200) * U) \div 800
           crowd == (Above(f.crowding, 700) * U) \div 300
           doubt == (Above(450, b.legitimacy) * U) \div 450
           breaks == Clamp(W(40 * Clamp(overshoot) + 35 * Clamp(crowd) + 25 * Clamp(doubt)))
           unfounded == (28 * Above(550, c.footing) * U) \div 550
           unmarketed == (20 * Above(600, c.market) * U) \div 600
           drag == Clamp(W(52 * c.penalty + unfounded + unmarketed))
           discount == Clamp(W(46 * (U - b.gate) + 32 * b.fragility + 22 * b.crowded))
           screened == Clamp(Times(Times(Times(b.opportunity, factor), validity),
             W(82 * U + 18 * b.gate))
                               - W(20 * breaks + 12 * drag + 8 * discount))
<1>1. factor \in Int
  <2>1. W(55 * c.data + 45 * c.thesis) \in Int
    BY ConfidenceFractions, WTyped
  <2> QED
    BY <2>1, ClampTyped, WTyped
<1>2. validity \in Int
  BY ConfidenceFractions, BlockFractions, QualityFractions, ClampTyped, WTyped DEF U
<1>3. overshoot \in Int /\ crowd \in Int /\ doubt \in Int
  <2>1. /\ Above(overreaction, 200) \in Int /\ Above(f.crowding, 700) \in Int
        /\ Above(450, b.legitimacy) \in Int
    BY FragilityFractions, BlockFractions DEF Above, Most
  <2> QED
    BY <2>1 DEF U
<1>4. unfounded \in Int /\ unmarketed \in Int
  <2>1. Above(550, c.footing) \in Int /\ Above(600, c.market) \in Int
    BY ConfidenceFractions DEF Above, Most
  <2> QED
    BY <2>1 DEF U
<1>5. discount \in Int
  BY BlockFractions, ClampTyped, WTyped DEF U
<1> HIDE DEF factor, validity, overshoot, crowd, doubt, unfounded, unmarketed, discount
<1>6. breaks \in Int /\ drag \in Int
  BY <1>3, <1>4, ConfidenceFractions, ClampTyped, WTyped
<1> HIDE DEF breaks, drag
<1>7. screened \in Fraction
  <2>1. W(82 * U + 18 * b.gate) \in Int /\ W(20 * breaks + 12 * drag + 8 * discount) \in Int
    BY <1>5, <1>6, BlockFractions, WTyped DEF U
  <2>2. Times(b.opportunity, factor) \in Int
    BY <1>1, BlockFractions, TimesTyped
  <2>3. Times(Times(b.opportunity, factor), validity) \in Int
    BY <1>2, <2>2, TimesTyped
  <2>4. Times(Times(Times(b.opportunity, factor), validity), W(82 * U + 18 * b.gate)) \in Int
    BY <2>1, <2>3, TimesTyped
  <2> QED
    BY <2>1, <2>4, ClampFraction
<1>8. b.ceiling \in Fraction
  BY DEF Fractional, BlockNames
<1> HIDE DEF screened
<1>9. Least(screened, b.ceiling) \in Fraction
  BY <1>7, <1>8, LeastFraction
<1> QED
  BY <1>9 DEF MispricingSignal, factor, validity, overshoot, crowd, doubt, breaks,
    unfounded, unmarketed, drag, discount, screened

LEMMA ConfidenceSignal ==
  ASSUME NEW owned \in Int, NEW n, n.consensusGap \in Int, NEW f, NEW c, NEW b,
         Fractional(f, FragilityNames), Fractional(c, ConfidenceNames), Fractional(b, BlockNames)
  PROVE  SignalConfidence(owned, n, f, c, b) \in Fraction
<1> DEFINE evidence == Clamp(W(40 * c.data + 30 * c.market + 30 * c.thesis))
           deep == Clamp(Times(evidence, W(75 * U + 25 * c.depth)))
           limit == Clamp(840 - W(26 * f.crowding + 22 * f.thin + 16 * owned
                                    + 10 * n.consensusGap + 12 * b.crowded))
           rest == U - W(20 * f.crowding + 16 * f.thin + 12 * owned + 10 * b.crowded)
           thesis == Clamp(Times(c.thesis, rest))
           bounded == Least(Least(deep, limit), Least(thesis, evidence))
           charged == Clamp(bounded - W(16 * c.penalty + 10 * (U - b.gate)))
<1>1. evidence \in Fraction /\ evidence \in Int
  BY ConfidenceFractions, ClampFraction, ClampTyped, WTyped
<1>2. limit \in Fraction
  BY FragilityFractions, BlockFractions, ClampFraction, WTyped
<1>3. rest \in Int
  BY FragilityFractions, BlockFractions, WTyped DEF U
<1>4. W(75 * U + 25 * c.depth) \in Int
  BY ConfidenceFractions, WTyped DEF U
<1> HIDE DEF evidence, limit, rest
<1>5. deep \in Fraction
  <2>1. Times(evidence, W(75 * U + 25 * c.depth)) \in Int
    BY <1>1, <1>4, TimesTyped
  <2> QED
    BY <2>1, ClampFraction
<1>6. thesis \in Fraction
  <2>1. Times(c.thesis, rest) \in Int
    BY <1>3, ConfidenceFractions, TimesTyped
  <2> QED
    BY <2>1, ClampFraction
<1> HIDE DEF deep, thesis
<1>7. bounded \in Fraction
  BY <1>1, <1>2, <1>5, <1>6, LeastFraction
<1>8. bounded \in Int
  BY <1>7, FractionInt
<1> HIDE DEF bounded
<1>9. charged \in Fraction
  BY <1>8, ConfidenceFractions, BlockFractions, ClampFraction, WTyped DEF U
<1> HIDE DEF charged
<1>10. Least(bounded, charged) \in Fraction
  BY <1>7, <1>9, LeastFraction
<1> QED
  BY <1>10 DEF SignalConfidence, evidence, deep, limit, rest, thesis, bounded, charged

(* What a bundle holds, as the rules, the stress tests and the score read it. *)
Whole(b) ==
  /\ Fractional(b.components.quality, QualityNames)
  /\ Fractional(b.components.fragility, FragilityNames)
  /\ Fractional(b.components.confidence, ConfidenceNames)
  /\ Fractional(b, BlockNames \cup {"thesis"})
  /\ Fractional(b.signals, Primary)
  /\ b.edge \in Int /\ b.crowding \in Int

LEMMA EdgeTyped ==
  ASSUME NEW o
  PROVE  CohortQualityEdge(o) \in Int
<1> DEFINE cohort == {i \in DOMAIN Peers : Cohort(Peers[i]) = Cohort(o)}
<1>1. DOMAIN [i \in cohort |-> Peers[i].active] \in SUBSET Group
  BY DEF Group
<1>2. Rank(o.active, [i \in cohort |-> Peers[i].active]) \in Int
  BY <1>1, RankTyped
<1> QED
  BY <1>2 DEF CohortQualityEdge

LEMMA BundleWhole ==
  ASSUME NEW o, Known(o)
  PROVE  Whole(Bundle(o))
<1> DEFINE n == Normalised(o)
           q == QualityComponents(n)
           opp == OpportunityComponents(n)
           f == FragilityComponents(n, q)
           c == ConfidenceComponents(n, ProxyReliance(o), q, opp, f)
           b == Blocks(o, q, opp, f, c)
           quality == FundamentalQuality(Concentration(o), q, f, c, b)
           mispricing == MispricingSignal(Overreaction(o), q, f, c, b)
           confidence == SignalConfidence(Concentration(o), n, f, c, b)
           thesis == Clamp(W(42 * quality + 33 * mispricing + 15 * confidence + 10 * (U - b.fragility)))
<1>1. Numeric(n)
  BY NormalisedTypes
<1> HIDE DEF n
<1>2. Fractional(q, QualityNames)
  BY <1>1, QualityTypes DEF Fractional, QualityNames
<1>3. Fractional(opp, OpportunityNames)
  BY <1>1, OpportunityTypes DEF Fractional, OpportunityNames
<1> HIDE DEF q, opp
<1>4. Fractional(f, FragilityNames)
  BY <1>1, <1>2, QualityFractions, FragilityTypes DEF Fractional, FragilityNames
<1> HIDE DEF f
<1>5. Fractional(c, ConfidenceNames)
  BY <1>1, <1>2, <1>3, <1>4, QualityFractions, OpportunityFractions, FragilityFractions,
     EvidenceTypes, ConfidenceTypes
  DEF Fractional, ConfidenceNames
<1> HIDE DEF c
<1>6. Fractional(b, BlockNames)
  BY <1>2, <1>3, <1>4, <1>5, BlocksTypes
<1> HIDE DEF b
<1>7. Concentration(o) \in Int /\ Overreaction(o) \in Int
  BY MarketTypes, ValuationTypes
<1>8. quality \in Fraction
  BY <1>2, <1>4, <1>5, <1>6, <1>7, QualitySignal
<1>9. mispricing \in Fraction
  BY <1>2, <1>4, <1>5, <1>6, <1>7, MispricingTyped
<1>10. confidence \in Fraction
  BY <1>1, <1>4, <1>5, <1>6, <1>7, ConfidenceSignal DEF Numeric
<1>11. b.fragility \in Fraction /\ b.fragility \in Int
  BY <1>6, BlockFractions DEF Fractional, BlockNames
<1> HIDE DEF quality, mispricing, confidence
<1>12. thesis \in Fraction
  BY <1>8, <1>9, <1>10, <1>11, FractionInt, ClampFraction, WTyped DEF U
<1> HIDE DEF thesis
<1> DEFINE whole ==
             [components |-> [quality |-> q, fragility |-> f, confidence |-> c],
              legitimacy |-> b.legitimacy, health |-> b.health, opportunity |-> b.opportunity,
              fragility |-> b.fragility, gate |-> b.gate, ceiling |-> b.ceiling,
              crowded |-> b.crowded, edge |-> CohortQualityEdge(o), crowding |-> Crowding(o),
              thesis |-> thesis,
              signals |-> [fundamental_quality |-> quality, mispricing_signal |-> mispricing,
                           fragility_risk |-> b.fragility, signal_confidence |-> confidence]]
<1>13. Bundle(o) = whole
  BY DEF Bundle, n, q, opp, f, c, b, quality, mispricing, confidence, thesis
<1>14. CohortQualityEdge(o) \in Int /\ Crowding(o) \in Int
  BY EdgeTyped, PriceTypes
<1>15. Fractional(whole, BlockNames \cup {"thesis"})
  BY <1>6, <1>12 DEF Fractional, BlockNames
<1>16. Fractional(whole.signals, Primary)
  BY <1>8, <1>9, <1>10, <1>11 DEF Fractional, Primary
<1>17. Whole(whole)
  BY <1>2, <1>4, <1>5, <1>14, <1>15, <1>16 DEF Whole
<1> QED
  BY <1>13, <1>17

-----------------------------------------------------------------------------
(* Every numeric reading is an integer.                                     *)
LEMMA ReadingTypes ==
  ASSUME NEW r \in Rules!Readings
  PROVE  /\ r.active \in Int /\ r.breadth \in Int /\ r.fresh \in Int
         /\ r.pool \in Int /\ r.yield \in Int /\ r.slippage \in Int
         /\ r.concentration \in Int /\ r.drift \in Int /\ r.relevance \in Int
         /\ r.floor \in Int /\ r.crowding \in Int /\ r.crowded \in Int
         /\ r.overreaction \in Int /\ r.underreaction \in Int
         /\ r.coherence \in Int /\ r.coverage \in Int /\ r.proxies \in Int
         /\ r.fabrication \in Int /\ r.conviction \in Int /\ r.gate \in Int
         /\ r.dereg \in Int
<1>1. \A x \in Rules!Fraction : x \in Int
  BY DEF Rules!Fraction, Rules!U
<1> QED BY <1>1 DEF Rules!Readings

(* The rules that a worse reading leaves on when they were.                 *)
LEMMA LiquidityRulesMonotone ==
  ASSUME NEW r \in Rules!Readings, NEW s \in Rules!Readings, Rules!Worse(r, s)
  PROVE  /\ Rules!Inactive(s) => Rules!Inactive(r)
         /\ Rules!ThinLiquidity(s) => Rules!ThinLiquidity(r)
         /\ Rules!MicroPool(s) => Rules!MicroPool(r)
         /\ Rules!YieldIntensity(s) => Rules!YieldIntensity(r)
         /\ Rules!ExtremeYield(s) => Rules!ExtremeYield(r)
         /\ Rules!FragileRepricing(s) => Rules!FragileRepricing(r)
         /\ Rules!ElevatedYield(s) => Rules!ElevatedYield(r)
         /\ Rules!SevereStructure(s) => Rules!SevereStructure(r)
  BY ReadingTypes DEF Rules!Worse, Rules!Inactive, Rules!ThinLiquidity, Rules!MicroPool,
    Rules!YieldIntensity,
         Rules!ExtremeYield, Rules!FragileRepricing, Rules!ElevatedYield, Rules!SevereStructure

(* The moderate rule is off where the severe one is on.                     *)
LEMMA StructureTiers ==
  ASSUME NEW r \in Rules!Readings, NEW s \in Rules!Readings, Rules!Worse(r, s)
  PROVE  Rules!ModerateStructure(s) => Rules!ModerateStructure(r) \/ Rules!SevereStructure(r)
  BY ReadingTypes DEF Rules!Worse, Rules!ModerateStructure, Rules!SevereStructure

LEMMA OwnershipRulesMonotone ==
  ASSUME NEW r \in Rules!Readings, NEW s \in Rules!Readings, Rules!Worse(r, s)
  PROVE  /\ Rules!RegistrationClosed(s) => Rules!RegistrationClosed(r)
         /\ Rules!Concentrated(s) => Rules!Concentrated(r)
         /\ Rules!Hollow(s) => Rules!Hollow(r)
         /\ Rules!PostImmunity(s) => Rules!PostImmunity(r)
  BY ReadingTypes DEF Rules!Worse, Rules!RegistrationClosed, Rules!Concentrated, Rules!Hollow,
    Rules!PostImmunity

LEMMA EvidenceRulesMonotone ==
  ASSUME NEW r \in Rules!Readings, NEW s \in Rules!Readings, Rules!Worse(r, s),
         Rules!Unrelieved(r, s)
  PROVE  /\ Rules!ThinEvidence(s) => Rules!ThinEvidence(r)
         /\ Rules!FabricationRisk(s) => Rules!FabricationRisk(r)
         /\ Rules!LowEvidence(s) => Rules!LowEvidence(r)
         /\ Rules!WeakInvestability(s) => Rules!WeakInvestability(r)
         /\ Rules!Reflexive(s) => Rules!Reflexive(r)
         /\ Rules!CrowdedRepricing(s) => Rules!CrowdedRepricing(r)
         /\ Rules!CrowdedWatch(s) => Rules!CrowdedWatch(r)
  BY ReadingTypes DEF Rules!Worse, Rules!Unrelieved, Rules!ThinEvidence, Rules!FabricationRisk, Rules!LowEvidence,
         Rules!WeakInvestability, Rules!Reflexive, Rules!CrowdedRepricing, Rules!CrowdedWatch

(* Liquidity that excuses concentration is not found in a worse reading.    *)
LEMMA ExcusesMonotone ==
  ASSUME NEW r \in Rules!Readings, NEW s \in Rules!Readings, Rules!Worse(r, s),
         Rules!Unrelieved(r, s)
  PROVE  /\ Rules!ConcentrationCap(r) <= Rules!ConcentrationCap(s)
         /\ Rules!ConcentrationFloor(r) >= Rules!ConcentrationFloor(s)
         /\ Rules!ConcentrationCap(r) \in 480..600 /\ Rules!ConcentrationCap(s) \in 480..600
         /\ Rules!ConcentrationFloor(r) \in 520..620 /\ Rules!ConcentrationFloor(s) \in 520..620
<1>1. /\ Rules!Flagship(r) => Rules!Flagship(s)
      /\ Rules!MarketRelevant(r) => Rules!MarketRelevant(s)
      /\ Rules!Midcap(r) => Rules!Midcap(s)
  BY ReadingTypes DEF Rules!Worse, Rules!Unrelieved, Rules!Flagship, Rules!MarketRelevant, Rules!Midcap
<1> QED BY <1>1 DEF Rules!ConcentrationCap, Rules!ConcentrationFloor

-----------------------------------------------------------------------------
(* The least and the largest of a set of bounds.                            *)
LEMMA MinIsLeast ==
  ASSUME NEW S \in SUBSET Nat, S # {}
  PROVE  Rules!Min(S) \in S /\ \A y \in S : Rules!Min(S) <= y
<1> DEFINE Below == {p \in Nat \X Nat : p[1] < p[2]}
<1>1. IsWellFoundedOn(Below, Nat)
  BY NatLessThanWellFounded DEF OpToRel
<1>2. PICK x \in S : \A y \in S : ~(<<y, x>> \in Below)
  <2> HIDE DEF Below
  <2> QED BY <1>1, WFMin
<1>3. \A y \in S : x <= y
  <2> SUFFICES ASSUME NEW y \in S PROVE x <= y
    OBVIOUS
  <2>1. x \in Nat /\ y \in Nat
    OBVIOUS
  <2>2. <<y, x>> \in Nat \X Nat
    BY <2>1
  <2>3. <<y, x>>[1] < <<y, x>>[2] => <<y, x>> \in Below
    BY <2>2
  <2>4. y < x => <<y, x>> \in Below
    BY <2>3
  <2> QED BY <1>2, <2>1, <2>4
<1> QED BY <1>3 DEF Rules!Min

LEMMA MaxIsLargest ==
  ASSUME NEW S \in SUBSET Rules!Fraction, S # {}
  PROVE  Rules!Max(S) \in S /\ \A y \in S : Rules!Max(S) >= y
<1> DEFINE Mirror == {Rules!U - x : x \in S}
<1>0. \A x \in S : x \in Int /\ Rules!U - x \in Nat
  BY DEF Rules!Fraction, Rules!U
<1>1. Mirror \in SUBSET Nat /\ Mirror # {}
  BY <1>0
<1>2. Rules!Min(Mirror) \in Mirror /\ \A y \in Mirror : Rules!Min(Mirror) <= y
  <2> HIDE DEF Mirror
  <2> QED BY <1>1, MinIsLeast
<1>3. PICK x \in S : Rules!Min(Mirror) = Rules!U - x
  BY <1>2
<1>4. \A y \in S : Rules!U - x <= Rules!U - y
  BY <1>2, <1>3
<1>5. \A y \in S : x >= y
  BY <1>0, <1>4 DEF Rules!U
<1> QED BY <1>5 DEF Rules!Max

LEMMA MinMonotone ==
  ASSUME NEW S \in SUBSET Nat, NEW T \in SUBSET Nat, S # {}, T # {},
         \A t \in T : \E s \in S : s <= t
  PROVE  Rules!Min(S) <= Rules!Min(T)
<1>1. Rules!Min(T) \in T
  BY MinIsLeast
<1>2. PICK s \in S : s <= Rules!Min(T)
  BY <1>1
<1>3. Rules!Min(S) \in S /\ Rules!Min(S) <= s
  BY MinIsLeast
<1>4. Rules!Min(S) \in Nat /\ Rules!Min(T) \in Nat /\ s \in Nat
  BY <1>1, <1>3
<1> QED BY <1>2, <1>3, <1>4

LEMMA MaxMonotone ==
  ASSUME NEW S \in SUBSET Rules!Fraction, NEW T \in SUBSET Rules!Fraction, S # {}, T # {},
         \A t \in T : \E s \in S : s >= t
  PROVE  Rules!Max(S) >= Rules!Max(T)
<1>1. Rules!Max(T) \in T
  BY MaxIsLargest
<1>2. PICK s \in S : s >= Rules!Max(T)
  BY <1>1
<1>3. Rules!Max(S) \in S /\ Rules!Max(S) >= s
  BY MaxIsLargest
<1>4. Rules!Max(S) \in Int /\ Rules!Max(T) \in Int /\ s \in Int
  <2>1. \A x \in Rules!Fraction : x \in Int
    BY DEF Rules!Fraction, Rules!U
  <2> QED BY <1>1, <1>3, <2>1
<1> QED BY <1>2, <1>3, <1>4

-----------------------------------------------------------------------------
(* Of two readings, the one that is nowhere better, and that no rule which  *)
(* looks at its standing lets go of, gets no looser cap and no lower floor: *)
(* several rules overlap, the moderate structure rule goes off where the    *)
(* severe one comes on, and concentration is excused by liquidity, yet no   *)
(* step down pays.                                                          *)
THEOREM WorseNeverEases ==
  ASSUME NEW r \in Rules!Readings, NEW s \in Rules!Readings, Rules!Worse(r, s),
         Rules!Unrelieved(r, s)
  PROVE  Rules!NoLooser(r, s)
<1>1. Rules!QualityCap(r) <= Rules!QualityCap(s)
  <2>1. \A t \in Rules!QualityCaps(s) : \E u \in Rules!QualityCaps(r) : u <= t
    BY LiquidityRulesMonotone, StructureTiers, OwnershipRulesMonotone,
         EvidenceRulesMonotone, ExcusesMonotone
    DEF Rules!QualityCaps, Rules!Cap, Rules!U
  <2>2. Rules!QualityCaps(r) \in SUBSET Nat /\ Rules!QualityCaps(s) \in SUBSET Nat
    BY ExcusesMonotone DEF Rules!QualityCaps, Rules!Cap, Rules!U
  <2>3. Rules!QualityCaps(r) # {} /\ Rules!QualityCaps(s) # {}
    BY DEF Rules!QualityCaps
  <2> QED BY <2>1, <2>2, <2>3, MinMonotone DEF Rules!QualityCap
<1>2. Rules!MispricingCap(r) <= Rules!MispricingCap(s)
  <2>1. \A t \in Rules!MispricingCaps(s) : \E u \in Rules!MispricingCaps(r) : u <= t
    BY LiquidityRulesMonotone, StructureTiers, OwnershipRulesMonotone,
         EvidenceRulesMonotone, ExcusesMonotone
    DEF Rules!MispricingCaps, Rules!Cap, Rules!U
  <2>2. Rules!MispricingCaps(r) \in SUBSET Nat /\ Rules!MispricingCaps(s) \in SUBSET Nat
    BY ExcusesMonotone DEF Rules!MispricingCaps, Rules!Cap, Rules!U
  <2>3. Rules!MispricingCaps(r) # {} /\ Rules!MispricingCaps(s) # {}
    BY DEF Rules!MispricingCaps
  <2> QED BY <2>1, <2>2, <2>3, MinMonotone DEF Rules!MispricingCap
<1>3. Rules!ConfidenceCap(r) <= Rules!ConfidenceCap(s)
  <2>1. \A t \in Rules!ConfidenceCaps(s) : \E u \in Rules!ConfidenceCaps(r) : u <= t
    BY LiquidityRulesMonotone, StructureTiers, OwnershipRulesMonotone,
         EvidenceRulesMonotone, ExcusesMonotone
    DEF Rules!ConfidenceCaps, Rules!Cap, Rules!U
  <2>2. Rules!ConfidenceCaps(r) \in SUBSET Nat /\ Rules!ConfidenceCaps(s) \in SUBSET Nat
    BY ExcusesMonotone DEF Rules!ConfidenceCaps, Rules!Cap, Rules!U
  <2>3. Rules!ConfidenceCaps(r) # {} /\ Rules!ConfidenceCaps(s) # {}
    BY DEF Rules!ConfidenceCaps
  <2> QED BY <2>1, <2>2, <2>3, MinMonotone DEF Rules!ConfidenceCap
<1>4. Rules!ScoreCap(r) <= Rules!ScoreCap(s)
  <2>1. \A t \in Rules!ScoreCaps(s) : \E u \in Rules!ScoreCaps(r) : u <= t
    BY LiquidityRulesMonotone, StructureTiers, OwnershipRulesMonotone,
         EvidenceRulesMonotone, ExcusesMonotone
    DEF Rules!ScoreCaps, Rules!Cap, Rules!U
  <2>2. Rules!ScoreCaps(r) \in SUBSET Nat /\ Rules!ScoreCaps(s) \in SUBSET Nat
    BY ExcusesMonotone DEF Rules!ScoreCaps, Rules!Cap, Rules!U
  <2>3. Rules!ScoreCaps(r) # {} /\ Rules!ScoreCaps(s) # {}
    BY DEF Rules!ScoreCaps
  <2> QED BY <2>1, <2>2, <2>3, MinMonotone DEF Rules!ScoreCap
<1>5. Rules!FragilityFloor(r) >= Rules!FragilityFloor(s)
  <2>1. \A t \in Rules!FragilityFloors(s) : \E u \in Rules!FragilityFloors(r) : u >= t
    BY LiquidityRulesMonotone, StructureTiers, OwnershipRulesMonotone,
         EvidenceRulesMonotone, ExcusesMonotone
    DEF Rules!FragilityFloors, Rules!Floor
  <2>2. Rules!FragilityFloors(r) \in SUBSET Rules!Fraction /\ Rules!FragilityFloors(s) \in SUBSET Rules!Fraction
    BY ExcusesMonotone DEF Rules!FragilityFloors, Rules!Floor, Rules!Fraction, Rules!U
  <2>3. Rules!FragilityFloors(r) # {} /\ Rules!FragilityFloors(s) # {}
    BY DEF Rules!FragilityFloors
  <2> QED BY <2>1, <2>2, <2>3, MaxMonotone DEF Rules!FragilityFloor
<1> QED BY <1>1, <1>2, <1>3, <1>4, <1>5 DEF Rules!NoLooser

(* A rule that forces a negative label leaves the subnet one of the three   *)
(* adverse labels and a score of at most 0.34, in whatever combination      *)
(* and order the rules were evaluated.                                      *)
THEOREM ForcedIsAdverse ==
  ASSUME NEW r, Rules!ForcesNegative(r)
  PROVE  /\ Rules!ForcedLabel(r) \in Adverse
         /\ Rules!ScoreCap(r) <= 340
<1>1. Rules!ForcedLabel(r) \in Adverse
  BY DEF Rules!ForcesNegative, Rules!ForcedLabel, Rules!Overpaid, Adverse
<1>2. \E x \in Rules!ScoreCaps(r) : x <= 340
  BY DEF Rules!ForcesNegative, Rules!Overpaid, Rules!ScoreCaps, Rules!Cap, Rules!U
<1>3. Rules!ScoreCaps(r) \in SUBSET Nat /\ Rules!ScoreCaps(r) # {}
  BY DEF Rules!ScoreCaps, Rules!Cap, Rules!U
<1>4. Rules!ScoreCap(r) <= 340
  BY <1>2, <1>3, MinIsLeast DEF Rules!ScoreCap
<1> QED BY <1>1, <1>4

-----------------------------------------------------------------------------
(* What is made of any observation: bounds, stress and reliability.         *)
LEMMA SameFractions == Rules!Fraction = Fraction /\ Rules!U = U
  BY DEF Rules!Fraction, Rules!U, Fraction, U

LEMMA BoundsTyped ==
  ASSUME NEW r
  PROVE  /\ Fractional(RuleBounds(r), Primary)
         /\ Rules!ScoreCap(r) \in Fraction
<1>1. Rules!ConcentrationCap(r) \in 480..600 /\ Rules!ConcentrationFloor(r) \in 520..620
  BY DEF Rules!ConcentrationCap, Rules!ConcentrationFloor
<1>2. \A on, bound : bound \in 0..1000 => /\ Rules!Cap(on, bound) \in 0..1000
                                          /\ Rules!Floor(on, bound) \in 0..1000
  BY DEF Rules!Cap, Rules!Floor, Rules!U
<1>3. Fraction = 0..1000
  BY DEF Fraction, U
<1>4. \A S : S \in SUBSET Fraction /\ S # {} =>
        Rules!Min(S) \in Fraction /\ Rules!Max(S) \in Fraction
  <2> SUFFICES ASSUME NEW S \in SUBSET Fraction, S # {}
               PROVE  Rules!Min(S) \in Fraction /\ Rules!Max(S) \in Fraction
    OBVIOUS
  <2>1. S \in SUBSET Nat
    BY DEF Fraction, U
  <2>2. Rules!Min(S) \in S
    BY <2>1, MinIsLeast
  <2>3. Rules!Max(S) \in S
    BY SameFractions, MaxIsLargest
  <2> QED
    BY <2>2, <2>3
<1>5. Rules!QualityCaps(r) \in SUBSET Fraction /\ Rules!QualityCaps(r) # {}
  BY <1>1, <1>2, <1>3 DEF Rules!QualityCaps
<1>6. Rules!MispricingCaps(r) \in SUBSET Fraction /\ Rules!MispricingCaps(r) # {}
  BY <1>2, <1>3 DEF Rules!MispricingCaps
<1>7. Rules!ConfidenceCaps(r) \in SUBSET Fraction /\ Rules!ConfidenceCaps(r) # {}
  BY <1>2, <1>3 DEF Rules!ConfidenceCaps
<1>8. Rules!FragilityFloors(r) \in SUBSET Fraction /\ Rules!FragilityFloors(r) # {}
  BY <1>1, <1>2, <1>3 DEF Rules!FragilityFloors
<1>9. Rules!ScoreCaps(r) \in SUBSET Fraction /\ Rules!ScoreCaps(r) # {}
  BY <1>2, <1>3 DEF Rules!ScoreCaps
<1>10. Rules!QualityCap(r) \in Fraction
  BY <1>4, <1>5 DEF Rules!QualityCap
<1>11. Rules!MispricingCap(r) \in Fraction
  BY <1>4, <1>6 DEF Rules!MispricingCap
<1>12. Rules!ConfidenceCap(r) \in Fraction
  BY <1>4, <1>7 DEF Rules!ConfidenceCap
<1>13. Rules!FragilityFloor(r) \in Fraction
  BY <1>4, <1>8 DEF Rules!FragilityFloor
<1>14. Rules!ScoreCap(r) \in Fraction
  BY <1>4, <1>9 DEF Rules!ScoreCap
<1> QED
  BY <1>10, <1>11, <1>12, <1>13, <1>14 DEF Fractional, RuleBounds, Primary

LEMMA CappedTyped ==
  ASSUME NEW signals, Fractional(signals, Primary), NEW bounds, Fractional(bounds, Primary)
  PROVE  Capped(signals, bounds) \in SignalVectors
<1>1. \A s \in Primary : (IF s = "fragility_risk" THEN Most(signals[s], bounds[s])
                         ELSE Least(signals[s], bounds[s])) \in Fraction
  BY LeastFraction DEF Fractional
<1> QED
  BY <1>1 DEF Capped, SignalVectors

LEMMA VectorTypes ==
  ASSUME NEW v \in SignalVectors
  PROVE  /\ v.fundamental_quality \in Fraction /\ v.mispricing_signal \in Fraction
         /\ v.fragility_risk \in Fraction /\ v.signal_confidence \in Fraction
         /\ v.fundamental_quality \in Int /\ v.mispricing_signal \in Int
         /\ v.fragility_risk \in Int /\ v.signal_confidence \in Int
<1>1. \A s \in Primary : v[s] \in Fraction
  BY DEF SignalVectors
<1> QED
  BY <1>1, FractionInt DEF Primary

LEMMA AxesTyped ==
  ASSUME NEW signals \in SignalVectors, NEW b, Whole(b), NEW robustness
  PROVE  LET axes == Axes(signals, b, robustness)
         IN /\ axes.intrinsic \in Fraction /\ axes.economic \in Fraction
            /\ axes.reflexivity \in Fraction /\ axes.robustness = robustness
<1>1. b.edge \in Int /\ b.crowding \in Int
  BY DEF Whole
<1>2. Clamp(W(82 * signals.fundamental_quality + 18 * b.edge)) \in Fraction
  BY <1>1, VectorTypes, ClampFraction, WTyped
<1>3. Above(signals.signal_confidence, 100) \in Int
  BY VectorTypes DEF Above, Most
<1>4. Clamp(W(45 * signals.fundamental_quality + 35 * (U - signals.fragility_risk)
                + 20 * Above(signals.signal_confidence, 100))) \in Fraction
  BY <1>3, VectorTypes, ClampFraction, WTyped DEF U
<1>5. Clamp(W(55 * signals.fragility_risk + 30 * b.crowding
                + 15 * (U - signals.mispricing_signal))) \in Fraction
  BY <1>1, VectorTypes, ClampFraction, WTyped DEF U
<1> QED
  BY <1>2, <1>4, <1>5 DEF Axes

LEMMA PenaltiesTyped ==
  ASSUME NEW b, Whole(b)
  PROVE  Penalties(b) \in SUBSET Fraction /\ Penalties(b) # {}
<1> DEFINE thin == b.components.fragility.thin
           owned == b.components.fragility.concentration
           weak == b.components.fragility.weak
           crowding == b.components.fragility.crowding
           validators == b.components.quality.validators
           participation == b.components.quality.participation
           market == b.components.confidence.market
<1>1. /\ thin \in Fraction /\ owned \in Fraction /\ weak \in Fraction /\ crowding \in Fraction
      /\ validators \in Fraction /\ participation \in Fraction /\ market \in Fraction
      /\ b.health \in Fraction
  <2>1. /\ thin \in Fraction /\ owned \in Fraction /\ weak \in Fraction /\ crowding \in Fraction
    BY DEF Whole, Fractional, FragilityNames
  <2>2. validators \in Fraction /\ participation \in Fraction
    BY DEF Whole, Fractional, QualityNames
  <2>3. market \in Fraction
    BY DEF Whole, Fractional, ConfidenceNames
  <2>4. b.health \in Fraction
    BY DEF Whole, Fractional, BlockNames
  <2> QED
    BY <2>1, <2>2, <2>3, <2>4
<1> HIDE DEF thin, owned, weak, crowding, validators, participation, market
<1>2. \A x \in Fraction : x \in Nat /\ x <= 1000
  BY DEF Fraction, U
<1>3. \A x \in Fraction : Shortfall(x) \in Nat /\ Shortfall(x) <= 550
  BY DEF Shortfall, Above, Most, Fraction, U
<1>4. \A x \in Nat : x <= 100 * U => W(x) \in Fraction
  BY SMT DEF W, Fraction, U
<1>5. W(9 * thin + 5 * owned + 3 * weak) \in Fraction
  BY <1>1, <1>2, <1>4, SMT DEF U
<1>6. W(17 * thin + 9 * owned + 5 * weak) \in Fraction
  BY <1>1, <1>2, <1>4, SMT DEF U
<1>7. W(8 * U + 20 * owned + 6 * Shortfall(validators)) \in Fraction
  <2> DEFINE s == Shortfall(validators)
  <2>1. s \in Nat /\ s <= 550 /\ owned \in Nat /\ owned <= 1000
    BY <1>1, <1>2, <1>3
  <2> HIDE DEF s
  <2>2. 8 * U + 20 * owned + 6 * s \in Nat /\ 8 * U + 20 * owned + 6 * s <= 100 * U
    BY <2>1, SMT DEF U
  <2> QED
    BY <1>4, <2>2 DEF s
<1>8. W(18 * Most(thin, 150) + 4 * weak) \in Fraction
  <2> DEFINE t == Most(thin, 150)
  <2>1. t \in Nat /\ t <= 1000 /\ weak \in Nat /\ weak <= 1000
    BY <1>1, <1>2 DEF Most
  <2> HIDE DEF t
  <2>2. 18 * t + 4 * weak \in Nat /\ 18 * t + 4 * weak <= 100 * U
    BY <2>1, SMT DEF U
  <2> QED
    BY <1>4, <2>2 DEF t
<1>9. \A x, y \in Fraction : /\ W(8 * Shortfall(x) + 6 * Shortfall(y)) \in Fraction
                             /\ W(10 * Shortfall(x) + 8 * Shortfall(y)) \in Fraction
  <2> SUFFICES ASSUME NEW x \in Fraction, NEW y \in Fraction
               PROVE  /\ W(8 * Shortfall(x) + 6 * Shortfall(y)) \in Fraction
                      /\ W(10 * Shortfall(x) + 8 * Shortfall(y)) \in Fraction
    OBVIOUS
  <2> DEFINE s == Shortfall(x)
             t == Shortfall(y)
  <2>1. s \in Nat /\ s <= 550 /\ t \in Nat /\ t <= 550
    BY <1>3
  <2> HIDE DEF s, t
  <2>2. 8 * s + 6 * t \in Nat /\ 8 * s + 6 * t <= 100 * U
    BY <2>1, SMT DEF U
  <2>3. 10 * s + 8 * t \in Nat /\ 10 * s + 8 * t <= 100 * U
    BY <2>1, SMT DEF U
  <2> QED
    BY <1>4, <2>2, <2>3 DEF s, t
<1>10. W(16 * owned + 6 * crowding) \in Fraction
  BY <1>1, <1>2, <1>4, SMT DEF U
<1>11. /\ W(8 * Shortfall(participation) + 6 * Shortfall(b.health)) \in Fraction
       /\ W(10 * Shortfall(validators) + 8 * Shortfall(market)) \in Fraction
  BY <1>1, <1>9
<1> QED
  BY <1>5, <1>6, <1>7, <1>8, <1>10, <1>11
  DEF Penalties, thin, owned, weak, crowding, validators, participation, market

LEMMA StressTyped ==
  ASSUME NEW b, Whole(b), NEW axes,
         axes.intrinsic \in Fraction, axes.economic \in Fraction,
         axes.reflexivity \in Fraction, axes.robustness \in Fraction
  PROVE  StressTest(axes, b).robustness \in Fraction
<1> DEFINE base == W(34 * axes.intrinsic + 28 * axes.economic
                       + 18 * (U - axes.reflexivity) + 20 * axes.robustness)
           drawdown == Least(base, Max(Penalties(b)))
           share == (drawdown * U) \div Most(base, 200)
<1>1. base \in Nat
  <2>1. \A x \in Fraction : x \in Nat /\ U - x \in Nat
    BY DEF Fraction, U
  <2>2. \A x \in Nat : W(x) \in Nat
    BY DEF W
  <2>3. 34 * axes.intrinsic + 28 * axes.economic
          + 18 * (U - axes.reflexivity) + 20 * axes.robustness \in Nat
    BY <2>1
  <2> QED
    BY <2>2, <2>3
<1>2. Max(Penalties(b)) \in Fraction
  <2>1. Rules!Max(Penalties(b)) = Max(Penalties(b))
    BY DEF Rules!Max, Max
  <2>2. Rules!Max(Penalties(b)) \in Penalties(b)
    BY PenaltiesTyped, SameFractions, MaxIsLargest
  <2> QED
    BY <2>1, <2>2, PenaltiesTyped
<1> HIDE DEF base
<1>3. drawdown \in Nat
  BY <1>1, <1>2 DEF Least, Fraction, U
<1>4. Most(base, 200) \in Nat \ {0}
  BY <1>1 DEF Most
<1> HIDE DEF drawdown
<1>5. share \in Nat
  <2>1. drawdown * U \in Nat
    BY <1>3 DEF U
  <2> QED
    BY <1>4, <2>1
<1> HIDE DEF share
<1>6. Above(U, share) \in Fraction
  BY <1>5 DEF Above, Most, Fraction, U
<1> QED
  BY <1>6 DEF StressTest, base, drawdown, share

LEMMA ReliabilityTyped ==
  ASSUME NEW o, Known(o), NEW confidence \in Int
  PROVE  Reliability(o, confidence) \in Fraction
<1>1. /\ MarketReliability(o) \in Int /\ ValidatorReliability(o) \in Int
      /\ ExternalReliability(o.github) \in Int
  BY ConditionedTypes
<1>2. o.priceTrust \in Int
  BY KnownTypes
<1> QED
  BY <1>1, <1>2, ClampFraction, WTyped DEF Reliability

(* The features of every view of the subnet are known.                      *)
LEMMA ViewsKnown ==
  /\ \A o \in Views : Known(o)
  /\ Observed \subseteq Views /\ Blank \in Views
  /\ \A o \in Observed : Unread(o) \in Views
<1>1. \A o \in Observed \cup {Blank} : Known(o)
  BY ScoringAssumption DEF Known
<1>2. \A o \in Observed \cup {Blank} : Known(Unread(o))
  <2> SUFFICES ASSUME NEW o \in Observed \cup {Blank}
               PROVE  Known(Unread(o))
    OBVIOUS
  <2>1. o \in Observations /\ o.pool \in DOMAIN Ln1p \cup {0}
    BY <1>1 DEF Known
  <2>2. 0 \in Fraction
    BY DEF Fraction, U
  <2>3. Unread(o) \in Observations
    BY <2>1, <2>2 DEF Unread, Observations
  <2>4. Unread(o).pool = o.pool
    BY <2>1 DEF Unread, Observations
  <2> QED
    BY <2>1, <2>3, <2>4 DEF Known
<1> QED
  BY <1>1, <1>2 DEF Views

(* What the table holds of a view.                                          *)
Analysed(a) ==
  /\ Whole(a.bundle) /\ a.capped \in SignalVectors
  /\ Fractional(a.bounds, Primary) /\ a.cap \in Fraction
  /\ a.stress.robustness \in Fraction /\ a.grade \in Fraction /\ a.rankGrade \in Fraction

LEMMA AnalysisTyped ==
  ASSUME NEW o \in Views
  PROVE  /\ Analysed(Analysis[o])
         /\ LET a == Analysis[o]
            IN /\ a.reading = Reading(o, a.bundle) /\ a.bounds = RuleBounds(a.reading)
               /\ a.cap = Rules!ScoreCap(a.reading) /\ a.negative = Rules!ForcesNegative(a.reading)
<1> DEFINE b == Bundle(o)
           r == Reading(o, b)
           capped == Capped(b.signals, RuleBounds(r))
           axes == Axes(capped, b, U - capped.fragility_risk)
           stress == StressTest(axes, b)
           a == [bundle |-> b, reading |-> r, bounds |-> RuleBounds(r), capped |-> capped,
                 stress |-> stress, cap |-> Rules!ScoreCap(r), negative |-> Rules!ForcesNegative(r),
                 grade |-> Reliability(o, capped.signal_confidence),
                 rankGrade |-> Reliability(o, b.signals.signal_confidence)]
<1>0. Known(o)
  BY ViewsKnown
<1>1. Whole(b)
  BY <1>0, BundleWhole
<1>2. Analysis[o] = a
  <2>1. Analysis[o] = Analyse(o)
    BY AnalysisAssumption
  <2>2. Analyse(o) = a
    BY DEF Analyse
  <2> QED
    BY <2>1, <2>2
<1> HIDE DEF b, r
<1>3. Fractional(RuleBounds(r), Primary) /\ Rules!ScoreCap(r) \in Fraction
  BY BoundsTyped
<1>4. Fractional(b.signals, Primary)
  BY <1>1 DEF Whole
<1>5. capped \in SignalVectors
  BY <1>3, <1>4, CappedTyped
<1>6. b.signals.signal_confidence \in Int
  BY <1>4, FractionInt DEF Fractional, Primary
<1> HIDE DEF capped
<1>7. U - capped.fragility_risk \in Fraction
  <2>1. \A x \in Fraction : U - x \in Fraction
    BY DEF Fraction, U
  <2> QED
    BY <1>5, <2>1, VectorTypes
<1>8. /\ axes.intrinsic \in Fraction /\ axes.economic \in Fraction
      /\ axes.reflexivity \in Fraction /\ axes.robustness \in Fraction
  BY <1>1, <1>5, <1>7, AxesTyped
<1> HIDE DEF axes
<1>9. stress.robustness \in Fraction
  BY <1>1, <1>8, StressTyped
<1> HIDE DEF stress
<1>10. /\ Reliability(o, capped.signal_confidence) \in Fraction
       /\ Reliability(o, b.signals.signal_confidence) \in Fraction
  BY <1>0, <1>5, <1>6, VectorTypes, ReliabilityTyped
<1>11. /\ a.bundle = b /\ a.reading = r /\ a.bounds = RuleBounds(r) /\ a.capped = capped
       /\ a.stress = stress /\ a.cap = Rules!ScoreCap(r)
       /\ a.negative = Rules!ForcesNegative(r)
       /\ a.grade = Reliability(o, capped.signal_confidence)
       /\ a.rankGrade = Reliability(o, b.signals.signal_confidence)
  OBVIOUS
<1> HIDE DEF a
<1>12. Analysed(a)
  BY <1>1, <1>3, <1>5, <1>9, <1>10, <1>11 DEF Analysed
<1>13. /\ a.reading = Reading(o, a.bundle) /\ a.bounds = RuleBounds(a.reading)
       /\ a.cap = Rules!ScoreCap(a.reading) /\ a.negative = Rules!ForcesNegative(a.reading)
  BY <1>11 DEF r
<1> QED
  BY <1>2, <1>12, <1>13

LEMMA WorldTyped ==
  ASSUME NEW o \in Views, NEW s \in Primary
  PROVE  /\ WorldOf(o, s).value \in Fraction /\ WorldOf(o, s).bound \in Fraction
         /\ WorldOf(o, s).stress \in Fraction
         /\ WorldOf(o, s) \in Drift(s)!Worlds
<1>1. Analysed(Analysis[o])
  BY AnalysisTyped
<1>2. /\ WorldOf(o, s).value \in Fraction /\ WorldOf(o, s).bound \in Fraction
      /\ WorldOf(o, s).stress \in Fraction
  BY <1>1 DEF WorldOf, Analysed, Whole, Fractional
<1>3. WorldOf(o, s) \in Drift(s)!Worlds
  BY DEF WorldOf, Drift!Worlds
<1> QED
  BY <1>2, <1>3

-----------------------------------------------------------------------------
(* What a run publishes are fractions, whatever row it reads.               *)
LEMMA TargetTyped ==
  ASSUME NEW o \in Views
  PROVE  /\ Targets[o] \in SignalVectors
         /\ \A s \in Primary : Targets[o][s] = Drift(s)!Target(WorldOf(o, s))
<1>1. \A s \in Primary : Drift(s)!Target(WorldOf(o, s)) \in Fraction
  <2> SUFFICES ASSUME NEW s \in Primary
               PROVE  Drift(s)!Target(WorldOf(o, s)) \in Fraction
    OBVIOUS
  <2> DEFINE w == WorldOf(o, s)
  <2>1. w.value \in Fraction /\ w.bound \in Fraction /\ w.stress \in Fraction
    BY WorldTyped
  <2> HIDE DEF w
  <2>2. Drift(s)!Ruled(w) \in Fraction
    BY <2>1 DEF Drift!Ruled, Drift!Least, Drift!Most
  <2>3. \A r, t \in Fraction : (65 * r + 35 * (U - t)) \div 100 \in Fraction
    BY SMT DEF Fraction, U
  <2>4. (65 * Drift(s)!Ruled(w) + 35 * (U - w.stress)) \div 100 \in Fraction
    BY <2>1, <2>2, <2>3
  <2>5. Drift(s)!Target(w) \in Fraction
    BY <2>2, <2>4 DEF Drift!Target, Drift!Most
  <2> QED
    BY <2>5 DEF w
<1> QED
  BY <1>1 DEF Targets, SignalVectors

LEMMA HistoryTyped ==
  ASSUME row.signals \in SignalVectors
  PROVE  /\ History \in SignalVectors
         /\ \A s \in Primary : History[s] = Drift(s)!ReadBack(row.signals[s])
<1>1. \A s \in Primary : Drift(s)!ReadBack(row.signals[s]) \in Fraction
  <2>1. \A v \in Fraction : (IF 100 * v > U THEN v ELSE 100 * v) \in Fraction
    BY DEF Fraction, U
  <2> QED
    BY <2>1 DEF SignalVectors, Drift!ReadBack
<1> QED
  BY <1>1 DEF History, SignalVectors

LEMMA SteadiedTyped ==
  ASSUME NEW o \in Views, NEW h \in SignalVectors
  PROVE  Steadied(o, h) \in SignalVectors
<1> SUFFICES ASSUME NEW s \in Primary
             PROVE  Drift(s)!LimitDrift(Targets[o][s], h[s],
                      Drift(s)!AdaptiveStep(Targets[o][s], h[s], Analysis[o].grade)) \in Fraction
  BY DEF Steadied, SignalVectors
<1> DEFINE current == Targets[o][s]
           step == Drift(s)!AdaptiveStep(current, h[s], Analysis[o].grade)
<1>1. current \in Fraction /\ h[s] \in Fraction /\ Analysis[o].grade \in Fraction
  BY TargetTyped, AnalysisTyped DEF SignalVectors, Analysed
<1>2. Drift(s)!BaseStep \in Nat /\ Drift(s)!LargestStep \in Nat
  BY DEF Drift!BaseStep, Drift!LargestStep, U
<1>3. step \in Nat
  <2> DEFINE wide == (Drift(s)!BaseStep * (4 * U + 9 * Analysis[o].grade)) \div (4 * U)
  <2>1. wide \in Int
    <3>1. Drift(s)!BaseStep * (4 * U + 9 * Analysis[o].grade) \in Int
      BY <1>1, <1>2, FractionInt DEF U
    <3>2. 4 * U \in Nat \ {0}
      BY DEF U
    <3> QED
      BY <3>1, <3>2
  <2>2. step = IF Drift(s)!Distance(current, h[s]) <= Drift(s)!BaseStep THEN Drift(s)!BaseStep
               ELSE Drift(s)!Least(Drift(s)!Most(Drift(s)!BaseStep, wide), Drift(s)!LargestStep)
    BY DEF Drift!AdaptiveStep
  <2> HIDE DEF wide, step
  <2> QED
    BY <1>2, <2>1, <2>2 DEF Drift!Least, Drift!Most
<1> HIDE DEF current, step
<1>4. \A x, y \in Fraction, z \in Nat : Drift(s)!LimitDrift(x, y, z) \in Fraction
  BY DEF Drift!LimitDrift, Drift!Least, Drift!Most, Fraction, U
<1>5. Drift(s)!LimitDrift(current, h[s], step) \in Fraction
  BY <1>1, <1>3, <1>4
<1> QED
  BY <1>5 DEF current, step

LEMMA PriorityTyped ==
  ASSUME NEW signals \in SignalVectors, NEW b, Whole(b)
  PROVE  Priority(signals, b) \in Fraction
<1> DEFINE raw == Clamp(W(26 * signals.fundamental_quality + 20 * b.opportunity + 20 * b.thesis
                            + 16 * signals.signal_confidence + 10 * (U - b.fragility)
                            + 8 * b.components.quality.relevance))
           headwind == Headwind(signals.fragility_risk)
           charge == W(14 * (U - b.gate) + 12 * b.components.confidence.penalty + 8 * headwind)
           discount == Most(650, U - charge)
<1>1. /\ b.opportunity \in Int /\ b.thesis \in Int /\ b.fragility \in Int /\ b.gate \in Int
      /\ b.ceiling \in Fraction
  BY FractionInt DEF Whole, Fractional, BlockNames
<1>2. b.components.quality.relevance \in Int /\ b.components.confidence.penalty \in Int
  BY QualityFractions, ConfidenceFractions DEF Whole
<1>3. raw \in Fraction
  BY <1>1, <1>2, VectorTypes, ClampFraction, WTyped DEF U
<1>4. headwind \in Int
  <2>1. Above(signals.fragility_risk, 550) \in Int
    BY VectorTypes DEF Above, Most
  <2> QED
    BY <2>1 DEF Headwind, U
<1> HIDE DEF raw, headwind
<1>5. charge \in Int
  BY <1>1, <1>2, <1>4, WTyped DEF U
<1> HIDE DEF charge
<1>6. discount \in Nat
  BY <1>5 DEF Most, U
<1> HIDE DEF discount
<1>7. Times(raw, discount) \in Nat
  <2>1. raw \in Nat
    BY <1>3 DEF Fraction, U
  <2>2. raw * discount \in Nat
    BY <1>6, <2>1
  <2> QED
    BY <2>2 DEF Times, U
<1>8. Least(Times(raw, discount), b.ceiling) \in Fraction
  BY <1>1, <1>7, LeastOfFraction
<1> QED
  BY <1>8 DEF Priority, raw, headwind, charge, discount

LEMMA TotalCapTyped ==
  ASSUME NEW value \in Fraction, NEW signals \in SignalVectors, NEW cap \in Fraction, NEW negative
  PROVE  TotalCap(value, signals, cap, negative) \in Fraction
<1> DEFINE regime == Clamp(W(45 * signals.fundamental_quality + 35 * (U - signals.fragility_risk)
                               + 20 * signals.signal_confidence))
           shaped == Times(cap, 550 + W(45 * regime))
<1>1. regime \in Fraction
  BY VectorTypes, ClampFraction, WTyped DEF U
<1> HIDE DEF regime
<1>2. 550 + W(45 * regime) \in Nat
  BY <1>1 DEF W, Fraction, U
<1>3. shaped \in Nat
  <2>1. cap \in Nat
    BY DEF Fraction, U
  <2>2. cap * (550 + W(45 * regime)) \in Nat
    BY <1>2, <2>1
  <2> QED
    BY <2>2 DEF Times, U
<1> HIDE DEF shaped
<1>4. /\ Least(value, shaped) \in Fraction /\ Least(value, cap) \in Fraction
  BY <1>3 DEF Least, Fraction, U
<1>5. TotalCap(value, signals, cap, negative) = Least(value, IF negative THEN shaped ELSE cap)
  BY DEF TotalCap, regime, shaped
<1> QED
  BY <1>4, <1>5

LEMMA SteadiedScoreTyped ==
  ASSUME NEW o \in Views, NEW signals \in SignalVectors, NEW h \in SignalVectors
  PROVE  SteadiedScore(o, signals, h) \in Fraction
<1> DEFINE grade == Analysis[o].rankGrade
           past == Priority(h, Analysis[o].bundle)
           now == Priority(signals, Analysis[o].bundle)
           weight == Times(700, Most(200, U - W(85 * grade)))
           step == Least(150, (35 * (2 * U + 5 * grade)) \div (2 * U))
           blend == (weight * past + (U - weight) * now) \div U
<1>1. grade \in Fraction /\ past \in Fraction /\ now \in Fraction
  BY AnalysisTyped, PriorityTyped DEF Analysed
<1> HIDE DEF grade, past, now
<1>2. past \in Int /\ now \in Int /\ grade \in Int
  BY <1>1, FractionInt
<1>3. weight \in Int
  <2>1. W(85 * grade) \in Int
    BY <1>2, WTyped
  <2>2. Most(200, U - W(85 * grade)) \in Int
    BY <2>1 DEF Most, U
  <2> QED
    BY <2>2, TimesTyped
<1>4. step \in Nat
  BY <1>1, SMT DEF Least, Fraction, U
<1> HIDE DEF weight, step
<1>5. blend \in Int
  <2>1. weight * past \in Int /\ (U - weight) * now \in Int
    <3>1. U - weight \in Int
      BY <1>3 DEF U
    <3> QED
      BY <1>2, <1>3, <3>1
  <2> QED
    BY <2>1 DEF U
<1> HIDE DEF blend
<1>6. Most(Above(past, step), Least(Least(U, past + step), blend)) \in Fraction
  BY <1>1, <1>4, <1>5 DEF Most, Least, Above, Fraction, U
<1> QED
  BY <1>6 DEF SteadiedScore, grade, past, now, weight, step, blend

LEMMA LabelTyped ==
  ASSUME NEW signals, NEW o, NEW b, NEW r, NEW drawdown
  PROVE  Label(signals, o, b, r, drawdown) \in Labels
<1>1. Rules!ForcedLabel(r) \in Labels \cup {"none"}
  BY DEF Rules!ForcedLabel, Rules!NoLabel, Labels, Positive, Adverse
<1>2. /\ "Dereg Risk" \in Labels /\ "Fragile Yield" \in Labels
      /\ "Compounding Quality" \in Labels /\ "Underpriced Quality" \in Labels
      /\ "Quality Leader" \in Labels /\ "Crowded Reflexive" \in Labels
      /\ "Evidence Limited" \in Labels
  BY DEF Labels, Positive, Adverse
<1>3. Rules!ForcedLabel(r) # "none" => Rules!ForcedLabel(r) \in Labels
  BY <1>1
<1> QED
  BY <1>2, <1>3, ZenonT(100) DEF Label

(* A complete snapshot publishes the signals it was given.                  *)
Rated == [signals : SignalVectors, alive : BOOLEAN]

LEMMA CompletePublishes ==
  ASSUME NEW o \in Views, NEW signals \in SignalVectors, NEW ranked \in Fraction,
         Complete(o, signals, ranked)
  PROVE  row' \in Rated /\ row'.signals = signals /\ score' \in Fraction /\ label' \in Labels
<1> DEFINE a == Analysis[o]
           rated == TotalCap(ranked, signals, a.cap, a.negative)
           named == Label(signals, o, a.bundle, a.reading, a.stress.drawdown)
<1>1. Publish(o, signals, a.stress.robustness, rated, named)
  BY DEF Complete
<1>2. rated \in Fraction
  BY AnalysisTyped, TotalCapTyped DEF Analysed
<1>3. named \in Labels
  BY LabelTyped
<1> HIDE DEF rated, named
<1>4. Alive(o, signals, a.stress.robustness) \in BOOLEAN
  BY DEF Alive
<1> QED
  BY <1>1, <1>2, <1>3, <1>4 DEF Publish, Rated

LEMMA AfreshPublishes ==
  ASSUME NEW o \in Views, Afresh(o)
  PROVE  row' \in Rated /\ row'.signals = Targets[o] /\ score' \in Fraction /\ label' \in Labels
<1>1. Complete(o, Targets[o], Priority(Targets[o], Analysis[o].bundle))
  BY DEF Afresh
<1>2. Targets[o] \in SignalVectors
  BY TargetTyped
<1>3. Priority(Targets[o], Analysis[o].bundle) \in Fraction
  BY <1>2, AnalysisTyped, PriorityTyped DEF Analysed
<1> QED
  BY <1>1, <1>2, <1>3, CompletePublishes

LEMMA OnwardPublishes ==
  ASSUME NEW o \in Views, row.signals \in SignalVectors, Onward(o)
  PROVE  row' \in Rated /\ row'.signals = Steadied(o, History) /\ score' \in Fraction /\ label' \in Labels
<1> DEFINE new == Steadied(o, History)
<1>1. Complete(o, new, SteadiedScore(o, new, History))
  BY DEF Onward
<1>2. History \in SignalVectors /\ new \in SignalVectors
  BY HistoryTyped, SteadiedTyped
<1> HIDE DEF new
<1>3. SteadiedScore(o, new, History) \in Fraction
  BY <1>2, SteadiedScoreTyped
<1>4. row' \in Rated /\ row'.signals = new /\ score' \in Fraction /\ label' \in Labels
  BY <1>1, <1>2, <1>3, CompletePublishes
<1> QED
  BY <1>4 DEF new

(* A gap run blends the history with the blanks, and shows the subnet alive. *)
LEMMA GapPublishes ==
  ASSUME row.signals \in SignalVectors, GapRun
  PROVE  /\ row' \in Rated /\ score' \in Fraction /\ label' \in Labels
         /\ row'.alive
         /\ \E stress \in Fraction : \A s \in Primary :
              row'.signals[s] =
                Drift(s)!Fallback(History[s], Analysis[Blank].bundle.signals[s], stress)
<1> DEFINE b == Analysis[Blank].bundle
           kept == [s \in Primary |-> (9 * History[s] + b.signals[s]) \div 10]
           axes == Axes(kept, b, U - kept.fragility_risk)
           stress == StressTest(axes, b)
           new == [s \in Primary |->
                     Drift(s)!Fallback(History[s], b.signals[s], stress.robustness)]
<1>1. Publish(Blank, new, stress.robustness, SteadiedScore(Blank, new, History), "Evidence Limited")
  BY DEF GapRun
<1>2. Whole(b) /\ Blank \in Views
  BY ViewsKnown, AnalysisTyped DEF Analysed
<1>3. History \in SignalVectors
  BY HistoryTyped
<1> HIDE DEF b
<1>4. \A s \in Primary : History[s] \in Fraction /\ b.signals[s] \in Fraction
  BY <1>2, <1>3 DEF Whole, Fractional, SignalVectors
<1>5. \A x, y \in Fraction : (9 * x + y) \div 10 \in Fraction
  BY SMT DEF Fraction, U
<1>6. kept \in SignalVectors
  BY <1>4, <1>5 DEF SignalVectors
<1> HIDE DEF kept
<1>7. U - kept.fragility_risk \in Fraction
  <2>1. \A x \in Fraction : U - x \in Fraction
    BY DEF Fraction, U
  <2> QED
    BY <1>6, <2>1, VectorTypes
<1>8. /\ axes.intrinsic \in Fraction /\ axes.economic \in Fraction
      /\ axes.reflexivity \in Fraction /\ axes.robustness \in Fraction
  BY <1>2, <1>6, <1>7, AxesTyped
<1> HIDE DEF axes
<1>9. stress.robustness \in Fraction
  BY <1>2, <1>8, StressTyped
<1> HIDE DEF stress
<1>10. \A s \in Primary : \A x, y, z \in Fraction : Drift(s)!Fallback(x, y, z) \in Fraction
  <2> SUFFICES ASSUME NEW s \in Primary, NEW x \in Fraction, NEW y \in Fraction, NEW z \in Fraction
               PROVE  Drift(s)!Fallback(x, y, z) \in Fraction
    OBVIOUS
  <2>1. (9 * x + y) \div 10 \in Fraction
    BY <1>5
  <2>2. U - z \in Fraction /\ (35 * U) \div 100 \in Fraction
    BY DEF Fraction, U
  <2> QED
    BY <2>1, <2>2 DEF Drift!Fallback, Drift!Most
<1>11. new \in SignalVectors
  BY <1>4, <1>9, <1>10 DEF SignalVectors
<1>12. SteadiedScore(Blank, new, History) \in Fraction
  BY <1>2, <1>3, <1>11, SteadiedScoreTyped
<1>13. "Evidence Limited" \in Labels
  BY DEF Labels
<1>14. new.signal_confidence \in Fraction /\ new.signal_confidence >= 350
  <2> DEFINE c == "signal_confidence"
             blend == (9 * History[c] + b.signals[c]) \div 10
  <2>1. c \in Primary
    BY DEF Primary
  <2>2. new[c] = Drift(c)!Fallback(History[c], b.signals[c], stress.robustness)
    BY <2>1
  <2>3. Drift(c)!Fallback(History[c], b.signals[c], stress.robustness)
          = Drift(c)!Most((35 * U) \div 100, blend)
    BY DEF Drift!Fallback
  <2>4. blend \in Fraction
    BY <1>4, <1>5, <2>1
  <2> HIDE DEF blend
  <2>5. Drift(c)!Most((35 * U) \div 100, blend) >= 350
    BY <2>4 DEF Drift!Most, Fraction, U
  <2> QED
    BY <1>11, <2>2, <2>3, <2>5, VectorTypes
<1>15. ReadsAlive(new.signal_confidence)
  <2>1. \A v \in Fraction : v >= 350 => ReadsAlive(v)
    BY DEF ReadsAlive, Fraction, U
  <2> QED
    BY <1>14, <2>1
<1>16. Alive(Blank, new, stress.robustness)
  BY <1>15 DEF Alive
<1>17. Alive(Blank, new, stress.robustness) \in BOOLEAN
  BY DEF Alive
<1>18. \A s \in Primary : new[s] = Drift(s)!Fallback(History[s], b.signals[s], stress.robustness)
  OBVIOUS
<1> HIDE DEF new
<1>19. row' = [signals |-> new, alive |-> Alive(Blank, new, stress.robustness)]
  BY <1>1 DEF Publish
<1>20. row' \in Rated /\ row'.alive /\ row'.signals = new
  BY <1>11, <1>16, <1>17, <1>19 DEF Rated
<1>21. score' \in Fraction /\ label' \in Labels
  BY <1>1, <1>12, <1>13 DEF Publish
<1> QED
  BY <1>9, <1>18, <1>20, <1>21 DEF b

-----------------------------------------------------------------------------
(* What every action of a run leaves, and the action of SignalDrift that it *)
(* is for each signal.                                                      *)
LEMMA StoredTyped ==
  ASSUME TypeOK
  PROVE  /\ obs \in Observed /\ obs \in Views /\ Blank \in Views /\ Unread(obs) \in Views
         /\ row # Unrated => row.signals \in SignalVectors
         /\ row.alive => row # Unrated
         /\ \A s \in Primary : row # Unrated => row.signals[s] # Drift(s)!NoRow
         /\ \A s \in Primary : row = Unrated => row.signals[s] = Drift(s)!NoRow
<1>1. obs \in Observed /\ obs \in Views /\ Blank \in Views /\ Unread(obs) \in Views
  BY ViewsKnown DEF TypeOK
<1>2. row # Unrated => row.signals \in SignalVectors
  BY DEF TypeOK
<1>3. row.alive => row # Unrated
  BY DEF Unrated
<1>4. \A x \in Fraction : x # -1
  BY DEF Fraction, U
<1>5. \A s \in Primary : row # Unrated => row.signals[s] # Drift(s)!NoRow
  BY <1>2, <1>4 DEF SignalVectors, Drift!NoRow
<1>6. \A s \in Primary : row = Unrated => row.signals[s] = Drift(s)!NoRow
  BY DEF Unrated, Missing, Drift!NoRow
<1> QED
  BY <1>1, <1>2, <1>3, <1>5, <1>6

LEMMA TypeKept ==
  ASSUME TypeOK, [Next]_vars
  PROVE  TypeOK'
<1> USE DEF Rated
<1>0. shocks \in Nat /\ MaxShocks \in Nat /\ shocks <= MaxShocks
  BY ScoringAssumption DEF TypeOK
<1>1. Shock => shocks' \in 0..MaxShocks
  BY <1>0 DEF Shock
<1>2. CASE FirstRun
  <2>1. row' \in Rated /\ score' \in Fraction /\ label' \in Labels
    BY <1>2, StoredTyped, AfreshPublishes DEF FirstRun
  <2> QED
    BY <1>2, <2>1 DEF FirstRun, TypeOK
<1>3. CASE ScoredRun
  <2>1. row' \in Rated /\ score' \in Fraction /\ label' \in Labels
    BY <1>3, StoredTyped, OnwardPublishes DEF ScoredRun
  <2> QED
    BY <1>3, <2>1 DEF ScoredRun, TypeOK
<1>4. CASE GapRun
  <2>1. row.signals \in SignalVectors
    BY <1>4, StoredTyped DEF GapRun
  <2>2. row' \in Rated /\ score' \in Fraction /\ label' \in Labels
    BY <1>4, <2>1, GapPublishes
  <2>3. Shock /\ via' = "gap" /\ obs' = obs
    BY <1>4 DEF GapRun
  <2> QED
    BY <1>1, <2>2, <2>3 DEF TypeOK
<1>5. CASE BlankRun
  <2>1. row' \in Rated /\ score' \in Fraction /\ label' \in Labels
    <3>1. CASE row = Unrated
      BY <1>5, <3>1, StoredTyped, AfreshPublishes DEF BlankRun
    <3>2. CASE row # Unrated
      BY <1>5, <3>2, StoredTyped, OnwardPublishes DEF BlankRun
    <3> QED
      BY <3>1, <3>2
  <2> QED
    BY <1>1, <1>5, <2>1 DEF BlankRun, TypeOK
<1>6. CASE BlindRun
  <2>1. row' \in Rated /\ score' \in Fraction /\ label' \in Labels
    BY <1>6, StoredTyped, AfreshPublishes DEF BlindRun
  <2> QED
    BY <1>1, <1>6, <2>1 DEF BlindRun, TypeOK
<1>7. CASE SubnetChanges
  BY <1>1, <1>7 DEF SubnetChanges, TypeOK
<1>8. CASE UNCHANGED vars
  BY <1>8 DEF vars, TypeOK
<1> QED
  BY <1>2, <1>3, <1>4, <1>5, <1>6, <1>7, <1>8 DEF Next

(* Every value a run publishes has its type: signals, score, label and the  *)
(* mark that shows the subnet alive, for any subnet, peers and history.     *)
THEOREM ScoringTypes == Spec => []TypeOK
<1>1. Init => TypeOK
  BY ScoringAssumption DEF Init, TypeOK, Fraction, U
<1>2. TypeOK /\ [Next]_vars => TypeOK'
  BY TypeKept
<1> QED
  BY <1>1, <1>2, PTL DEF Spec

(* The step of each signal.                                                 *)
LEMMA AfreshDrifts ==
  ASSUME TypeOK, NEW o \in Views, Afresh(o), NEW s \in Primary
  PROVE  row'.signals[s] = Drift(s)!Target(WorldOf(o, s))
<1>1. row'.signals = Targets[o]
  BY AfreshPublishes
<1> QED
  BY <1>1, TargetTyped

LEMMA OnwardDrifts ==
  ASSUME TypeOK, row # Unrated, NEW o \in Views, Onward(o), NEW s \in Primary
  PROVE  LET history == Drift(s)!ReadBack(row.signals[s])
             current == Drift(s)!Target(WorldOf(o, s))
             grade == Analysis[o].grade
         IN row'.signals[s] = Drift(s)!LimitDrift(current, history,
                                Drift(s)!AdaptiveStep(current, history, grade))
<1>1. row.signals \in SignalVectors
  BY StoredTyped
<1>2. row'.signals = Steadied(o, History)
  BY <1>1, OnwardPublishes
<1>3. /\ Targets[o][s] = Drift(s)!Target(WorldOf(o, s))
      /\ History[s] = Drift(s)!ReadBack(row.signals[s])
  BY <1>1, TargetTyped, HistoryTyped
<1>4. Steadied(o, History)[s] =
        Drift(s)!LimitDrift(Targets[o][s], History[s],
          Drift(s)!AdaptiveStep(Targets[o][s], History[s], Analysis[o].grade))
  BY DEF Steadied
<1> QED
  BY <1>2, <1>3, <1>4

LEMMA StepDrifts ==
  ASSUME TypeOK, Next, NEW s \in Primary
  PROVE  Drift(s)!Next
<1> DEFINE stored == row.signals[s]
<1>0. /\ obs \in Observed /\ obs \in Views /\ Blank \in Views /\ Unread(obs) \in Views
      /\ row # Unrated => row.signals \in SignalVectors
      /\ row.alive => row # Unrated
      /\ row # Unrated => stored # Drift(s)!NoRow
      /\ row = Unrated => stored = Drift(s)!NoRow
  BY StoredTyped
<1>1. \A o \in Views : Analysis[o].grade \in {Analysis[x].grade : x \in Views}
  OBVIOUS
<1>2. \A o \in Views : WorldOf(o, s) \in Drift(s)!Worlds
  BY WorldTyped
<1>3. obs' = obs => WorldOf(obs, s)' = WorldOf(obs, s)
  BY DEF WorldOf
<1>4. Shock => Drift(s)!Shock
  BY DEF Shock, Drift!Shock
<1>5. CASE FirstRun
  <2>1. row = Unrated /\ Afresh(obs) /\ via' = "first" /\ obs' = obs /\ shocks' = shocks
    BY <1>5 DEF FirstRun
  <2>2. row'.signals[s] = Drift(s)!Target(WorldOf(obs, s))
    BY <1>0, <2>1, AfreshDrifts
  <2>3. Drift(s)!FirstRun
    BY <1>0, <1>3, <2>1, <2>2 DEF Drift!FirstRun
  <2> QED
    BY <2>3 DEF Drift!Next
<1>6. CASE ScoredRun
  <2>1. row # Unrated /\ Onward(obs) /\ via' = "scored" /\ obs' = obs /\ shocks' = shocks
    BY <1>6 DEF ScoredRun
  <2>2. row'.signals[s] =
          Drift(s)!LimitDrift(Drift(s)!Target(WorldOf(obs, s)), Drift(s)!ReadBack(stored),
            Drift(s)!AdaptiveStep(Drift(s)!Target(WorldOf(obs, s)), Drift(s)!ReadBack(stored),
                                  Analysis[obs].grade))
    BY <1>0, <2>1, OnwardDrifts
  <2>3. Drift(s)!ScoredRun
    BY <1>0, <1>1, <1>3, <2>1, <2>2 DEF Drift!ScoredRun
  <2> QED
    BY <2>3 DEF Drift!Next
<1>7. CASE GapRun
  <2>1. Shock /\ row.alive /\ via' = "gap" /\ obs' = obs
    BY <1>7 DEF GapRun
  <2>2. row.signals \in SignalVectors
    BY <1>0, <2>1
  <2>3. PICK stress \in Fraction :
          row'.signals[s] =
            Drift(s)!Fallback(History[s], Analysis[Blank].bundle.signals[s], stress)
    BY <1>7, <2>2, GapPublishes
  <2>4. History[s] = Drift(s)!ReadBack(stored)
    BY <2>2, HistoryTyped
  <2>5. Analysis[Blank].bundle.signals[s] \in {WorldOf(o, s).value : o \in Views}
    BY <1>0 DEF WorldOf
  <2>6. stress \in Drift(s)!Values
    BY DEF Drift!Values, Fraction
  <2>7. Drift(s)!GapRun
    BY <1>0, <1>3, <1>4, <2>1, <2>3, <2>4, <2>5, <2>6 DEF Drift!GapRun
  <2> QED
    BY <2>7 DEF Drift!Next
<1>8. CASE BlankRun
  <2> DEFINE current == Drift(s)!Target(WorldOf(Blank, s))
             history == Drift(s)!ReadBack(stored)
             grade == Analysis[Blank].grade
  <2>1. /\ Shock /\ via' = "blank" /\ obs' = obs
        /\ row = Unrated => Afresh(Blank)
        /\ row # Unrated => Onward(Blank)
    BY <1>8 DEF BlankRun
  <2>2. row = Unrated => row'.signals[s] = current
    BY <1>0, <2>1, AfreshDrifts
  <2>3. row # Unrated =>
          row'.signals[s] =
            Drift(s)!LimitDrift(current, history, Drift(s)!AdaptiveStep(current, history, grade))
    BY <1>0, <2>1, OnwardDrifts
  <2>4. row'.signals[s] =
          IF stored = Drift(s)!NoRow THEN current
          ELSE Drift(s)!LimitDrift(current, history, Drift(s)!AdaptiveStep(current, history, grade))
    BY <1>0, <2>2, <2>3
  <2>5. Drift(s)!BlankRun
    BY <1>0, <1>1, <1>2, <1>3, <1>4, <2>1, <2>4 DEF Drift!BlankRun
  <2> QED
    BY <2>5 DEF Drift!Next
<1>9. CASE BlindRun
  <2>1. Shock /\ row # Unrated /\ Afresh(Unread(obs)) /\ via' = "blind" /\ obs' = obs
    BY <1>9 DEF BlindRun
  <2>2. row'.signals[s] = Drift(s)!Target(WorldOf(Unread(obs), s))
    BY <1>0, <2>1, AfreshDrifts
  <2>3. Drift(s)!BlindRun
    BY <1>0, <1>2, <1>3, <1>4, <2>1, <2>2 DEF Drift!BlindRun
  <2> QED
    BY <2>3 DEF Drift!Next
<1>10. CASE SubnetChanges
  <2>1. Shock /\ obs' \in Observed /\ row' = row /\ via' = via
    BY <1>10 DEF SubnetChanges
  <2>2. WorldOf(obs, s)' \in Drift(s)!Worlds
    <3>1. obs' \in Views
      BY <2>1, ViewsKnown
    <3>2. WorldOf(obs, s)' = WorldOf(obs', s)
      BY DEF WorldOf
    <3> QED
      BY <1>2, <3>1, <3>2
  <2>3. Drift(s)!SubnetChanges
    BY <1>4, <2>1, <2>2 DEF Drift!SubnetChanges
  <2> QED
    BY <2>3 DEF Drift!Next
<1> QED
  BY <1>5, <1>6, <1>7, <1>8, <1>9, <1>10 DEF Next

(* A run moves each of the four signals as SignalDrift says: the scoring of *)
(* a subnet implements it four times over, with the values, bounds and      *)
(* stress that the model, the rules and the stress tests make of what is    *)
(* seen; what is proved of SignalDrift holds of every published signal.     *)
THEOREM ScoringDrifts == Spec => SignalsDrift
<1>1. Init => \A s \in Primary : Drift(s)!Init
  <2> SUFFICES ASSUME Init, NEW s \in Primary
               PROVE  Drift(s)!Init
    OBVIOUS
  <2>1. obs \in Views
    BY ViewsKnown DEF Init
  <2>2. WorldOf(obs, s) \in Drift(s)!Worlds
    BY <2>1, WorldTyped
  <2>3. row.signals[s] = Drift(s)!NoRow
    BY DEF Init, Unrated, Missing, Drift!NoRow
  <2> QED
    BY <2>2, <2>3 DEF Init, Drift!Init
<1>2. TypeOK /\ [Next]_vars => [\A s \in Primary : [Drift(s)!Next]_(Drift(s)!vars)]_vars
  <2> SUFFICES ASSUME TypeOK, Next, NEW s \in Primary
               PROVE  Drift(s)!Next
    OBVIOUS
  <2> QED
    BY StepDrifts
<1> QED
  BY <1>1, <1>2, ScoringTypes, PTL DEF Spec, SignalsDrift

(* A chain that stays silent is bridged for ever: the row of a gap run      *)
(* shows the subnet alive, by its floor of confidence if by nothing else,   *)
(* so that no run scores the silence as the death of the subnet.            *)
GapShowsLife == via = "gap" => row.alive

THEOREM GapsStick == Spec => GapSticks
<1>1. Init => GapShowsLife
  BY DEF Init, GapShowsLife
<1>2. TypeOK /\ GapShowsLife /\ [Next]_vars => GapShowsLife'
  <2> SUFFICES ASSUME TypeOK, GapShowsLife, [Next]_vars, via' = "gap"
               PROVE  row'.alive
    BY DEF GapShowsLife
  <2>1. CASE GapRun
    <3>1. row.signals \in SignalVectors
      BY <2>1, StoredTyped DEF GapRun
    <3> QED
      BY <2>1, <3>1, GapPublishes
  <2>2. CASE SubnetChanges
    BY <2>2 DEF SubnetChanges, GapShowsLife
  <2>3. CASE UNCHANGED vars
    BY <2>3 DEF vars, GapShowsLife
  <2>4. ~FirstRun /\ ~ScoredRun /\ ~BlankRun /\ ~BlindRun
    BY DEF FirstRun, ScoredRun, BlankRun, BlindRun
  <2> QED
    BY <2>1, <2>2, <2>3, <2>4 DEF Next
<1>3. GapShowsLife /\ [Next]_vars => [via' = "blank" => via # "gap"]_vars
  <2> SUFFICES ASSUME GapShowsLife, Next, via' = "blank"
               PROVE  via # "gap"
    OBVIOUS
  <2>1. BlankRun \/ SubnetChanges
    BY DEF Next, FirstRun, ScoredRun, GapRun, BlindRun
  <2> QED
    BY <2>1 DEF BlankRun, SubnetChanges, GapShowsLife
<1> QED
  BY <1>1, <1>2, <1>3, ScoringTypes, PTL DEF Spec, GapSticks

-----------------------------------------------------------------------------
(* The rules at work: what they decide about a subnet is published.         *)
LEMMA ClampIsFraction ==
  ASSUME NEW x, Clamp(x) \in Int
  PROVE  Clamp(x) \in Fraction
<1>1. Clamp(x) = 0 \/ Clamp(x) = U \/ Clamp(x) = x
  BY DEF Clamp, Most, Least
<1>2. CASE Clamp(x) = 0 \/ Clamp(x) = U
  BY <1>2 DEF Fraction, U
<1>3. CASE Clamp(x) = x
  BY <1>3, ClampFraction
<1> QED
  BY <1>1, <1>2, <1>3

LEMMA ReadingTyped ==
  ASSUME NEW o, Known(o), NEW b, Whole(b)
  PROVE  Reading(o, b) \in Rules!Readings
<1>1. /\ o.active \in Fraction /\ o.breadth \in Fraction /\ o.fresh \in Fraction
      /\ o.staffed \in BOOLEAN /\ o.closed \in BOOLEAN /\ o.immune \in BOOLEAN
      /\ o.pool \in Nat /\ o.emission \in Nat /\ o.dConcentration \in Int
  BY DEF Known, Observations
<1>2. Yield(o) \in Nat
  <2>1. o.emission * 2628 + 10 * o.pool - 1 \in Int /\ 10 * o.pool \in Nat
    BY <1>1
  <2>2. o.pool # 0 => o.emission * 2628 + 10 * o.pool - 1 \in Nat /\ 10 * o.pool \in Nat \ {0}
    BY <1>1
  <2>3. \A x \in Nat, y \in Nat \ {0} : x \div y \in Nat
    OBVIOUS
  <2> QED
    BY <2>2, <2>3 DEF Yield
<1>3. MaxSlippage(o) \in Fraction
  <2>1. o.pool # 0 => 50 * U + o.pool - 1 \in Nat /\ o.pool \in Nat \ {0}
    BY <1>1 DEF U
  <2>2. \A x \in Nat, y \in Nat \ {0} : x \div y \in Nat
    OBVIOUS
  <2>3. o.pool # 0 => (50 * U + o.pool - 1) \div o.pool \in Nat
    BY <2>1, <2>2
  <2>4. \A x \in Nat : Least(U, x) \in Fraction
    BY DEF Least, Fraction, U
  <2>5. 0 \in Fraction
    BY DEF Fraction, U
  <2> QED
    BY <2>3, <2>4, <2>5 DEF MaxSlippage
<1>4. /\ StructureFloor(o) \in Int /\ Concentration(o) \in Int /\ Crowding(o) \in Int
      /\ Overreaction(o) \in Int /\ Underreaction(o) \in Int /\ Coherence(o) \in Int
      /\ DataCoverage(o) \in Int /\ ProxyReliance(o) \in Int /\ Fabrication(o) \in Int
      /\ DeregRisk(o) \in Int
  BY MarketTypes, PriceTypes, ValuationTypes, ConditionedTypes, EvidenceTypes, DeregTyped
<1>5. StructureFloor(o) \in Fraction
  BY <1>4, ClampIsFraction DEF StructureFloor
<1>6. Concentration(o) \in Fraction
  BY <1>4, ClampIsFraction DEF Concentration
<1>7. Crowding(o) \in Fraction
  BY <1>4, ClampIsFraction DEF Crowding
<1>8. Overreaction(o) \in Fraction
  BY <1>4, ClampIsFraction DEF Overreaction
<1>9. Underreaction(o) \in Fraction
  BY <1>4, ClampIsFraction DEF Underreaction
<1>10. Coherence(o) \in Fraction
  BY <1>4, ClampIsFraction DEF Coherence
<1>11. DataCoverage(o) \in Fraction
  BY <1>4, ClampIsFraction DEF DataCoverage
<1>12. ProxyReliance(o) \in Fraction
  BY <1>4, ClampIsFraction DEF ProxyReliance
<1>13. Fabrication(o) \in Fraction
  BY <1>4, ClampIsFraction DEF Fabrication
<1>14. DeregRisk(o) \in Fraction
  BY <1>4, ClampIsFraction DEF DeregRisk
<1>15. Conviction(o) \in Fraction
  <2>1. /\ Above(Underreaction(o), DataCoverage(o)) \in Int
        /\ Above(Underreaction(o), Coherence(o)) \in Int
    BY <1>4, AboveTyped
  <2> QED
    BY <1>4, <2>1, ClampFraction, WTyped DEF Conviction
<1>16. /\ b.components.quality.relevance \in Fraction
       /\ b.crowded \in Fraction /\ b.gate \in Fraction
  BY DEF Whole, Fractional, QualityNames, BlockNames
<1>17. (o.entropy > 920 /\ o.disagreement < 80 /\ U - o.entropy < 120) \in BOOLEAN
  OBVIOUS
<1> QED
  BY <1>1, <1>2, <1>3, <1>5, <1>6, <1>7, <1>8, <1>9, <1>10, <1>11, <1>12, <1>13, <1>14, <1>15,
     <1>16, <1>17, SameFractions
  DEF Reading, Rules!Readings

(* Of two states of a subnet, or of two subnets, the one whose reading is   *)
(* nowhere better is held to bounds no looser: on each of its signals, and  *)
(* on its score.                                                            *)
THEOREM WorseSubnetNoLooser ==
  ASSUME NEW o \in Views, NEW p \in Views, Rules!Worse(Analysis[o].reading, Analysis[p].reading),
         Rules!Unrelieved(Analysis[o].reading, Analysis[p].reading)
  PROVE  /\ \A s \in Primary : IF s = "fragility_risk"
                               THEN Analysis[o].bounds[s] >= Analysis[p].bounds[s]
                               ELSE Analysis[o].bounds[s] <= Analysis[p].bounds[s]
         /\ Analysis[o].cap <= Analysis[p].cap
<1> DEFINE r == Analysis[o].reading
           s == Analysis[p].reading
<1>1. r \in Rules!Readings /\ s \in Rules!Readings
  BY ViewsKnown, AnalysisTyped, ReadingTyped DEF Analysed
<1>2. /\ Analysis[o].bounds = RuleBounds(r) /\ Analysis[o].cap = Rules!ScoreCap(r)
      /\ Analysis[p].bounds = RuleBounds(s) /\ Analysis[p].cap = Rules!ScoreCap(s)
  BY AnalysisTyped
<1> HIDE DEF r, s
<1>3. Rules!NoLooser(r, s)
  BY <1>1, WorseNeverEases DEF r, s
<1> QED
  BY <1>2, <1>3 DEF Rules!NoLooser, RuleBounds, Primary

-----------------------------------------------------------------------------
(* What a smaller pool does to the features, all else equal.  The           *)
(* arithmetic first: rounding down keeps an order.                          *)
LEMMA RoundedDown ==
  /\ \A x, y \in Int : x <= y => W(x) <= W(y) /\ Clamp(x) <= Clamp(y) /\ Gain(x) <= Gain(y)
  /\ \A x, y, z \in Int : x <= y => Above(x, z) <= Above(y, z) /\ Above(z, y) <= Above(z, x)
  /\ \A x \in Int : 0 <= Clamp(x) /\ Clamp(x) <= U
<1>1. \A x, y \in Int : x <= y => x \div 100 <= y \div 100
  OBVIOUS
<1>2. \A x, y \in Int : x <= y => Clamp(x) <= Clamp(y) /\ Gain(x) <= Gain(y)
  BY DEF Clamp, Gain, Most, Least, U
<1>3. \A x, y, z \in Int : x <= y => Above(x, z) <= Above(y, z) /\ Above(z, y) <= Above(z, x)
  BY DEF Above, Most
<1>4. \A x \in Int : 0 <= Clamp(x) /\ Clamp(x) <= U
  BY DEF Clamp, Most, Least, U
<1> QED
  BY <1>1, <1>2, <1>3, <1>4 DEF W

LEMMA WRises == \A x, y \in Int : x <= y => W(x) <= W(y)
  BY RoundedDown
LEMMA ClampRises == \A x, y \in Int : x <= y => Clamp(x) <= Clamp(y)
  BY RoundedDown
LEMMA ClampBounds == \A x \in Int : 0 <= Clamp(x) /\ Clamp(x) <= U
  BY RoundedDown

(* A part of x grows with x, by no more than x does.                        *)
LEMMA TimesRises ==
  ASSUME NEW x \in Int, NEW y \in Int, NEW m \in Int, x <= y, 0 <= m
  PROVE  /\ Times(x, m) <= Times(y, m)
         /\ m <= U => Times(y, m) - Times(x, m) <= y - x
<1> DEFINE d == y - x
<1>1. d \in Nat /\ y = x + d
  OBVIOUS
<1>2. d * m \in Int /\ 0 <= d * m /\ x * m \in Int /\ y * m = x * m + d * m
  BY <1>1
<1>3. m <= U => d * m <= d * U
  BY <1>1 DEF U
<1> HIDE DEF d
<1>4. \A a, b \in Int : a <= b => a \div 1000 <= b \div 1000
  OBVIOUS
<1>5. \A a, b, c \in Int : b <= c * 1000 => (a + b) \div 1000 <= a \div 1000 + c
  OBVIOUS
<1>6. Times(x, m) = (x * m) \div 1000 /\ Times(y, m) = (y * m) \div 1000
  BY DEF Times, U
<1>7. Times(x, m) <= Times(y, m)
  BY <1>2, <1>4, <1>6
<1>8. m <= U => Times(y, m) <= Times(x, m) + d
  BY <1>1, <1>2, <1>3, <1>5, <1>6 DEF U
<1> QED
  BY <1>1, <1>7, <1>8, TimesTyped

(* A product of two numbers that are not negative grows with the second.    *)
LEMMA TimesRisesRight ==
  ASSUME NEW x \in Int, NEW m \in Int, NEW n \in Int, 0 <= x, m <= n
  PROVE  Times(x, m) <= Times(x, n)
<1>1. Times(x, m) = Times(m, x) /\ Times(x, n) = Times(n, x)
  BY DEF Times
<1> QED
  BY <1>1, TimesRises

(* The quotient of x and b, by what it leaves.                              *)
LEMMA Quotient ==
  ASSUME NEW x \in Int, NEW b \in Nat \ {0}
  PROVE  /\ x \div b \in Int /\ b * (x \div b) <= x /\ x < b * (x \div b) + b
         /\ \A q \in Int : (b * q <= x => q <= x \div b) /\ (x < b * q + b => x \div b <= q)
<1>1. PICK p \in Int : p = x \div b
  OBVIOUS
<1>2. b * p <= x /\ x < b * p + b
  BY <1>1
<1>3. ASSUME NEW q \in Int, NEW d \in Int, q = p + d, d >= 1
      PROVE  b * q >= b * p + b
  <2>1. b * q = b * p + b * d
    BY <1>3
  <2>2. b * d >= b
    BY <1>3
  <2> QED
    BY <2>1, <2>2
<1>4. ASSUME NEW q \in Int, b * q <= x
      PROVE  q <= p
  <2>1. b * p \in Int /\ b * q \in Int
    OBVIOUS
  <2>2. q - p >= 1 => b * q >= b * p + b
    BY <1>3
  <2> QED
    BY <1>2, <1>4, <2>1, <2>2
<1>5. ASSUME NEW q \in Int, x < b * q + b
      PROVE  p <= q
  <2> SUFFICES ASSUME p - q >= 1 PROVE FALSE
    OBVIOUS
  <2> DEFINE d == p - q
  <2>1. d \in Int /\ d >= 1 /\ p = q + d
    OBVIOUS
  <2> HIDE DEF d
  <2>2. b * p = b * q + b * d
    BY <2>1
  <2>3. b * d >= b
    BY <2>1
  <2>4. b * p >= b * q + b
    BY <2>2, <2>3
  <2> QED
    BY <1>2, <1>5, <2>4
<1> QED
  BY <1>1, <1>2, <1>4, <1>5

(* Shares of a smaller pool are larger, rounded down or up.                 *)
LEMMA QuotientFalls ==
  ASSUME NEW a \in Nat, NEW k \in Nat \ {0}, NEW n \in Nat \ {0}, k <= n
  PROVE  /\ a \div n <= a \div k
         /\ (a + n - 1) \div n <= (a + k - 1) \div k
<1>1. \A x \in Int, b \in Nat \ {0} :
        /\ x \div b \in Int /\ b * (x \div b) <= x /\ x < b * (x \div b) + b
        /\ \A q \in Int : (b * q <= x => q <= x \div b) /\ (x < b * q + b => x \div b <= q)
  BY Quotient
<1>2. a \div n <= a \div k
  <2> DEFINE q == a \div n
  <2>1. q \in Nat /\ n * q <= a
    <3>1. q \in Int /\ n * q <= a
      BY <1>1
    <3>2. 0 <= q
      BY <1>1
    <3> QED
      BY <3>1, <3>2
  <2> HIDE DEF q
  <2>2. k * q <= n * q
    BY <2>1
  <2>3. k * q <= a
    BY <2>1, <2>2
  <2> QED
    BY <1>1, <2>1, <2>3 DEF q
<1>3. (a + n - 1) \div n <= (a + k - 1) \div k
  <2> DEFINE q == (a + k - 1) \div k
  <2>1. q \in Int /\ a + k - 1 < k * q + k /\ k * 0 <= a + k - 1
    BY <1>1
  <2>2. 0 <= q
    BY <1>1, <2>1
  <2> HIDE DEF q
  <2>3. a <= k * q
    BY <2>1
  <2>4. k * q <= n * q
    BY <2>1, <2>2
  <2>5. a + n - 1 < n * q + n
    BY <2>1, <2>3, <2>4
  <2>6. a + n - 1 \in Int
    OBVIOUS
  <2>7. (a + n - 1) \div n <= q
    BY <1>1, <2>1, <2>5, <2>6
  <2> QED
    BY <2>7 DEF q
<1> QED
  BY <1>2, <1>3

-----------------------------------------------------------------------------
(* The features of p, which is o with a smaller pool that is not empty.     *)
LEMMA DrainedKnown ==
  ASSUME NEW o, Known(o), NEW p, Known(p), Drained(p, o)
  PROVE  /\ p.pool \in Nat \ {0} /\ o.pool \in Nat \ {0} /\ p.pool <= o.pool
         /\ p.pool \in DOMAIN Ln1p /\ o.pool \in DOMAIN Ln1p
         /\ p.emission = o.emission /\ p.active = o.active /\ p.breadth = o.breadth
         /\ p.validators = o.validators /\ p.ownership = o.ownership /\ p.fresh = o.fresh
         /\ p.entropy = o.entropy /\ p.disagreement = o.disagreement /\ p.stakes = o.stakes
         /\ p.rows = o.rows /\ p.github = o.github /\ p.dPrice = o.dPrice
         /\ p.dQuality = o.dQuality /\ p.dActive = o.dActive /\ p.dReserve = o.dReserve
         /\ p.dEmission = o.dEmission /\ p.dConcentration = o.dConcentration
         /\ p.priceTrust = o.priceTrust /\ p.priceLevel = o.priceLevel /\ p.anchor = o.anchor
         /\ p.staffed = o.staffed /\ p.allowed = o.allowed /\ p.closed = o.closed
         /\ p.immune = o.immune
<1>1. o.pool \in Nat /\ p.pool \in Nat
  BY KnownTypes
<1>2. p.pool \in 1..o.pool
  BY DEF Drained
<1>3. p.pool \in Nat \ {0} /\ o.pool \in Nat \ {0} /\ p.pool <= o.pool
  BY <1>1, <1>2
<1>4. p.pool \in DOMAIN Ln1p /\ o.pool \in DOMAIN Ln1p
  BY <1>3 DEF Known
<1>5. p = [o EXCEPT !.pool = p.pool] /\ o \in Observations
  BY DEF Drained, Known
<1> QED
  BY <1>3, <1>4, <1>5 DEF Observations

LEMMA DrainedMarket ==
  ASSUME NEW o, Known(o), NEW p, Known(p), Drained(p, o)
  PROVE  /\ Thinness(o) <= Thinness(p) /\ MaxSlippage(o) <= MaxSlippage(p)
         /\ Yield(o) <= Yield(p)
         /\ MarketRelevance(p) <= MarketRelevance(o) /\ StructureFloor(p) <= StructureFloor(o)
         /\ Concentration(o) <= Concentration(p)
<1>1. /\ p.pool \in Nat \ {0} /\ o.pool \in Nat \ {0} /\ p.pool <= o.pool
      /\ p.pool \in DOMAIN Ln1p /\ o.pool \in DOMAIN Ln1p
      /\ p.emission = o.emission /\ p.active = o.active /\ p.breadth = o.breadth
      /\ p.validators = o.validators /\ p.ownership = o.ownership
  BY DrainedKnown
<1>2. /\ o.emission \in Nat /\ o.active \in Int /\ o.breadth \in Int /\ o.validators \in Int
      /\ o.ownership \in Int
  BY KnownTypes
<1>3. \A x \in Nat : /\ Slippage(o, x) \in Int /\ Slippage(p, x) \in Int
                     /\ Slippage(o, x) <= Slippage(p, x)
  <2> SUFFICES ASSUME NEW x \in Nat
               PROVE  /\ Slippage(o, x) \in Int /\ Slippage(p, x) \in Int
                      /\ Slippage(o, x) <= Slippage(p, x)
    OBVIOUS
  <2> DEFINE a == x * U
             k == p.pool
             n == o.pool
  <2>1. a \in Nat
    BY DEF U
  <2>2. k \in Nat \ {0} /\ n \in Nat \ {0} /\ k <= n
    BY <1>1
  <2>3. Slippage(o, x) = Clamp(a \div n) /\ Slippage(p, x) = Clamp(a \div k)
    BY <1>1 DEF Slippage
  <2> HIDE DEF a, k, n
  <2>4. a \div n <= a \div k
    BY <2>1, <2>2, QuotientFalls
  <2>5. a \div n \in Int /\ a \div k \in Int
    BY <2>1, <2>2
  <2> QED
    BY <2>3, <2>4, <2>5, ClampRises, ClampTyped
<1>4. /\ Thinness(o) \in Int /\ Thinness(p) \in Int /\ Thinness(o) <= Thinness(p)
  <2>1. \A a, b \in Int : a <= b => a \div 3 <= b \div 3
    OBVIOUS
  <2>2. Slippage(o, 1) + Slippage(o, 10) + Slippage(o, 50)
          <= Slippage(p, 1) + Slippage(p, 10) + Slippage(p, 50)
    BY <1>3
  <2> QED
    BY <1>3, <2>1, <2>2, MarketTypes DEF Thinness
<1>5. MaxSlippage(o) <= MaxSlippage(p)
  <2> DEFINE a == 50 * U
             k == p.pool
             n == o.pool
  <2>1. a \in Nat
    BY DEF U
  <2>2. k \in Nat \ {0} /\ n \in Nat \ {0} /\ k <= n
    BY <1>1
  <2>3. /\ MaxSlippage(o) = Least(U, (a + n - 1) \div n)
        /\ MaxSlippage(p) = Least(U, (a + k - 1) \div k)
    BY <1>1 DEF MaxSlippage
  <2> HIDE DEF a, k, n
  <2>4. (a + n - 1) \div n <= (a + k - 1) \div k
    BY <2>1, <2>2, QuotientFalls
  <2>5. (a + n - 1) \div n \in Int /\ (a + k - 1) \div k \in Int
    BY <2>1, <2>2
  <2> QED
    BY <2>3, <2>4, <2>5 DEF Least, U
<1>6. Yield(o) <= Yield(p)
  <2> DEFINE a == o.emission * 2628
             k == 10 * p.pool
             n == 10 * o.pool
  <2>1. a \in Nat /\ k \in Nat \ {0} /\ n \in Nat \ {0} /\ k <= n
    BY <1>1, <1>2
  <2>2. Yield(o) = (a + n - 1) \div n /\ Yield(p) = (a + k - 1) \div k
    BY <1>1 DEF Yield
  <2> HIDE DEF a, k, n
  <2> QED
    BY <2>1, <2>2, QuotientFalls
<1>7. \A scale \in {50000, 200000} : /\ LogScaled(o.pool, scale) \in Int
                                     /\ LogScaled(p.pool, scale) \in Int
                                     /\ LogScaled(p.pool, scale) <= LogScaled(o.pool, scale)
  <2> SUFFICES ASSUME NEW scale \in {50000, 200000}
               PROVE  /\ LogScaled(o.pool, scale) \in Int /\ LogScaled(p.pool, scale) \in Int
                      /\ LogScaled(p.pool, scale) <= LogScaled(o.pool, scale)
    OBVIOUS
  <2> DEFINE x == U * Ln1p[p.pool]
             y == U * Ln1p[o.pool]
             b == Ln1p[scale]
  <2>1. Ln1p[p.pool] \in Nat /\ Ln1p[o.pool] \in Nat /\ Ln1p[p.pool] <= Ln1p[o.pool]
    BY <1>1, ScoringAssumption
  <2>2. x \in Int /\ y \in Int /\ x <= y
    BY <2>1 DEF U
  <2>3. b \in Nat \ {0}
    BY ScoringAssumption
  <2>4. LogScaled(p.pool, scale) = Clamp(x \div b) /\ LogScaled(o.pool, scale) = Clamp(y \div b)
    BY <1>1 DEF LogScaled
  <2> HIDE DEF x, y, b
  <2>5. x \div b \in Int /\ y \div b \in Int /\ b * (x \div b) <= x
    BY <2>2, <2>3, Quotient
  <2>6. b * (x \div b) <= y
    BY <2>2, <2>5, <2>3
  <2>7. x \div b <= y \div b
    BY <2>2, <2>5, <2>6, <2>3, Quotient
  <2> QED
    BY <2>4, <2>5, <2>7, ClampRises, ClampTyped
<1>8. \A a, b \in Int : a <= b => a \div 4 <= b \div 4 /\ a \div 5 <= b \div 5
  OBVIOUS
<1>9. MarketRelevance(p) <= MarketRelevance(o)
  <2> DEFINE x == LogScaled(p.pool, 200000) + p.active + p.breadth + p.validators
             y == LogScaled(o.pool, 200000) + o.active + o.breadth + o.validators
  <2>1. x \in Int /\ y \in Int /\ x <= y
    BY <1>1, <1>2, <1>7
  <2>2. MarketRelevance(p) = Clamp(x \div 4) /\ MarketRelevance(o) = Clamp(y \div 4)
    BY DEF MarketRelevance
  <2> HIDE DEF x, y
  <2>3. x \div 4 \in Int /\ y \div 4 \in Int /\ x \div 4 <= y \div 4
    BY <2>1, <1>8
  <2> QED
    BY <2>2, <2>3, ClampRises
<1>10. StructureFloor(p) <= StructureFloor(o)
  <2> DEFINE x == LogScaled(p.pool, 50000) + (U - Thinness(p)) + p.active + p.breadth + p.validators
             y == LogScaled(o.pool, 50000) + (U - Thinness(o)) + o.active + o.breadth + o.validators
  <2>1. x \in Int /\ y \in Int /\ x <= y
    BY <1>1, <1>2, <1>4, <1>7 DEF U
  <2>2. StructureFloor(p) = Clamp(x \div 5) /\ StructureFloor(o) = Clamp(y \div 5)
    BY DEF StructureFloor
  <2> HIDE DEF x, y
  <2>3. x \div 5 \in Int /\ y \div 5 \in Int /\ x \div 5 <= y \div 5
    BY <2>1, <1>8
  <2> QED
    BY <2>2, <2>3, ClampRises
<1>11. /\ Absorption(p) \in Int /\ Absorption(o) \in Int /\ Absorption(p) <= Absorption(o)
       /\ Absorption(o) <= U
  <2> DEFINE x == 32 * StructureFloor(p) + 24 * MarketRelevance(p) + 24 * p.breadth + 20 * p.validators
             y == 32 * StructureFloor(o) + 24 * MarketRelevance(o) + 24 * o.breadth + 20 * o.validators
  <2>1. x \in Int /\ y \in Int /\ x <= y
    BY <1>1, <1>2, <1>9, <1>10, MarketTypes
  <2>2. Absorption(p) = Clamp(W(x)) /\ Absorption(o) = Clamp(W(y))
    BY DEF Absorption
  <2> HIDE DEF x, y
  <2> QED
    BY <2>1, <2>2, WRises, WTyped, ClampRises, ClampTyped, ClampBounds
<1>12. Concentration(o) <= Concentration(p)
  <2> DEFINE m == U - W(42 * Absorption(o))
             n == U - W(42 * Absorption(p))
  <2>1. m \in Int /\ n \in Int /\ m <= n
    <3>1. 42 * Absorption(p) \in Int /\ 42 * Absorption(o) \in Int
          /\ 42 * Absorption(p) <= 42 * Absorption(o)
      BY <1>11
    <3>2. /\ W(42 * Absorption(p)) \in Int /\ W(42 * Absorption(o)) \in Int
          /\ W(42 * Absorption(p)) <= W(42 * Absorption(o))
      BY <3>1, WRises, WTyped
    <3> QED
      BY <3>2 DEF U
  <2>2. 0 <= o.ownership
    <3>1. o.ownership \in Fraction
      BY DEF Known, Observations
    <3> QED
      BY <3>1 DEF Fraction
  <2> HIDE DEF m, n
  <2>3. /\ Times(o.ownership, m) \in Int /\ Times(o.ownership, n) \in Int
        /\ Times(o.ownership, m) <= Times(o.ownership, n)
    BY <1>2, <2>1, <2>2, TimesRisesRight, TimesTyped
  <2>4. Clamp(Times(o.ownership, m)) <= Clamp(Times(o.ownership, n))
    BY <2>3, ClampRises
  <2> QED
    BY <1>1, <2>4 DEF Concentration, m, n
<1> QED
  BY <1>4, <1>5, <1>6, <1>9, <1>10, <1>12

LEMMA DrainedPrice ==
  ASSUME NEW o, Known(o), NEW p, Known(p), Drained(p, o)
  PROVE  /\ Crowding(o) <= Crowding(p) /\ DeregRisk(o) <= DeregRisk(p)
         /\ MarketIntegrity(p) <= MarketIntegrity(o)
         /\ PriceResponse(p) = PriceResponse(o) /\ ReversalRisk(p) = ReversalRisk(o)
         /\ Coherence(p) = Coherence(o)
<1>1. /\ p.active = o.active /\ p.breadth = o.breadth /\ p.allowed = o.allowed
      /\ p.dPrice = o.dPrice /\ p.dQuality = o.dQuality /\ p.dActive = o.dActive
      /\ p.dReserve = o.dReserve /\ p.dEmission = o.dEmission /\ p.priceTrust = o.priceTrust
  BY DrainedKnown
<1>2. o.active \in Int /\ o.breadth \in Int
  BY KnownTypes
<1>3. /\ Thinness(o) \in Int /\ Thinness(p) \in Int /\ Thinness(o) <= Thinness(p)
      /\ StructureFloor(o) \in Int /\ StructureFloor(p) \in Int
      /\ StructureFloor(p) <= StructureFloor(o)
      /\ Concentration(o) \in Int /\ Concentration(p) \in Int
      /\ Concentration(o) <= Concentration(p)
  BY MarketTypes, DrainedMarket
<1>4. PriceChange(p) = PriceChange(o) /\ PriceResponse(p) = PriceResponse(o)
  BY <1>1 DEF PriceChange, PriceResponse
<1>5. ReversalRisk(p) = ReversalRisk(o)
  BY <1>1, <1>4 DEF ReversalRisk
<1>6. Coherence(p) = Coherence(o)
  BY <1>1, <1>4, <1>5 DEF Coherence, Elasticity
<1>7. /\ Crowding(o) \in Int /\ Crowding(p) \in Int /\ Crowding(o) <= Crowding(p)
  <2> DEFINE x == 45 * Concentration(o) + 25 * Thinness(o) + 30 * Clamp(PriceResponse(o))
             y == 45 * Concentration(p) + 25 * Thinness(p) + 30 * Clamp(PriceResponse(p))
  <2>1. x \in Int /\ y \in Int /\ x <= y
    <3>1. Clamp(PriceResponse(o)) \in Int
      BY PriceTypes, ClampTyped
    <3> QED
      BY <1>3, <1>4, <3>1
  <2>2. Crowding(o) = Clamp(W(x)) /\ Crowding(p) = Clamp(W(y))
    BY DEF Crowding
  <2> HIDE DEF x, y
  <2> QED
    BY <2>1, <2>2, WRises, WTyped, ClampRises, ClampTyped
<1>8. /\ DeregRisk(o) \in Int /\ DeregRisk(p) \in Int /\ DeregRisk(o) <= DeregRisk(p)
  <2> DEFINE rest(q) == 45 * Above(350, q.active) + 25 * Above(200, q.breadth)
             registered(q) == 10 * (IF q.allowed THEN U ELSE 0)
             x == rest(o) + 20 * Concentration(o) + registered(o)
             y == rest(p) + 20 * Concentration(p) + registered(p)
  <2>1. rest(o) \in Int /\ rest(p) = rest(o) /\ registered(o) \in Int /\ registered(p) = registered(o)
    <3>1. Above(350, o.active) \in Int /\ Above(200, o.breadth) \in Int
      BY <1>2 DEF Above, Most
    <3>2. (IF o.allowed THEN U ELSE 0) \in Int
      BY DEF U
    <3> QED
      BY <1>1, <3>1, <3>2
  <2>2. DeregRisk(o) = Clamp(W(x)) /\ DeregRisk(p) = Clamp(W(y))
    BY DEF DeregRisk
  <2> HIDE DEF rest, registered
  <2>3. x \in Int /\ y \in Int /\ x <= y
    BY <1>3, <2>1
  <2> HIDE DEF x, y
  <2> QED
    BY <2>2, <2>3, WRises, WTyped, ClampRises, ClampTyped
<1>9. MarketIntegrity(p) <= MarketIntegrity(o)
  <2> DEFINE x == 40 * StructureFloor(p) + 25 * (U - DeregRisk(p)) + 20 * (U - Crowding(p))
                    + 15 * (U - Thinness(p))
             y == 40 * StructureFloor(o) + 25 * (U - DeregRisk(o)) + 20 * (U - Crowding(o))
                    + 15 * (U - Thinness(o))
  <2>1. x \in Int /\ y \in Int /\ x <= y
    BY <1>3, <1>7, <1>8 DEF U
  <2>2. MarketIntegrity(p) = Clamp(W(x)) /\ MarketIntegrity(o) = Clamp(W(y))
    BY DEF MarketIntegrity
  <2> HIDE DEF x, y
  <2> QED
    BY <2>1, <2>2, WRises, WTyped, ClampRises
<1> QED
  BY <1>4, <1>5, <1>6, <1>7, <1>8, <1>9

(* The anchor of a fair price falls with the pool, and the realised level   *)
(* by no more than that: what the price has run ahead of it grows.          *)
LEMMA DrainedOverreaction ==
  ASSUME NEW o, Known(o), NEW p, Known(p), Drained(p, o)
  PROVE  Overreaction(o) <= Overreaction(p)
<1>1. /\ p.dQuality = o.dQuality /\ p.dActive = o.dActive /\ p.dReserve = o.dReserve
      /\ p.dConcentration = o.dConcentration /\ p.priceTrust = o.priceTrust
      /\ p.priceLevel = o.priceLevel /\ p.anchor = o.anchor
  BY DrainedKnown
<1>2. /\ o.dQuality \in Int /\ o.dActive \in Int /\ o.dReserve \in Int /\ o.dConcentration \in Int
      /\ o.priceLevel \in Int /\ o.anchor \in Int /\ o.priceTrust \in Int
  BY KnownTypes
<1>3. /\ MarketRelevance(o) \in Int /\ MarketRelevance(p) \in Int
      /\ MarketRelevance(p) <= MarketRelevance(o)
      /\ StructureFloor(o) \in Int /\ StructureFloor(p) \in Int
      /\ StructureFloor(p) <= StructureFloor(o)
      /\ MarketIntegrity(o) \in Int /\ MarketIntegrity(p) \in Int
      /\ MarketIntegrity(p) <= MarketIntegrity(o)
  BY MarketTypes, PriceTypes, DrainedMarket, DrainedPrice
<1>4. /\ PriceResponse(o) \in Int /\ ReversalRisk(o) \in Int
      /\ PriceResponse(p) = PriceResponse(o) /\ ReversalRisk(p) = ReversalRisk(o)
  BY PriceTypes, DrainedPrice
<1>5. ExpectedPriceResponse(o) \in Int /\ ExpectedPriceResponse(p) = ExpectedPriceResponse(o)
  BY <1>1, <1>2, WTyped, GainTyped DEF ExpectedPriceResponse
<1> DEFINE A(q) == FairValueAnchor(q)
           L(q) == RealizedLevel(q)
<1>6. /\ A(o) \in Int /\ A(p) \in Int /\ A(p) <= A(o)
  <2> DEFINE x == 40 * MarketRelevance(p) + 30 * StructureFloor(p) + 20 * MarketIntegrity(p)
                    + 10 * Clamp(p.anchor)
             y == 40 * MarketRelevance(o) + 30 * StructureFloor(o) + 20 * MarketIntegrity(o)
                    + 10 * Clamp(o.anchor)
  <2>1. x \in Int /\ y \in Int /\ x <= y
    <3>1. Clamp(o.anchor) \in Int
      BY <1>2, ClampTyped
    <3> QED
      BY <1>1, <1>3, <3>1
  <2>2. A(p) = Clamp(W(x)) /\ A(o) = Clamp(W(y))
    BY DEF FairValueAnchor
  <2> HIDE DEF x, y, A
  <2> QED
    BY <2>1, <2>2, WRises, WTyped, ClampRises, ClampTyped
<1>7. /\ L(o) \in Int /\ L(p) \in Int /\ L(o) - L(p) <= A(o) - A(p)
  <2> DEFINE m == U - o.priceTrust
             c == Times(o.priceLevel, o.priceTrust)
             x == Times(A(p), m)
             y == Times(A(o), m)
  <2>1. m \in Int /\ 0 <= m /\ m <= U
    <3>1. o.priceTrust \in {250, 600, U}
      BY DEF Known, Observations
    <3> QED
      BY <3>1 DEF U
  <2>2. c \in Int
    BY <1>2, TimesTyped
  <2>3. L(p) = Clamp(x + c) /\ L(o) = Clamp(y + c)
    BY <1>1 DEF RealizedLevel
  <2> HIDE DEF m, c, A, L
  <2>4. x \in Int /\ y \in Int /\ x <= y /\ y - x <= A(o) - A(p)
    BY <1>6, <2>1, TimesRises, TimesTyped
  <2> HIDE DEF x, y
  <2>5. Clamp(y + c) - Clamp(x + c) <= y - x
    BY <2>2, <2>4 DEF Clamp, Most, Least, U
  <2>6. Clamp(x + c) \in Int /\ Clamp(y + c) \in Int
    BY <2>2, <2>4, ClampTyped
  <2> QED
    BY <1>6, <2>3, <2>4, <2>5, <2>6
<1> HIDE DEF A, L
<1>8. /\ Above(L(o), A(o)) \in Int /\ Above(L(p), A(p)) \in Int
      /\ Above(L(o), A(o)) <= Above(L(p), A(p))
  BY <1>6, <1>7 DEF Above, Most
<1> DEFINE gap == Above(PriceResponse(o), ExpectedPriceResponse(o))
           x == 50 * gap + 30 * Above(L(o), A(o)) + 20 * ReversalRisk(o)
           y == 50 * gap + 30 * Above(L(p), A(p)) + 20 * ReversalRisk(o)
<1>9. Overreaction(o) = Clamp(W(x)) /\ Overreaction(p) = Clamp(W(y))
  BY <1>4, <1>5 DEF Overreaction, A, L
<1>10. x \in Int /\ y \in Int /\ x <= y
  <2>1. gap \in Int
    BY <1>4, <1>5, AboveTyped
  <2> HIDE DEF gap
  <2> QED
    BY <1>4, <1>8, <2>1
<1> HIDE DEF x, y
<1> QED
  BY <1>9, <1>10, WRises, WTyped, ClampRises

LEMMA DrainedEvidence ==
  ASSUME NEW o, Known(o), NEW p, Known(p), Drained(p, o)
  PROVE  /\ DataCoverage(p) = DataCoverage(o)
         /\ ProxyReliance(o) <= ProxyReliance(p) /\ Fabrication(o) <= Fabrication(p)
<1>1. /\ p.pool \in Nat \ {0} /\ o.pool \in Nat \ {0} /\ p.fresh = o.fresh /\ p.rows = o.rows
      /\ p.github = o.github /\ p.entropy = o.entropy /\ p.validators = o.validators
      /\ p.stakes = o.stakes /\ p.priceTrust = o.priceTrust
  BY DrainedKnown
<1>2. /\ HistoryDepth(p) = HistoryDepth(o) /\ ValidatorReliability(p) = ValidatorReliability(o)
      /\ ValidatorCoverage(p) = ValidatorCoverage(o) /\ DataCoverage(p) = DataCoverage(o)
      /\ MarketReliability(p) = U /\ MarketReliability(o) = U
  BY <1>1 DEF HistoryDepth, ValidatorReliability, ValidatorCoverage, DataCoverage, MarketCoverage,
              HistoryCoverage, MarketReliability
<1>3. /\ o.fresh \in Int /\ 0 <= o.fresh /\ o.fresh <= U
      /\ o.priceTrust \in Int /\ o.priceTrust <= U
  <2>1. o.fresh \in Fraction /\ o.priceTrust \in {250, 600, U}
    BY DEF Known, Observations
  <2>2. \A x \in {250, 600, U} : x \in Int /\ x <= U
    BY DEF U
  <2> QED
    BY <2>1, <2>2, FractionBounds
<1>4. /\ HistoryDepth(o) \in Int /\ HistoryDepth(o) <= U
      /\ DataCoverage(o) \in Int /\ DataCoverage(o) <= U
      /\ ValidatorReliability(o) \in Int /\ ValidatorReliability(o) <= U
      /\ ValidatorCoverage(o) \in Int /\ ValidatorCoverage(o) <= U
  <2>1. /\ HistoryDepth(o) \in Int /\ DataCoverage(o) \in Int /\ ValidatorReliability(o) \in Int
        /\ ValidatorCoverage(o) \in Int
    BY ConditionedTypes
  <2>2. o.rows \in Nat
    BY KnownTypes
  <2>3. HistoryDepth(o) <= U
    <3> DEFINE x == W(40 * Clamp((o.rows * U) \div 18) + 35 * U + 25 * Clamp((o.rows * U) \div 14))
    <3>1. x \in Int
      BY <2>2, ClampTyped, WTyped DEF U
    <3>2. HistoryDepth(o) = IF o.rows = 0 THEN 0 ELSE Clamp(x)
      BY DEF HistoryDepth
    <3> HIDE DEF x
    <3> QED
      BY <3>1, <3>2, ClampBounds DEF U
  <2>4. DataCoverage(o) <= U
    <3> DEFINE x == W(35 * MarketCoverage(o) + 30 * HistoryCoverage(o)
                        + 15 * (IF o.github.status = "none" THEN 0 ELSE U) + 20 * ValidatorCoverage(o))
    <3>1. MarketCoverage(o) \in Int /\ HistoryCoverage(o) \in Int
      BY DEF MarketCoverage, HistoryCoverage, U
    <3>2. x \in Int
      BY <2>1, <3>1, WTyped DEF U
    <3>3. DataCoverage(o) = Clamp(x)
      BY DEF DataCoverage
    <3> HIDE DEF x
    <3> QED
      BY <3>2, <3>3, ClampBounds
  <2>5. ValidatorReliability(o) <= U /\ ValidatorCoverage(o) <= U
    BY DEF ValidatorReliability, ValidatorCoverage, U
  <2> QED
    BY <2>1, <2>3, <2>4, <2>5
<1>5. /\ StructureFloor(o) \in Int /\ StructureFloor(p) \in Int
      /\ StructureFloor(p) <= StructureFloor(o)
      /\ MarketRelevance(o) \in Int /\ MarketRelevance(p) \in Int
      /\ MarketRelevance(p) <= MarketRelevance(o)
      /\ Concentration(o) \in Int /\ Concentration(p) \in Int
      /\ Concentration(o) <= Concentration(p)
  BY MarketTypes, DrainedMarket
<1>6. /\ OnchainSupport(p) \in Int /\ OnchainSupport(o) \in Int
      /\ OnchainSupport(p) <= OnchainSupport(o)
  <2> DEFINE x == 35 * StructureFloor(p) + 25 * MarketRelevance(p) + 20 * (U - Concentration(p))
                    + 20 * MarketReliability(p)
             y == 35 * StructureFloor(o) + 25 * MarketRelevance(o) + 20 * (U - Concentration(o))
                    + 20 * MarketReliability(o)
  <2>1. x \in Int /\ y \in Int /\ x <= y
    BY <1>2, <1>5 DEF U
  <2>2. OnchainSupport(p) = Clamp(W(x)) /\ OnchainSupport(o) = Clamp(W(y))
    BY DEF OnchainSupport
  <2> HIDE DEF x, y
  <2> QED
    BY <2>1, <2>2, WRises, WTyped, ClampRises, ClampTyped
<1>7. ProxyReliance(o) <= ProxyReliance(p)
  <2> DEFINE sum == 23 * (U - o.fresh) + 18 * (U - HistoryDepth(o)) + 14 * (U - DataCoverage(o))
                      + 14 * (U - MarketReliability(o)) + 12 * (U - ValidatorReliability(o))
                      + 9 * (U - ValidatorCoverage(o)) + 10 * (U - o.priceTrust)
             lack == W(sum)
             m == U - W(45 * OnchainSupport(o))
             n == U - W(45 * OnchainSupport(p))
  <2>1. sum \in Int /\ 0 <= sum
    BY <1>2, <1>3, <1>4 DEF U
  <2>2. lack \in Int /\ 0 <= lack
    <3> HIDE DEF sum
    <3> QED
      BY <2>1 DEF W
  <2>3. m \in Int /\ n \in Int /\ m <= n
    <3>1. /\ 45 * OnchainSupport(p) \in Int /\ 45 * OnchainSupport(o) \in Int
          /\ 45 * OnchainSupport(p) <= 45 * OnchainSupport(o)
      BY <1>6
    <3>2. /\ W(45 * OnchainSupport(p)) \in Int /\ W(45 * OnchainSupport(o)) \in Int
          /\ W(45 * OnchainSupport(p)) <= W(45 * OnchainSupport(o))
      BY <3>1, WRises, WTyped
    <3> QED
      BY <3>2 DEF U
  <2>4. ProxyReliance(o) = Clamp(Times(lack, m)) /\ ProxyReliance(p) = Clamp(Times(lack, n))
    BY <1>1, <1>2 DEF ProxyReliance
  <2> HIDE DEF sum, lack, m, n
  <2>5. /\ Times(lack, m) \in Int /\ Times(lack, n) \in Int /\ Times(lack, m) <= Times(lack, n)
    BY <2>2, <2>3, TimesRisesRight, TimesTyped
  <2> QED
    BY <2>4, <2>5, ClampRises
<1>8. /\ LowManipulation(p) \in Int /\ LowManipulation(o) \in Int
      /\ LowManipulation(p) <= LowManipulation(o)
  <2> DEFINE x == 22 * p.fresh + 20 * (U - Concentration(p)) + 20 * StructureFloor(p)
                    + 18 * MarketRelevance(p) + 10 * DataCoverage(p) + 10 * MarketReliability(p)
             y == 22 * o.fresh + 20 * (U - Concentration(o)) + 20 * StructureFloor(o)
                    + 18 * MarketRelevance(o) + 10 * DataCoverage(o) + 10 * MarketReliability(o)
  <2>1. x \in Int /\ y \in Int /\ x <= y
    BY <1>1, <1>2, <1>3, <1>4, <1>5 DEF U
  <2>2. LowManipulation(p) = Clamp(W(x)) /\ LowManipulation(o) = Clamp(W(y))
    BY DEF LowManipulation
  <2> HIDE DEF x, y
  <2> QED
    BY <2>1, <2>2, WRises, WTyped, ClampRises, ClampTyped
<1>9. Fabrication(o) <= Fabrication(p)
  <2> DEFINE z(q) == 30 * ProxyReliance(q) + 20 * (U - DataCoverage(q)) + 15 * (U - ValidatorCoverage(q))
                       + 15 * (U - Coherence(q)) + 10 * Overreaction(q) + 10 * Crowding(q)
                       - 12 * LowManipulation(q) - 8 * StructureFloor(q)
  <2>1. /\ ProxyReliance(o) \in Int /\ ProxyReliance(p) \in Int
        /\ Coherence(o) \in Int /\ Coherence(p) = Coherence(o)
        /\ Overreaction(o) \in Int /\ Overreaction(p) \in Int /\ Overreaction(o) <= Overreaction(p)
        /\ Crowding(o) \in Int /\ Crowding(p) \in Int /\ Crowding(o) <= Crowding(p)
    BY EvidenceTypes, PriceTypes, ValuationTypes, DrainedPrice, DrainedOverreaction
  <2>2. z(o) \in Int /\ z(p) \in Int /\ z(o) <= z(p)
    BY <1>2, <1>4, <1>5, <1>7, <1>8, <2>1 DEF U
  <2>3. Fabrication(o) = Clamp(W(z(o))) /\ Fabrication(p) = Clamp(W(z(p)))
    BY DEF Fabrication
  <2> HIDE DEF z
  <2> QED
    BY <2>2, <2>3, WRises, WTyped, ClampRises
<1> QED
  BY <1>2, <1>7, <1>9

(* So that a pool that drains makes no reading of the subnet better which a *)
(* run takes of it by itself ...                                            *)
LEMMA DrainedWorse ==
  ASSUME NEW o, Known(o), NEW p, Known(p), Drained(p, o), NEW a, NEW b
  PROVE  Rules!Worse(Reading(p, b), Reading(o, a))
<1>1. /\ p.pool \in Nat \ {0} /\ o.pool \in Nat \ {0} /\ p.pool <= o.pool
      /\ p.active = o.active /\ p.breadth = o.breadth /\ p.fresh = o.fresh
      /\ p.entropy = o.entropy /\ p.disagreement = o.disagreement
      /\ p.dConcentration = o.dConcentration
      /\ p.staffed = o.staffed /\ p.closed = o.closed /\ p.immune = o.immune
  BY DrainedKnown
<1>2. /\ o.active \in Int /\ o.breadth \in Int /\ o.fresh \in Int /\ o.dConcentration \in Int
      /\ Coherence(o) \in Int /\ DataCoverage(o) \in Int
  BY KnownTypes, PriceTypes, ConditionedTypes
<1>3. /\ Yield(o) <= Yield(p) /\ MaxSlippage(o) <= MaxSlippage(p)
      /\ Concentration(o) <= Concentration(p) /\ StructureFloor(p) <= StructureFloor(o)
      /\ Crowding(o) <= Crowding(p) /\ Overreaction(o) <= Overreaction(p)
      /\ Coherence(p) = Coherence(o) /\ DataCoverage(p) = DataCoverage(o)
      /\ ProxyReliance(o) <= ProxyReliance(p) /\ Fabrication(o) <= Fabrication(p)
      /\ DeregRisk(o) <= DeregRisk(p)
  BY DrainedMarket, DrainedPrice, DrainedOverreaction, DrainedEvidence
<1> QED
  BY <1>1, <1>2, <1>3 DEF Reading, Rules!Worse

(* ... and no bound looser, of any subnet, among any peers, as long as the  *)
(* three rules that look at its standing do not let go of it.               *)
THEOREM DrainsNeverEase == Spec => []DrainNeverEases
<1>1. TypeOK => DrainNeverEases
  <2> SUFFICES ASSUME TypeOK, NEW o \in Observed, Drained(obs, o),
                      Rules!Unrelieved(Analysis[obs].reading, Analysis[o].reading)
               PROVE  /\ \A s \in Primary :
                           IF s = "fragility_risk"
                           THEN Analysis[obs].bounds[s] >= Analysis[o].bounds[s]
                           ELSE Analysis[obs].bounds[s] <= Analysis[o].bounds[s]
                      /\ Analysis[obs].cap <= Analysis[o].cap
    BY DEF DrainNeverEases
  <2>1. obs \in Views /\ o \in Views /\ Known(obs) /\ Known(o)
    BY ViewsKnown DEF TypeOK
  <2>2. /\ Analysis[obs].reading = Reading(obs, Analysis[obs].bundle)
        /\ Analysis[o].reading = Reading(o, Analysis[o].bundle)
    BY <2>1, AnalysisTyped
  <2>3. Rules!Worse(Analysis[obs].reading, Analysis[o].reading)
    BY <2>1, <2>2, DrainedWorse
  <2> QED
    BY <2>1, <2>3, WorseSubnetNoLooser
<1> QED
  BY <1>1, ScoringTypes, PTL

(* A rule that forces a negative label is not outlived by the history of a  *)
(* better time: while the chain answers, the next row of the subnet has an  *)
(* adverse label and a score, before it is ranked, of at most 0.34.         *)
NegativeIsPublished ==
  [][via' \in {"first", "scored"} /\ shocks' = shocks /\ Analysis[obs].negative
       => label' \in Adverse /\ score' <= 340]_vars

LEMMA CompleteForced ==
  ASSUME NEW o \in Views, NEW signals \in SignalVectors, NEW ranked \in Fraction,
         Complete(o, signals, ranked), Analysis[o].negative
  PROVE  label' \in Adverse /\ score' <= 340
<1> DEFINE a == Analysis[o]
           regime == Clamp(W(45 * signals.fundamental_quality + 35 * (U - signals.fragility_risk)
                               + 20 * signals.signal_confidence))
           factor == 550 + W(45 * regime)
<1>1. Rules!ForcesNegative(a.reading) /\ a.cap = Rules!ScoreCap(a.reading) /\ a.cap \in Fraction
  BY AnalysisTyped DEF Analysed
<1>2. Rules!ForcedLabel(a.reading) \in Adverse /\ a.cap <= 340
  BY <1>1, ForcedIsAdverse
<1>3. Publish(o, signals, a.stress.robustness, TotalCap(ranked, signals, a.cap, a.negative),
              Label(signals, o, a.bundle, a.reading, a.stress.drawdown))
  BY DEF Complete
<1>4. label' \in Adverse
  <2>1. Rules!ForcedLabel(a.reading) # "none"
    BY <1>2 DEF Adverse
  <2>2. Label(signals, o, a.bundle, a.reading, a.stress.drawdown) = Rules!ForcedLabel(a.reading)
    BY <2>1, Zenon DEF Label
  <2> QED
    BY <1>2, <1>3, <2>2 DEF Publish
<1>5. regime \in Fraction
  BY VectorTypes, ClampFraction, WTyped DEF U
<1> HIDE DEF regime
<1>6. factor \in Nat /\ factor <= 1000
  BY <1>5, SMT DEF W, Fraction, U
<1> HIDE DEF factor
<1>7. Times(a.cap, factor) <= 340 /\ Times(a.cap, factor) \in Int
  <2> DEFINE cap == a.cap
  <2>1. cap \in Nat /\ cap <= 340
    <3>1. a.cap \in Fraction /\ a.cap <= 340
      BY <1>1, <1>2
    <3> QED
      BY <3>1, FractionBounds
  <2> HIDE DEF cap
  <2>2. cap * factor \in Nat
    BY <1>6, <2>1
  <2>3. cap * factor <= cap * 1000
    BY <1>6, <2>1
  <2>4. (cap * factor) \div 1000 <= 340 /\ (cap * factor) \div 1000 \in Int
    BY <2>1, <2>2, <2>3
  <2> QED
    BY <2>4 DEF Times, U, cap
<1>8. TotalCap(ranked, signals, a.cap, a.negative) = Least(ranked, Times(a.cap, factor))
  BY DEF TotalCap, factor, regime
<1>9. Least(ranked, Times(a.cap, factor)) <= 340
  BY <1>7 DEF Least, Fraction, U
<1> QED
  BY <1>3, <1>4, <1>8, <1>9 DEF Publish

THEOREM ForcedIsPublished == Spec => NegativeIsPublished
<1>1. TypeOK /\ [Next]_vars =>
        [via' \in {"first", "scored"} /\ shocks' = shocks /\ Analysis[obs].negative
           => label' \in Adverse /\ score' <= 340]_vars
  <2> SUFFICES ASSUME TypeOK, Next, via' \in {"first", "scored"}, shocks' = shocks,
                      Analysis[obs].negative
               PROVE  label' \in Adverse /\ score' <= 340
    OBVIOUS
  <2>1. obs \in Views /\ (row # Unrated => row.signals \in SignalVectors)
    BY StoredTyped
  <2>2. Analysed(Analysis[obs])
    BY <2>1, AnalysisTyped
  <2>3. CASE FirstRun
    <3>1. Complete(obs, Targets[obs], Priority(Targets[obs], Analysis[obs].bundle))
      BY <2>3 DEF FirstRun, Afresh
    <3>2. Targets[obs] \in SignalVectors
      BY <2>1, TargetTyped
    <3>3. Priority(Targets[obs], Analysis[obs].bundle) \in Fraction
      BY <2>2, <3>2, PriorityTyped DEF Analysed
    <3> QED
      BY <2>1, <3>1, <3>2, <3>3, CompleteForced
  <2>4. CASE ScoredRun
    <3> DEFINE new == Steadied(obs, History)
    <3>1. Complete(obs, new, SteadiedScore(obs, new, History)) /\ row # Unrated
      BY <2>4 DEF ScoredRun, Onward
    <3>2. History \in SignalVectors /\ new \in SignalVectors
      BY <2>1, <3>1, HistoryTyped, SteadiedTyped
    <3> HIDE DEF new
    <3>3. SteadiedScore(obs, new, History) \in Fraction
      BY <2>1, <3>2, SteadiedScoreTyped
    <3> QED
      BY <2>1, <3>1, <3>2, <3>3, CompleteForced
  <2>5. ~Shock
    <3>1. shocks \in Nat
      BY ScoringAssumption DEF TypeOK
    <3> QED
      BY <3>1 DEF Shock
  <2> QED
    BY <2>3, <2>4, <2>5 DEF Next, GapRun, BlankRun, BlindRun, SubnetChanges
<1> QED
  BY <1>1, ScoringTypes, PTL DEF Spec, NegativeIsPublished

-----------------------------------------------------------------------------
(* What the history does to a signal: one run moves it nearer to its target *)
(* by a step between the base step and 0.30, and not past it.               *)
LEMMA StepsBounded ==
  ASSUME NEW s \in Primary, NEW x \in Fraction, NEW h \in Fraction, NEW grade \in Fraction
  PROVE  /\ Drift(s)!BaseStep \in Nat /\ Drift(s)!LargestStep \in Nat
         /\ 80 <= Drift(s)!BaseStep
         /\ Drift(s)!AdaptiveStep(x, h, grade) \in Nat
         /\ Drift(s)!BaseStep <= Drift(s)!AdaptiveStep(x, h, grade)
         /\ Drift(s)!AdaptiveStep(x, h, grade) <= Drift(s)!LargestStep
<1> DEFINE base == Drift(s)!BaseStep
           largest == Drift(s)!LargestStep
           wide == (base * (4 * U + 9 * grade)) \div (4 * U)
<1>1. base \in Nat /\ largest \in Nat /\ 80 <= base /\ base <= largest
  BY DEF Drift!BaseStep, Drift!LargestStep, U
<1>2. wide \in Int
  <2>1. base * (4 * U + 9 * grade) \in Int
    BY <1>1, FractionInt DEF U
  <2>2. 4 * U \in Nat \ {0}
    BY DEF U
  <2> QED
    BY <2>1, <2>2
<1>3. Drift(s)!AdaptiveStep(x, h, grade) =
        IF Drift(s)!Distance(x, h) <= base THEN base
        ELSE Drift(s)!Least(Drift(s)!Most(base, wide), largest)
  BY DEF Drift!AdaptiveStep
<1> HIDE DEF base, largest, wide
<1>4. /\ Drift(s)!AdaptiveStep(x, h, grade) \in Nat
      /\ base <= Drift(s)!AdaptiveStep(x, h, grade)
      /\ Drift(s)!AdaptiveStep(x, h, grade) <= largest
  BY <1>1, <1>2, <1>3 DEF Drift!Least, Drift!Most
<1> QED
  BY <1>1, <1>4 DEF base, largest

LEMMA DistanceFacts ==
  ASSUME NEW s \in Primary, NEW x \in Fraction, NEW y \in Fraction
  PROVE  /\ Drift(s)!Distance(x, y) \in Int
         /\ 0 <= Drift(s)!Distance(x, y) /\ Drift(s)!Distance(x, y) <= U
         /\ Drift(s)!Distance(x, y) = 0 <=> x = y
<1>1. /\ x \in Int /\ 0 <= x /\ x <= U /\ y \in Int /\ 0 <= y /\ y <= U
  BY FractionBounds
<1>2. Drift(s)!Distance(x, y) = IF x <= y THEN y - x ELSE x - y
  BY DEF Drift!Distance
<1> QED
  BY <1>1, <1>2 DEF U

LEMMA LimitedMoves ==
  ASSUME NEW s \in Primary, NEW x \in Fraction, NEW h \in Fraction, NEW step \in Nat
  PROVE  LET new == Drift(s)!LimitDrift(x, h, step)
         IN /\ new \in Fraction
            /\ Drift(s)!Distance(new, h) <= step
            /\ Drift(s)!Distance(new, x) + Drift(s)!Distance(h, new) = Drift(s)!Distance(h, x)
            /\ new = x \/ Drift(s)!Distance(h, new) >= step
BY DEF Drift!LimitDrift, Drift!Least, Drift!Most, Drift!Distance, Fraction, U

LEMMA RunMoves ==
  ASSUME TypeOK, row # Unrated, Onward(obs), NEW s \in Primary
  PROVE  LET h == History[s]
             x == Targets[obs][s]
             new == row'.signals[s]
         IN /\ h \in Fraction /\ x \in Fraction /\ new \in Fraction
            /\ h = Drift(s)!ReadBack(row.signals[s])
            /\ x = Drift(s)!Target(WorldOf(obs, s))
            /\ Drift(s)!Distance(new, h) <= Drift(s)!LargestStep
            /\ Drift(s)!Distance(new, x) + Drift(s)!Distance(h, new) = Drift(s)!Distance(h, x)
            /\ new = x \/ Drift(s)!Distance(h, new) >= Drift(s)!BaseStep
            /\ 80 <= Drift(s)!BaseStep
<1> DEFINE h == History[s]
           x == Targets[obs][s]
           grade == Analysis[obs].grade
           step == Drift(s)!AdaptiveStep(x, h, grade)
           new == Drift(s)!LimitDrift(x, h, step)
<1>1. obs \in Views /\ row.signals \in SignalVectors
  BY StoredTyped
<1>2. /\ h \in Fraction /\ x \in Fraction /\ grade \in Fraction
      /\ h = Drift(s)!ReadBack(row.signals[s]) /\ x = Drift(s)!Target(WorldOf(obs, s))
  BY <1>1, TargetTyped, HistoryTyped, AnalysisTyped DEF SignalVectors, Analysed
<1>3. row'.signals[s] = new
  <2>1. row'.signals = Steadied(obs, History)
    BY <1>1, OnwardPublishes
  <2> QED
    BY <2>1 DEF Steadied
<1> HIDE DEF h, x, grade
<1>4. /\ Drift(s)!BaseStep \in Nat /\ Drift(s)!LargestStep \in Nat /\ 80 <= Drift(s)!BaseStep
      /\ step \in Nat /\ Drift(s)!BaseStep <= step /\ step <= Drift(s)!LargestStep
  BY <1>2, StepsBounded
<1> HIDE DEF step
<1>5. /\ new \in Fraction
      /\ Drift(s)!Distance(new, h) <= step
      /\ Drift(s)!Distance(new, x) + Drift(s)!Distance(h, new) = Drift(s)!Distance(h, x)
      /\ new = x \/ Drift(s)!Distance(h, new) >= step
  BY <1>2, <1>4, LimitedMoves
<1> HIDE DEF new
<1>6. Drift(s)!Distance(new, h) \in Int /\ Drift(s)!Distance(h, new) \in Int
  BY <1>2, <1>5, DistanceFacts
<1>7. /\ Drift(s)!Distance(new, h) <= Drift(s)!LargestStep
      /\ new = x \/ Drift(s)!Distance(h, new) >= Drift(s)!BaseStep
  BY <1>4, <1>5, <1>6
<1> QED
  BY <1>2, <1>3, <1>4, <1>5, <1>7 DEF h, x

(* A step that is not irregular and leaves a row marked "scored".           *)
LEMMA ScoredSteps ==
  ASSUME TypeOK, [Next]_vars, via' = "scored", shocks' = shocks
  PROVE  ScoredRun \/ UNCHANGED vars
<1>1. shocks \in Int
  BY ScoringAssumption DEF TypeOK
<1> QED
  BY <1>1 DEF Next, FirstRun, GapRun, BlankRun, BlindRun, SubnetChanges, Shock

(* What is proved of SignalDrift holds of each published signal, with the   *)
(* figures of the model and the rules: a run on complete telemetry moves a  *)
(* signal that was read back as written by at most 0.30 ...                 *)
THEOREM SignalJumpsBounded ==
  ASSUME NEW s \in Primary
  PROVE  Spec => Drift(s)!DriftBounded
<1>1. TypeOK /\ [Next]_vars =>
        [via' = "scored" /\ shocks' = shocks /\ row.signals[s] # Drift(s)!NoRow
           /\ Drift(s)!Readable(row.signals[s])
           => Drift(s)!Distance(row.signals[s]', row.signals[s])
                <= Drift(s)!LargestStep]_(Drift(s)!vars)
  <2> SUFFICES ASSUME TypeOK, [Next]_vars, via' = "scored", shocks' = shocks,
                      row.signals[s] # Drift(s)!NoRow, Drift(s)!Readable(row.signals[s]),
                      ~UNCHANGED Drift(s)!vars
               PROVE  Drift(s)!Distance(row'.signals[s], row.signals[s]) <= Drift(s)!LargestStep
    OBVIOUS
  <2>1. ScoredRun
    <3>1. UNCHANGED vars => UNCHANGED Drift(s)!vars
      BY DEF vars, Drift!vars, WorldOf
    <3> QED
      BY <3>1, ScoredSteps
  <2> QED
    BY <2>1, RunMoves DEF ScoredRun, Drift!Readable
<1> QED
  BY <1>1, ScoringTypes, PTL DEF Spec, Drift!DriftBounded

(* ... and towards what the model and the rules call for, not past it, and  *)
(* by at least the base step of the signal while it is further away.        *)
THEOREM PublishedSignalsApproach ==
  ASSUME NEW s \in Primary
  PROVE  Spec => Drift(s)!Approaches
<1>1. TypeOK /\ [Next]_vars =>
        [via' = "scored" /\ shocks' = shocks /\ row.signals[s] # Drift(s)!NoRow
           /\ Drift(s)!Readable(row.signals[s])
           => /\ Drift(s)!Distance(row.signals[s]', Drift(s)!Target(WorldOf(obs, s)))
                   + Drift(s)!Distance(row.signals[s], row.signals[s]')
                   = Drift(s)!Distance(row.signals[s], Drift(s)!Target(WorldOf(obs, s)))
              /\ \/ row.signals[s]' = Drift(s)!Target(WorldOf(obs, s))
                 \/ Drift(s)!Distance(row.signals[s], row.signals[s]')
                      >= Drift(s)!BaseStep]_(Drift(s)!vars)
  <2> SUFFICES ASSUME TypeOK, [Next]_vars, via' = "scored", shocks' = shocks,
                      row.signals[s] # Drift(s)!NoRow, Drift(s)!Readable(row.signals[s]),
                      ~UNCHANGED Drift(s)!vars
               PROVE  /\ Drift(s)!Distance(row'.signals[s], Drift(s)!Target(WorldOf(obs, s)))
                           + Drift(s)!Distance(row.signals[s], row'.signals[s])
                           = Drift(s)!Distance(row.signals[s], Drift(s)!Target(WorldOf(obs, s)))
                      /\ \/ row'.signals[s] = Drift(s)!Target(WorldOf(obs, s))
                         \/ Drift(s)!Distance(row.signals[s], row'.signals[s]) >= Drift(s)!BaseStep
    OBVIOUS
  <2>1. ScoredRun
    <3>1. UNCHANGED vars => UNCHANGED Drift(s)!vars
      BY DEF vars, Drift!vars, WorldOf
    <3> QED
      BY <3>1, ScoredSteps
  <2> QED
    BY <2>1, RunMoves DEF ScoredRun, Drift!Readable
<1> QED
  BY <1>1, ScoringTypes, PTL DEF Spec, Drift!Approaches

-----------------------------------------------------------------------------
(* History only delays. Once the rows are regular and the signals no longer *)
(* called for are above 1 %, a signal is where the run wants it, or nearer  *)
(* by the least base step for every run that there has been.                *)
Nearing(s) ==
  \/ row.signals[s] = Targets[obs][s]
  \/ Drift(s)!Distance(row.signals[s], Targets[obs][s]) <= U - 80 * calm

Fading ==
  /\ TypeOK
  /\ calm \in 0..Enough
  /\ calm >= 1 => row # Unrated
  /\ calm >= 1 /\ Steady => \A s \in Primary : 100 * row.signals[s] > U /\ Nearing(s)
  /\ HistoryOnlyDelays

(* A history that agrees with the run leaves its score as it is.            *)
LEMMA AgreedScore ==
  ASSUME NEW o \in Views, NEW signals \in SignalVectors
  PROVE  SteadiedScore(o, signals, signals) = Priority(signals, Analysis[o].bundle)
<1> DEFINE grade == Analysis[o].rankGrade
           past == Priority(signals, Analysis[o].bundle)
           weight == Times(700, Most(200, U - W(85 * grade)))
           step == Least(150, (35 * (2 * U + 5 * grade)) \div (2 * U))
           blend == (weight * past + (U - weight) * past) \div U
<1>1. grade \in Fraction /\ past \in Fraction
  BY AnalysisTyped, PriorityTyped DEF Analysed
<1> HIDE DEF grade, past
<1>2. past \in Int /\ grade \in Int
  BY <1>1, FractionInt
<1>3. weight \in Int
  <2>1. W(85 * grade) \in Int
    BY <1>2, WTyped
  <2>2. Most(200, U - W(85 * grade)) \in Int
    BY <2>1 DEF Most, U
  <2> QED
    BY <2>2, TimesTyped
<1>4. step \in Nat
  BY <1>1, SMT DEF Least, Fraction, U
<1> HIDE DEF weight, step
<1>5. blend = past
  <2>1. weight * past + (U - weight) * past = U * past
    BY <1>2, <1>3 DEF U
  <2>2. (U * past) \div U = past
    BY <1>2 DEF U
  <2> QED
    BY <2>1, <2>2
<1> HIDE DEF blend
<1>6. Most(Above(past, step), Least(Least(U, past + step), blend)) = past
  BY <1>1, <1>4, <1>5 DEF Most, Least, Above, Fraction, U
<1> QED
  BY <1>6 DEF SteadiedScore, grade, past, weight, step, blend

(* A run whose signals were already those called for publishes what a run   *)
(* without history does.                                                    *)
LEMMA ArrivedAsAfresh ==
  ASSUME TypeOK, row # Unrated, Onward(obs), obs' = obs, History = Targets[obs],
         row'.signals = Targets[obs]
  PROVE  AsIfAfresh'
<1> DEFINE a == Analysis[obs]
           target == Targets[obs]
<1>1. obs \in Views /\ row.signals \in SignalVectors
  BY StoredTyped
<1>2. Steadied(obs, History) = target
  BY <1>1, OnwardPublishes
<1>3. Complete(obs, target, SteadiedScore(obs, target, target))
  BY <1>2 DEF Onward
<1>4. SteadiedScore(obs, target, target) = Priority(target, a.bundle)
  BY <1>1, TargetTyped, AgreedScore
<1>5. Publish(obs, target, a.stress.robustness,
              TotalCap(Priority(target, a.bundle), target, a.cap, a.negative),
              Label(target, obs, a.bundle, a.reading, a.stress.drawdown))
  BY <1>3, <1>4 DEF Complete
<1>6. /\ row'.signals = target
      /\ score' = TotalCap(Priority(target, a.bundle), target, a.cap, a.negative)
      /\ label' = Label(target, obs, a.bundle, a.reading, a.stress.drawdown)
  BY <1>5 DEF Publish
<1> HIDE DEF target
<1> QED
  BY <1>6 DEF AsIfAfresh, target

(* One regular run after another.                                           *)
LEMMA ScoredFades ==
  ASSUME Fading, ScoredRun, calm' = Least(calm + 1, Enough)
  PROVE  /\ Steady => \A s \in Primary : 100 * row'.signals[s] > U /\ Nearing(s)'
         /\ calm' = Enough /\ Steady => AsIfAfresh'
<1>1. /\ TypeOK /\ row # Unrated /\ Onward(obs) /\ obs' = obs /\ calm \in 0..Enough
      /\ obs \in Views /\ row.signals \in SignalVectors
  BY StoredTyped DEF Fading, ScoredRun
<1>2. row' \in Rated /\ row'.signals \in SignalVectors
  BY <1>1, OnwardPublishes DEF Rated
<1>3. ASSUME Steady, NEW s \in Primary
      PROVE  100 * row'.signals[s] > U /\ Nearing(s)'
  <2> DEFINE h == History[s]
             x == Targets[obs][s]
             new == row'.signals[s]
  <2>1. /\ h \in Fraction /\ x \in Fraction /\ new \in Fraction
        /\ h = Drift(s)!ReadBack(row.signals[s])
        /\ Drift(s)!Distance(new, x) + Drift(s)!Distance(h, new) = Drift(s)!Distance(h, x)
        /\ new = x \/ Drift(s)!Distance(h, new) >= 80
    <3>1. Drift(s)!BaseStep \in Int
      BY DEF Drift!BaseStep, U
    <3>2. /\ h \in Fraction /\ x \in Fraction /\ new \in Fraction
          /\ h = Drift(s)!ReadBack(row.signals[s])
          /\ Drift(s)!Distance(new, x) + Drift(s)!Distance(h, new) = Drift(s)!Distance(h, x)
          /\ new = x \/ Drift(s)!Distance(h, new) >= Drift(s)!BaseStep
          /\ 80 <= Drift(s)!BaseStep
      BY <1>1, RunMoves
    <3> HIDE DEF h, x, new
    <3>3. Drift(s)!Distance(h, new) \in Int
      BY <3>2, DistanceFacts
    <3>4. new = x \/ Drift(s)!Distance(h, new) >= 80
      BY <3>1, <3>2, <3>3
    <3> QED
      BY <3>2, <3>4
  <2>2. 100 * x > U
    BY <1>3 DEF Steady
  <2>3. calm = 0 \/ (h = row.signals[s] /\ (h = x \/ Drift(s)!Distance(h, x) <= U - 80 * calm))
    <3>1. calm # 0 => 100 * row.signals[s] > U /\ Nearing(s)
      BY <1>1, <1>3 DEF Fading, Enough
    <3>2. 100 * row.signals[s] > U => Drift(s)!ReadBack(row.signals[s]) = row.signals[s]
      BY DEF Drift!ReadBack
    <3> QED
      BY <2>1, <3>1, <3>2 DEF Nearing
  <2>4. row'.signals[s] = new /\ Targets[obs]'[s] = x
    BY <1>1
  <2> HIDE DEF h, x, new
  <2>5. 100 * new > U
    <3>1. new >= x \/ new >= 80
      <4>1. /\ h \in Int /\ x \in Int /\ new \in Int /\ 0 <= h /\ 0 <= x /\ 0 <= new
        BY <2>1, FractionBounds
      <4>2. \A a, b \in {h, x, new} :
               Drift(s)!Distance(a, b) = IF a <= b THEN b - a ELSE a - b
        BY DEF Drift!Distance
      <4> QED
        BY <2>1, <4>1, <4>2
    <3>2. x \in Int /\ new \in Int
      BY <2>1, FractionBounds
    <3> QED
      BY <2>2, <3>1, <3>2 DEF U
  <2>6. new = x \/ Drift(s)!Distance(new, x) <= U - 80 * calm'
    <3>1. calm \in Int /\ calm' \in Int /\ calm' <= calm + 1
      BY <1>1 DEF Least, Enough
    <3>2. Drift(s)!Distance(h, x) <= U
      BY <2>1, DistanceFacts
    <3>3. h = x => new = x
      <4>1. /\ Drift(s)!Distance(new, x) >= 0 /\ Drift(s)!Distance(h, new) >= 0
            /\ Drift(s)!Distance(new, x) \in Int /\ Drift(s)!Distance(h, new) \in Int
            /\ Drift(s)!Distance(h, x) = 0 <=> h = x
            /\ Drift(s)!Distance(new, x) = 0 <=> new = x
        BY <2>1, DistanceFacts
      <4> QED
        BY <2>1, <4>1
    <3>4. h = x \/ Drift(s)!Distance(h, x) <= U - 80 * calm
      BY <2>3, <3>1, <3>2 DEF U
    <3>5. /\ Drift(s)!Distance(h, x) \in Int /\ Drift(s)!Distance(new, x) \in Int
          /\ Drift(s)!Distance(h, new) \in Int
      BY <2>1, DistanceFacts
    <3>6. CASE Drift(s)!Distance(h, x) <= U - 80 * calm /\ new # x
      BY <2>1, <3>1, <3>5, <3>6 DEF U
    <3> QED
      BY <3>3, <3>4, <3>6
  <2> QED
    BY <2>4, <2>5, <2>6 DEF Nearing
<1>4. ASSUME calm' = Enough, Steady
      PROVE  AsIfAfresh'
  <2>1. calm \in Int /\ calm >= 13
    BY <1>1, <1>4 DEF Least, Enough
  <2>2. ASSUME NEW s \in Primary
        PROVE  History[s] = Targets[obs][s] /\ row'.signals[s] = Targets[obs][s]
    <3> DEFINE h == History[s]
               x == Targets[obs][s]
               new == row'.signals[s]
    <3>1. /\ h \in Fraction /\ x \in Fraction /\ new \in Fraction
          /\ h = Drift(s)!ReadBack(row.signals[s])
          /\ Drift(s)!Distance(new, x) + Drift(s)!Distance(h, new) = Drift(s)!Distance(h, x)
      BY <1>1, RunMoves
    <3>2. 100 * row.signals[s] > U /\ Nearing(s)
      BY <1>4, <2>1 DEF Fading
    <3>3. h = row.signals[s]
      BY <3>1, <3>2 DEF Drift!ReadBack
    <3>4. h = x \/ Drift(s)!Distance(h, x) <= U - 80 * calm
      BY <3>2, <3>3 DEF Nearing
    <3> HIDE DEF h, x, new
    <3>5. h = x
      <4>1. /\ Drift(s)!Distance(h, x) \in Int /\ Drift(s)!Distance(h, x) >= 0
            /\ Drift(s)!Distance(h, x) = 0 => h = x
        BY <3>1, DistanceFacts
      <4> QED
        BY <2>1, <3>4, <4>1 DEF U
    <3>6. new = x
      <4>1. /\ Drift(s)!Distance(new, x) \in Int /\ Drift(s)!Distance(new, x) >= 0
            /\ Drift(s)!Distance(h, new) \in Int /\ Drift(s)!Distance(h, new) >= 0
            /\ Drift(s)!Distance(h, x) = 0 <=> h = x
            /\ Drift(s)!Distance(new, x) = 0 <=> new = x
        BY <3>1, DistanceFacts
      <4> QED
        BY <3>1, <3>5, <4>1
    <3> QED
      BY <3>5, <3>6 DEF h, x, new
  <2>3. History = Targets[obs] /\ row'.signals = Targets[obs]
    <3>1. /\ History \in SignalVectors /\ Targets[obs] \in SignalVectors
          /\ row'.signals \in SignalVectors
      BY <1>1, <1>2, HistoryTyped, TargetTyped
    <3> QED
      BY <2>2, <3>1 DEF SignalVectors
  <2> QED
    BY <1>1, <2>3, ArrivedAsAfresh
<1> QED
  BY <1>3, <1>4

(* History delays and never decides: from any reachable row, under any      *)
(* reliabilities, fourteen regular runs bring the signals, the score and    *)
(* the label of a subnet to those of a run that has no history.             *)
THEOREM SettledInTime == CountedSpec => []HistoryOnlyDelays
<1>1. CountedInit => Fading
  <2> SUFFICES ASSUME CountedInit
               PROVE  Fading
    OBVIOUS
  <2>1. TypeOK
    BY ScoringAssumption DEF CountedInit, Init, TypeOK, Fraction, U
  <2> QED
    BY <2>1 DEF CountedInit, Fading, HistoryOnlyDelays, Enough
<1>2. Fading /\ [CountedNext]_<<vars, calm>> => Fading'
  <2> SUFFICES ASSUME Fading, [CountedNext]_<<vars, calm>>
               PROVE  Fading'
    OBVIOUS
  <2>1. TypeOK' /\ shocks \in Int
    <3>1. [Next]_vars
      BY DEF CountedNext
    <3> QED
      BY <3>1, TypeKept, ScoringAssumption DEF Fading, TypeOK
  <2>2. CASE UNCHANGED <<vars, calm>>
    BY <2>1, <2>2 DEF Fading, vars, HistoryOnlyDelays, Steady, AsIfAfresh, Nearing
  <2>3. CASE CountedNext /\ shocks' # shocks
    <3>1. calm' = 0
      BY <2>3 DEF CountedNext
    <3> QED
      BY <2>1, <3>1 DEF Fading, HistoryOnlyDelays, Enough
  <2>4. CASE CountedNext /\ shocks' = shocks
    <3>1. calm' = Least(calm + 1, Enough) /\ calm \in 0..Enough
      BY <2>4 DEF CountedNext, Fading
    <3>2. calm' \in 1..Enough
      <4>1. \A n \in 0..Enough : Least(n + 1, Enough) \in 1..Enough
        BY DEF Least, Enough
      <4> QED
        BY <3>1, <4>1
    <3>3. FirstRun \/ ScoredRun
      <4>1. ~Shock
        BY <2>1, <2>4 DEF Shock
      <4>2. GapRun \/ BlankRun \/ BlindRun \/ SubnetChanges => Shock
        BY Zenon DEF GapRun, BlankRun, BlindRun, SubnetChanges
      <4> QED
        BY <2>4, <4>1, <4>2 DEF CountedNext, Next
    <3>4. CASE FirstRun
      <4>1. row'.signals = Targets[obs] /\ obs' = obs /\ row = Unrated /\ row' \in Rated
        BY <3>4, StoredTyped, AfreshPublishes DEF FirstRun, Fading
      <4>2. calm' = 1 /\ row' # Unrated
        <5>1. calm = 0
          BY <3>1, <4>1 DEF Fading
        <5>2. calm' = 1
          BY <3>1, <5>1 DEF Least, Enough
        <5> QED
          BY <4>1, <5>2 DEF Rated, Unrated, SignalVectors, Fraction, Missing, Primary
      <4>3. Steady' => \A s \in Primary : 100 * row'.signals[s] > U /\ Nearing(s)'
        BY <4>1 DEF Steady, Nearing
      <4> QED
        BY <2>1, <3>2, <4>2, <4>3 DEF Fading, HistoryOnlyDelays, Enough
    <3>5. CASE ScoredRun
      <4>1. row' # Unrated
        <5>1. row' \in Rated
          BY <3>5, StoredTyped, OnwardPublishes DEF ScoredRun, Fading
        <5> QED
          BY <5>1 DEF Rated, Unrated, SignalVectors, Fraction, Missing, Primary
      <4>2. Steady' = Steady
        BY <3>5 DEF ScoredRun, Steady
      <4> QED
        BY <2>1, <3>1, <3>2, <3>5, <4>1, <4>2, ScoredFades DEF Fading, HistoryOnlyDelays
    <3> QED
      BY <3>3, <3>4, <3>5
  <2> QED
    BY <2>2, <2>3, <2>4
<1>3. Fading => HistoryOnlyDelays
  BY DEF Fading
<1> QED
  BY <1>1, <1>2, <1>3, PTL DEF CountedSpec
=============================================================================
