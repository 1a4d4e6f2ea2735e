------------------------------ MODULE HardRules ------------------------------
(***************************************************************************)
(* The hard rules of regimes/hard_rules.py as functions of one subnet's     *)
(* readings r: which rules are on, what they cap, and the label they force. *)
(* Fractions are thousandths; slippage and yield (in percent) are rounded   *)
(* up, so that a comparison "> k" is the one of the code. A cap of U and a  *)
(* floor of 0 are the None of the code.                                     *)
(***************************************************************************)
EXTENDS Integers, FiniteSetsExt

U == 1000

Fraction == 0..U
Readings ==
  [active : Fraction, breadth : Fraction, fresh : Fraction, staffed : BOOLEAN,
   pool : Nat, yield : Nat, slippage : Fraction, concentration : Fraction, drift : Int,
   relevance : Fraction, floor : Fraction, crowding : Fraction, crowded : Fraction,
   overreaction : Fraction, underreaction : Fraction, coherence : Fraction,
   coverage : Fraction, proxies : Fraction, fabrication : Fraction,
   conviction : Fraction, gate : Fraction, hollow : BOOLEAN, closed : BOOLEAN,
   immune : BOOLEAN, dereg : Fraction]

-----------------------------------------------------------------------------
(* The rules, by what the code calls them when they are activated.          *)
Inactive(r) ==
  ~r.staffed \/ (r.active < 30 /\ r.fresh < 30 /\ r.breadth < 350 /\ r.pool < 5000)

ThinLiquidity(r) == r.pool < 100 \/ r.slippage > 350

MicroPool(r) == r.pool < 250 /\ r.yield > 150

YieldIntensity(r) == r.pool < 7500 /\ r.yield > 150

ExtremeYield(r) == r.pool < 2500 /\ r.yield > 180

FragileRepricing(r) ==
  /\ r.pool < 10000
  /\ r.yield > 110
  /\ r.floor < 580 \/ r.slippage > 50 \/ r.concentration > 750

ElevatedYield(r) ==
  /\ r.pool < 10000
  /\ r.yield > 100
  /\ r.floor < 620 \/ r.concentration > 780 \/ r.slippage > 40

SevereStructure(r) == r.pool < 1500 /\ r.yield > 250 /\ r.floor < 450

(* Mutant of ModerateStructure: a band that ends where the severe one may   *)
(* begin.                                                                   *)
ModerateStructureBand(r) ==
  r.pool >= 1500 /\ r.pool < 7500 /\ (r.floor < 420 \/ r.slippage > 120 \/ r.yield > 220)

ModerateStructure(r) ==
  /\ ~SevereStructure(r)
  /\ r.pool < 7500
  /\ r.floor < 420 \/ r.slippage > 120 \/ r.yield > 220

RegistrationClosed(r) == r.closed

Concentrated(r) ==
  \/ r.concentration > 700
  \/ /\ r.concentration > 620
     /\ r.drift > 20 \/ r.floor < 580 \/ r.crowding > 350 \/ r.slippage > 60

Flagship(r) ==
  r.pool >= 50000 /\ r.slippage <= 30 /\ r.breadth >= 450 /\ r.drift <= 20
MarketRelevant(r) ==
  /\ r.pool >= 15000 /\ r.relevance >= 550
  /\ r.slippage <= 60 /\ r.breadth >= 300 /\ r.drift <= 50
Midcap(r) ==
  /\ r.pool >= 8000 /\ r.floor >= 560 /\ r.relevance >= 420
  /\ r.slippage <= 80 /\ r.breadth >= 240 /\ r.drift <= 40

Hollow(r) == r.hollow

PostImmunity(r) == ~r.immune /\ r.dereg > 550

ThinEvidence(r) == r.coverage < 300 /\ r.fresh < 300

FabricationRisk(r) == r.fabrication > 580

LowEvidence(r) ==
  \/ r.conviction > 520
  \/ r.underreaction > 620 /\ r.coverage < 500 /\ r.proxies > 520 /\ r.coherence < 620

WeakInvestability(r) ==
  /\ r.gate < 300
  /\ \/ r.concentration > 680 \/ r.breadth < 180
     \/ r.floor < 500 /\ r.slippage > 70
     \/ r.relevance < 350 /\ r.floor < 550

Reflexive(r) ==
  /\ r.crowding > 480 /\ r.overreaction > 180
  /\ r.concentration > 560 \/ r.slippage > 35 \/ r.yield > 75 \/ r.floor < 680

CrowdedRepricing(r) ==
  /\ r.crowding > 550
  /\ r.yield > 85 \/ r.floor < 620 \/ r.pool < 25000
  /\ r.concentration > 600 \/ r.slippage > 40 \/ r.fabrication > 420

CrowdedWatch(r) ==
  /\ r.crowded > 520 /\ r.relevance >= 500
  /\ r.yield > 80 \/ r.concentration > 580 \/ r.overreaction > 120

-----------------------------------------------------------------------------
(* What the rules that are on allow. The tightest bound holds.              *)
Cap(on, bound) == IF on THEN bound ELSE U
Floor(on, bound) == IF on THEN bound ELSE 0

(* A concentrated subnet is treated by the liquidity that carries it.       *)
ConcentrationCap(r) ==
  IF Flagship(r) THEN 600 ELSE IF MarketRelevant(r) THEN 580 ELSE IF Midcap(r) THEN 540 ELSE 480
ConcentrationFloor(r) ==
  IF Flagship(r) THEN 520 ELSE IF MarketRelevant(r) THEN 560 ELSE IF Midcap(r) THEN 580 ELSE 620

QualityCaps(r) ==
  {Cap(Inactive(r), 180), Cap(MicroPool(r), 280), Cap(SevereStructure(r), 340),
   Cap(ModerateStructure(r), 420), Cap(Concentrated(r), ConcentrationCap(r)),
   Cap(Hollow(r), 500), Cap(WeakInvestability(r), 440)}
QualityCap(r) == Min(QualityCaps(r))

MispricingCaps(r) ==
  {Cap(Inactive(r), 120), Cap(ThinLiquidity(r), 220), Cap(MicroPool(r), 100),
   Cap(YieldIntensity(r), 420), Cap(ExtremeYield(r), 180),
   Cap(FragileRepricing(r), 260), Cap(SevereStructure(r), 240),
   Cap(ModerateStructure(r), 340), Cap(RegistrationClosed(r), 180),
   Cap(PostImmunity(r), 150), Cap(ThinEvidence(r), 160), Cap(FabricationRisk(r), 360),
   Cap(LowEvidence(r), 240), Cap(WeakInvestability(r), 220), Cap(Reflexive(r), 360),
   Cap(CrowdedRepricing(r), 340)}
MispricingCap(r) == Min(MispricingCaps(r))

ConfidenceCaps(r) ==
  {Cap(Inactive(r), 400), Cap(ThinLiquidity(r), 550), Cap(MicroPool(r), 420),
   Cap(YieldIntensity(r), 460), Cap(ExtremeYield(r), 420),
   Cap(FragileRepricing(r), 480), Cap(ElevatedYield(r), 520),
   Cap(SevereStructure(r), 480), Cap(ModerateStructure(r), 550),
   Cap(RegistrationClosed(r), 500), Cap(Hollow(r), 450), Cap(ThinEvidence(r), 300),
   Cap(FabricationRisk(r), 460), Cap(LowEvidence(r), 380),
   Cap(WeakInvestability(r), 420), Cap(Reflexive(r), 440),
   Cap(CrowdedRepricing(r), 400), Cap(CrowdedWatch(r), 540)}
ConfidenceCap(r) == Min(ConfidenceCaps(r))

FragilityFloors(r) ==
  {Floor(Inactive(r), 850), Floor(ThinLiquidity(r), 820), Floor(MicroPool(r), 880),
   Floor(YieldIntensity(r), 680), Floor(ExtremeYield(r), 760),
   Floor(FragileRepricing(r), 720), Floor(ElevatedYield(r), 660),
   Floor(SevereStructure(r), 780), Floor(ModerateStructure(r), 700),
   Floor(RegistrationClosed(r), 750), Floor(Concentrated(r), ConcentrationFloor(r)),
   Floor(PostImmunity(r), 800), Floor(FabricationRisk(r), 680),
   Floor(LowEvidence(r), 640), Floor(WeakInvestability(r), 700),
   Floor(CrowdedRepricing(r), 680), Floor(CrowdedWatch(r), 660)}
FragilityFloor(r) == Max(FragilityFloors(r))

ScoreCaps(r) ==
  {Cap(Inactive(r), 240), Cap(ThinLiquidity(r), 160), Cap(MicroPool(r), 120),
   Cap(SevereStructure(r), 340), Cap(ModerateStructure(r), 420),
   Cap(RegistrationClosed(r), 320), Cap(PostImmunity(r), 240),
   Cap(ThinEvidence(r), 340), Cap(LowEvidence(r), 320), Cap(WeakInvestability(r), 360)}
ScoreCap(r) == Min(ScoreCaps(r))

(* force_negative_label, and force_label: a closed registration overrides   *)
(* what the rules before it forced, every other rule leaves it.             *)
Overpaid(r) == ThinLiquidity(r) \/ MicroPool(r) \/ SevereStructure(r)
ForcesNegative(r) ==
  Inactive(r) \/ Overpaid(r) \/ RegistrationClosed(r) \/ PostImmunity(r)

NoLabel == "none"
ForcedLabel(r) ==
  IF Inactive(r) \/ RegistrationClosed(r) THEN "Dereg Risk"
  ELSE IF Overpaid(r) THEN "Overrewarded"
  ELSE IF Hollow(r) THEN "Consensus Hollow"
  ELSE IF PostImmunity(r) THEN "Dereg Risk"
  ELSE NoLabel

-----------------------------------------------------------------------------
(* The reading r is nowhere better than s, in what a run measures of a      *)
(* subnet by itself.                                                        *)
Worse(r, s) ==
  /\ r.active <= s.active /\ r.breadth <= s.breadth /\ r.fresh <= s.fresh
  /\ r.staffed => s.staffed
  /\ r.pool <= s.pool /\ r.yield >= s.yield /\ r.slippage >= s.slippage
  /\ r.concentration >= s.concentration /\ r.drift >= s.drift
  /\ r.floor <= s.floor /\ r.crowding >= s.crowding /\ r.overreaction >= s.overreaction
  /\ r.coherence <= s.coherence /\ r.coverage <= s.coverage /\ r.proxies >= s.proxies
  /\ r.fabrication >= s.fabrication
  /\ s.hollow => r.hollow
  /\ s.closed => r.closed
  /\ r.immune => s.immune
  /\ r.dereg >= s.dereg

(* The three rules that also read how a subnet stands in the market, and    *)
(* among the others of its run, do not let go of it for that: a crowded     *)
(* subnet, say, is no longer watched once nobody looks at it.               *)
Unrelieved(r, s) ==
  /\ r.relevance <= s.relevance
  /\ CrowdedWatch(s) => CrowdedWatch(r)
  /\ LowEvidence(s) => LowEvidence(r)
  /\ WeakInvestability(s) => WeakInvestability(r)

(* What the rules allow the one, they allow the other.                      *)
NoLooser(r, s) ==
  /\ QualityCap(r) <= QualityCap(s)
  /\ MispricingCap(r) <= MispricingCap(s)
  /\ ConfidenceCap(r) <= ConfidenceCap(s)
  /\ FragilityFloor(r) >= FragilityFloor(s)
  /\ ScoreCap(r) <= ScoreCap(s)
=============================================================================
