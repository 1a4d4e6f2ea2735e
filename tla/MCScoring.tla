------------------------------ MODULE MCScoring ------------------------------
(* An instance of Settling: a healthy subnet, what may happen to it, a peer. *)
EXTENDS Settling, SequencesExt

MCLn1p ==
  [v \in {80, 300, 400, 5000, 8000, 10000, 60000, 50000, 200000} |->
     CASE v = 80 -> 4394 [] v = 300 -> 5707 [] v = 400 -> 5994 [] v = 5000 -> 8517
       [] v = 8000 -> 8987 [] v = 10000 -> 9210 [] v = 60000 -> 11002
       [] v = 50000 -> 10820 [] v = 200000 -> 12206]

Repository == [status |-> "active_repo", age |-> 10, continuity |-> 800, breadth |-> 600]
Healthy ==
  [pool |-> 60000, emission |-> 100000, active |-> 850, breadth |-> 700, validators |-> 900,
   ownership |-> 300, fresh |-> 900, entropy |-> 700, disagreement |-> 300, stakes |-> TRUE,
   rows |-> 18, github |-> Repository, dPrice |-> 0, dQuality |-> 100, dActive |-> 60,
   dBreadth |-> 60, dStructure |-> 20, dEmission |-> 0, dReserve |-> 100,
   dConcentration |-> -10, accel |-> 20, trend |-> 50, priceTrust |-> U, priceLevel |-> 200,
   anchor |-> 600, staffed |-> TRUE, allowed |-> TRUE, closed |-> FALSE, immune |-> TRUE,
   efficient |-> TRUE]

Excellent ==
  [Healthy EXCEPT !.pool = 200000, !.emission = 3000, !.active = U, !.breadth = U, !.validators = U,
                  !.ownership = 50, !.fresh = U, !.dActive = 150, !.dBreadth = 100,
                  !.entropy = 300, !.disagreement = 100]

(* Watched for its crowd, as long as the market minds it.                   *)
Crowded ==
  [Healthy EXCEPT !.pool = 10000, !.ownership = 750, !.dPrice = 200, !.emission = 8000,
                  !.active = 220, !.breadth = 260, !.dQuality = 0]

MCObserved ==
  {Healthy, Excellent, Crowded, [Crowded EXCEPT !.pool = 8000],
   [Excellent EXCEPT !.pool = 400],
   [Excellent EXCEPT !.pool = 400, !.stakes = FALSE, !.priceTrust = 600],
   [Healthy EXCEPT !.pool = 5000],
   [Healthy EXCEPT !.pool = 300],
   [Healthy EXCEPT !.pool = 80],
   [Healthy EXCEPT !.ownership = 950],
   [Healthy EXCEPT !.ownership = 950, !.pool = 5000],
   [Healthy EXCEPT !.dPrice = 900, !.priceLevel = U],
   [Healthy EXCEPT !.entropy = 950, !.disagreement = 50],
   [Healthy EXCEPT !.closed = TRUE],
   [Healthy EXCEPT !.active = 0, !.fresh = 0, !.breadth = 100, !.pool = 300, !.stakes = FALSE,
                   !.entropy = Missing, !.disagreement = Missing, !.rows = 1],
   [Healthy EXCEPT !.dQuality = 0, !.dActive = 0, !.dBreadth = 0, !.dReserve = -100]}

(* Two states of a subnet that differ in the concentration of its stake.    *)
MCConcentrating == {[Healthy EXCEPT !.ownership = 420], [Healthy EXCEPT !.ownership = 560]}

MCBlank ==
  [pool |-> 0, emission |-> 0, active |-> 0, breadth |-> 0, validators |-> 0, ownership |-> U,
   fresh |-> 0, entropy |-> Missing, disagreement |-> Missing, stakes |-> FALSE, rows |-> 18,
   github |-> Repository, dPrice |-> -U, dQuality |-> -U, dActive |-> -U, dBreadth |-> -U,
   dStructure |-> -U, dEmission |-> -U, dReserve |-> -U, dConcentration |-> 300, accel |-> 0,
   trend |-> 0, priceTrust |-> U, priceLevel |-> 0, anchor |-> 600, staffed |-> FALSE,
   allowed |-> FALSE, closed |-> TRUE, immune |-> FALSE, efficient |-> FALSE]

MCPeers ==
  << [Healthy EXCEPT !.pool = 5000, !.dQuality = 50, !.ownership = 600, !.active = 600,
                     !.efficient = FALSE],
     [Healthy EXCEPT !.breadth = 300, !.dReserve = 40, !.dPrice = 200, !.accel = -10] >>

Table == [o \in Views |-> Analyse(o)]

(* Bound by LET so that TLC's coverage takes the table as a value and does   *)
(* not follow its formulas from every use.                                  *)
MCAnalysis == LET analysis == Table IN analysis
=============================================================================
