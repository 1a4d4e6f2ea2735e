------------------------ MODULE MCExternalSnapshots ------------------------
(* A small instance of ExternalSnapshots: a subnet that has a repository in  *)
(* its identity, of which an earlier refresh may have left evidence, and     *)
(* that TaoStats links to that, another, or none.                            *)
EXTENDS ExternalSnapshots, TLC

CONSTANTS n1, p1, p2

MCIdentity == [n \in Netuids |-> p1]

MCKnown == {p1}

RefresherSymmetry == Permutations(Refreshers)
=============================================================================
