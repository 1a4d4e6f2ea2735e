---------------------------- MODULE MCChainCalls ----------------------------
(* Instances of ChainCalls for TLC: four calls compete for two permits and  *)
(* three workers, in three runs of one process.                             *)
EXTENDS ChainCalls
CONSTANTS c1, c2, c3, c4
MCCalls == {c1, c2, c3, c4}
=============================================================================
