---------------------------- MODULE MCBFATEngine ----------------------------
(***************************************************************************)
(* BFATEngine for TLC: order ids are interchangeable model values.         *)
(***************************************************************************)
EXTENDS BFATEngineProperties, TLC

OrderSymmetry == Permutations(OrderId)
=============================================================================
