----------------------------- MODULE MCPeering -----------------------------
(***************************************************************************)
(* Values of Peering's constants for model checking.                       *)
(***************************************************************************)
EXTENDS Peering, TLC

\* The two instances are interchangeable.
InstanceSymmetry == Permutations(Instances)
=============================================================================
