-------------------------- MODULE MCAccountAccess --------------------------
(* Instances of AccountAccess for TLC. *)
EXTENDS AccountAccess, TLC

SpareSessions == Permutations(SessionIds \ {FirstSession})
=============================================================================
