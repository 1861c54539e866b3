------------------------- MODULE MCResourcePipeline -------------------------
(* Instances of ResourcePipeline for TLC: one account, each quota the Budget. *)
EXTENDS ResourcePipeline, TLC

CONSTANTS u1, Budget

OneOwner == [f \in Files |-> u1]
EqualQuota == [u \in Users |-> Budget]

Runners == Permutations(Workers)
Uploaders == Permutations(Uploads)
=============================================================================
