------------------------- MODULE MCMutationPipeline -------------------------
(***************************************************************************)
(* Instances of MutationPipeline for TLC.                                  *)
(***************************************************************************)
EXTENDS MutationPipeline, TLC
CONSTANTS r1, r2, r3, r4, k1, b1, b2, b3

\* r1 and r2 are one keyed request and its retry, r3 and r4 have no key.
RetryKeys == (r1 :> k1) @@ (r2 :> k1) @@ (r3 :> None) @@ (r4 :> None)

\* All three carry one key; r3 reuses it for a request of another kind.
SharedKeys == [r \in {r1, r2, r3} |-> k1]

\* r1 has a key and r2 has none.
MixedKeys == (r1 :> k1) @@ (r2 :> None)

RetryBodies == (r1 :> b1) @@ (r2 :> b1) @@ (r3 :> b2) @@ (r4 :> b3)
MixedBodies == (r1 :> b1) @@ (r2 :> b2)
=============================================================================
