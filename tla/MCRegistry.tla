----------------------------- MODULE MCRegistry -----------------------------
(* One operator with two ids, one wallet, two overlapping handlers. *)
EXTENDS Registry, TLC

CONSTANTS a1, a2, s1, s2, s3, derived, real, wallet, r1, r2

TheAddress == wallet :> s1
TheAgents == s1 :> a1 @@ s2 :> a2 @@ s3 :> a2

Symmetry == Permutations({r1, r2}) \union Permutations({s2, s3})
=============================================================================
