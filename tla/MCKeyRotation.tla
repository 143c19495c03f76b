---------------------------- MODULE MCKeyRotation ---------------------------
(* A small instance of KeyRotation: two replicas of a producer, a consumer *)
(* and two keys of each kind, the second valid before the first runs out.  *)
EXTENDS KeyRotation, TLC

CONSTANTS k1, k2

From  == k1 :> (-1) @@ k2 :> 1
Until == k1 :> 2 @@ k2 :> 9
Alike == Permutations(Producers)
OnePolicy == [subject |-> "s", type |-> "t", producers |-> {"svc"}]
=============================================================================
