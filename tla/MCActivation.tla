---------------------------- MODULE MCActivation ----------------------------
(***************************************************************************)
(* An instance of Activation for TLC.                                      *)
(***************************************************************************)
EXTENDS Activation, TLC

CONSTANTS u1, u2, s1, s2, s3, o1, o2, o3, b1, b2

Alike == Permutations(Users) \cup Permutations(SessionIDs) \cup Permutations(Ops)
            \cup Permutations(Balances)
=============================================================================
