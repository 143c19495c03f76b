------------------------------- MODULE MCBot --------------------------------
(***************************************************************************)
(* Instances of Bot for TLC.                                               *)
(***************************************************************************)
EXTENDS Bot, TLC

CONSTANTS p1, p2, u1, u2, s1, s2, o1, o2, b1, x1, x2, t1, t2, i1, i2

Invite1 == [id |-> i1, op |-> t1, balance |-> b1]
Invite2 == [id |-> i2, op |-> t2, balance |-> b1]

OneInvite   == {Invite1}
TwoInvites  == {Invite1, Invite2}

\* No definition tells one operation from another.
OpsAlike == Permutations(Ops)
=============================================================================
