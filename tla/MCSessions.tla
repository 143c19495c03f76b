---------------------------- MODULE MCSessions ------------------------------
(***************************************************************************)
(* Instances of Sessions for TLC.                                          *)
(***************************************************************************)
EXTENDS Sessions, TLC

CONSTANTS a1, a2, a3, r1, r2, s1, s2, b1, b2, w1, w2, u1, u2, x1, x2

\* The command for operation o about session s, and so on.
Command(o, s, b, w, u, x, offer) ==
    [id |-> <<o, s, b, w, u, x>>, op |-> o, session |-> s, balance |-> b,
     wallet |-> w, user |-> u, tx |-> x, offer |-> offer, expires |-> offer + 1]

\* Two operations, each about any session, balance, wallet, Telegram user
\* and transaction.
AnyTwo ==
    {Command(o, s, b, w, u, x, 1) : o \in {"o1", "o2"}, s \in {s1, s2},
        b \in {b1, b2}, w \in {w1, w2}, u \in {u1, u2}, x \in {x1, x2}}

AnyTwoSymmetry ==
    Permutations({a1, a2}) \cup Permutations({s1, s2}) \cup Permutations({b1, b2})
        \cup Permutations({w1, w2}) \cup Permutations({u1, u2})
        \cup Permutations({x1, x2})

\* A session renewed by a second payment, then its first transaction once
\* more for another session.
RenewThenReuse ==
    {Command("o1", s1, b1, w1, u1, x1, 2), Command("o2", s1, b1, w1, u1, x2, 2),
     Command("o3", s2, b1, w1, u2, x1, 2)}

\* One operation whose top-up command dies before the offer ends, perhaps
\* twice.
LongOffer == {Command("o1", s1, b1, w1, u1, x1, 3)}
=============================================================================
