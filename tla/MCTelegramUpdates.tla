------------------------- MODULE MCTelegramUpdates --------------------------
(***************************************************************************)
(* An instance of TelegramUpdates for TLC: private messages around a group *)
(* message and an update without a message.                                *)
(***************************************************************************)
EXTENDS TelegramUpdates

CONSTANTS p1, p2

KindOf == [i \in 1..4 |-> CASE i = 2 -> "group" [] i = 3 -> "other" [] OTHER -> "private"]
=============================================================================
