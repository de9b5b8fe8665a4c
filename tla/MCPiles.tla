------------------------------- MODULE MCPiles -------------------------------
(* Piles for TLC: which name a card has makes no difference. *)
EXTENDS Piles, TLC

Alike == Permutations(Names)
=============================================================================
