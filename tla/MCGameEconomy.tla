--------------------------- MODULE MCGameEconomy ---------------------------
(* Small instances of GameEconomy for TLC: requests are interchangeable,    *)
(* one stake is within the game's range and one is not, and one payout is   *)
(* above the cap.                                                           *)
EXTENDS GameEconomy, TLC

MCOpening == [u \in Users |-> 3]
MCSymmetry == Permutations(Reqs) \cup Permutations(Users)
=============================================================================
