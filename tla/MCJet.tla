------------------------------- MODULE MCJet -------------------------------
(* A bet with an auto cash-out, and two with the free bet, which no plane of *)
(* this size takes to its target.                                            *)
EXTENDS Jet

CONSTANTS auto, free1, free2

MCTarget == [b \in Bets |-> IF b = auto THEN 2 ELSE 3]
=============================================================================
