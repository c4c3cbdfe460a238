----------------------------- MODULE MCBetslip ------------------------------
(***************************************************************************)
(* Three picks: the two sides of a match result, and one of another match  *)
(* whose price the server does not compare.                                *)
(***************************************************************************)
EXTENDS Betslip

CONSTANTS home, away, other, ann

MCPicks == {home, away, other}
MCMarket == [p \in MCPicks |-> IF p = other THEN 2 ELSE 1]
MCChecked == {home, away}
MCBooked == {away, other}
MCUsers == {ann}
=============================================================================
