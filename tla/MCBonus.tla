------------------------------ MODULE MCBonus ------------------------------
(***************************************************************************)
(* Two bonuses and three tickets, at least two of which win, which is what *)
(* it takes to convert: the second win brings more than the limit unless   *)
(* its stake was a part of the wallet.                                     *)
(***************************************************************************)
EXTENDS Bonus

MCBonusAmount == [x \in Bonuses |-> 1]
MCVerdicts ==
  {v \in [Tickets -> {"won", "lost", "void"}] : Cardinality({t \in Tickets : v[t] = "won"}) >= 2}

Alike == Permutations(Tickets) \union Permutations(Bonuses) \union Permutations(Settlers)
=============================================================================
