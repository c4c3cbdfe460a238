----------------------------- MODULE MCPayments -----------------------------
(***************************************************************************)
(* Two transactions, which share nothing but the sweep: Paynow always      *)
(* answers the polls of one, and may leave those of the other unanswered   *)
(* for ever.  Reports are sets, so each may arrive any number of times.    *)
(***************************************************************************)
EXTENDS Payments

CONSTANTS polled, unheard

MCDeposits == {polled, unheard}
MCAnswered == {polled}
MCMayEnd == [t \in MCDeposits |->
  IF t = polled THEN {"paid", "wrong", "failed"} ELSE {"paid", "cancelled"}]
=============================================================================
