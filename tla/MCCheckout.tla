----------------------------- MODULE MCCheckout -----------------------------
(***************************************************************************)
(* A dialog and two deposits: Paynow always answers the polls of one, and  *)
(* may leave those of the other unanswered for ever.  Reports are a set, so*)
(* each may arrive any number of times.                                    *)
(***************************************************************************)
EXTENDS Checkout

CONSTANTS polled, unheard

MCDeposits == {polled, unheard}
MCAnswered == {polled}
MCMayEnd == [t \in MCDeposits |->
  IF t = polled THEN {"paid", "wrong", "failed"} ELSE {"paid"}]
=============================================================================
