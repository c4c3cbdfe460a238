--------------------------- MODULE MCWithdrawals ----------------------------
(***************************************************************************)
(* One player whose two requests compete for the same wallet and the same  *)
(* daily cap, and one request that is older than holds.                    *)
(***************************************************************************)
EXTENDS Withdrawals

MCAmounts == {1, 2}
=============================================================================
