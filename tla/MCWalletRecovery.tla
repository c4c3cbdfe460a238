-------------------------- MODULE MCWalletRecovery --------------------------
(***************************************************************************)
(* Two wallets, and a deposit and two stakes it cannot both pay for that   *)
(* are posted while reconciliation passes are under way.                   *)
(***************************************************************************)
EXTENDS WalletRecovery

MCPlayers == {"p1", "p2"}
MCKeys == {"dep", "stake1", "stake2", "win"}

MCOps ==
  { <<Credit("p1", "dep", "deposit", 2)>>,
    <<Debit("p1", "stake1", "deposit", 2), Credit("p2", "win", "winnings", 1)>>,
    <<Debit("p1", "stake2", "deposit", 1)>> }
=============================================================================
