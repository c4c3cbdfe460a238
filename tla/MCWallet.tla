------------------------------ MODULE MCWallet ------------------------------
(***************************************************************************)
(* Two players and a handful of operations that get in each other's way:   *)
(* a deposit, two stakes that it cannot both pay for, a second deposit     *)
(* that reuses the first one's client-chosen key on another wallet, and    *)
(* two settlers that pay the same two tickets in opposite order.           *)
(***************************************************************************)
EXTENDS Wallet

MCPlayers == {"p1", "p2"}
MCKeys == {"dep", "stake1", "stake2", "bet1", "bet1:profit", "bet2", "bet2:profit"}

MCOps ==
  { <<Credit("p1", "dep", "deposit", 2)>>,
    <<Credit("p2", "dep", "deposit", 1)>>,
    <<Debit("p1", "stake1", "deposit", 2)>>,
    <<Debit("p1", "stake2", "deposit", 1)>>,
    PayOut("p1", "deposit", 1, 2, "bet1", "bet1:profit")
      \o PayOut("p2", "bonus", 1, 2, "bet2", "bet2:profit"),
    PayOut("p2", "bonus", 1, 2, "bet2", "bet2:profit")
      \o PayOut("p1", "deposit", 1, 2, "bet1", "bet1:profit") }
=============================================================================
