----------------------------- MODULE MCSession ------------------------------
(***************************************************************************)
(* Two tabs of one browser: one on a page with a timer, one on a page      *)
(* without.                                                                *)
(***************************************************************************)
EXTENDS Session, TLC
CONSTANTS a, b

MCTabs == {a, b}
MCReaders == {a}
=============================================================================
