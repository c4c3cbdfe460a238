----------------------------- MODULE MCTickets -----------------------------
(* Two matches: home is a 1X2 selection of a, over an outcome of a market of *)
(* b.  bet backs over, slip backs both.                                      *)
EXTENDS Tickets

CONSTANTS a, b, home, over, bet, slip

MCEvents  == {a, b}
MCPicks   == {home, over}
MCEventOf == [p \in MCPicks |-> IF p = home THEN a ELSE b]
MCMain    == {home}
MCTickets == {bet, slip}
MCLegsOf  == [t \in MCTickets |-> IF t = bet THEN {over} ELSE {home, over}]

\* Both won; the 1X2 lost, and a market the facts do not decide.
MCFacts == {[p \in MCPicks |-> "won"], [p \in MCPicks |-> IF p = home THEN "lost" ELSE "unknown"]}
=============================================================================
