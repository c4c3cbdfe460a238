------------------------------ MODULE Accounts ------------------------------
(***************************************************************************)
(* What the wallet promises its callers: an operation (a stake, a payout,  *)
(* a conversion; one or more entries) happens in one indivisible step, or  *)
(* not at all.  It adds exactly those of its entries that were not posted  *)
(* before, each once, and it leaves no bucket below zero.  There are no    *)
(* locks, no cached balances and no concurrent workers here.               *)
(***************************************************************************)
EXTENDS LedgerBook

CONSTANT Ops         \* the operations: each a sequence of entries

VARIABLE book        \* every entry ever posted, oldest first

Unposted(op) == {e \in {op[i] : i \in DOMAIN op} : e.key \notin KeysOf(book)}

\* The ways to write down the entries of S, each once.
Listings(S, n) == {s \in [1 .. n -> S] :
                     /\ \A e \in S : \E i \in 1 .. n : s[i] = e
                     /\ \A i, j \in 1 .. n : s[i] = s[j] => i = j}

Init == book = <<>>

Execute(op) ==
  \E n \in 0 .. Len(op) : \E new \in Listings(Unposted(op), n) :
    /\ book' = book \o new
    /\ \A p \in Players, b \in Buckets : LedgerTotal(book', p, b) >= 0

Next == \E op \in Ops : Execute(op)

Spec == Init /\ [][Next]_book
=============================================================================
