----------------------------- MODULE LedgerBook -----------------------------
(***************************************************************************)
(* The ledger as data: the signed entries of wallet_ledger_entry, the      *)
(* columns of a wallet row, and the totals of a ledger.  Everything else   *)
(* about money (who posts entries, when, under which locks) is in Wallet.  *)
(***************************************************************************)
EXTENDS Integers, Sequences

CONSTANTS Players,   \* wallet owners: one wallet row each
          Keys       \* idempotency keys of ledger entries

Buckets == {"deposit", "bonus", "winnings"}

\* The money columns of a wallet row: the three buckets and their total.
Columns == Buckets \cup {"balance"}

\* A ledger entry: `amount` is signed, negative for a debit.
Entry == [player : Players, key : Keys, bucket : Buckets, amount : Int]

\* post_entry saves the bucket's column and the total of the same row.
AddTo(row, e) == [c \in Columns |->
                    IF c \in {e.bucket, "balance"} THEN row[c] + e.amount ELSE row[c]]

KeysOf(l) == {l[i].key : i \in DOMAIN l}

\* What entry e contributes to column c of player p's wallet.
Share(e, p, c) == IF e.player = p /\ c \in {e.bucket, "balance"} THEN e.amount ELSE 0

\* recompute_balances: the sum of the ledger's amounts, per bucket.
RunningTotal(l, p, c) ==
  LET t[n \in 0 .. Len(l)] == IF n = 0 THEN 0 ELSE t[n - 1] + Share(l[n], p, c)
  IN  t

LedgerTotal(l, p, c) == RunningTotal(l, p, c)[Len(l)]

ZeroRow == [c \in Columns |-> 0]

Credit(p, k, b, amount) == [player |-> p, key |-> k, bucket |-> b, amount |-> amount]
Debit(p, k, b, amount) == [player |-> p, key |-> k, bucket |-> b, amount |-> -amount]

(* pay_out: the stake goes back to the bucket it came from and the profit  *)
(* to Winnings; a bonus ticket is paid back into Bonus whole.  Parts that  *)
(* come to nothing are not posted.                                         *)
PayOut(p, source, stake, payout, key, profitKey) ==
  LET back == IF source = "bonus" \/ payout < stake THEN payout ELSE stake
  IN  SelectSeq(<<Credit(p, key, source, back),
                  Credit(p, profitKey, "winnings", payout - back)>>,
                LAMBDA e : e.amount > 0)
=============================================================================
