--------------------------- MODULE WalletRecovery ---------------------------
(***************************************************************************)
(* apps/wallet/recovery.py: the reconciliation pass that the beat runs     *)
(* every five minutes beside the workers of Wallet.  It walks over all     *)
(* wallet rows as they were when the pass began, recomputes each wallet's  *)
(* balances from the ledger without a lock, and where the two differ it    *)
(* locks the row and saves the balances it has recomputed.                 *)
(***************************************************************************)
EXTENDS Wallet

CONSTANT Nobody       \* no player

ASSUME NobodyAssumption == Nobody \notin Players

VARIABLES
  scanned,   \* the wallet rows as the pass's query returned them
  unchecked, \* the wallets the pass has still to look at
  target,    \* the wallet it looks at, or Nobody
  sums       \* the balances it recomputed for target, to be saved

recoveryVars == <<scanned, unchecked, target, sums>>
allVars == <<ledger, cached, holder, job, leg, step, draft, rows,
             scanned, unchecked, target, sums>>

RecoveryInit ==
  /\ Init
  /\ scanned = cached
  /\ unchecked = {}
  /\ target = Nobody
  /\ sums = ZeroRow

\* Wallet.objects.all().iterator(): the rows as of the start of the pass.
BeginPass ==
  /\ unchecked = {} /\ target = Nobody
  /\ scanned' = cached
  /\ unchecked' = Players
  /\ UNCHANGED <<target, sums>>
  /\ UNCHANGED vars

\* recompute_balances, and the comparison with the row read before.
Compare(p) ==
  LET authoritative == [c \in Columns |-> LedgerTotal(ledger, p, c)]
  IN  /\ target = Nobody
      /\ p \in unchecked
      /\ unchecked' = unchecked \ {p}
      /\ IF scanned[p] = authoritative
         THEN UNCHANGED <<target, sums>>
         ELSE target' = p /\ sums' = authoritative
      /\ UNCHANGED scanned
      /\ UNCHANGED vars

\* Faulty variant: it saves the row it was given instead of the recomputed sums.
RepairFromScan ==
  /\ target # Nobody
  /\ holder[target] = NoWorker
  /\ cached' = [cached EXCEPT ![target] = scanned[target]]
  /\ target' = Nobody
  /\ sums' = ZeroRow
  /\ UNCHANGED <<scanned, unchecked>>
  /\ UNCHANGED <<ledger, holder, job, leg, step, draft, rows>>

\* Faulty variant: the save leaves out the total.
RepairBucketsOnly ==
  /\ target # Nobody
  /\ holder[target] = NoWorker
  /\ cached' = [cached EXCEPT ![target] = [sums EXCEPT !["balance"] = cached[target]["balance"]]]
  /\ target' = Nobody
  /\ sums' = ZeroRow
  /\ UNCHANGED <<scanned, unchecked>>
  /\ UNCHANGED <<ledger, holder, job, leg, step, draft, rows>>

\* One transaction: wait for the row, save what was recomputed, commit.  The
\* CHECK constraints refuse a negative balance, and that ends the whole pass.
Repair ==
  /\ target # Nobody
  /\ holder[target] = NoWorker
  /\ \/ /\ \A c \in Columns : sums[c] >= 0
        /\ cached' = [cached EXCEPT ![target] = sums]
        /\ UNCHANGED unchecked
     \/ /\ \E c \in Columns : sums[c] < 0      \* IntegrityError
        /\ unchecked' = {}
        /\ UNCHANGED cached
  /\ target' = Nobody
  /\ sums' = ZeroRow
  /\ UNCHANGED scanned
  /\ UNCHANGED <<ledger, holder, job, leg, step, draft, rows>>

Manage == BeginPass \/ (\E p \in Players : Compare(p)) \/ Repair

\* A worker's step leaves the pass alone.
RecoveryNext == (Next /\ UNCHANGED recoveryVars) \/ Manage

RecoverySpec ==
  /\ RecoveryInit
  /\ [][RecoveryNext]_allVars
  /\ WF_allVars(BeginPass)                   \* the beat, every five minutes
  /\ WF_allVars(\E p \in Players : Compare(p))
  /\ SF_allVars(Repair)                      \* row locks are granted in turn

RecoveryTypeOK ==
  /\ scanned \in [Players -> [Columns -> Int]]
  /\ unchecked \subseteq Players
  /\ target \in Players \cup {Nobody}
  /\ sums \in [Columns -> Int]

Quiet == \A w \in Workers : step[w] = "idle"

(* A pass may save sums that are out of date by then.  Whatever it saved   *)
(* and whatever the workers did since, a wallet row falls short of the     *)
(* ledger by one unbroken stretch of it and never twice over: what came    *)
(* before the sums were taken is in the row, what came after the save too. *)
RowsMissOneStretch ==
  \A p \in Players :
    \E m \in 0 .. Len(ledger) : \E n \in 0 .. m :
      \A c \in Columns :
        LET total == RunningTotal(ledger, p, c)
        IN  cached[p][c] = LedgerTotal(ledger, p, c) - (total[m] - total[n])

(* A drift the pass itself or anything else left behind does not outlive   *)
(* the activity: once no transaction runs any more, the cached balances    *)
(* come to agree with the ledger and stay so.  This needs a ledger without *)
(* an overdrawn bucket, which no pass can save and none gets past.         *)
QuietWalletsHeal ==
  <>[](Quiet /\ NeverOverdrawn) => <>[]CachedIsLedgerSum
=============================================================================
