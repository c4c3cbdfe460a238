------------------------------- MODULE Wallet -------------------------------
(***************************************************************************)
(* apps/wallet/services.py: post_entry, the one primitive every movement   *)
(* of money goes through, run by concurrent workers (web requests, Celery  *)
(* tasks, the jet runner) inside database transactions.                    *)
(*                                                                         *)
(* A worker runs an operation: one transaction that posts a sequence of    *)
(* entries, possibly on several players' wallets.  For each entry it looks *)
(* the key up without a lock, locks the wallet row, looks the key up       *)
(* again, checks the funds, and writes the entry and the row's balances.   *)
(* Nothing of it is visible to others before the commit; row locks are     *)
(* held until then.  A worker may stop at any point (time limit, restart,  *)
(* lost connection), and Postgres aborts one of a circle of waiters; both  *)
(* roll the transaction back.  Operations are run any number of times: a   *)
(* retry is the same operation again.                                      *)
(***************************************************************************)
EXTENDS LedgerBook

CONSTANTS Workers,    \* concurrent database sessions
          Ops,        \* operations: sequences of entries
          NoWorker, NoOp

ASSUME OpsAssumption ==
  /\ Ops \subseteq Seq(Entry)
  /\ \A op \in Ops : /\ op # <<>>
                     /\ \A i, j \in DOMAIN op : op[i].key = op[j].key => i = j
  /\ NoOp \notin Ops
  /\ NoWorker \notin Workers

VARIABLES
  ledger,   \* committed ledger rows, in commit order
  cached,   \* cached[p]: the committed money columns of p's wallet row
  holder,   \* holder[p]: the worker whose transaction has locked p's row
  job,      \* job[w]: the operation w's open transaction runs
  leg,      \* leg[w]: which entry of it w is posting
  step,     \* step[w]: what w does next
  draft,    \* draft[w]: ledger rows inserted by w's open transaction
  rows      \* rows[w][p]: the wallet row as w's transaction sees it, once locked

vars == <<ledger, cached, holder, job, leg, step, draft, rows>>

Steps == {"idle", "lookup", "lock", "check", "insert", "commit"}

Init ==
  /\ ledger = <<>>
  /\ cached = [p \in Players |-> ZeroRow]
  /\ holder = [p \in Players |-> NoWorker]
  /\ job = [w \in Workers |-> NoOp]
  /\ leg = [w \in Workers |-> 1]
  /\ step = [w \in Workers |-> "idle"]
  /\ draft = [w \in Workers |-> <<>>]
  /\ rows = [w \in Workers |-> [p \in Players |-> ZeroRow]]

-----------------------------------------------------------------------------
(* The entry w is posting, and the keys w's transaction can see: those    *)
(* committed by anybody and those it inserted itself (READ COMMITTED).    *)
Current(w) == job[w][leg[w]]
Visible(w) == KeysOf(ledger) \cup KeysOf(draft[w])

\* Ends w's transaction: its locks go, and what it did not commit is gone.
EndTransaction(w) ==
  /\ holder' = [p \in Players |-> IF holder[p] = w THEN NoWorker ELSE holder[p]]
  /\ job' = [job EXCEPT ![w] = NoOp]
  /\ leg' = [leg EXCEPT ![w] = 1]
  /\ step' = [step EXCEPT ![w] = "idle"]
  /\ draft' = [draft EXCEPT ![w] = <<>>]
  /\ rows' = [rows EXCEPT ![w] = [p \in Players |-> ZeroRow]]

Rollback(w) == EndTransaction(w) /\ UNCHANGED <<ledger, cached>>

\* post_entry has returned: go on with the operation's next entry.
NextLeg(w) ==
  IF leg[w] < Len(job[w])
  THEN leg' = [leg EXCEPT ![w] = @ + 1] /\ step' = [step EXCEPT ![w] = "lookup"]
  ELSE leg' = leg /\ step' = [step EXCEPT ![w] = "commit"]

Start(w, op) ==
  /\ step[w] = "idle"
  /\ job' = [job EXCEPT ![w] = op]
  /\ step' = [step EXCEPT ![w] = "lookup"]
  /\ UNCHANGED <<ledger, cached, holder, leg, draft, rows>>

\* The first look for the key, before any lock: a replay returns at once.
Lookup(w) ==
  /\ step[w] = "lookup"
  /\ IF Current(w).key \in Visible(w)
     THEN NextLeg(w)
     ELSE leg' = leg /\ step' = [step EXCEPT ![w] = "lock"]
  /\ UNCHANGED <<ledger, cached, holder, job, draft, rows>>

\* Faulty variant: the row is read without select_for_update.
LockWithoutWaiting(w) ==
  LET p == Current(w).player
  IN  /\ step[w] = "lock"
      /\ holder' = [holder EXCEPT ![p] = w]
      /\ rows' = IF holder[p] = w THEN rows ELSE [rows EXCEPT ![w][p] = cached[p]]
      /\ step' = [step EXCEPT ![w] = "check"]
      /\ UNCHANGED <<ledger, cached, job, leg, draft>>

\* select_for_update: waits for the row, then reads its latest version.
Lock(w) ==
  LET p == Current(w).player
  IN  /\ step[w] = "lock"
      /\ holder[p] \in {NoWorker, w}
      /\ holder' = [holder EXCEPT ![p] = w]
      /\ rows' = IF holder[p] = w THEN rows ELSE [rows EXCEPT ![w][p] = cached[p]]
      /\ step' = [step EXCEPT ![w] = "check"]
      /\ UNCHANGED <<ledger, cached, job, leg, draft>>

\* Faulty variant: the funds check looks at the wallet's total.
AffordableInTotal(w) ==
  LET e == Current(w)
  IN  e.amount < 0 => rows[w][e.player]["balance"] + e.amount >= 0

\* A debit must leave the bucket it is taken from at zero or above.
Affordable(w) ==
  LET e == Current(w)
  IN  e.amount < 0 => rows[w][e.player][e.bucket] + e.amount >= 0

\* The second look for the key, and the funds check, both under the lock.
Check(w) ==
  /\ step[w] = "check"
  /\ \/ /\ Current(w).key \in Visible(w)
        /\ NextLeg(w)
        /\ UNCHANGED <<ledger, cached, holder, job, draft, rows>>
     \/ /\ Current(w).key \notin Visible(w)
        /\ Affordable(w)
        /\ step' = [step EXCEPT ![w] = "insert"]
        /\ UNCHANGED <<ledger, cached, holder, job, leg, draft, rows>>
     \/ /\ Current(w).key \notin Visible(w)
        /\ ~Affordable(w)                  \* InsufficientFunds
        /\ Rollback(w)

\* An insert waits for another transaction that inserted the same key.
KeyInFlight(w) == \E v \in Workers \ {w} : Current(w).key \in KeysOf(draft[v])

\* Faulty variant: no UNIQUE constraint on the key.
InsertNotUnique(w) ==
  LET e == Current(w)
  IN  /\ step[w] = "insert"
      /\ draft' = [draft EXCEPT ![w] = Append(@, e)]
      /\ rows' = [rows EXCEPT ![w][e.player] = AddTo(@, e)]
      /\ NextLeg(w)
      /\ UNCHANGED <<ledger, cached, holder, job>>

\* Insert the entry and save the balances; a key that was committed since
\* the second look breaks the UNIQUE constraint.
Insert(w) ==
  LET e == Current(w)
  IN  /\ step[w] = "insert"
      /\ ~KeyInFlight(w)
      /\ \/ /\ e.key \notin KeysOf(ledger)
            /\ draft' = [draft EXCEPT ![w] = Append(@, e)]
            /\ rows' = [rows EXCEPT ![w][e.player] = AddTo(@, e)]
            /\ NextLeg(w)
            /\ UNCHANGED <<ledger, cached, holder, job>>
         \/ /\ e.key \in KeysOf(ledger)    \* IntegrityError
            /\ Rollback(w)

Commit(w) ==
  /\ step[w] = "commit"
  /\ ledger' = ledger \o draft[w]
  /\ cached' = [p \in Players |-> IF holder[p] = w THEN rows[w][p] ELSE cached[p]]
  /\ EndTransaction(w)

\* Faulty variant: no transaction, what was written before the crash stays.
CrashKeepingDraft(w) ==
  /\ step[w] # "idle"
  /\ ledger' = ledger \o draft[w]
  /\ cached' = [p \in Players |-> IF holder[p] = w THEN rows[w][p] ELSE cached[p]]
  /\ EndTransaction(w)

\* The process dies or loses its connection in the middle of a transaction.
Crash(w) ==
  /\ step[w] # "idle"
  /\ Rollback(w)

\* Faulty variant: circles through wallet rows go unnoticed.
WaitsForKey(w, v) ==
  /\ v # w
  /\ step[w] = "insert" /\ Current(w).key \in KeysOf(draft[v])

\* v holds what w waits for: the wallet row, or the key.
WaitsFor(w, v) ==
  /\ v # w
  /\ \/ step[w] = "lock" /\ holder[Current(w).player] = v
     \/ step[w] = "insert" /\ Current(w).key \in KeysOf(draft[v])

\* Postgres finds transactions that wait for each other in a circle and
\* aborts one of them.
DeadlockAbort(w) ==
  /\ \E circle \in SUBSET Workers :
       /\ w \in circle
       /\ \A u \in circle : (\E v \in circle : WaitsFor(u, v)) /\ (\E v \in circle : WaitsFor(v, u))
  /\ Rollback(w)

Work(w) ==
  \/ \E op \in Ops : Start(w, op)
  \/ Lookup(w)
  \/ Lock(w)
  \/ Check(w)
  \/ Insert(w)
  \/ Commit(w)
  \/ Crash(w)
  \/ DeadlockAbort(w)

Next == \E w \in Workers : Work(w)

Spec == Init /\ [][Next]_vars

-----------------------------------------------------------------------------
(* A worker goes on with a transaction it has begun; a row lock is granted *)
(* in turn (SF), so nobody waits for one for ever.  Nothing says that a    *)
(* worker ever starts, or ever crashes.                                    *)
Proceed(w) == Lookup(w) \/ Check(w) \/ Commit(w)

Fairness == \A w \in Workers : /\ WF_vars(Proceed(w))
                               /\ SF_vars(Lock(w))
                               /\ SF_vars(Insert(w))
                               /\ WF_vars(DeadlockAbort(w))

FairSpec == Spec /\ Fairness

-----------------------------------------------------------------------------
TypeOK ==
  /\ ledger \in Seq(Entry)
  /\ cached \in [Players -> [Columns -> Int]]
  /\ holder \in [Players -> Workers \cup {NoWorker}]
  /\ job \in [Workers -> Ops \cup {NoOp}]
  /\ leg \in [Workers -> Nat \ {0}]
  /\ step \in [Workers -> Steps]
  /\ draft \in [Workers -> Seq(Entry)]
  /\ rows \in [Workers -> [Players -> [Columns -> Int]]]
  /\ \A w \in Workers : IF step[w] = "idle" THEN job[w] = NoOp /\ leg[w] = 1
                        ELSE job[w] \in Ops /\ leg[w] <= Len(job[w])

(* The cached balances of every wallet row, and their total, are the sums  *)
(* of its ledger entries, whatever the workers are doing (models/wallet.py *)
(* calls them "cached aggregates of the ledger").                          *)
CachedIsLedgerSum ==
  \A p \in Players, c \in Columns : cached[p][c] = LedgerTotal(ledger, p, c)

(* No idempotency key is ever posted twice, on any wallet, by any number   *)
(* of concurrent retries.                                                  *)
EachKeyOnce ==
  \A i, j \in DOMAIN ledger : ledger[i].key = ledger[j].key => i = j

(* The ledger never pays out money a bucket did not hold: at every point   *)
(* of its history the entries up to there leave every bucket at zero or    *)
(* above.                                                                  *)
NeverOverdrawn ==
  \A p \in Players, b \in Buckets :
    LET total == RunningTotal(ledger, p, b)
    IN  \A n \in 0 .. Len(ledger) : total[n] >= 0

(* The transactions together behave as if each ran alone in one step: all  *)
(* of an operation's missing entries are posted at once, or none.          *)
A == INSTANCE Accounts WITH book <- ledger
ImplementsAccounts == A!Spec

(* Every transaction ends, by a commit or by a rollback: locks on wallet   *)
(* rows and waits for a key never leave a worker stuck.                    *)
EveryTransactionEnds ==
  \A w \in Workers : (step[w] # "idle") ~> (step[w] = "idle")
=============================================================================
