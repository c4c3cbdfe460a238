--------------------------- MODULE Wallet_proofs ----------------------------
(***************************************************************************)
(* The wallet's safety properties hold for every set of players, keys,     *)
(* workers and operations, and Wallet implements Accounts; at the end is   *)
(* what remains true when the reconciliation pass rewrites wallet rows.    *)
(* First come facts about totals that hold for every ledger: they are      *)
(* recursive functions, so the facts are proved by induction, with the     *)
(* least-element principle of Nat as the induction rule.                   *)
(***************************************************************************)
EXTENDS WalletRecovery, TLAPS, WellFoundedInduction

-----------------------------------------------------------------------------
(* Ledger totals.                                                          *)

(* Every non-empty set of naturals has a least element.                    *)
LEMMA NatLeast ==
  ASSUME NEW S \in SUBSET Nat, S # {}
  PROVE  \E n \in S : \A m \in S : ~(m < n)
<1>1. IsWellFoundedOn(OpToRel(<, Nat), Nat)
  BY NatLessThanWellFounded
<1>2. \E n \in S : \A m \in S : ~(<<m, n>> \in OpToRel(<, Nat))
  BY <1>1, WFMin
<1> QED
  BY <1>2 DEF OpToRel

(* What an entry adds to a column is an integer.                           *)
LEMMA ShareType ==
  ASSUME NEW e \in Entry, NEW p, NEW c
  PROVE  Share(e, p, c) \in Int
  BY DEF Share, Entry

\* t is the table of partial sums of ledger l, for column c of player p.
IsRunning(l, p, c, t) ==
  t = [n \in 0 .. Len(l) |-> IF n = 0 THEN 0 ELSE t[n - 1] + Share(l[n], p, c)]

\* The running total is the function its definition chooses.
LEMMA RunningTotalChooses ==
  ASSUME NEW l, NEW p, NEW c
  PROVE  RunningTotal(l, p, c) = CHOOSE t : IsRunning(l, p, c, t)
  BY DEF RunningTotal, IsRunning

(* Some table of partial sums exists for every prefix of a ledger: take    *)
(* the shortest prefix without one and extend its predecessor's.           *)
LEMMA RunningExists ==
  ASSUME NEW l \in Seq(Entry), NEW p, NEW c
  PROVE  \E t \in [0 .. Len(l) -> Int] : IsRunning(l, p, c, t)
<1> DEFINE Good(n) == \E t \in [0 .. n -> Int] :
                        t = [k \in 0 .. n |-> IF k = 0 THEN 0 ELSE t[k - 1] + Share(l[k], p, c)]
           Bad == {n \in 0 .. Len(l) : ~Good(n)}
<1>1. Bad = {}
  <2> SUFFICES ASSUME Bad # {} PROVE FALSE
    OBVIOUS
  <2>1. Bad \in SUBSET Nat
    OBVIOUS
  <2>2. PICK n \in Bad : \A m \in Bad : ~(m < n)
    BY <2>1, NatLeast
  <2>3. n # 0
    <3>1. Good(0)
      <4> DEFINE z == [k \in 0 .. 0 |-> 0]
      <4>1. z \in [0 .. 0 -> Int]
        OBVIOUS
      <4>2. z = [k \in 0 .. 0 |-> IF k = 0 THEN 0 ELSE z[k - 1] + Share(l[k], p, c)]
        OBVIOUS
      <4> QED
        BY <4>1, <4>2
    <3> QED
      BY <3>1
  <2>4. n - 1 \in 0 .. Len(l) /\ Good(n - 1)
    <3>1. n - 1 \in 0 .. Len(l) /\ n - 1 < n
      BY <2>2, <2>3
    <3>2. n - 1 \notin Bad
      BY <3>1, <2>2
    <3> QED
      BY <3>1, <3>2
  <2>5. PICK t \in [0 .. n - 1 -> Int] :
          t = [k \in 0 .. n - 1 |-> IF k = 0 THEN 0 ELSE t[k - 1] + Share(l[k], p, c)]
    BY <2>4
  <2> DEFINE u == [k \in 0 .. n |-> IF k < n THEN t[k] ELSE t[n - 1] + Share(l[n], p, c)]
  <2>6. l[n] \in Entry /\ n \in Nat \ {0}
    BY <2>2, <2>3
  <2>7. Share(l[n], p, c) \in Int
    BY <2>6, ShareType
  <2>8. u \in [0 .. n -> Int]
    BY <2>5, <2>6, <2>7
  <2>9. \A k \in 0 .. n : u[k] = IF k = 0 THEN 0 ELSE u[k - 1] + Share(l[k], p, c)
    <3> SUFFICES ASSUME NEW k \in 0 .. n
                 PROVE  u[k] = IF k = 0 THEN 0 ELSE u[k - 1] + Share(l[k], p, c)
      OBVIOUS
    <3>1. CASE k = n
      BY <3>1, <2>6
    <3>2. CASE k < n
      <4>1. k \in 0 .. n - 1 /\ u[k] = t[k]
        BY <3>2, <2>6
      <4>2. t[k] = IF k = 0 THEN 0 ELSE t[k - 1] + Share(l[k], p, c)
        BY <4>1, <2>5
      <4>3. k # 0 => u[k - 1] = t[k - 1]
        BY <4>1, <2>6
      <4> QED
        BY <4>1, <4>2, <4>3
    <3> QED
      BY <3>1, <3>2, <2>6
  <2>10. u = [k \in 0 .. n |-> IF k = 0 THEN 0 ELSE u[k - 1] + Share(l[k], p, c)]
    BY <2>9, <2>8
  <2>11. Good(n)
    BY <2>8, <2>10
  <2> QED
    BY <2>2, <2>11
<1>2. Len(l) \in Nat
  OBVIOUS
<1>3. Good(Len(l))
  <2>1. Len(l) \in 0 .. Len(l)
    BY <1>2
  <2> HIDE DEF Good
  <2> QED
    BY <1>1, <2>1
<1> QED
  BY <1>3 DEF IsRunning

(* The defining equations of the running total, and its type.              *)
LEMMA RunningTotalDef ==
  ASSUME NEW l \in Seq(Entry), NEW p, NEW c
  PROVE  /\ RunningTotal(l, p, c) \in [0 .. Len(l) -> Int]
         /\ RunningTotal(l, p, c)[0] = 0
         /\ \A n \in 1 .. Len(l) :
              RunningTotal(l, p, c)[n] = RunningTotal(l, p, c)[n - 1] + Share(l[n], p, c)
         /\ LedgerTotal(l, p, c) \in Int
<1> DEFINE r == RunningTotal(l, p, c)
<1>1. \E t : IsRunning(l, p, c, t)
  BY RunningExists
<1>2. IsRunning(l, p, c, r)
  BY <1>1, RunningTotalChooses, Zenon
<1>3. Len(l) \in Nat
  OBVIOUS
<1> HIDE DEF r
<1>4. /\ DOMAIN r = 0 .. Len(l)
      /\ r[0] = 0
      /\ \A n \in 1 .. Len(l) : r[n] = r[n - 1] + Share(l[n], p, c)
  BY <1>2, <1>3 DEF IsRunning
<1>5. \A n \in 0 .. Len(l) : r[n] \in Int
  <2> DEFINE Bad == {n \in 0 .. Len(l) : r[n] \notin Int}
  <2> SUFFICES ASSUME Bad # {} PROVE FALSE
    OBVIOUS
  <2>1. PICK n \in Bad : \A m \in Bad : ~(m < n)
    <3>1. Bad \in SUBSET Nat
      BY <1>3
    <3> QED
      BY <3>1, NatLeast
  <2>2. n \in 1 .. Len(l)
    BY <2>1, <1>3, <1>4
  <2>3. l[n] \in Entry
    BY <2>2
  <2>4. r[n - 1] \in Int
    BY <2>1, <2>2, <1>3
  <2>5. Share(l[n], p, c) \in Int
    BY <2>3, ShareType
  <2> QED
    BY <2>1, <2>2, <2>4, <2>5, <1>4
<1>6. r = [n \in 0 .. Len(l) |-> r[n]]
  BY <1>2, <1>4 DEF IsRunning
<1>7. r \in [0 .. Len(l) -> Int]
  BY <1>5, <1>6
<1> QED
  BY <1>3, <1>4, <1>7 DEF r, LedgerTotal

(* One step of the running total.                                          *)
LEMMA RunningStep ==
  ASSUME NEW l \in Seq(Entry), NEW p, NEW c, NEW n \in 1 .. Len(l)
  PROVE  RunningTotal(l, p, c)[n] = RunningTotal(l, p, c)[n - 1] + Share(l[n], p, c)
  BY RunningTotalDef

(* Entries appended later do not change the totals of a prefix.            *)
LEMMA RunningPrefix ==
  ASSUME NEW l \in Seq(Entry), NEW m \in Seq(Entry), NEW p, NEW c,
         Len(l) <= Len(m), \A i \in 1 .. Len(l) : m[i] = l[i],
         NEW n \in 0 .. Len(l)
  PROVE  RunningTotal(m, p, c)[n] = RunningTotal(l, p, c)[n]
<1> DEFINE r == RunningTotal(l, p, c)
           s == RunningTotal(m, p, c)
           Bad == {k \in 0 .. Len(l) : s[k] # r[k]}
<1>1. /\ Len(l) \in Nat /\ Len(m) \in Nat
      /\ r[0] = 0 /\ s[0] = 0
      /\ \A k \in 1 .. Len(l) : r[k] = r[k - 1] + Share(l[k], p, c)
      /\ \A k \in 1 .. Len(m) : s[k] = s[k - 1] + Share(m[k], p, c)
  BY RunningTotalDef
<1> HIDE DEF r, s
<1> SUFFICES ASSUME Bad # {} PROVE FALSE
  BY DEF r, s
<1>2. PICK j \in Bad : \A k \in Bad : ~(k < j)
  <2>1. Bad \in SUBSET Nat
    BY <1>1
  <2> QED
    BY <2>1, NatLeast
<1>3. j \in 1 .. Len(l) /\ j \in 1 .. Len(m)
  BY <1>1, <1>2
<1>4. s[j - 1] = r[j - 1]
  BY <1>1, <1>2, <1>3
<1>5. s[j] = r[j]
  BY <1>1, <1>3, <1>4
<1> QED
  BY <1>2, <1>5

(* The totals of two ledgers put together: first those of the first, then  *)
(* its final total plus those of the second.                               *)
LEMMA RunningConcat ==
  ASSUME NEW l \in Seq(Entry), NEW m \in Seq(Entry), NEW p, NEW c
  PROVE  /\ l \o m \in Seq(Entry)
         /\ Len(l \o m) = Len(l) + Len(m)
         /\ \A n \in 0 .. Len(l) : RunningTotal(l \o m, p, c)[n] = RunningTotal(l, p, c)[n]
         /\ \A n \in 0 .. Len(m) :
              RunningTotal(l \o m, p, c)[Len(l) + n]
                = LedgerTotal(l, p, c) + RunningTotal(m, p, c)[n]
         /\ LedgerTotal(l \o m, p, c) = LedgerTotal(l, p, c) + LedgerTotal(m, p, c)
<1>1. l \o m \in Seq(Entry)
  OBVIOUS
<1>2. PICK lm \in Seq(Entry) : lm = l \o m
  BY <1>1, Zenon
<1>3. Len(lm) = Len(l) + Len(m)
  BY <1>2
<1>4. \A i \in 1 .. Len(l) : lm[i] = l[i]
  BY <1>2
<1>5. \A i \in 1 .. Len(m) : lm[Len(l) + i] = m[i]
  BY <1>2
<1>6. /\ Len(l) \in Nat /\ Len(m) \in Nat
      /\ \A i \in 1 .. Len(m) : m[i] \in Entry
  OBVIOUS
<1> DEFINE r == RunningTotal(m, p, c)
           s == RunningTotal(lm, p, c)
           base == LedgerTotal(l, p, c)
           Bad == {n \in 0 .. Len(m) : s[Len(l) + n] # base + r[n]}
<1>7. \A n \in 0 .. Len(l) : s[n] = RunningTotal(l, p, c)[n]
  <2>1. Len(l) <= Len(lm)
    BY <1>3, <1>6
  <2> QED
    BY <2>1, <1>4, RunningPrefix
<1>8. base \in Int /\ s[Len(l)] = base
  <2>1. RunningTotal(l, p, c)[Len(l)] = base /\ base \in Int
    BY RunningTotalDef DEF LedgerTotal
  <2> QED
    BY <2>1, <1>6, <1>7
<1>9. /\ r[0] = 0 /\ r \in [0 .. Len(m) -> Int]
      /\ \A n \in 1 .. Len(m) : r[n] = r[n - 1] + Share(m[n], p, c)
  BY RunningTotalDef
<1>10. \A n \in 1 .. Len(lm) : s[n] = s[n - 1] + Share(lm[n], p, c)
  BY RunningStep
<1> HIDE DEF r, s, base
<1>11. ASSUME NEW n \in 1 .. Len(m)
       PROVE  s[Len(l) + n] = s[Len(l) + n - 1] + Share(m[n], p, c)
  <2>1. Len(l) + n \in 1 .. Len(lm)
    BY <1>3, <1>6
  <2>2. lm[Len(l) + n] = m[n]
    BY <1>5
  <2> QED
    BY <2>1, <2>2, <1>10
<1>12. Bad = {}
  <2> SUFFICES ASSUME Bad # {} PROVE FALSE
    OBVIOUS
  <2>1. PICK n \in Bad : \A k \in Bad : ~(k < n)
    <3>1. Bad \in SUBSET Nat
      BY <1>6
    <3> QED
      BY <3>1, NatLeast
  <2>2. n \in 0 .. Len(m) /\ s[Len(l) + n] # base + r[n]
    BY <2>1
  <2>3. n # 0
    <3>1. Len(l) + 0 = Len(l) /\ base + 0 = base
      BY <1>6, <1>8
    <3> QED
      BY <3>1, <2>2, <1>8, <1>9
  <2>4. n \in 1 .. Len(m) /\ n - 1 \in 0 .. Len(m) /\ n - 1 < n
    BY <2>2, <2>3, <1>6
  <2>5. s[Len(l) + (n - 1)] = base + r[n - 1]
    <3>1. n - 1 \notin Bad
      BY <2>1, <2>4
    <3> QED
      BY <3>1, <2>4
  <2>6. Len(l) + (n - 1) = Len(l) + n - 1
    BY <2>4, <1>6
  <2>7. s[Len(l) + n] = s[Len(l) + n - 1] + Share(m[n], p, c)
    BY <2>4, <1>11
  <2>8. Share(m[n], p, c) \in Int
    BY <2>4, <1>6, ShareType
  <2>9. r[n] = r[n - 1] + Share(m[n], p, c)
    BY <2>4, <1>9
  <2>10. r[n - 1] \in Int
    BY <2>4, <1>9
  <2>11. (base + r[n - 1]) + Share(m[n], p, c) = base + (r[n - 1] + Share(m[n], p, c))
    BY <2>8, <2>10, <1>8
  <2> QED
    BY <2>2, <2>5, <2>6, <2>7, <2>9, <2>11
<1>13. \A n \in 0 .. Len(m) : s[Len(l) + n] = base + r[n]
  BY <1>12
<1>14. s[Len(lm)] = base + r[Len(m)]
  BY <1>3, <1>6, <1>13
<1>15. LedgerTotal(lm, p, c) = LedgerTotal(l, p, c) + LedgerTotal(m, p, c)
  BY <1>14 DEF r, s, base, LedgerTotal
<1> QED
  BY <1>1, <1>2, <1>3, <1>7, <1>13, <1>15, Zenon DEF r, s, base

(* One more entry adds its share to the total; the totals before stay.     *)
LEMMA TotalAppend ==
  ASSUME NEW l \in Seq(Entry), NEW e \in Entry, NEW p, NEW c
  PROVE  /\ LedgerTotal(Append(l, e), p, c) = LedgerTotal(l, p, c) + Share(e, p, c)
         /\ \A n \in 0 .. Len(l) : RunningTotal(Append(l, e), p, c)[n] = RunningTotal(l, p, c)[n]
         /\ RunningTotal(Append(l, e), p, c)[Len(l) + 1] = LedgerTotal(l, p, c) + Share(e, p, c)
<1> DEFINE a == Append(l, e)
<1>1. /\ a \in Seq(Entry) /\ Len(l) \in Nat /\ Len(a) = Len(l) + 1
      /\ \A i \in 1 .. Len(l) : a[i] = l[i]
      /\ a[Len(l) + 1] = e
  OBVIOUS
<1> HIDE DEF a
<1>2. \A n \in 0 .. Len(l) : RunningTotal(a, p, c)[n] = RunningTotal(l, p, c)[n]
  BY <1>1, RunningPrefix
<1>3. RunningTotal(a, p, c)[Len(l) + 1] = RunningTotal(a, p, c)[Len(l)] + Share(e, p, c)
  <2>1. RunningTotal(a, p, c)[Len(l) + 1]
          = RunningTotal(a, p, c)[Len(l) + 1 - 1] + Share(a[Len(l) + 1], p, c)
    BY <1>1, RunningTotalDef
  <2> QED
    BY <2>1, <1>1
<1>4. RunningTotal(a, p, c)[Len(l)] = LedgerTotal(l, p, c)
  BY <1>1, <1>2 DEF LedgerTotal
<1> QED
  BY <1>1, <1>2, <1>3, <1>4 DEF a, LedgerTotal

(* An empty ledger has zero totals.                                        *)
LEMMA EmptyTotal ==
  ASSUME NEW p, NEW c
  PROVE  RunningTotal(<<>>, p, c)[0] = 0 /\ LedgerTotal(<<>>, p, c) = 0
<1>1. <<>> \in Seq(Entry) /\ Len(<<>>) = 0
  OBVIOUS
<1>2. RunningTotal(<<>>, p, c)[0] = 0
  <2> DEFINE l == <<>>
  <2>1. l \in Seq(Entry)
    BY <1>1
  <2> HIDE DEF l
  <2>2. RunningTotal(l, p, c)[0] = 0
    BY <2>1, RunningTotalDef
  <2> QED
    BY <2>2 DEF l
<1> QED
  BY <1>1, <1>2 DEF LedgerTotal

(* The saved wallet row moves exactly by what the entry adds to the totals.*)
LEMMA AddToMovesByShare ==
  ASSUME NEW row \in [Columns -> Int], NEW e \in Entry, NEW c \in Columns
  PROVE  /\ AddTo(row, e) \in [Columns -> Int]
         /\ AddTo(row, e)[c] = row[c] + Share(e, e.player, c)
  BY DEF AddTo, Share, Entry

(* The keys of ledgers put together, or extended, are those of the parts.  *)
LEMMA KeysConcat ==
  ASSUME NEW l \in Seq(Entry), NEW m \in Seq(Entry)
  PROVE  KeysOf(l \o m) = KeysOf(l) \cup KeysOf(m)
<1>1. /\ Len(l) \in Nat /\ Len(m) \in Nat
      /\ DOMAIN l = 1 .. Len(l) /\ DOMAIN m = 1 .. Len(m)
      /\ DOMAIN (l \o m) = 1 .. Len(l) + Len(m)
      /\ \A i \in 1 .. Len(l) : (l \o m)[i] = l[i]
      /\ \A i \in 1 .. Len(m) : (l \o m)[Len(l) + i] = m[i]
  OBVIOUS
<1>2. ASSUME NEW i \in DOMAIN (l \o m)
      PROVE  (l \o m)[i].key \in KeysOf(l) \cup KeysOf(m)
  <2>1. CASE i <= Len(l)
    BY <1>1, <2>1 DEF KeysOf
  <2>2. CASE i > Len(l)
    <3>1. i - Len(l) \in 1 .. Len(m) /\ Len(l) + (i - Len(l)) = i
      BY <1>1, <2>2
    <3>2. (l \o m)[i] = m[i - Len(l)]
      BY <1>1, <3>1
    <3> QED
      BY <1>1, <3>1, <3>2 DEF KeysOf
  <2> QED
    BY <1>1, <2>1, <2>2
<1>3. ASSUME NEW i \in DOMAIN l
      PROVE  l[i].key \in KeysOf(l \o m)
  <2>1. i \in DOMAIN (l \o m) /\ (l \o m)[i] = l[i]
    BY <1>1
  <2> QED
    BY <2>1 DEF KeysOf
<1>4. ASSUME NEW i \in DOMAIN m
      PROVE  m[i].key \in KeysOf(l \o m)
  <2>1. Len(l) + i \in DOMAIN (l \o m) /\ (l \o m)[Len(l) + i] = m[i]
    BY <1>1
  <2> QED
    BY <2>1 DEF KeysOf
<1> QED
  BY <1>2, <1>3, <1>4 DEF KeysOf

\* A new entry adds its key to those that are taken.
LEMMA KeysAppend ==
  ASSUME NEW l \in Seq(Entry), NEW e \in Entry
  PROVE  KeysOf(Append(l, e)) = KeysOf(l) \cup {e.key}
<1>1. /\ Len(l) \in Nat
      /\ DOMAIN l = 1 .. Len(l)
      /\ DOMAIN Append(l, e) = 1 .. Len(l) + 1
      /\ \A i \in 1 .. Len(l) : Append(l, e)[i] = l[i]
      /\ Append(l, e)[Len(l) + 1] = e
  OBVIOUS
<1>2. ASSUME NEW k \in KeysOf(Append(l, e))
      PROVE  k \in KeysOf(l) \cup {e.key}
  <2>1. PICK i \in DOMAIN Append(l, e) : k = Append(l, e)[i].key
    BY DEF KeysOf
  <2>2. i \in 1 .. Len(l) \/ i = Len(l) + 1
    BY <1>1, <2>1
  <2> QED
    BY <1>1, <2>1, <2>2 DEF KeysOf
<1>3. ASSUME NEW i \in DOMAIN l
      PROVE  l[i].key \in KeysOf(Append(l, e))
  <2>1. i \in DOMAIN Append(l, e) /\ Append(l, e)[i] = l[i]
    BY <1>1
  <2> QED
    BY <2>1 DEF KeysOf
<1>4. e.key \in KeysOf(Append(l, e))
  <2>1. Len(l) + 1 \in DOMAIN Append(l, e)
    BY <1>1
  <2> QED
    BY <1>1, <2>1 DEF KeysOf
<1> QED
  BY <1>2, <1>3, <1>4 DEF KeysOf


-----------------------------------------------------------------------------
(* The inductive invariant.                                                *)

\* How many of its operation's entries w has dealt with.
Done(w) == IF step[w] = "commit" THEN Len(job[w]) ELSE leg[w] - 1

\* What w has drafted are entries of its operation it is past, and no key of
\* theirs is committed or drafted by another worker.
DraftsAreNew ==
  /\ \A w \in Workers : \A n \in DOMAIN draft[w] :
       /\ \E i \in 1 .. Done(w) : draft[w][n] = job[w][i]
       /\ draft[w][n].key \notin KeysOf(ledger)
  /\ \A w \in Workers : \A m, n \in DOMAIN draft[w] :
       draft[w][m].key = draft[w][n].key => m = n
  /\ \A v, w \in Workers : \A m \in DOMAIN draft[v], n \in DOMAIN draft[w] :
       draft[v][m].key = draft[w][n].key => v = w

\* Every entry w has dealt with is committed or in its draft.
DealtWith ==
  \A w \in Workers :
    /\ Len(draft[w]) <= Done(w)
    /\ \A i \in 1 .. Done(w) : job[w][i].key \in KeysOf(ledger) \cup KeysOf(draft[w])

\* From the check to the insert w holds the row, and the funds stay enough.
Secured ==
  \A w \in Workers :
    /\ step[w] \in {"check", "insert"} => holder[Current(w).player] = w
    /\ step[w] = "insert" => Affordable(w)

\* w drafts entries only for the rows it holds, and sees a row it holds as
\* the committed one plus its own draft.
RowsFollowDraft ==
  \A w \in Workers, p \in Players, c \in Columns :
    IF holder[p] = w
    THEN rows[w][p][c] = cached[p][c] + LedgerTotal(draft[w], p, c)
    ELSE \A n \in 0 .. Len(draft[w]) : RunningTotal(draft[w], p, c)[n] = 0

\* Committing a draft would not overdraw a bucket at any of its entries.
DraftNeverOverdrawn ==
  \A w \in Workers, p \in Players, b \in Buckets :
    \A n \in 0 .. Len(draft[w]) :
      LedgerTotal(ledger, p, b) + RunningTotal(draft[w], p, b)[n] >= 0

\* What the workers keep by themselves, whatever the wallet rows hold.
Protocol == /\ TypeOK
            /\ EachKeyOnce
            /\ DraftsAreNew
            /\ DealtWith
            /\ Secured
            /\ RowsFollowDraft

\* What they keep as long as nobody else writes the wallet rows.
Funds == /\ CachedIsLedgerSum
         /\ NeverOverdrawn
         /\ DraftNeverOverdrawn

Inv == Protocol /\ Funds

-----------------------------------------------------------------------------
(* Type correctness.                                                       *)

(* The entry a busy worker posts is one of its operation's entries.        *)
LEMMA CurrentIsEntry ==
  ASSUME TypeOK, NEW w \in Workers, step[w] # "idle"
  PROVE  /\ job[w] \in Ops /\ job[w] \in Seq(Entry)
         /\ leg[w] \in 1 .. Len(job[w])
         /\ Current(w) \in Entry
<1>1. job[w] \in Ops /\ leg[w] \in Nat \ {0} /\ leg[w] <= Len(job[w])
  BY DEF TypeOK
<1>2. job[w] \in Seq(Entry)
  BY <1>1, OpsAssumption
<1>3. leg[w] \in 1 .. Len(job[w])
  BY <1>1, <1>2
<1> QED
  BY <1>1, <1>2, <1>3 DEF Current

\* The end of a transaction keeps the types if what it publishes has them.
LEMMA EndTransactionType ==
  ASSUME TypeOK, NEW w \in Workers, EndTransaction(w),
         ledger' \in Seq(Entry), cached' \in [Players -> [Columns -> Int]]
  PROVE  TypeOK'
<1>1. holder' \in [Players -> Workers \cup {NoWorker}]
  BY DEF TypeOK, EndTransaction
<1>2. /\ job' \in [Workers -> Ops \cup {NoOp}]
      /\ leg' \in [Workers -> Nat \ {0}]
      /\ step' \in [Workers -> Steps]
  BY DEF TypeOK, EndTransaction, Steps
<1>3. draft' \in [Workers -> Seq(Entry)]
  BY DEF TypeOK, EndTransaction
<1>4. rows' \in [Workers -> [Players -> [Columns -> Int]]]
  <2>1. [p \in Players |-> ZeroRow] \in [Players -> [Columns -> Int]]
    BY DEF ZeroRow
  <2> QED
    BY <2>1 DEF TypeOK, EndTransaction
<1>5. ASSUME NEW v \in Workers
      PROVE  IF step'[v] = "idle" THEN job'[v] = NoOp /\ leg'[v] = 1
             ELSE job'[v] \in Ops /\ leg'[v] <= Len(job'[v])
  BY DEF TypeOK, EndTransaction
<1> QED
  BY <1>1, <1>2, <1>3, <1>4, <1>5 DEF TypeOK

(* Going on to the next entry keeps the counter within the operation.      *)
LEMMA NextLegType ==
  ASSUME TypeOK, NEW w \in Workers, step[w] # "idle", NextLeg(w), UNCHANGED job
  PROVE  /\ leg' \in [Workers -> Nat \ {0}]
         /\ step' \in [Workers -> Steps]
         /\ \A v \in Workers : IF step'[v] = "idle" THEN job'[v] = NoOp /\ leg'[v] = 1
                               ELSE job'[v] \in Ops /\ leg'[v] <= Len(job'[v])
<1>1. leg[w] \in 1 .. Len(job[w]) /\ job[w] \in Seq(Entry) /\ job[w] \in Ops
  BY CurrentIsEntry
<1>2. Len(job[w]) \in Nat
  BY <1>1
<1>3. CASE leg[w] < Len(job[w])
  <2>1. leg' = [leg EXCEPT ![w] = leg[w] + 1] /\ step' = [step EXCEPT ![w] = "lookup"]
    BY <1>3 DEF NextLeg
  <2>2. leg[w] + 1 \in Nat \ {0} /\ leg[w] + 1 <= Len(job[w])
    BY <1>1, <1>2, <1>3
  <2> QED
    BY <1>1, <2>1, <2>2 DEF TypeOK, Steps
<1>4. CASE ~(leg[w] < Len(job[w]))
  BY <1>1, <1>2, <1>4 DEF TypeOK, NextLeg, Steps
<1> QED
  BY <1>3, <1>4

\* Every step of a worker keeps the types.
LEMMA TypeStep ==
  ASSUME TypeOK, [Next]_vars
  PROVE  TypeOK'
<1>1. CASE UNCHANGED vars
  BY <1>1 DEF TypeOK, vars
<1>2. ASSUME NEW w \in Workers, Rollback(w)
      PROVE  TypeOK'
  BY <1>2, EndTransactionType DEF Rollback, TypeOK
<1>3. ASSUME NEW w \in Workers, NEW op \in Ops, Start(w, op)
      PROVE  TypeOK'
  <2>1. op # <<>> /\ op \in Seq(Entry)
    BY OpsAssumption
  <2>2. 1 <= Len(op)
    BY <2>1
  <2> QED
    BY <1>3, <2>2 DEF TypeOK, Start, Steps
<1>4. ASSUME NEW w \in Workers, Lookup(w)
      PROVE  TypeOK'
  <2>1. CASE NextLeg(w)
    BY <1>4, <2>1, NextLegType DEF TypeOK, Lookup
  <2>2. CASE leg' = leg /\ step' = [step EXCEPT ![w] = "lock"]
    BY <1>4, <2>2 DEF TypeOK, Lookup, Steps
  <2> QED
    BY <1>4, <2>1, <2>2 DEF Lookup
<1>5. ASSUME NEW w \in Workers, Lock(w)
      PROVE  TypeOK'
  <2>1. Current(w).player \in Players
    BY <1>5, CurrentIsEntry DEF Lock, Entry
  <2>2. rows' \in [Workers -> [Players -> [Columns -> Int]]]
    BY <1>5, <2>1 DEF TypeOK, Lock
  <2> QED
    BY <1>5, <2>1, <2>2 DEF TypeOK, Lock, Steps
<1>6. ASSUME NEW w \in Workers, Check(w)
      PROVE  TypeOK'
  <2>1. CASE NextLeg(w) /\ UNCHANGED <<ledger, cached, holder, job, draft, rows>>
    BY <1>6, <2>1, NextLegType DEF TypeOK, Check
  <2>2. CASE /\ step' = [step EXCEPT ![w] = "insert"]
             /\ UNCHANGED <<ledger, cached, holder, job, leg, draft, rows>>
    BY <1>6, <2>2 DEF TypeOK, Check, Steps
  <2> QED
    BY <1>6, <2>1, <2>2, <1>2 DEF Check
<1>7. ASSUME NEW w \in Workers, Insert(w)
      PROVE  TypeOK'
  <2> DEFINE e == Current(w)
  <2>1. CASE Rollback(w)
    BY <2>1, <1>2
  <2>2. CASE /\ draft' = [draft EXCEPT ![w] = Append(@, e)]
             /\ rows' = [rows EXCEPT ![w][e.player] = AddTo(@, e)]
             /\ NextLeg(w)
             /\ UNCHANGED <<ledger, cached, holder, job>>
    <3>1. e \in Entry /\ e.player \in Players
      BY <1>7, CurrentIsEntry DEF Insert, Entry
    <3> HIDE DEF e
    <3>2. draft' \in [Workers -> Seq(Entry)]
      BY <2>2, <3>1 DEF TypeOK
    <3>3. AddTo(rows[w][e.player], e) \in [Columns -> Int]
      BY <3>1 DEF TypeOK, AddTo, Entry
    <3>4. rows' \in [Workers -> [Players -> [Columns -> Int]]]
      BY <2>2, <3>1, <3>3 DEF TypeOK
    <3> QED
      BY <1>7, <2>2, <3>2, <3>4, NextLegType DEF TypeOK, Insert
  <2> QED
    BY <1>7, <2>1, <2>2 DEF Insert
<1>8. ASSUME NEW w \in Workers, Commit(w)
      PROVE  TypeOK'
  <2>1. ledger' \in Seq(Entry)
    BY <1>8 DEF TypeOK, Commit
  <2>2. cached' \in [Players -> [Columns -> Int]]
    BY <1>8 DEF TypeOK, Commit
  <2> QED
    BY <1>8, <2>1, <2>2, EndTransactionType DEF Commit
<1> QED
  BY <1>1, <1>2, <1>3, <1>4, <1>5, <1>6, <1>7, <1>8
  DEF Next, Work, Crash, DeadlockAbort

-----------------------------------------------------------------------------
(* Steps that move a worker on and touch no money.                         *)

(* Going on to the next entry: one more entry is dealt with.               *)
LEMMA DoneNext ==
  ASSUME TypeOK, NEW w \in Workers, step[w] \notin {"idle", "commit"},
         NextLeg(w), job' = job
  PROVE  /\ Done(w) = leg[w] - 1
         /\ Done(w)' = leg[w]
         /\ step'[w] \in {"lookup", "commit"}
         /\ \A v \in Workers \ {w} : Done(v)' = Done(v) /\ step'[v] = step[v] /\ leg'[v] = leg[v]
<1>1. leg[w] \in 1 .. Len(job[w]) /\ job[w] \in Seq(Entry)
  BY CurrentIsEntry
<1>2. Len(job[w]) \in Nat
  BY <1>1
<1>3. CASE leg[w] < Len(job[w])
  <2>1. leg' = [leg EXCEPT ![w] = leg[w] + 1] /\ step' = [step EXCEPT ![w] = "lookup"]
    BY <1>3 DEF NextLeg
  <2> QED
    BY <1>1, <1>2, <2>1 DEF TypeOK, Done
<1>4. CASE leg[w] = Len(job[w])
  <2>1. leg' = leg /\ step' = [step EXCEPT ![w] = "commit"]
    BY <1>1, <1>4 DEF NextLeg
  <2> QED
    BY <1>1, <1>2, <1>4, <2>1 DEF TypeOK, Done
<1> QED
  BY <1>1, <1>2, <1>3, <1>4

(* The numbers an operation counts with.                                   *)
LEMMA DoneType ==
  ASSUME TypeOK, NEW w \in Workers
  PROVE  /\ Done(w) \in Nat
         /\ step[w] = "idle" => Done(w) = 0
         /\ step[w] # "idle" => Done(w) <= Len(job[w])
<1>1. CASE step[w] = "idle"
  BY <1>1 DEF TypeOK, Done
<1>2. CASE step[w] # "idle"
  <2>1. leg[w] \in 1 .. Len(job[w]) /\ job[w] \in Seq(Entry)
    BY <1>2, CurrentIsEntry
  <2>2. Len(job[w]) \in Nat
    BY <2>1
  <2> QED
    BY <1>2, <2>1, <2>2 DEF Done
<1> QED
  BY <1>1, <1>2

MoneyUntouched == UNCHANGED <<ledger, cached, holder, draft, rows>>

(* What speaks only of money and locks survives a step that moves none.    *)
LEMMA MoneyStays ==
  ASSUME Protocol, MoneyUntouched
  PROVE  EachKeyOnce' /\ RowsFollowDraft' /\ (Funds => Funds')
<1>1. EachKeyOnce'
  BY DEF Protocol, MoneyUntouched, EachKeyOnce
<1>2. RowsFollowDraft'
  BY DEF Protocol, MoneyUntouched, RowsFollowDraft
<1>3. ASSUME Funds PROVE CachedIsLedgerSum' /\ NeverOverdrawn'
  BY <1>3 DEF Funds, MoneyUntouched, CachedIsLedgerSum, NeverOverdrawn
<1>4. ASSUME Funds PROVE DraftNeverOverdrawn'
  BY <1>4 DEF Funds, MoneyUntouched, DraftNeverOverdrawn
<1> QED
  BY <1>1, <1>2, <1>3, <1>4 DEF Funds

(* The drafts stay new when no worker forgets an entry it has dealt with.  *)
LEMMA DraftsStay ==
  ASSUME Protocol, MoneyUntouched,
         \A w \in Workers : \/ draft[w] = <<>>
                            \/ job'[w] = job[w] /\ Done(w)' >= Done(w) /\ Done(w)' \in Nat
  PROVE  DraftsAreNew'
<1>1. ASSUME NEW w \in Workers, NEW n \in DOMAIN draft[w]
      PROVE  \E i \in 1 .. Done(w)' : draft[w][n] = job'[w][i]
  <2>1. draft[w] # <<>>
    BY <1>1 DEF Protocol, TypeOK
  <2>2. job'[w] = job[w] /\ Done(w)' >= Done(w) /\ Done(w)' \in Nat /\ Done(w) \in Nat
    BY <2>1, DoneType DEF Protocol
  <2>3. PICK i \in 1 .. Done(w) : draft[w][n] = job[w][i]
    BY DEF Protocol, DraftsAreNew
  <2>4. i \in 1 .. Done(w)'
    BY <2>2
  <2> QED
    BY <2>2, <2>3, <2>4
<1>2. ledger' = ledger /\ draft' = draft
  BY DEF MoneyUntouched
<1> QED
  BY <1>1, <1>2 DEF Protocol, DraftsAreNew

(* post_entry returns at once because the key is there already.            *)
LEMMA ReplayKeepsInv ==
  ASSUME Protocol, TypeOK', NEW w \in Workers, step[w] \notin {"idle", "commit"},
         Current(w).key \in Visible(w), NextLeg(w), MoneyUntouched, job' = job
  PROVE  Protocol' /\ (Funds => Funds')
<1>1. /\ Done(w) = leg[w] - 1 /\ Done(w)' = leg[w]
      /\ step'[w] \in {"lookup", "commit"}
      /\ \A v \in Workers \ {w} : Done(v)' = Done(v) /\ step'[v] = step[v] /\ leg'[v] = leg[v]
  BY DoneNext DEF Protocol
<1>2. \A v \in Workers : Done(v) \in Nat
  BY DoneType DEF Protocol
<1>3. leg[w] \in 1 .. Len(job[w])
  BY CurrentIsEntry DEF Protocol
<1>4. DraftsAreNew'
  <2>1. ASSUME NEW v \in Workers
        PROVE  Done(v)' >= Done(v) /\ Done(v)' \in Nat
    BY <1>1, <1>2, <1>3
  <2> QED
    BY <2>1, DraftsStay
<1>5. DealtWith'
  <2>1. ASSUME NEW v \in Workers \ {w}
        PROVE  /\ Len(draft[v]) <= Done(v)'
               /\ \A i \in 1 .. Done(v)' : job[v][i].key \in KeysOf(ledger) \cup KeysOf(draft[v])
    BY <1>1 DEF Protocol, DealtWith
  <2>2. Len(draft[w]) <= Done(w)'
    BY <1>1, <1>2, <1>3 DEF Protocol, DealtWith, TypeOK
  <2>3. ASSUME NEW i \in 1 .. Done(w)'
        PROVE  job[w][i].key \in KeysOf(ledger) \cup KeysOf(draft[w])
    <3>1. i \in 1 .. Done(w) \/ i = leg[w]
      BY <1>1, <1>3
    <3> QED
      BY <3>1 DEF Protocol, DealtWith, Current, Visible
  <2>4. ledger' = ledger /\ draft' = draft
    BY DEF MoneyUntouched
  <2> QED
    BY <2>1, <2>2, <2>3, <2>4 DEF DealtWith
<1>6. Secured'
  <2> SUFFICES ASSUME NEW v \in Workers
               PROVE  /\ step'[v] \in {"check", "insert"} => holder'[Current(v)'.player] = v
                      /\ step'[v] = "insert" => Affordable(v)'
    BY DEF Secured
  <2>1. CASE v = w
    BY <1>1, <2>1
  <2>2. CASE v # w
    <3>1. Current(v)' = Current(v) /\ step'[v] = step[v]
      BY <1>1, <2>2 DEF Current
    <3> QED
      BY <3>1 DEF Protocol, Secured, Affordable, MoneyUntouched
  <2> QED
    BY <2>1, <2>2
<1> QED
  BY <1>4, <1>5, <1>6, MoneyStays DEF Protocol

(* A worker begins a transaction, asks for a lock, or passes the check.    *)
LEMMA GoOnKeepsInv ==
  ASSUME Protocol, TypeOK', NEW w \in Workers, MoneyUntouched, leg' = leg,
         NEW s, step' = [step EXCEPT ![w] = s], s \in {"lookup", "lock", "insert"},
         step[w] # "commit",
         \/ step[w] = "idle" /\ s = "lookup" /\ \A v \in Workers \ {w} : job'[v] = job[v]
         \/ /\ step[w] # "idle" /\ job' = job
            /\ s = "insert" => step[w] = "check" /\ Affordable(w)
  PROVE  Protocol' /\ (Funds => Funds')
<1>1. \A v \in Workers \ {w} : step'[v] = step[v] /\ job'[v] = job[v]
  BY DEF Protocol, TypeOK
<1>2. step'[w] = s
  BY DEF Protocol, TypeOK
<1>3. \A v \in Workers : Done(v)' = Done(v)
  BY <1>1, <1>2 DEF Done
<1>4. \A v \in Workers : Done(v) \in Nat
  BY DoneType DEF Protocol
<1>5. step[w] = "idle" => Done(w) = 0 /\ draft[w] = <<>>
  <2>1. step[w] = "idle" => Done(w) = 0
    BY DoneType DEF Protocol
  <2>2. Len(draft[w]) <= Done(w) /\ draft[w] \in Seq(Entry)
    BY DEF Protocol, DealtWith, TypeOK
  <2> QED
    BY <2>1, <2>2
<1>6. DraftsAreNew'
  <2>1. ASSUME NEW v \in Workers
        PROVE  \/ draft[v] = <<>>
               \/ job'[v] = job[v] /\ Done(v)' >= Done(v) /\ Done(v)' \in Nat
    BY <1>1, <1>3, <1>4, <1>5
  <2> QED
    BY <2>1, DraftsStay
<1>7. DealtWith'
  <2>1. ASSUME NEW v \in Workers, NEW i \in 1 .. Done(v)
        PROVE  job'[v][i].key \in KeysOf(ledger) \cup KeysOf(draft[v])
    <3>1. job'[v] = job[v]
      BY <1>1, <1>5
    <3> QED
      BY <3>1 DEF Protocol, DealtWith
  <2>2. ledger' = ledger /\ draft' = draft
    BY DEF MoneyUntouched
  <2> QED
    BY <2>1, <2>2, <1>3 DEF Protocol, DealtWith
<1>8. Secured'
  <2> SUFFICES ASSUME NEW v \in Workers
               PROVE  /\ step'[v] \in {"check", "insert"} => holder'[Current(v)'.player] = v
                      /\ step'[v] = "insert" => Affordable(v)'
    BY DEF Secured
  <2>1. CASE v # w
    <3>1. Current(v)' = Current(v) /\ step'[v] = step[v]
      BY <1>1, <2>1 DEF Current
    <3> QED
      BY <3>1 DEF Protocol, Secured, Affordable, MoneyUntouched
  <2>2. CASE v = w /\ s = "insert"
    <3>1. Current(w)' = Current(w) /\ step[w] = "check" /\ Affordable(w)
      BY <2>2 DEF Current
    <3> QED
      BY <3>1, <2>2 DEF Protocol, Secured, Affordable, MoneyUntouched
  <2> QED
    BY <1>2, <2>1, <2>2
<1> QED
  BY <1>6, <1>7, <1>8, MoneyStays DEF Protocol

-----------------------------------------------------------------------------
(* The end of a transaction.                                               *)

(* What the end of w's transaction leaves of the workers' state.           *)
LEMMA AfterEnd ==
  ASSUME TypeOK, NEW w \in Workers, EndTransaction(w)
  PROVE  /\ draft'[w] = <<>> /\ step'[w] = "idle" /\ Done(w)' = 0
         /\ \A p \in Players : holder'[p] # w
         /\ \A v \in Workers \ {w} :
              /\ draft'[v] = draft[v] /\ step'[v] = step[v] /\ job'[v] = job[v]
              /\ rows'[v] = rows[v] /\ Done(v)' = Done(v) /\ Current(v)' = Current(v)
              /\ \A p \in Players : holder'[p] = v <=> holder[p] = v
<1>1. /\ draft'[w] = <<>> /\ step'[w] = "idle" /\ leg'[w] = 1
  BY DEF TypeOK, EndTransaction
<1>2. Done(w)' = 0
  BY <1>1 DEF Done
<1>3. \A p \in Players : holder'[p] # w
  BY OpsAssumption DEF EndTransaction
<1>4. ASSUME NEW v \in Workers \ {w}
      PROVE  /\ draft'[v] = draft[v] /\ step'[v] = step[v] /\ job'[v] = job[v]
             /\ rows'[v] = rows[v] /\ leg'[v] = leg[v]
  BY DEF TypeOK, EndTransaction
<1>5. ASSUME NEW v \in Workers \ {w}
      PROVE  Done(v)' = Done(v) /\ Current(v)' = Current(v)
  BY <1>4 DEF Done, Current
<1>6. ASSUME NEW v \in Workers \ {w}, NEW p \in Players
      PROVE  holder'[p] = v <=> holder[p] = v
  BY OpsAssumption DEF EndTransaction
<1> QED
  BY <1>1, <1>2, <1>3, <1>4, <1>5, <1>6

(* The end of a transaction leaves the other workers' locks and funds.     *)
LEMMA EndKeepsSecured ==
  ASSUME Protocol, NEW w \in Workers, EndTransaction(w)
  PROVE  Secured'
<1> SUFFICES ASSUME NEW v \in Workers
             PROVE  /\ step'[v] \in {"check", "insert"} => holder'[Current(v)'.player] = v
                    /\ step'[v] = "insert" => Affordable(v)'
  BY DEF Secured
<1>1. CASE v = w
  BY <1>1, AfterEnd DEF Protocol
<1>2. CASE v # w
  <2>1. /\ step'[v] = step[v] /\ Current(v)' = Current(v) /\ rows'[v] = rows[v]
        /\ \A p \in Players : holder'[p] = v <=> holder[p] = v
    BY <1>2, AfterEnd DEF Protocol
  <2>2. step[v] # "idle" => Current(v).player \in Players
    BY CurrentIsEntry DEF Protocol, Entry
  <2> QED
    BY <2>1, <2>2 DEF Protocol, Secured, Affordable
<1> QED
  BY <1>1, <1>2

(* A transaction that is rolled back leaves no trace.                      *)
LEMMA RollbackKeepsInv ==
  ASSUME Protocol, TypeOK', NEW w \in Workers, Rollback(w)
  PROVE  Protocol' /\ (Funds => Funds')
<1>1. EndTransaction(w) /\ ledger' = ledger /\ cached' = cached
  BY DEF Rollback
<1>2. /\ draft'[w] = <<>> /\ step'[w] = "idle" /\ Done(w)' = 0
      /\ \A p \in Players : holder'[p] # w
      /\ \A v \in Workers \ {w} :
           /\ draft'[v] = draft[v] /\ step'[v] = step[v] /\ job'[v] = job[v]
           /\ rows'[v] = rows[v] /\ Done(v)' = Done(v) /\ Current(v)' = Current(v)
           /\ \A p \in Players : holder'[p] = v <=> holder[p] = v
  BY <1>1, AfterEnd DEF Protocol
<1>3. EachKeyOnce'
  BY <1>1 DEF Protocol, EachKeyOnce
<1>4. DOMAIN draft'[w] = {} /\ Len(draft'[w]) = 0
  BY <1>2
<1>5. DraftsAreNew'
  <2>1. ASSUME NEW v \in Workers, NEW n \in DOMAIN draft'[v]
        PROVE  /\ v # w
               /\ \E i \in 1 .. Done(v)' : draft'[v][n] = job'[v][i]
               /\ draft'[v][n].key \notin KeysOf(ledger')
    <3>1. v # w
      BY <1>4
    <3> QED
      BY <1>1, <1>2, <3>1 DEF Protocol, DraftsAreNew
  <2>2. ASSUME NEW v \in Workers, NEW m \in DOMAIN draft'[v], NEW n \in DOMAIN draft'[v],
               draft'[v][m].key = draft'[v][n].key
        PROVE  m = n
    <3>1. v # w
      BY <1>4
    <3> QED
      BY <1>2, <3>1, <2>2 DEF Protocol, DraftsAreNew
  <2>3. ASSUME NEW u \in Workers, NEW v \in Workers,
               NEW m \in DOMAIN draft'[u], NEW n \in DOMAIN draft'[v],
               draft'[u][m].key = draft'[v][n].key
        PROVE  u = v
    <3>1. u # w /\ v # w
      BY <1>4
    <3> QED
      BY <1>2, <3>1, <2>3 DEF Protocol, DraftsAreNew
  <2> QED
    BY <2>1, <2>2, <2>3 DEF DraftsAreNew
<1>6. DealtWith'
  <2> SUFFICES ASSUME NEW v \in Workers
               PROVE  /\ Len(draft'[v]) <= Done(v)'
                      /\ \A i \in 1 .. Done(v)' :
                           job'[v][i].key \in KeysOf(ledger') \cup KeysOf(draft'[v])
    BY DEF DealtWith
  <2>1. CASE v = w
    BY <1>2, <1>4, <2>1
  <2>2. CASE v # w
    BY <1>1, <1>2, <2>2 DEF Protocol, DealtWith
  <2> QED
    BY <2>1, <2>2
<1>7. Secured'
  BY <1>1, EndKeepsSecured
<1>8. RowsFollowDraft'
  <2> SUFFICES ASSUME NEW v \in Workers, NEW p \in Players, NEW c \in Columns
               PROVE  IF holder'[p] = v
                      THEN rows'[v][p][c] = cached'[p][c] + LedgerTotal(draft'[v], p, c)
                      ELSE \A n \in 0 .. Len(draft'[v]) : RunningTotal(draft'[v], p, c)[n] = 0
    BY DEF RowsFollowDraft
  <2>1. CASE v = w
    <3>1. RunningTotal(draft'[w], p, c)[0] = 0
      BY <1>2, EmptyTotal
    <3> QED
      BY <1>2, <1>4, <2>1, <3>1
  <2>2. CASE v # w
    BY <1>1, <1>2, <2>2 DEF Protocol, RowsFollowDraft
  <2> QED
    BY <2>1, <2>2
<1>9. ASSUME Funds PROVE DraftNeverOverdrawn'
  <2> SUFFICES ASSUME NEW v \in Workers, NEW p \in Players, NEW b \in Buckets,
                      NEW n \in 0 .. Len(draft'[v])
               PROVE  LedgerTotal(ledger', p, b) + RunningTotal(draft'[v], p, b)[n] >= 0
    BY DEF DraftNeverOverdrawn
  <2>1. CASE v = w
    <3>1. n = 0 /\ RunningTotal(draft'[w], p, b)[0] = 0
      BY <1>2, <1>4, <2>1, EmptyTotal
    <3>2. LedgerTotal(ledger, p, b) >= 0 /\ LedgerTotal(ledger, p, b) \in Int
      <4>1. ledger \in Seq(Entry) /\ Len(ledger) \in Nat
        BY DEF Protocol, TypeOK
      <4> QED
        BY <1>9, <4>1, RunningTotalDef DEF Funds, NeverOverdrawn, LedgerTotal
    <3> QED
      BY <1>1, <2>1, <3>1, <3>2
  <2>2. CASE v # w
    BY <1>1, <1>2, <1>9, <2>2 DEF Funds, DraftNeverOverdrawn
  <2> QED
    BY <2>1, <2>2
<1>10. ASSUME Funds PROVE CachedIsLedgerSum' /\ NeverOverdrawn'
  BY <1>1, <1>10 DEF Funds, CachedIsLedgerSum, NeverOverdrawn
<1> QED
  BY <1>3, <1>5, <1>6, <1>7, <1>8, <1>9, <1>10 DEF Protocol, Funds

-----------------------------------------------------------------------------
(* The lock, the insert and the commit.                                    *)

\* Locking the wallet row changes nothing that is committed.
LEMMA LockKeepsInv ==
  ASSUME Protocol, TypeOK', NEW w \in Workers, Lock(w)
  PROVE  Protocol' /\ (Funds => Funds')
<1> DEFINE p == Current(w).player
<1>1. /\ step[w] = "lock" /\ holder[p] \in {NoWorker, w}
      /\ holder' = [holder EXCEPT ![p] = w]
      /\ rows' = IF holder[p] = w THEN rows ELSE [rows EXCEPT ![w][p] = cached[p]]
      /\ step' = [step EXCEPT ![w] = "check"]
      /\ ledger' = ledger /\ cached' = cached /\ job' = job /\ leg' = leg /\ draft' = draft
  BY DEF Lock
<1>2. p \in Players
  BY <1>1, CurrentIsEntry DEF Protocol, Entry
<1>3. /\ step'[w] = "check" /\ \A v \in Workers \ {w} : step'[v] = step[v]
      /\ \A v \in Workers : Current(v)' = Current(v) /\ Done(v)' = Done(v)
  BY <1>1 DEF Protocol, TypeOK, Current, Done
<1>4. /\ holder'[p] = w /\ \A q \in Players \ {p} : holder'[q] = holder[q]
      /\ \A v \in Workers \ {w} : holder[p] # v
  BY <1>1, <1>2, OpsAssumption DEF Protocol, TypeOK
<1>5. /\ \A v \in Workers \ {w} : rows'[v] = rows[v]
      /\ \A q \in Players \ {p} : rows'[w][q] = rows[w][q]
      /\ holder[p] = w => rows'[w][p] = rows[w][p]
      /\ holder[p] # w => rows'[w][p] = cached[p]
  BY <1>1, <1>2 DEF Protocol, TypeOK
<1> HIDE DEF p
<1>6. EachKeyOnce' /\ (Funds => Funds')
  BY <1>1 DEF Protocol, Funds, CachedIsLedgerSum, EachKeyOnce, NeverOverdrawn, DraftNeverOverdrawn
<1>7. DraftsAreNew' /\ DealtWith'
  BY <1>1, <1>3 DEF Protocol, DraftsAreNew, DealtWith
<1>8. Secured'
  <2> SUFFICES ASSUME NEW v \in Workers
               PROVE  /\ step'[v] \in {"check", "insert"} => holder'[Current(v)'.player] = v
                      /\ step'[v] = "insert" => Affordable(v)'
    BY DEF Secured
  <2>1. CASE v = w
    BY <1>3, <1>4, <2>1 DEF p
  <2>2. CASE v # w
    <3>1. step[v] # "idle" => Current(v).player \in Players
      BY CurrentIsEntry DEF Protocol, Entry
    <3>2. step[v] \in {"check", "insert"} => holder'[Current(v).player] = v
      BY <1>4, <2>2, <3>1 DEF Protocol, Secured
    <3> QED
      BY <1>3, <1>5, <2>2, <3>2 DEF Protocol, Secured, Affordable
  <2> QED
    BY <2>1, <2>2
<1>9. RowsFollowDraft'
  <2> SUFFICES ASSUME NEW v \in Workers, NEW q \in Players, NEW c \in Columns
               PROVE  IF holder'[q] = v
                      THEN rows'[v][q][c] = cached'[q][c] + LedgerTotal(draft'[v], q, c)
                      ELSE \A n \in 0 .. Len(draft'[v]) : RunningTotal(draft'[v], q, c)[n] = 0
    BY DEF RowsFollowDraft
  <2>1. CASE q # p
    BY <1>1, <1>4, <1>5, <2>1 DEF Protocol, RowsFollowDraft
  <2>2. CASE q = p /\ v # w
    BY <1>1, <1>4, <2>2 DEF Protocol, RowsFollowDraft
  <2>3. CASE q = p /\ v = w /\ holder[p] = w
    BY <1>1, <1>4, <1>5, <2>3 DEF Protocol, RowsFollowDraft
  <2>4. CASE q = p /\ v = w /\ holder[p] # w
    <3>1. draft[w] \in Seq(Entry) /\ Len(draft[w]) \in Nat /\ cached[p][c] \in Int
      BY <1>2 DEF Protocol, TypeOK
    <3>2. RunningTotal(draft[w], p, c)[Len(draft[w])] = 0
      BY <1>2, <2>4, <3>1 DEF Protocol, RowsFollowDraft
    <3> QED
      BY <1>1, <1>4, <1>5, <2>4, <3>1, <3>2 DEF LedgerTotal
  <2> QED
    BY <2>1, <2>2, <2>3, <2>4
<1> QED
  BY <1>6, <1>7, <1>8, <1>9 DEF Protocol

\* The insert that goes through.
Inserted(w) ==
  /\ step[w] = "insert"
  /\ ~KeyInFlight(w)
  /\ Current(w).key \notin KeysOf(ledger)
  /\ draft' = [draft EXCEPT ![w] = Append(@, Current(w))]
  /\ rows' = [rows EXCEPT ![w][Current(w).player] = AddTo(@, Current(w))]
  /\ NextLeg(w)
  /\ UNCHANGED <<ledger, cached, holder, job>>

(* The inserted entry is not in w's draft: its key is new to the operation.*)
LEMMA InsertedIsNew ==
  ASSUME Protocol, NEW w \in Workers, Inserted(w)
  PROVE  Current(w).key \notin KeysOf(draft[w])
<1>1. /\ step[w] = "insert" /\ Done(w) = leg[w] - 1
      /\ leg[w] \in 1 .. Len(job[w]) /\ job[w] \in Ops /\ job[w] \in Seq(Entry)
  BY CurrentIsEntry DEF Protocol, Inserted, Done
<1>2. SUFFICES ASSUME NEW n \in DOMAIN draft[w], draft[w][n].key = Current(w).key
               PROVE  FALSE
  BY DEF KeysOf
<1>3. PICK i \in 1 .. Done(w) : draft[w][n] = job[w][i]
  BY DEF Protocol, DraftsAreNew
<1>4. i \in DOMAIN job[w] /\ leg[w] \in DOMAIN job[w] /\ i # leg[w]
  BY <1>1
<1>5. job[w][i].key = job[w][leg[w]].key
  BY <1>2, <1>3 DEF Current
<1> QED
  BY <1>1, <1>4, <1>5, OpsAssumption

\* An entry that is inserted continues the totals its worker has seen.
LEMMA InsertKeepsInv ==
  ASSUME Protocol, TypeOK', NEW w \in Workers, Inserted(w)
  PROVE  Protocol' /\ (Funds => Funds')
<1> DEFINE e == Current(w)
           d == draft[w]
           f == draft'[w]
<1>1. /\ step[w] = "insert" /\ e \in Entry /\ e.player \in Players
      /\ leg[w] \in 1 .. Len(job[w]) /\ d \in Seq(Entry) /\ Len(d) \in Nat
  BY CurrentIsEntry DEF Protocol, Inserted, Entry, TypeOK
<1>2. /\ e.key \notin KeysOf(ledger)
      /\ e.key \notin KeysOf(d)
      /\ \A v \in Workers \ {w} : e.key \notin KeysOf(draft[v])
  BY InsertedIsNew DEF Inserted, KeyInFlight
<1>3. /\ f = Append(d, e) /\ \A v \in Workers \ {w} : draft'[v] = draft[v]
      /\ ledger' = ledger /\ cached' = cached /\ holder' = holder /\ job' = job
  BY DEF Inserted, Protocol, TypeOK
<1>4. /\ DOMAIN d = 1 .. Len(d) /\ DOMAIN f = 1 .. Len(d) + 1 /\ Len(f) = Len(d) + 1
      /\ \A n \in 1 .. Len(d) : f[n] = d[n]
      /\ f[Len(d) + 1] = e
  BY <1>1, <1>3
<1>5. /\ Done(w) = leg[w] - 1 /\ Done(w)' = leg[w] /\ step'[w] \in {"lookup", "commit"}
      /\ \A v \in Workers \ {w} : Done(v)' = Done(v) /\ step'[v] = step[v] /\ leg'[v] = leg[v]
  BY <1>1, DoneNext DEF Protocol, Inserted
<1>6. /\ rows'[w][e.player] = AddTo(rows[w][e.player], e)
      /\ \A q \in Players \ {e.player} : rows'[w][q] = rows[w][q]
      /\ \A v \in Workers \ {w} : rows'[v] = rows[v]
  BY <1>1 DEF Inserted, Protocol, TypeOK
<1>7. holder[e.player] = w
  BY <1>1 DEF Protocol, Secured
<1>8. ASSUME NEW q \in Players, NEW c \in Columns
      PROVE  /\ \A n \in 0 .. Len(d) : RunningTotal(f, q, c)[n] = RunningTotal(d, q, c)[n]
             /\ RunningTotal(f, q, c)[Len(d) + 1] = LedgerTotal(d, q, c) + Share(e, q, c)
             /\ LedgerTotal(f, q, c) = LedgerTotal(d, q, c) + Share(e, q, c)
             /\ LedgerTotal(d, q, c) \in Int /\ Share(e, q, c) \in Int
             /\ LedgerTotal(d, q, c) = RunningTotal(d, q, c)[Len(d)]
             /\ q # e.player => Share(e, q, c) = 0
  <2>1. LedgerTotal(d, q, c) \in Int /\ Share(e, q, c) \in Int
    BY <1>1, RunningTotalDef, ShareType
  <2>2. q # e.player => Share(e, q, c) = 0
    BY DEF Share
  <2>3. f = Append(d, e)
    BY <1>3
  <2>4. /\ \A n \in 0 .. Len(d) : RunningTotal(f, q, c)[n] = RunningTotal(d, q, c)[n]
        /\ RunningTotal(f, q, c)[Len(d) + 1] = LedgerTotal(d, q, c) + Share(e, q, c)
        /\ LedgerTotal(f, q, c) = LedgerTotal(d, q, c) + Share(e, q, c)
    <3> HIDE DEF d, e, f
    <3> QED
      BY <1>1, <2>3, TotalAppend
  <2>5. LedgerTotal(d, q, c) = RunningTotal(d, q, c)[Len(d)]
    BY DEF LedgerTotal
  <2> QED
    BY <2>1, <2>2, <2>4, <2>5
<1> HIDE DEF e, d, f
<1>9. /\ EachKeyOnce'
      /\ Funds => CachedIsLedgerSum' /\ NeverOverdrawn'
  BY <1>3 DEF Protocol, Funds, CachedIsLedgerSum, EachKeyOnce, NeverOverdrawn
<1>10. DraftsAreNew'
  <2>1. ASSUME NEW n \in DOMAIN f
        PROVE  /\ \E i \in 1 .. Done(w)' : f[n] = job[w][i]
               /\ f[n].key \notin KeysOf(ledger)
    <3>1. CASE n \in 1 .. Len(d)
      <4>1. PICK i \in 1 .. Done(w) : d[n] = job[w][i]
        BY <1>4, <3>1 DEF Protocol, DraftsAreNew, d
      <4>2. i \in 1 .. Done(w)'
        BY <1>1, <1>5
      <4> QED
        BY <1>4, <3>1, <4>1, <4>2 DEF Protocol, DraftsAreNew, d
    <3>2. CASE n = Len(d) + 1
      <4>1. f[n] = job[w][leg[w]] /\ leg[w] \in 1 .. Done(w)'
        BY <1>1, <1>4, <1>5, <3>2 DEF e, Current
      <4> QED
        BY <1>2, <1>4, <3>2, <4>1
    <3> QED
      BY <1>1, <1>4, <3>1, <3>2
  <2>2. ASSUME NEW m \in DOMAIN f, NEW n \in DOMAIN f, f[m].key = f[n].key
        PROVE  m = n
    <3>1. \A k \in 1 .. Len(d) : d[k].key # e.key
      BY <1>2, <1>4 DEF KeysOf
    <3>2. CASE m \in 1 .. Len(d) /\ n \in 1 .. Len(d)
      BY <1>4, <2>2, <3>2 DEF Protocol, DraftsAreNew, d
    <3>3. CASE m = Len(d) + 1 \/ n = Len(d) + 1
      BY <1>1, <1>4, <2>2, <3>1, <3>3
    <3> QED
      BY <1>1, <1>4, <3>2, <3>3
  <2>3. ASSUME NEW v \in Workers \ {w}, NEW m \in DOMAIN f, NEW n \in DOMAIN draft[v]
        PROVE  f[m].key # draft[v][n].key
    <3>1. draft[v][n].key # e.key
      BY <1>2 DEF KeysOf
    <3>2. \A k \in 1 .. Len(d) : d[k].key # draft[v][n].key
      BY <1>4 DEF Protocol, DraftsAreNew, d
    <3> QED
      BY <1>1, <1>4, <3>1, <3>2
  <2>4. ASSUME NEW v \in Workers, NEW n \in DOMAIN draft'[v]
        PROVE  /\ \E i \in 1 .. Done(v)' : draft'[v][n] = job'[v][i]
               /\ draft'[v][n].key \notin KeysOf(ledger')
    <3>1. CASE v = w
      BY <1>3, <2>1, <3>1 DEF f
    <3>2. CASE v # w
      BY <1>3, <1>5, <3>2 DEF Protocol, DraftsAreNew
    <3> QED
      BY <3>1, <3>2
  <2>5. ASSUME NEW v \in Workers, NEW m \in DOMAIN draft'[v], NEW n \in DOMAIN draft'[v],
               draft'[v][m].key = draft'[v][n].key
        PROVE  m = n
    BY <1>3, <2>2, <2>5 DEF Protocol, DraftsAreNew, f
  <2>6. ASSUME NEW u \in Workers, NEW v \in Workers,
               NEW m \in DOMAIN draft'[u], NEW n \in DOMAIN draft'[v],
               draft'[u][m].key = draft'[v][n].key
        PROVE  u = v
    <3>1. CASE u # w /\ v # w
      BY <1>3, <2>6, <3>1 DEF Protocol, DraftsAreNew
    <3>2. CASE u = w /\ v # w
      BY <1>3, <2>3, <2>6, <3>2 DEF f
    <3>3. CASE u # w /\ v = w
      BY <1>3, <2>3, <2>6, <3>3 DEF f
    <3> QED
      BY <3>1, <3>2, <3>3
  <2> QED
    BY <2>4, <2>5, <2>6 DEF DraftsAreNew
<1>11. DealtWith'
  <2>1. KeysOf(f) = KeysOf(d) \cup {e.key}
    BY <1>1, <1>3, KeysAppend
  <2>2. Len(f) <= Done(w)'
    <3>1. Len(d) <= Done(w)
      BY DEF Protocol, DealtWith, d
    <3> QED
      BY <1>1, <1>4, <1>5, <3>1
  <2>3. ASSUME NEW i \in 1 .. Done(w)'
        PROVE  job[w][i].key \in KeysOf(ledger) \cup KeysOf(f)
    <3>1. i \in 1 .. Done(w) \/ i = leg[w]
      BY <1>1, <1>5
    <3>2. job[w][leg[w]] = e
      BY DEF e, Current
    <3>3. i \in 1 .. Done(w) => job[w][i].key \in KeysOf(ledger) \cup KeysOf(d)
      BY DEF Protocol, DealtWith, d
    <3> QED
      BY <2>1, <3>1, <3>2, <3>3
  <2> SUFFICES ASSUME NEW v \in Workers
               PROVE  /\ Len(draft'[v]) <= Done(v)'
                      /\ \A i \in 1 .. Done(v)' :
                           job'[v][i].key \in KeysOf(ledger') \cup KeysOf(draft'[v])
    BY DEF DealtWith
  <2>4. CASE v = w
    BY <1>3, <2>2, <2>3, <2>4 DEF f
  <2>5. CASE v # w
    BY <1>3, <1>5, <2>5 DEF Protocol, DealtWith
  <2> QED
    BY <2>4, <2>5
<1>12. Secured'
  <2> SUFFICES ASSUME NEW v \in Workers
               PROVE  /\ step'[v] \in {"check", "insert"} => holder'[Current(v)'.player] = v
                      /\ step'[v] = "insert" => Affordable(v)'
    BY DEF Secured
  <2>1. CASE v = w
    BY <1>5, <2>1
  <2>2. CASE v # w
    <3>1. Current(v)' = Current(v) /\ step'[v] = step[v] /\ rows'[v] = rows[v]
      BY <1>3, <1>5, <1>6, <2>2 DEF Current
    <3> QED
      BY <1>3, <3>1 DEF Protocol, Secured, Affordable
  <2> QED
    BY <2>1, <2>2
<1>13. RowsFollowDraft'
  <2> SUFFICES ASSUME NEW v \in Workers, NEW q \in Players, NEW c \in Columns
               PROVE  IF holder'[q] = v
                      THEN rows'[v][q][c] = cached'[q][c] + LedgerTotal(draft'[v], q, c)
                      ELSE \A n \in 0 .. Len(draft'[v]) : RunningTotal(draft'[v], q, c)[n] = 0
    BY DEF RowsFollowDraft
  <2>1. CASE v # w
    BY <1>3, <1>6, <2>1 DEF Protocol, RowsFollowDraft
  <2>2. CASE v = w /\ q = e.player
    <3>1. rows[w][q] \in [Columns -> Int] /\ cached[q][c] \in Int
      BY DEF Protocol, TypeOK
    <3>2. rows'[w][q][c] = rows[w][q][c] + Share(e, q, c)
      <4>1. AddTo(rows[w][q], e)[c] = rows[w][q][c] + Share(e, q, c)
        BY <1>1, <2>2, <3>1, AddToMovesByShare
      <4>2. rows'[w][q] = AddTo(rows[w][q], e)
        BY <1>6, <2>2
      <4> QED
        BY <4>1, <4>2
    <3>3. rows[w][q][c] = cached[q][c] + LedgerTotal(d, q, c)
      BY <1>7, <2>2 DEF Protocol, RowsFollowDraft, d
    <3>4. holder'[q] = w /\ cached'[q] = cached[q] /\ LedgerTotal(draft'[w], q, c) = LedgerTotal(f, q, c)
      BY <1>3, <1>7, <2>2 DEF f
    <3> QED
      BY <1>8, <2>2, <3>1, <3>2, <3>3, <3>4
  <2>3. CASE v = w /\ q # e.player /\ holder[q] = w
    <3>1. rows[w][q][c] = cached[q][c] + LedgerTotal(d, q, c)
      BY <2>3 DEF Protocol, RowsFollowDraft, d
    <3>2. LedgerTotal(f, q, c) = LedgerTotal(d, q, c)
      BY <1>8, <2>3
    <3> QED
      BY <1>3, <1>6, <2>3, <3>1, <3>2 DEF f
  <2>4. CASE v = w /\ q # e.player /\ holder[q] # w
    <3>1. \A n \in 0 .. Len(d) : RunningTotal(d, q, c)[n] = 0
      BY <2>4 DEF Protocol, RowsFollowDraft, d
    <3>2. LedgerTotal(d, q, c) = 0
      BY <1>1, <1>8, <3>1
    <3>3. RunningTotal(f, q, c)[Len(d) + 1] = 0
      BY <1>8, <2>4, <3>2
    <3>4. \A n \in 0 .. Len(f) : n \in 0 .. Len(d) \/ n = Len(d) + 1
      BY <1>1, <1>4
    <3>5. \A n \in 0 .. Len(f) : RunningTotal(f, q, c)[n] = 0
      BY <1>8, <3>1, <3>3, <3>4
    <3> QED
      BY <1>3, <2>4, <3>5 DEF f
  <2> QED
    BY <1>7, <2>1, <2>2, <2>3, <2>4
<1>14. ASSUME Funds PROVE DraftNeverOverdrawn'
  <2> SUFFICES ASSUME NEW v \in Workers, NEW q \in Players, NEW b \in Buckets,
                      NEW n \in 0 .. Len(draft'[v])
               PROVE  LedgerTotal(ledger', q, b) + RunningTotal(draft'[v], q, b)[n] >= 0
    BY DEF DraftNeverOverdrawn
  <2>1. CASE v # w
    BY <1>3, <1>14, <2>1 DEF Funds, DraftNeverOverdrawn
  <2>2. CASE v = w /\ n \in 0 .. Len(d)
    <3>1. RunningTotal(f, q, b)[n] = RunningTotal(d, q, b)[n]
      BY <1>8, <2>2 DEF Columns
    <3>2. LedgerTotal(ledger, q, b) + RunningTotal(d, q, b)[n] >= 0
      BY <1>14, <2>2 DEF Funds, DraftNeverOverdrawn, d
    <3> QED
      BY <1>3, <2>2, <3>1, <3>2 DEF f
  <2>3. CASE v = w /\ n = Len(d) + 1
    <3>1. LedgerTotal(ledger, q, b) + LedgerTotal(d, q, b) >= 0
      BY <1>1, <1>14 DEF Funds, DraftNeverOverdrawn, d, LedgerTotal
    <3>2. /\ RunningTotal(f, q, b)[n] = LedgerTotal(d, q, b) + Share(e, q, b)
          /\ LedgerTotal(d, q, b) \in Int /\ Share(e, q, b) \in Int
      BY <1>8, <2>3 DEF Columns
    <3>3. LedgerTotal(ledger, q, b) \in Int
      BY RunningTotalDef DEF Protocol, TypeOK
    <3>4. Share(e, q, b) < 0 =>
            LedgerTotal(ledger, q, b) + LedgerTotal(d, q, b) + Share(e, q, b) >= 0
      <4>1. SUFFICES ASSUME Share(e, q, b) < 0
                     PROVE  LedgerTotal(ledger, q, b) + LedgerTotal(d, q, b) + Share(e, q, b) >= 0
        OBVIOUS
      <4>2. q = e.player /\ b = e.bucket /\ Share(e, q, b) = e.amount
        BY <4>1 DEF Share, Buckets
      <4>3. rows[w][q][b] + e.amount >= 0
        BY <1>1, <4>1, <4>2 DEF Protocol, Secured, Affordable, e
      <4>4. rows[w][q][b] = cached[q][b] + LedgerTotal(d, q, b)
        BY <1>7, <4>2 DEF Protocol, RowsFollowDraft, Columns, d
      <4>5. cached[q][b] = LedgerTotal(ledger, q, b)
        BY <1>14 DEF Funds, CachedIsLedgerSum, Columns
      <4> QED
        BY <4>2, <4>3, <4>4, <4>5
    <3>5. LedgerTotal(ledger, q, b) + RunningTotal(f, q, b)[n] >= 0
      BY <3>1, <3>2, <3>3, <3>4
    <3> QED
      BY <1>3, <2>3, <3>5 DEF f
  <2> QED
    BY <1>1, <1>3, <1>4, <2>1, <2>2, <2>3 DEF f
<1> QED
  BY <1>9, <1>10, <1>11, <1>12, <1>13, <1>14 DEF Protocol, Funds

\* What is committed continues the ledger as it is then.
LEMMA CommitKeepsInv ==
  ASSUME Protocol, TypeOK', NEW w \in Workers, Commit(w)
  PROVE  Protocol' /\ (Funds => Funds')
<1> DEFINE d == draft[w]
<1>1. /\ EndTransaction(w) /\ ledger' = ledger \o d
      /\ cached' = [p \in Players |-> IF holder[p] = w THEN rows[w][p] ELSE cached[p]]
  BY DEF Commit
<1>2. /\ ledger \in Seq(Entry) /\ Len(ledger) \in Nat /\ DOMAIN ledger = 1 .. Len(ledger)
      /\ d \in Seq(Entry) /\ Len(d) \in Nat /\ DOMAIN d = 1 .. Len(d)
  BY DEF Protocol, TypeOK
<1>3. /\ DOMAIN ledger' = 1 .. Len(ledger) + Len(d) /\ Len(ledger') = Len(ledger) + Len(d)
      /\ \A i \in 1 .. Len(ledger) : ledger'[i] = ledger[i]
      /\ \A i \in 1 .. Len(d) : ledger'[Len(ledger) + i] = d[i]
  BY <1>1, <1>2
<1>4. KeysOf(ledger') = KeysOf(ledger) \cup KeysOf(d)
  BY <1>1, <1>2, KeysConcat
<1>5. /\ draft'[w] = <<>> /\ step'[w] = "idle" /\ Done(w)' = 0
      /\ \A p \in Players : holder'[p] # w
      /\ \A v \in Workers \ {w} :
           /\ draft'[v] = draft[v] /\ step'[v] = step[v] /\ job'[v] = job[v]
           /\ rows'[v] = rows[v] /\ Done(v)' = Done(v) /\ Current(v)' = Current(v)
           /\ \A p \in Players : holder'[p] = v <=> holder[p] = v
  BY <1>1, AfterEnd DEF Protocol
<1>6. DOMAIN draft'[w] = {} /\ Len(draft'[w]) = 0
  BY <1>5
<1>7. ASSUME NEW p \in Players, NEW c \in Columns
      PROVE  /\ \A n \in 0 .. Len(ledger) : RunningTotal(ledger', p, c)[n] = RunningTotal(ledger, p, c)[n]
             /\ \A n \in 0 .. Len(d) :
                  RunningTotal(ledger', p, c)[Len(ledger) + n]
                    = LedgerTotal(ledger, p, c) + RunningTotal(d, p, c)[n]
             /\ LedgerTotal(ledger', p, c) = LedgerTotal(ledger, p, c) + LedgerTotal(d, p, c)
             /\ LedgerTotal(ledger, p, c) \in Int /\ LedgerTotal(d, p, c) \in Int
             /\ RunningTotal(d, p, c)[Len(d)] = LedgerTotal(d, p, c)
  <2>1. LedgerTotal(ledger, p, c) \in Int /\ LedgerTotal(d, p, c) \in Int
    BY <1>2, RunningTotalDef
  <2>2. ledger' = ledger \o d
    BY <1>1
  <2>3. RunningTotal(d, p, c)[Len(d)] = LedgerTotal(d, p, c)
    BY DEF LedgerTotal
  <2> HIDE DEF d
  <2>4. /\ \A n \in 0 .. Len(ledger) :
             RunningTotal(ledger \o d, p, c)[n] = RunningTotal(ledger, p, c)[n]
        /\ \A n \in 0 .. Len(d) :
             RunningTotal(ledger \o d, p, c)[Len(ledger) + n]
               = LedgerTotal(ledger, p, c) + RunningTotal(d, p, c)[n]
        /\ LedgerTotal(ledger \o d, p, c) = LedgerTotal(ledger, p, c) + LedgerTotal(d, p, c)
    BY <1>2, RunningConcat
  <2> QED
    BY <2>1, <2>2, <2>3, <2>4
<1> HIDE DEF d
<1>8. \A p \in Players, c \in Columns : holder[p] # w => LedgerTotal(d, p, c) = 0
  <2> SUFFICES ASSUME NEW p \in Players, NEW c \in Columns, holder[p] # w
               PROVE  LedgerTotal(d, p, c) = 0
    OBVIOUS
  <2>1. RunningTotal(d, p, c)[Len(d)] = 0
    BY <1>2 DEF Protocol, RowsFollowDraft, d
  <2> QED
    BY <1>7, <2>1
<1>9. ASSUME Funds PROVE CachedIsLedgerSum'
  <2> SUFFICES ASSUME NEW p \in Players, NEW c \in Columns
               PROVE  cached'[p][c] = LedgerTotal(ledger', p, c)
    BY DEF CachedIsLedgerSum
  <2>1. cached[p][c] = LedgerTotal(ledger, p, c)
    BY <1>9 DEF Funds, CachedIsLedgerSum
  <2>2. CASE holder[p] = w
    <3>1. rows[w][p][c] = cached[p][c] + LedgerTotal(d, p, c)
      BY <2>2 DEF Protocol, RowsFollowDraft, d
    <3> QED
      BY <1>1, <1>7, <2>1, <2>2, <3>1
  <2>3. CASE holder[p] # w
    BY <1>1, <1>7, <1>8, <2>1, <2>3
  <2> QED
    BY <2>2, <2>3
<1>10. EachKeyOnce'
  <2>1. \A i \in 1 .. Len(ledger), j \in 1 .. Len(d) : ledger[i].key # d[j].key
    <3>1. \A j \in 1 .. Len(d) : d[j].key \notin KeysOf(ledger)
      BY <1>2 DEF Protocol, DraftsAreNew, d
    <3>2. \A i \in 1 .. Len(ledger) : ledger[i].key \in KeysOf(ledger)
      BY <1>2 DEF KeysOf
    <3> QED
      BY <3>1, <3>2
  <2>2. \A i, j \in 1 .. Len(ledger) : ledger[i].key = ledger[j].key => i = j
    BY <1>2 DEF Protocol, EachKeyOnce
  <2>3. \A i, j \in 1 .. Len(d) : d[i].key = d[j].key => i = j
    BY <1>2 DEF Protocol, DraftsAreNew, d
  <2>4. \A i \in DOMAIN ledger' :
          \/ i \in 1 .. Len(ledger) /\ ledger'[i] = ledger[i]
          \/ \E k \in 1 .. Len(d) : i = Len(ledger) + k /\ ledger'[i] = d[k]
    <3> SUFFICES ASSUME NEW i \in DOMAIN ledger', i \notin 1 .. Len(ledger)
                 PROVE  \E k \in 1 .. Len(d) : i = Len(ledger) + k /\ ledger'[i] = d[k]
      BY <1>3
    <3>1. i - Len(ledger) \in 1 .. Len(d) /\ i = Len(ledger) + (i - Len(ledger))
      BY <1>2, <1>3
    <3> QED
      BY <1>3, <3>1
  <2> SUFFICES ASSUME NEW i \in DOMAIN ledger', NEW j \in DOMAIN ledger',
                      ledger'[i].key = ledger'[j].key
               PROVE  i = j
    BY DEF EachKeyOnce
  <2>5. CASE i \in 1 .. Len(ledger) /\ ledger'[i] = ledger[i]
    <3>1. ~(\E k \in 1 .. Len(d) : j = Len(ledger) + k /\ ledger'[j] = d[k])
      BY <2>1, <2>5
    <3> QED
      BY <2>2, <2>4, <2>5, <3>1
  <2>6. CASE \E k \in 1 .. Len(d) : i = Len(ledger) + k /\ ledger'[i] = d[k]
    <3>1. ~(j \in 1 .. Len(ledger) /\ ledger'[j] = ledger[j])
      BY <2>1, <2>6
    <3>2. \E k \in 1 .. Len(d) : j = Len(ledger) + k /\ ledger'[j] = d[k]
      BY <2>4, <3>1
    <3> QED
      BY <2>3, <2>6, <3>2
  <2> QED
    BY <2>4, <2>5, <2>6
<1>11. ASSUME Funds PROVE NeverOverdrawn'
  <2> SUFFICES ASSUME NEW p \in Players, NEW b \in Buckets, NEW n \in 0 .. Len(ledger')
               PROVE  RunningTotal(ledger', p, b)[n] >= 0
    BY DEF NeverOverdrawn
  <2>1. b \in Columns
    BY DEF Columns
  <2>2. CASE n <= Len(ledger)
    <3>1. n \in 0 .. Len(ledger)
      BY <1>2, <2>2
    <3> QED
      BY <1>7, <1>11, <2>1, <3>1 DEF Funds, NeverOverdrawn
  <2>3. CASE n > Len(ledger)
    <3>1. n - Len(ledger) \in 0 .. Len(d) /\ Len(ledger) + (n - Len(ledger)) = n
      BY <1>2, <1>3, <2>3
    <3>2. LedgerTotal(ledger, p, b) + RunningTotal(d, p, b)[n - Len(ledger)] >= 0
      BY <1>11, <3>1 DEF Funds, DraftNeverOverdrawn, d
    <3>3. RunningTotal(ledger', p, b)[Len(ledger) + (n - Len(ledger))]
            = LedgerTotal(ledger, p, b) + RunningTotal(d, p, b)[n - Len(ledger)]
      BY <1>7, <2>1, <3>1
    <3> QED
      BY <3>1, <3>2, <3>3
  <2> QED
    BY <1>2, <1>3, <2>2, <2>3
<1>12. DraftsAreNew'
  <2>1. ASSUME NEW v \in Workers, NEW n \in DOMAIN draft'[v]
        PROVE  /\ v # w
               /\ \E i \in 1 .. Done(v)' : draft'[v][n] = job'[v][i]
               /\ draft'[v][n].key \notin KeysOf(ledger')
    <3>1. v # w
      BY <1>6
    <3>2. draft[v][n].key \notin KeysOf(ledger) /\ draft[v][n].key \notin KeysOf(d)
      BY <1>5, <3>1 DEF Protocol, DraftsAreNew, KeysOf, d
    <3>3. \E i \in 1 .. Done(v)' : draft'[v][n] = job'[v][i]
      BY <1>5, <3>1 DEF Protocol, DraftsAreNew
    <3> QED
      BY <1>4, <1>5, <3>1, <3>2, <3>3
  <2>2. ASSUME NEW v \in Workers, NEW m \in DOMAIN draft'[v], NEW n \in DOMAIN draft'[v],
               draft'[v][m].key = draft'[v][n].key
        PROVE  m = n
    <3>1. v # w
      BY <1>6
    <3> QED
      BY <1>5, <3>1, <2>2 DEF Protocol, DraftsAreNew
  <2>3. ASSUME NEW u \in Workers, NEW v \in Workers,
               NEW m \in DOMAIN draft'[u], NEW n \in DOMAIN draft'[v],
               draft'[u][m].key = draft'[v][n].key
        PROVE  u = v
    <3>1. u # w /\ v # w
      BY <1>6
    <3> QED
      BY <1>5, <3>1, <2>3 DEF Protocol, DraftsAreNew
  <2> QED
    BY <2>1, <2>2, <2>3 DEF DraftsAreNew
<1>13. DealtWith'
  <2> SUFFICES ASSUME NEW v \in Workers
               PROVE  /\ Len(draft'[v]) <= Done(v)'
                      /\ \A i \in 1 .. Done(v)' :
                           job'[v][i].key \in KeysOf(ledger') \cup KeysOf(draft'[v])
    BY DEF DealtWith
  <2>1. CASE v = w
    BY <1>5, <1>6, <2>1
  <2>2. CASE v # w
    BY <1>4, <1>5, <2>2 DEF Protocol, DealtWith
  <2> QED
    BY <2>1, <2>2
<1>14. Secured'
  BY <1>1, EndKeepsSecured
<1>15. RowsFollowDraft'
  <2> SUFFICES ASSUME NEW v \in Workers, NEW p \in Players, NEW c \in Columns
               PROVE  IF holder'[p] = v
                      THEN rows'[v][p][c] = cached'[p][c] + LedgerTotal(draft'[v], p, c)
                      ELSE \A n \in 0 .. Len(draft'[v]) : RunningTotal(draft'[v], p, c)[n] = 0
    BY DEF RowsFollowDraft
  <2>1. CASE v = w
    <3>1. RunningTotal(draft'[w], p, c)[0] = 0
      BY <1>5, EmptyTotal
    <3> QED
      BY <1>5, <1>6, <2>1, <3>1
  <2>2. CASE v # w
    <3>1. holder[p] = v => cached'[p] = cached[p]
      BY <1>1, <2>2
    <3> QED
      BY <1>5, <2>2, <3>1 DEF Protocol, RowsFollowDraft
  <2> QED
    BY <2>1, <2>2
<1>16. ASSUME Funds PROVE DraftNeverOverdrawn'
  <2> SUFFICES ASSUME NEW v \in Workers, NEW p \in Players, NEW b \in Buckets,
                      NEW n \in 0 .. Len(draft'[v])
               PROVE  LedgerTotal(ledger', p, b) + RunningTotal(draft'[v], p, b)[n] >= 0
    BY DEF DraftNeverOverdrawn
  <2>1. b \in Columns
    BY DEF Columns
  <2>2. LedgerTotal(ledger', p, b) >= 0 /\ LedgerTotal(ledger', p, b) \in Int
    <3>1. Len(ledger') \in 0 .. Len(ledger')
      BY <1>2, <1>3
    <3>2. LedgerTotal(ledger', p, b) >= 0
      BY <1>11, <1>16, <3>1 DEF NeverOverdrawn, LedgerTotal
    <3> QED
      BY <1>7, <2>1, <3>2
  <2>3. CASE v = w
    <3>1. n = 0 /\ RunningTotal(draft'[w], p, b)[0] = 0
      BY <1>5, <1>6, <2>3, EmptyTotal
    <3> QED
      BY <2>2, <2>3, <3>1
  <2>4. CASE v # w /\ holder[p] = v
    <3>1. LedgerTotal(ledger', p, b) = LedgerTotal(ledger, p, b)
      BY <1>7, <1>8, <2>1, <2>4
    <3> QED
      BY <1>5, <1>16, <2>4, <3>1 DEF Funds, DraftNeverOverdrawn
  <2>5. CASE v # w /\ holder[p] # v
    <3>1. RunningTotal(draft[v], p, b)[n] = 0
      BY <1>5, <2>1, <2>5 DEF Protocol, RowsFollowDraft
    <3> QED
      BY <1>5, <2>2, <2>5, <3>1
  <2> QED
    BY <2>3, <2>4, <2>5
<1> QED
  BY <1>9, <1>10, <1>11, <1>12, <1>13, <1>14, <1>15, <1>16 DEF Protocol, Funds

-----------------------------------------------------------------------------
(* The invariant is inductive.                                             *)

\* Nothing is posted at first.
LEMMA InitInv ==
  Init => Inv
<1> SUFFICES ASSUME Init PROVE Inv
  OBVIOUS
<1>1. /\ ledger = <<>> /\ Len(ledger) = 0 /\ DOMAIN ledger = {} /\ ledger \in Seq(Entry)
      /\ \A w \in Workers : /\ draft[w] = <<>> /\ Len(draft[w]) = 0 /\ DOMAIN draft[w] = {}
                            /\ step[w] = "idle" /\ leg[w] = 1 /\ job[w] = NoOp
      /\ \A p \in Players : holder[p] \notin Workers /\ cached[p] = ZeroRow
  BY OpsAssumption DEF Init
<1>2. \A p, c : RunningTotal(<<>>, p, c)[0] = 0 /\ LedgerTotal(<<>>, p, c) = 0
  BY EmptyTotal
<1>3. TypeOK
  <2>1. ZeroRow \in [Columns -> Int]
    BY DEF ZeroRow
  <2>2. draft \in [Workers -> Seq(Entry)]
    BY DEF Init
  <2>3. cached \in [Players -> [Columns -> Int]] /\ rows \in [Workers -> [Players -> [Columns -> Int]]]
    BY <2>1 DEF Init
  <2> QED
    BY <1>1, <2>2, <2>3 DEF TypeOK, Init, Steps
<1>4. \A w \in Workers : Done(w) = 0
  BY <1>1 DEF Done
<1>5. CachedIsLedgerSum
  BY <1>1, <1>2 DEF CachedIsLedgerSum, ZeroRow
<1>6. EachKeyOnce /\ DraftsAreNew
  BY <1>1 DEF EachKeyOnce, DraftsAreNew
<1>7. NeverOverdrawn
  BY <1>1, <1>2 DEF NeverOverdrawn
<1>8. DealtWith
  BY <1>1, <1>4 DEF DealtWith
<1>9. Secured
  BY <1>1 DEF Secured
<1>10. RowsFollowDraft
  BY <1>1, <1>2 DEF RowsFollowDraft
<1>11. DraftNeverOverdrawn
  BY <1>1, <1>2 DEF DraftNeverOverdrawn
<1> QED
  BY <1>3, <1>5, <1>6, <1>7, <1>8, <1>9, <1>10, <1>11
  DEF Inv, Protocol, Funds

\* Every step of a worker keeps the protocol, and the funds if they were right.
LEMMA StepKeeps ==
  ASSUME Protocol, [Next]_vars
  PROVE  Protocol' /\ (Funds => Funds')
<1>1. TypeOK'
  BY TypeStep DEF Protocol
<1>2. CASE UNCHANGED vars
  <2>1. MoneyUntouched
    BY <1>2 DEF vars, MoneyUntouched
  <2>2. DraftsAreNew' /\ DealtWith' /\ Secured'
    <3>1. DraftsAreNew'
      BY <1>2 DEF vars, Protocol, DraftsAreNew, Done
    <3>2. DealtWith'
      BY <1>2 DEF vars, Protocol, DealtWith, Done
    <3>3. Secured'
      BY <1>2 DEF vars, Protocol, Secured, Affordable, Current
    <3> QED
      BY <3>1, <3>2, <3>3
  <2> QED
    BY <1>1, <2>1, <2>2, MoneyStays DEF Protocol
<1>3. ASSUME NEW w \in Workers, Rollback(w)
      PROVE  Protocol' /\ (Funds => Funds')
  BY <1>1, <1>3, RollbackKeepsInv
<1>4. ASSUME NEW w \in Workers, NEW op \in Ops, Start(w, op)
      PROVE  Protocol' /\ (Funds => Funds')
  <2>1. \A v \in Workers \ {w} : job'[v] = job[v]
    BY <1>4 DEF Start, Protocol, TypeOK
  <2>2. step[w] = "idle" /\ step' = [step EXCEPT ![w] = "lookup"] /\ leg' = leg /\ MoneyUntouched
    BY <1>4 DEF Start, MoneyUntouched
  <2> QED
    BY <1>1, <2>1, <2>2, GoOnKeepsInv
<1>5. ASSUME NEW w \in Workers, Lookup(w)
      PROVE  Protocol' /\ (Funds => Funds')
  <2>1. step[w] = "lookup" /\ job' = job /\ MoneyUntouched
    BY <1>5 DEF Lookup, MoneyUntouched
  <2>2. CASE Current(w).key \in Visible(w)
    <3>1. NextLeg(w)
      BY <1>5, <2>2 DEF Lookup
    <3> QED
      BY <1>1, <2>1, <2>2, <3>1, ReplayKeepsInv
  <2>3. CASE Current(w).key \notin Visible(w)
    <3>1. leg' = leg /\ step' = [step EXCEPT ![w] = "lock"]
      BY <1>5, <2>3 DEF Lookup
    <3> QED
      BY <1>1, <2>1, <3>1, GoOnKeepsInv
  <2> QED
    BY <2>2, <2>3
<1>6. ASSUME NEW w \in Workers, Lock(w)
      PROVE  Protocol' /\ (Funds => Funds')
  BY <1>1, <1>6, LockKeepsInv
<1>7. ASSUME NEW w \in Workers, Check(w)
      PROVE  Protocol' /\ (Funds => Funds')
  <2>1. CASE Rollback(w)
    BY <1>3, <2>1
  <2>2. CASE /\ Current(w).key \in Visible(w)
             /\ NextLeg(w)
             /\ UNCHANGED <<ledger, cached, holder, job, draft, rows>>
    <3>1. step[w] = "check" /\ job' = job /\ MoneyUntouched
      BY <1>7, <2>2 DEF Check, MoneyUntouched
    <3> QED
      BY <1>1, <2>2, <3>1, ReplayKeepsInv
  <2>3. CASE /\ Affordable(w)
             /\ step' = [step EXCEPT ![w] = "insert"]
             /\ UNCHANGED <<ledger, cached, holder, job, leg, draft, rows>>
    <3>1. step[w] = "check" /\ job' = job /\ leg' = leg /\ MoneyUntouched
      BY <1>7, <2>3 DEF Check, MoneyUntouched
    <3> QED
      BY <1>1, <2>3, <3>1, GoOnKeepsInv
  <2> QED
    BY <1>7, <2>1, <2>2, <2>3 DEF Check
<1>8. ASSUME NEW w \in Workers, Insert(w)
      PROVE  Protocol' /\ (Funds => Funds')
  <2>1. Inserted(w) \/ Rollback(w)
    BY <1>8 DEF Insert, Inserted
  <2> QED
    BY <1>1, <1>3, <2>1, InsertKeepsInv
<1>9. ASSUME NEW w \in Workers, Commit(w)
      PROVE  Protocol' /\ (Funds => Funds')
  BY <1>1, <1>9, CommitKeepsInv
<1> QED
  BY <1>2, <1>3, <1>4, <1>5, <1>6, <1>7, <1>8, <1>9
  DEF Next, Work, Crash, DeadlockAbort

\* Every step of a worker keeps the invariant.
LEMMA NextInv ==
  Inv /\ [Next]_vars => Inv'
  BY StepKeeps DEF Inv

\* The rows, the locks and the drafts stay as the invariant says.
THEOREM Invariance ==
  Spec => []Inv
  BY InitInv, NextInv, PTL DEF Spec

(* Type correctness of post_entry's workers, for all constants.            *)
THEOREM TypeCorrect ==
  Spec => []TypeOK
<1>1. Inv => TypeOK
  BY DEF Inv, Protocol, Funds
<1> QED
  BY <1>1, Invariance, PTL

(* wallet/models/wallet.py's promise: the cached balances are the ledger's *)
(* sums, whatever concurrent post_entry calls, crashes and aborts happen.  *)
THEOREM CachedBalancesAgree ==
  Spec => []CachedIsLedgerSum
<1>1. Inv => CachedIsLedgerSum
  BY DEF Inv, Protocol, Funds
<1> QED
  BY <1>1, Invariance, PTL

(* No idempotency key is posted twice, on any wallet, by any retries.      *)
THEOREM KeysPostedOnce ==
  Spec => []EachKeyOnce
<1>1. Inv => EachKeyOnce
  BY DEF Inv, Protocol, Funds
<1> QED
  BY <1>1, Invariance, PTL

(* No debit ever takes a bucket below zero at any point of the ledger.     *)
THEOREM FundsSuffice ==
  Spec => []NeverOverdrawn
<1>1. Inv => NeverOverdrawn
  BY DEF Inv, Protocol, Funds
<1> QED
  BY <1>1, Invariance, PTL

-----------------------------------------------------------------------------
(* Wallet implements Accounts.                                             *)

(* A commit posts exactly the entries of the operation nobody posted yet.  *)
LEMMA CommitIsExecute ==
  ASSUME Inv, Inv', NEW w \in Workers, Commit(w)
  PROVE  A!Execute(job[w]) /\ job[w] \in Ops
<1> DEFINE d == draft[w]
           op == job[w]
           todo == {e \in {op[i] : i \in DOMAIN op} : e.key \notin KeysOf(ledger)}
<1>1. /\ step[w] = "commit" /\ op \in Ops /\ op \in Seq(Entry) /\ Done(w) = Len(op)
      /\ DOMAIN op = 1 .. Len(op) /\ Len(op) \in Nat
  BY CurrentIsEntry DEF Inv, Protocol, Commit, Done
<1>2. d \in Seq(Entry) /\ Len(d) \in Nat /\ DOMAIN d = 1 .. Len(d) /\ d = [n \in 1 .. Len(d) |-> d[n]]
  BY DEF Inv, Protocol, Funds, TypeOK
<1>3. Len(d) \in 0 .. Len(op)
  BY <1>1, <1>2 DEF Inv, Protocol, Funds, DealtWith
<1>4. ASSUME NEW n \in 1 .. Len(d)
      PROVE  d[n] \in todo
  <2>1. PICK i \in 1 .. Done(w) : d[n] = op[i]
    BY <1>2 DEF Inv, Protocol, Funds, DraftsAreNew
  <2>2. i \in DOMAIN op
    BY <1>1
  <2>3. d[n].key \notin KeysOf(ledger)
    BY <1>2 DEF Inv, Protocol, Funds, DraftsAreNew
  <2> QED
    BY <2>1, <2>2, <2>3
<1>5. \A e \in todo : \E n \in 1 .. Len(d) : d[n] = e
  <2> SUFFICES ASSUME NEW i \in DOMAIN op, op[i].key \notin KeysOf(ledger)
               PROVE  \E n \in 1 .. Len(d) : d[n] = op[i]
    OBVIOUS
  <2>1. op[i].key \in KeysOf(d)
    BY <1>1 DEF Inv, Protocol, Funds, DealtWith
  <2>2. PICK n \in 1 .. Len(d) : d[n].key = op[i].key
    BY <1>2, <2>1 DEF KeysOf
  <2>3. PICK j \in DOMAIN op : d[n] = op[j]
    <3>1. PICK j \in 1 .. Done(w) : d[n] = op[j]
      BY <1>2 DEF Inv, Protocol, Funds, DraftsAreNew
    <3> QED
      BY <1>1, <3>1
  <2>4. i = j
    BY <1>1, <2>2, <2>3, OpsAssumption
  <2> QED
    BY <2>3, <2>4
<1>6. \A m, n \in 1 .. Len(d) : d[m] = d[n] => m = n
  BY <1>2 DEF Inv, Protocol, Funds, DraftsAreNew
<1>7. A!Unposted(op) = todo
  BY DEF A!Unposted, A!KeysOf, KeysOf
<1>8. d \in A!Listings(todo, Len(d))
  <2>1. d \in [1 .. Len(d) -> todo]
    BY <1>2, <1>4
  <2> QED
    BY <2>1, <1>5, <1>6 DEF A!Listings
<1>9. ledger' = ledger \o d
  BY DEF Commit
<1>10. \A p \in Players, b \in Buckets : LedgerTotal(ledger', p, b) >= 0
  BY DEF Inv, Protocol, Funds, TypeOK, NeverOverdrawn, LedgerTotal
<1>11. \A p \in Players, b \in Buckets : A!LedgerTotal(ledger', p, b) >= 0
  <2>1. ASSUME NEW l, NEW p, NEW c
        PROVE  A!LedgerTotal(l, p, c) = LedgerTotal(l, p, c)
    BY DEF A!LedgerTotal, A!RunningTotal, A!Share, LedgerTotal, RunningTotal, Share
  <2> QED
    BY <1>10, <2>1
<1> QED
  BY <1>1, <1>3, <1>7, <1>8, <1>9, <1>11 DEF A!Execute, A!Buckets, Buckets

\* A commit is one step of the accounts; all other steps leave them alone.
LEMMA StepImplementsAccounts ==
  Inv /\ Inv' /\ [Next]_vars => [A!Next]_ledger
<1> SUFFICES ASSUME Inv, Inv', [Next]_vars PROVE [A!Next]_ledger
  OBVIOUS
<1>1. ASSUME NEW w \in Workers, Commit(w)
      PROVE  A!Next
  BY <1>1, CommitIsExecute DEF A!Next
<1>2. ASSUME NEW w \in Workers, Work(w), ~Commit(w)
      PROVE  ledger' = ledger
  BY <1>2 DEF Work, Start, Lookup, Lock, Check, Insert, Crash, DeadlockAbort, Rollback
<1>3. CASE UNCHANGED vars
  BY <1>3 DEF vars
<1> QED
  BY <1>1, <1>2, <1>3 DEF Next

(* Concurrent transactions of post_entry calls behave as if each ran alone *)
(* in one step: an operation posts all its missing entries, or nothing.    *)
THEOREM WalletImplementsAccounts ==
  Spec => ImplementsAccounts
<1>1. Init => A!Init
  BY DEF Init, A!Init
<1> QED
  BY <1>1, StepImplementsAccounts, Invariance, PTL DEF Spec, ImplementsAccounts, A!Spec

-----------------------------------------------------------------------------
(* The reconciliation pass beside the workers.  It may break Funds, which  *)
(* is why the workers' own part of the invariant was kept apart from it.   *)

\* The sums the pass is about to save were the ledger's at some time.
SumsWereRight ==
  target # Nobody =>
    \E n \in 0 .. Len(ledger) : \A c \in Columns :
      sums[c] = RunningTotal(ledger, target, c)[n]

RecoveryInv == Protocol /\ RecoveryTypeOK /\ SumsWereRight /\ RowsMissOneStretch

(* A worker's step only lengthens the ledger, and moves every wallet row   *)
(* by what it adds to the totals, whether the row was right before or not. *)
LEMMA WorkMovesRowsWithLedger ==
  ASSUME Protocol, [Next]_vars, NEW p \in Players, NEW c \in Columns
  PROVE  /\ Len(ledger) \in Nat /\ Len(ledger') \in Nat /\ Len(ledger) <= Len(ledger')
         /\ \A n \in 0 .. Len(ledger) :
              RunningTotal(ledger', p, c)[n] = RunningTotal(ledger, p, c)[n]
         /\ LedgerTotal(ledger', p, c) - LedgerTotal(ledger, p, c) = cached'[p][c] - cached[p][c]
<1>1. ledger \in Seq(Entry) /\ Len(ledger) \in Nat
  BY DEF Protocol, TypeOK
<1>2. cached[p][c] \in Int /\ LedgerTotal(ledger, p, c) \in Int
  BY <1>1, RunningTotalDef DEF Protocol, TypeOK
<1>3. CASE ledger' = ledger /\ cached' = cached
  BY <1>1, <1>2, <1>3
<1>4. ASSUME NEW w \in Workers, Commit(w)
      PROVE  /\ Len(ledger') \in Nat /\ Len(ledger) <= Len(ledger')
             /\ \A n \in 0 .. Len(ledger) :
                  RunningTotal(ledger', p, c)[n] = RunningTotal(ledger, p, c)[n]
             /\ LedgerTotal(ledger', p, c) - LedgerTotal(ledger, p, c)
                  = cached'[p][c] - cached[p][c]
  <2> DEFINE d == draft[w]
  <2>1. /\ ledger' = ledger \o d
        /\ cached'[p] = IF holder[p] = w THEN rows[w][p] ELSE cached[p]
    BY <1>4 DEF Commit
  <2>2. d \in Seq(Entry) /\ Len(d) \in Nat
    BY DEF Protocol, TypeOK
  <2> HIDE DEF d
  <2>3. LedgerTotal(d, p, c) \in Int
    BY <2>2, RunningTotalDef
  <2>4. /\ Len(ledger \o d) = Len(ledger) + Len(d)
        /\ \A n \in 0 .. Len(ledger) :
             RunningTotal(ledger \o d, p, c)[n] = RunningTotal(ledger, p, c)[n]
        /\ LedgerTotal(ledger \o d, p, c) = LedgerTotal(ledger, p, c) + LedgerTotal(d, p, c)
    BY <1>1, <2>2, RunningConcat
  <2>5. cached'[p][c] = cached[p][c] + LedgerTotal(d, p, c)
    <3>1. CASE holder[p] = w
      BY <2>1, <3>1 DEF Protocol, RowsFollowDraft, d
    <3>2. CASE holder[p] # w
      <4>1. LedgerTotal(d, p, c) = 0
        BY <2>2, <3>2 DEF Protocol, RowsFollowDraft, LedgerTotal, d
      <4> QED
        BY <1>2, <2>1, <3>2, <4>1
    <3> QED
      BY <3>1, <3>2
  <2> QED
    BY <1>1, <1>2, <2>1, <2>2, <2>3, <2>4, <2>5
<1>5. ASSUME NEW w \in Workers, Work(w), ~Commit(w)
      PROVE  ledger' = ledger /\ cached' = cached
  BY <1>5 DEF Work, Start, Lookup, Lock, Check, Insert, Crash, DeadlockAbort, Rollback
<1> QED
  BY <1>1, <1>3, <1>4, <1>5 DEF Next, vars

(* A worker's step keeps the stretch a row misses, and the history the     *)
(* pass took its sums from.                                                *)
LEMMA WorkKeepsRecovery ==
  ASSUME RecoveryInv, [Next]_vars, UNCHANGED recoveryVars
  PROVE  RecoveryInv'
<1>1. Protocol' /\ RecoveryTypeOK'
  BY StepKeeps DEF RecoveryInv, RecoveryTypeOK, recoveryVars
<1>2. SumsWereRight'
  <2> SUFFICES ASSUME target # Nobody
               PROVE  \E n \in 0 .. Len(ledger') : \A c \in Columns :
                        sums[c] = RunningTotal(ledger', target, c)[n]
    BY DEF SumsWereRight, recoveryVars
  <2>1. target \in Players
    BY DEF RecoveryInv, RecoveryTypeOK
  <2>2. PICK n \in 0 .. Len(ledger) : \A c \in Columns :
               sums[c] = RunningTotal(ledger, target, c)[n]
    BY DEF RecoveryInv, SumsWereRight
  <2>3. \A c \in Columns : sums[c] = RunningTotal(ledger', target, c)[n]
    BY <2>1, <2>2, WorkMovesRowsWithLedger DEF RecoveryInv
  <2>4. n \in 0 .. Len(ledger')
    <3>1. "balance" \in Columns
      BY DEF Columns
    <3> QED
      BY <2>1, <3>1, WorkMovesRowsWithLedger DEF RecoveryInv
  <2> QED
    BY <2>3, <2>4
<1>3. RowsMissOneStretch'
  <2> SUFFICES ASSUME NEW p \in Players
               PROVE  \E m \in 0 .. Len(ledger') : \E n \in 0 .. m : \A c \in Columns :
                        cached'[p][c] = LedgerTotal(ledger', p, c)
                          - (RunningTotal(ledger', p, c)[m] - RunningTotal(ledger', p, c)[n])
    BY DEF RowsMissOneStretch
  <2>1. PICK m \in 0 .. Len(ledger) : \E n \in 0 .. m : \A c \in Columns :
               cached[p][c] = LedgerTotal(ledger, p, c)
                 - (RunningTotal(ledger, p, c)[m] - RunningTotal(ledger, p, c)[n])
    BY DEF RecoveryInv, RowsMissOneStretch
  <2>2. PICK n \in 0 .. m : \A c \in Columns :
               cached[p][c] = LedgerTotal(ledger, p, c)
                 - (RunningTotal(ledger, p, c)[m] - RunningTotal(ledger, p, c)[n])
    BY <2>1
  <2>3. Len(ledger) \in Nat /\ Len(ledger') \in Nat /\ Len(ledger) <= Len(ledger')
    <3>1. "balance" \in Columns
      BY DEF Columns
    <3> QED
      BY <3>1, WorkMovesRowsWithLedger DEF RecoveryInv
  <2>4. m \in 0 .. Len(ledger') /\ n \in 0 .. Len(ledger)
    BY <2>3
  <2>5. ASSUME NEW c \in Columns
        PROVE  cached'[p][c] = LedgerTotal(ledger', p, c)
                 - (RunningTotal(ledger', p, c)[m] - RunningTotal(ledger', p, c)[n])
    <3>1. /\ RunningTotal(ledger', p, c)[m] = RunningTotal(ledger, p, c)[m]
          /\ RunningTotal(ledger', p, c)[n] = RunningTotal(ledger, p, c)[n]
          /\ LedgerTotal(ledger', p, c) - LedgerTotal(ledger, p, c) = cached'[p][c] - cached[p][c]
      BY <2>4, WorkMovesRowsWithLedger DEF RecoveryInv
    <3>2. /\ ledger \in Seq(Entry) /\ ledger' \in Seq(Entry)
          /\ cached[p][c] \in Int /\ cached'[p][c] \in Int
      BY <1>1 DEF RecoveryInv, Protocol, TypeOK
    <3>3. LedgerTotal(ledger, p, c) \in Int /\ LedgerTotal(ledger', p, c) \in Int
      BY <3>2, RunningTotalDef
    <3>4. RunningTotal(ledger, p, c)[m] \in Int /\ RunningTotal(ledger, p, c)[n] \in Int
      <4>1. RunningTotal(ledger, p, c) \in [0 .. Len(ledger) -> Int]
        BY <3>2, RunningTotalDef
      <4> QED
        BY <2>4, <4>1
    <3>5. cached[p][c] = LedgerTotal(ledger, p, c)
            - (RunningTotal(ledger, p, c)[m] - RunningTotal(ledger, p, c)[n])
      BY <2>2
    <3> DEFINE old == cached[p][c]
               new == cached'[p][c]
               before == LedgerTotal(ledger, p, c)
               after == LedgerTotal(ledger', p, c)
               upto == RunningTotal(ledger, p, c)[m]
               from == RunningTotal(ledger, p, c)[n]
    <3>6. /\ old \in Int /\ new \in Int /\ before \in Int /\ after \in Int
          /\ upto \in Int /\ from \in Int
          /\ old = before - (upto - from) /\ after - before = new - old
      BY <3>1, <3>2, <3>3, <3>4, <3>5
    <3>7. new = after - (RunningTotal(ledger', p, c)[m] - RunningTotal(ledger', p, c)[n])
            <=> new = after - (upto - from)
      BY <3>1
    <3> HIDE DEF old, new, before, after, upto, from
    <3>8. new = after - (upto - from)
      BY <3>6
    <3> QED
      BY <3>7, <3>8 DEF new, after
  <2> QED
    BY <2>4, <2>5
<1> QED
  BY <1>1, <1>2, <1>3 DEF RecoveryInv


(* Comparing takes the ledger's sums as they are, if it takes any.         *)
LEMMA CompareKeepsRecovery ==
  ASSUME RecoveryInv, NEW p \in Players, Compare(p)
  PROVE  SumsWereRight' /\ RecoveryTypeOK'
<1> DEFINE authoritative == [c \in Columns |-> LedgerTotal(ledger, p, c)]
<1>1. \/ target' = target /\ sums' = sums
      \/ target' = p /\ sums' = authoritative
  BY DEF Compare
<1>2. target = Nobody /\ ledger' = ledger
  BY DEF Compare, vars
<1>3. ledger \in Seq(Entry) /\ Len(ledger) \in Nat
  BY DEF RecoveryInv, Protocol, TypeOK
<1>4. authoritative \in [Columns -> Int]
  BY <1>3, RunningTotalDef
<1>5. RecoveryTypeOK'
  BY <1>1, <1>4 DEF RecoveryInv, RecoveryTypeOK, Compare
<1>6. SumsWereRight'
  <2>1. CASE target' = Nobody
    BY <2>1 DEF SumsWereRight
  <2>2. CASE target' = p /\ sums' = authoritative
    <3>1. \A c \in Columns : sums'[c] = RunningTotal(ledger, p, c)[Len(ledger)]
      BY <2>2 DEF LedgerTotal
    <3>2. Len(ledger) \in 0 .. Len(ledger)
      BY <1>3
    <3> QED
      BY <1>2, <2>2, <3>1, <3>2 DEF SumsWereRight
  <2> QED
    BY <1>1, <1>2, <2>1, <2>2
<1> QED
  BY <1>5, <1>6

(* What a repair saves misses the entries posted since the sums were taken *)
(* and nothing else, whatever the row missed before.                       *)
LEMMA RepairKeepsRecovery ==
  ASSUME RecoveryInv, Repair
  PROVE  RecoveryInv'
<1>1. /\ target \in Players /\ holder[target] = NoWorker
      /\ target' = Nobody /\ sums' = ZeroRow
      /\ ledger' = ledger /\ holder' = holder /\ job' = job /\ leg' = leg
      /\ step' = step /\ draft' = draft /\ rows' = rows
      /\ cached' = cached \/ cached' = [cached EXCEPT ![target] = sums]
  BY DEF Repair, RecoveryInv, RecoveryTypeOK
<1>2. RecoveryTypeOK' /\ SumsWereRight'
  BY <1>1 DEF RecoveryInv, RecoveryTypeOK, SumsWereRight, Repair, ZeroRow
<1>3. \A p \in Players \ {target} : cached'[p] = cached[p]
  BY <1>1 DEF RecoveryInv, Protocol, TypeOK
<1>4. Protocol'
  <2>1. TypeOK'
    <3>1. cached' \in [Players -> [Columns -> Int]]
      BY <1>1 DEF RecoveryInv, RecoveryTypeOK, Protocol, TypeOK
    <3> QED
      BY <1>1, <3>1 DEF RecoveryInv, Protocol, TypeOK
  <2>2. EachKeyOnce'
    BY <1>1 DEF RecoveryInv, Protocol, EachKeyOnce
  <2>3. DraftsAreNew' /\ DealtWith'
    BY <1>1 DEF RecoveryInv, Protocol, DraftsAreNew, DealtWith, Done
  <2>4. Secured'
    BY <1>1 DEF RecoveryInv, Protocol, Secured, Affordable, Current
  <2>5. RowsFollowDraft'
    <3> SUFFICES ASSUME NEW w \in Workers, NEW p \in Players, NEW c \in Columns
                 PROVE  IF holder[p] = w
                        THEN rows[w][p][c] = cached'[p][c] + LedgerTotal(draft[w], p, c)
                        ELSE \A n \in 0 .. Len(draft[w]) : RunningTotal(draft[w], p, c)[n] = 0
      BY <1>1 DEF RowsFollowDraft
    <3>1. holder[p] = w => cached'[p] = cached[p]
      BY <1>1, <1>3, OpsAssumption
    <3> QED
      BY <3>1 DEF RecoveryInv, Protocol, RowsFollowDraft
  <2> QED
    BY <2>1, <2>2, <2>3, <2>4, <2>5 DEF Protocol
<1>5. RowsMissOneStretch'
  <2>0. ledger' = ledger
    BY <1>1
  <2> SUFFICES ASSUME NEW p \in Players
               PROVE  \E m \in 0 .. Len(ledger) : \E n \in 0 .. m : \A c \in Columns :
                        cached'[p][c] = LedgerTotal(ledger, p, c)
                          - (RunningTotal(ledger, p, c)[m] - RunningTotal(ledger, p, c)[n])
    BY <2>0 DEF RowsMissOneStretch
  <2>1. CASE cached'[p] = cached[p]
    BY <2>1 DEF RecoveryInv, RowsMissOneStretch
  <2>2. CASE p = target /\ cached'[p] = sums
    <3>1. PICK n \in 0 .. Len(ledger) : \A c \in Columns :
                 sums[c] = RunningTotal(ledger, p, c)[n]
      BY <1>1, <2>2, NobodyAssumption DEF RecoveryInv, SumsWereRight
    <3>2. ledger \in Seq(Entry) /\ Len(ledger) \in Nat
      BY DEF RecoveryInv, Protocol, TypeOK
    <3>3. Len(ledger) \in 0 .. Len(ledger) /\ n \in 0 .. Len(ledger)
      BY <3>2
    <3>4. ASSUME NEW c \in Columns
          PROVE  cached'[p][c] = LedgerTotal(ledger, p, c)
                   - (RunningTotal(ledger, p, c)[Len(ledger)] - RunningTotal(ledger, p, c)[n])
      <4>1. RunningTotal(ledger, p, c) \in [0 .. Len(ledger) -> Int]
        BY <3>2, RunningTotalDef
      <4>2. RunningTotal(ledger, p, c)[n] \in Int /\ LedgerTotal(ledger, p, c) \in Int
        BY <3>2, <4>1, RunningTotalDef
      <4>3. RunningTotal(ledger, p, c)[Len(ledger)] = LedgerTotal(ledger, p, c)
        BY DEF LedgerTotal
      <4>4. cached'[p][c] = RunningTotal(ledger, p, c)[n]
        BY <2>2, <3>1
      <4> QED
        BY <4>2, <4>3, <4>4
    <3> QED
      BY <3>3, <3>4
  <2> QED
    BY <1>1, <1>3, <2>1, <2>2 DEF RecoveryInv, Protocol, TypeOK
<1> QED
  BY <1>2, <1>4, <1>5 DEF RecoveryInv

(* Every wallet row is complete at first.                                  *)
LEMMA InitRecovery ==
  RecoveryInit => RecoveryInv
<1> SUFFICES ASSUME RecoveryInit PROVE RecoveryInv
  OBVIOUS
<1>1. Inv /\ target = Nobody /\ sums = ZeroRow
  BY InitInv DEF RecoveryInit
<1>2. Protocol /\ CachedIsLedgerSum
  BY <1>1 DEF Inv, Funds
<1>3. RecoveryTypeOK /\ SumsWereRight
  BY <1>1, <1>2 DEF Protocol, TypeOK, RecoveryInit, RecoveryTypeOK, SumsWereRight, ZeroRow
<1>4. RowsMissOneStretch
  <2>1. ledger \in Seq(Entry)
    BY <1>2 DEF Protocol, TypeOK
  <2>2. 0 \in 0 .. Len(ledger) /\ 0 \in 0 .. 0
    BY <2>1
  <2> SUFFICES ASSUME NEW p \in Players, NEW c \in Columns
               PROVE  cached[p][c] = LedgerTotal(ledger, p, c)
                        - (RunningTotal(ledger, p, c)[0] - RunningTotal(ledger, p, c)[0])
    BY <2>2, Zenon DEF RowsMissOneStretch
  <2>3. cached[p][c] = LedgerTotal(ledger, p, c)
    BY <1>2 DEF CachedIsLedgerSum
  <2>4. RunningTotal(ledger, p, c)[0] = 0 /\ LedgerTotal(ledger, p, c) \in Int
    BY <2>1, RunningTotalDef
  <2> QED
    BY <2>3, <2>4
<1> QED
  BY <1>2, <1>3, <1>4 DEF RecoveryInv

\* Every step of a worker or of the pass keeps the invariant.
LEMMA NextRecovery ==
  RecoveryInv /\ [RecoveryNext]_allVars => RecoveryInv'
<1> SUFFICES ASSUME RecoveryInv, [RecoveryNext]_allVars PROVE RecoveryInv'
  OBVIOUS
<1>1. CASE [Next]_vars /\ UNCHANGED recoveryVars
  BY <1>1, WorkKeepsRecovery
<1>2. ASSUME UNCHANGED vars
      PROVE  Protocol' /\ RowsMissOneStretch'
  <2>1. Protocol'
    BY <1>2, StepKeeps DEF RecoveryInv
  <2>2. RowsMissOneStretch'
    BY <1>2 DEF vars, RecoveryInv, RowsMissOneStretch
  <2> QED
    BY <2>1, <2>2
<1>3. CASE BeginPass
  <2>1. UNCHANGED <<ledger, target, sums>> /\ UNCHANGED vars
    BY <1>3 DEF BeginPass, vars
  <2>2. SumsWereRight'
    BY <2>1 DEF RecoveryInv, SumsWereRight
  <2>3. RecoveryTypeOK'
    BY <1>3 DEF BeginPass, RecoveryInv, RecoveryTypeOK, Protocol, TypeOK
  <2> QED
    BY <1>2, <2>1, <2>2, <2>3 DEF RecoveryInv
<1>4. ASSUME NEW p \in Players, Compare(p)
      PROVE  RecoveryInv'
  <2>1. UNCHANGED vars
    BY <1>4 DEF Compare
  <2> QED
    BY <1>2, <1>4, <2>1, CompareKeepsRecovery DEF RecoveryInv
<1>5. CASE Repair
  BY <1>5, RepairKeepsRecovery
<1>6. CASE UNCHANGED allVars
  BY <1>1, <1>6 DEF allVars, vars, recoveryVars
<1> QED
  BY <1>1, <1>3, <1>4, <1>5, <1>6 DEF RecoveryNext, Manage

(* Beside the reconciliation pass the workers keep their protocol, and the *)
(* pass only ever saves what the ledger's sums once were.                  *)
THEOREM RecoveryInvariance ==
  RecoverySpec => []RecoveryInv
  BY InitRecovery, NextRecovery, PTL DEF RecoverySpec

(* Type correctness of the pass, and of the workers beside it.             *)
THEOREM RecoveryTypeCorrect ==
  RecoverySpec => [](TypeOK /\ RecoveryTypeOK)
<1>1. RecoveryInv => TypeOK /\ RecoveryTypeOK
  BY DEF RecoveryInv, Protocol
<1> QED
  BY <1>1, RecoveryInvariance, PTL

(* wallet/recovery.py against wallet/services.py: however passes and       *)
(* transactions interleave, a wallet row misses one unbroken stretch of    *)
(* the ledger at most; the next repair never adds to what is missing.      *)
THEOREM OneStretchMissing ==
  RecoverySpec => []RowsMissOneStretch
<1>1. RecoveryInv => RowsMissOneStretch
  BY DEF RecoveryInv
<1> QED
  BY <1>1, RecoveryInvariance, PTL

(* A row the pass has left wrong still lets no key be posted twice: the    *)
(* promise of idempotency_key does not rest on the cached balances.        *)
THEOREM KeysPostedOnceBesideThePass ==
  RecoverySpec => []EachKeyOnce
<1>1. RecoveryInv => EachKeyOnce
  BY DEF RecoveryInv, Protocol
<1> QED
  BY <1>1, RecoveryInvariance, PTL

Agrees(p) == \A c \in Columns : cached[p][c] = LedgerTotal(ledger, p, c)

DriftOnlyByRepair ==
  [][\A p \in Players : Agrees(p) /\ ~Agrees(p)' => target = p /\ Repair]_allVars

(* A wallet row that agrees with the ledger goes on doing so through every *)
(* transaction: only the pass, repairing that very wallet, parts them.     *)
THEOREM OnlyTheRepairParts ==
  RecoverySpec => DriftOnlyByRepair
<1>1. ASSUME RecoveryInv, [RecoveryNext]_allVars, NEW p \in Players, Agrees(p),
             ~(target = p /\ Repair)
      PROVE  Agrees(p)'
  <2>1. CASE [Next]_vars
    <3> SUFFICES ASSUME NEW c \in Columns
                 PROVE  cached'[p][c] = LedgerTotal(ledger', p, c)
      BY DEF Agrees
    <3>1. Protocol' /\ Protocol
      BY <1>1, <2>1, StepKeeps DEF RecoveryInv
    <3>2. /\ LedgerTotal(ledger', p, c) - LedgerTotal(ledger, p, c) = cached'[p][c] - cached[p][c]
          /\ cached[p][c] = LedgerTotal(ledger, p, c)
      BY <1>1, <2>1, <3>1, WorkMovesRowsWithLedger DEF Agrees
    <3>3. ledger \in Seq(Entry) /\ ledger' \in Seq(Entry) /\ cached'[p][c] \in Int
      BY <3>1 DEF Protocol, TypeOK
    <3>4. LedgerTotal(ledger, p, c) \in Int /\ LedgerTotal(ledger', p, c) \in Int
      BY <3>3, RunningTotalDef
    <3> QED
      BY <3>2, <3>3, <3>4
  <2>2. CASE Repair
    <3>1. ledger' = ledger /\ cached'[p] = cached[p]
      BY <1>1, <2>2 DEF Repair, RecoveryInv, Protocol, TypeOK
    <3> QED
      BY <1>1, <3>1 DEF Agrees
  <2> QED
    BY <1>1, <2>1, <2>2 DEF RecoveryNext, Manage, BeginPass, Compare, allVars, vars
<1>2. RecoveryInv /\ [RecoveryNext]_allVars
        => [\A p \in Players : Agrees(p) /\ ~Agrees(p)' => target = p /\ Repair]_allVars
  BY <1>1
<1> QED
  BY <1>2, RecoveryInvariance, PTL DEF RecoverySpec, DriftOnlyByRepair

=============================================================================
