-------------------------- MODULE Checkout_proofs --------------------------
(***************************************************************************)
(* What holds of deposits (Payments), and of the dialog that follows them  *)
(* (Checkout), for any deposits, whatever may become of their charges.     *)
(* Checkout is proved to implement Payments: what the player does at the   *)
(* dialog is something Payments allows, or nothing to it.  So the          *)
(* invariants of deposits are proved once, and hold under the dialog too.  *)
(***************************************************************************)
EXTENDS Checkout, TLAPS

-----------------------------------------------------------------------------
(* Deposits: the inductive invariant.                                      *)

\* What Paynow has said agrees with how far it was asked: nothing before it
\* was, and its present view is among its reports.
AskedBeforeTold ==
  \A t \in Deposits :
    /\ start[t] = "idle" <=> status[t] = "none"
    /\ start[t] \in {"idle", "created"} => charge[t] = "none"
    /\ charge[t] = "none" => said[t] = {}
    /\ charge[t] # "none" => charge[t] \in said[t]
    /\ start[t] = "started" \/ pollable[t] => charge[t] # "none"

DepositInv == TypeOK /\ AskedBeforeTold /\ CreditIsBacked /\ PaidMatchesCredit

(* What a report makes of a transaction is a status it may have, and it is *)
(* credited only if the report says paid.                                  *)
LEMMA OutcomeType ==
  ASSUME NEW report \in Reports
  PROVE  /\ Outcome(report) \in {"pending"} \cup Final
         /\ Outcome(report) = "paid" <=> report = "paid"
  BY DEF Outcome, Reports, Final

\* apply_to_deposit leaves a deposit that was started in a known status.
LEMMA ApplyType ==
  ASSUME TypeOK, NEW t \in Deposits, NEW report \in Reports, Apply(t, report)
  PROVE  /\ status' \in [Deposits -> {"none", "pending"} \cup Final]
         /\ credited' \in [Deposits -> BOOLEAN]
         /\ status[t] # "none" => status'[t] # "none"
         /\ \A u \in Deposits \ {t} : status'[u] = status[u]
<1> USE DEF TypeOK
<1>1. CASE status[t] = "pending"
  <2>1. status' = [status EXCEPT ![t] = Outcome(report)]
    BY <1>1 DEF Apply
  <2>2. credited' = [credited EXCEPT ![t] = credited[t] \/ Outcome(report) = "paid"]
    BY <1>1 DEF Apply
  <2>3. (credited[t] \/ Outcome(report) = "paid") \in BOOLEAN
    OBVIOUS
  <2>4. credited' \in [Deposits -> BOOLEAN]
    BY <2>2, <2>3
  <2>5. Outcome(report) \in {"pending"} \cup Final /\ Outcome(report) # "none"
    BY OutcomeType DEF Final
  <2> QED
    BY <2>1, <2>4, <2>5
<1>2. CASE status[t] # "pending"
  BY <1>2 DEF Apply
<1> QED
  BY <1>1, <1>2

(* Every step of a transaction keeps to the types.                         *)
LEMMA ProceedType ==
  ASSUME TypeOK, AskedBeforeTold, NEW t \in Deposits, Create(t) \/ Proceed(t)
  PROVE  TypeOK'
<1> USE DEF TypeOK
<1>1. CASE Create(t)
  BY <1>1 DEF Create
<1>2. CASE Initiate(t)
  BY <1>2 DEF Initiate, Reports
<1>3. CASE SaveError(t)
  BY <1>3 DEF SaveError, Over, Final
<1>4. CASE SaveStarted(t)
  BY <1>4 DEF SaveStarted, Over
<1>5. CASE Die(t)
  BY <1>5 DEF Die, Over
<1>6. ASSUME NEW to \in Reports, Charge(t, to)
      PROVE  TypeOK'
  BY <1>6 DEF Charge
<1>7. ASSUME NEW report \in Reports, Arrive(t, report)
      PROVE  TypeOK'
  <2>1. /\ status' \in [Deposits -> {"none", "pending"} \cup Final]
        /\ credited' \in [Deposits -> BOOLEAN]
    BY <1>7, ApplyType DEF Arrive
  <2>2. pollable' \in [Deposits -> BOOLEAN]
    BY <1>7 DEF Arrive
  <2> QED
    BY <1>7, <2>1, <2>2 DEF Arrive
<1>8. CASE Look(t)
  <2>1. pollable[t] => charge[t] \in Reports
    BY DEF AskedBeforeTold
  <2> QED
    BY <1>8, <2>1, ApplyType DEF Look
<1>9. CASE Expire(t)
  BY <1>9 DEF Expire, Final
<1>10. CASE DayPasses(t)
  BY <1>10 DEF DayPasses
<1> QED
  BY <1>1, <1>2, <1>3, <1>4, <1>5, <1>6, <1>7, <1>8, <1>9, <1>10 DEF Proceed

(* Paynow reports on what it was asked for, and polls find what it reports.*)
LEMMA ProceedAsked ==
  ASSUME TypeOK, AskedBeforeTold, NEW t \in Deposits, Create(t) \/ Proceed(t)
  PROVE  AskedBeforeTold'
<1> USE DEF TypeOK, AskedBeforeTold
<1>1. CASE Create(t)
  BY <1>1 DEF Create
<1>2. CASE Initiate(t)
  BY <1>2 DEF Initiate, Reports
<1>3. CASE SaveError(t)
  BY <1>3 DEF SaveError
<1>4. CASE SaveStarted(t)
  BY <1>4 DEF SaveStarted
<1>5. CASE Die(t)
  BY <1>5 DEF Die
<1>6. ASSUME NEW to \in Reports, Charge(t, to)
      PROVE  AskedBeforeTold'
  BY <1>6 DEF Charge, Reports
<1>7. ASSUME NEW report \in Reports, Arrive(t, report)
      PROVE  AskedBeforeTold'
  <2>1. charge[t] # "none" /\ status[t] # "none"
    BY <1>7 DEF Arrive
  <2>2. status'[t] # "none" /\ \A u \in Deposits \ {t} : status'[u] = status[u]
    BY <1>7, <2>1, ApplyType DEF Arrive
  <2> QED
    BY <1>7, <2>1, <2>2 DEF Arrive
<1>8. CASE Look(t)
  <2>1. status[t] = "pending" /\ (pollable[t] => charge[t] \in Reports)
    BY <1>8 DEF Look
  <2>2. status'[t] # "none" /\ \A u \in Deposits \ {t} : status'[u] = status[u]
    BY <1>8, <2>1, ApplyType DEF Look
  <2> QED
    BY <1>8, <2>1, <2>2 DEF Look
<1>9. CASE Expire(t)
  BY <1>9 DEF Expire
<1>10. CASE DayPasses(t)
  BY <1>10 DEF DayPasses
<1> QED
  BY <1>1, <1>2, <1>3, <1>4, <1>5, <1>6, <1>7, <1>8, <1>9, <1>10 DEF Proceed

(* A report that is applied credits only what was reported as paid.        *)
LEMMA ApplyCredits ==
  ASSUME DepositInv, NEW t \in Deposits, NEW report \in said[t],
         Apply(t, report), said' = said, start' = start
  PROVE  CreditIsBacked' /\ PaidMatchesCredit'
<1>1. report \in Reports
  BY DEF DepositInv, TypeOK
<1>2. CASE status[t] = "pending"
  <2>1. /\ status' = [status EXCEPT ![t] = Outcome(report)]
        /\ credited' = [credited EXCEPT ![t] = @ \/ Outcome(report) = "paid"]
    BY <1>2 DEF Apply
  <2>2. credited'[t] <=> credited[t] \/ Outcome(report) = "paid"
    BY <2>1 DEF DepositInv, TypeOK
  <2>3. status'[t] = Outcome(report)
    BY <2>1 DEF DepositInv, TypeOK
  <2>4. \A u \in Deposits \ {t} : status'[u] = status[u] /\ credited'[u] = credited[u]
    BY <2>1 DEF DepositInv, TypeOK
  <2> QED
    BY <1>1, <1>2, <2>2, <2>3, <2>4, OutcomeType DEF DepositInv, CreditIsBacked, PaidMatchesCredit
<1>3. CASE status[t] # "pending"
  BY <1>3 DEF Apply, DepositInv, CreditIsBacked, PaidMatchesCredit
<1> QED
  BY <1>2, <1>3

(* No step credits what was not paid, or parts a credit from its status.   *)
LEMMA ProceedCredits ==
  ASSUME DepositInv, NEW t \in Deposits, Create(t) \/ Proceed(t)
  PROVE  CreditIsBacked' /\ PaidMatchesCredit'
<1> USE DEF DepositInv, TypeOK
<1>1. CASE Create(t)
  <2>1. ~ credited[t]
    BY <1>1 DEF Create, CreditIsBacked, AskedBeforeTold
  <2> QED
    BY <1>1, <2>1 DEF Create, CreditIsBacked, PaidMatchesCredit
<1>2. CASE Initiate(t)
  BY <1>2 DEF Initiate, CreditIsBacked, PaidMatchesCredit
<1>3. CASE SaveError(t)
  BY <1>3 DEF SaveError, CreditIsBacked, PaidMatchesCredit
<1>4. CASE SaveStarted(t)
  BY <1>4 DEF SaveStarted, CreditIsBacked, PaidMatchesCredit
<1>5. CASE Die(t)
  BY <1>5 DEF Die, CreditIsBacked, PaidMatchesCredit
<1>6. ASSUME NEW to \in Reports, Charge(t, to)
      PROVE  CreditIsBacked' /\ PaidMatchesCredit'
  BY <1>6 DEF Charge, CreditIsBacked, PaidMatchesCredit
<1>7. ASSUME NEW report \in Reports, Arrive(t, report)
      PROVE  CreditIsBacked' /\ PaidMatchesCredit'
  BY <1>7, ApplyCredits DEF Arrive
<1>8. CASE Look(t)
  <2>1. CASE pollable[t] /\ Apply(t, charge[t])
    <3>1. charge[t] \in said[t]
      BY <2>1 DEF AskedBeforeTold
    <3> QED
      BY <1>8, <2>1, <3>1, ApplyCredits DEF Look
  <2>2. CASE UNCHANGED <<status, credited>>
    BY <1>8, <2>2 DEF Look, CreditIsBacked, PaidMatchesCredit
  <2> QED
    BY <1>8, <2>1, <2>2 DEF Look
<1>9. CASE Expire(t)
  BY <1>9 DEF Expire, CreditIsBacked, PaidMatchesCredit
<1>10. CASE DayPasses(t)
  BY <1>10 DEF DayPasses, CreditIsBacked, PaidMatchesCredit
<1> QED
  BY <1>1, <1>2, <1>3, <1>4, <1>5, <1>6, <1>7, <1>8, <1>9, <1>10 DEF Proceed

\* Every step of the gateway, the webhook, the poll and the sweep keeps the deposits in order.
LEMMA DepositStep ==
  ASSUME DepositInv, [Next]_vars
  PROVE  DepositInv'
<1>1. CASE Next
  BY <1>1, ProceedType, ProceedAsked, ProceedCredits DEF Next, DepositInv
<1>2. CASE UNCHANGED vars
  BY <1>2 DEF vars, DepositInv, TypeOK, AskedBeforeTold, CreditIsBacked, PaidMatchesCredit
<1> QED
  BY <1>1, <1>2

(* The invariant of deposits: types, what Paynow was asked and has said,   *)
(* and credits (payments.py as a whole).                                   *)
THEOREM DepositInvariance == Spec => []DepositInv
<1>1. Init => DepositInv
  BY DEF Init, DepositInv, TypeOK, AskedBeforeTold, CreditIsBacked, PaidMatchesCredit
<1>2. DepositInv /\ [Next]_vars => DepositInv'
  BY DepositStep
<1> QED
  BY <1>1, <1>2, PTL DEF Spec

(* apply_status credits a wallet only for money Paynow has reported as     *)
(* paid in full, whatever order reports come in and however often.         *)
THEOREM CreditsAreBacked == Spec => []CreditIsBacked
<1>1. DepositInv => CreditIsBacked
  BY DEF DepositInv
<1> QED
  BY <1>1, DepositInvariance, PTL

(* A transaction is PAID only with its credit in the ledger, and credited  *)
(* only if it is PAID or start_deposit saved FAILED over it.               *)
THEOREM PaidAndCreditedAgree == Spec => []PaidMatchesCredit
<1>1. DepositInv => PaidMatchesCredit
  BY DEF DepositInv
<1> QED
  BY <1>1, DepositInvariance, PTL

(* What a step leaves as it is: credits, a final status without a credit,  *)
(* and a start that has saved its answer.                                  *)
LEMMA WhatStays ==
  ASSUME DepositInv, [Next]_vars, NEW u \in Deposits
  PROVE  /\ credited[u] => credited'[u]
         /\ status[u] \in Final /\ ~ credited[u] => status'[u] \in Final /\ ~ credited'[u]
         /\ start[u] = "done" => start'[u] = "done"
         /\ status[u] \in Final =>
              status'[u] = status[u] \/ (start[u] = "error" /\ start'[u] = "refused")
<1> USE DEF DepositInv, TypeOK
<1>1. ASSUME NEW t \in Deposits, NEW report, Apply(t, report)
      PROVE  /\ credited[u] => credited'[u]
             /\ status[u] # "pending" => status'[u] = status[u] /\ credited'[u] = credited[u]
  BY <1>1 DEF Apply
<1>2. CASE UNCHANGED vars
  BY <1>2 DEF vars
<1>3. ASSUME NEW t \in Deposits, Create(t) \/ Initiate(t) \/ SaveStarted(t) \/ Die(t)
      PROVE  /\ credited' = credited /\ (start[u] = "done" => start'[u] = "done")
             /\ status[u] # "none" => status'[u] = status[u]
  <2>1. CASE Create(t)
    BY <2>1 DEF Create, AskedBeforeTold
  <2>2. CASE Initiate(t) \/ SaveStarted(t) \/ Die(t)
    BY <2>2 DEF Initiate, SaveStarted, Die
  <2> QED
    BY <1>3, <2>1, <2>2
<1>4. ASSUME NEW t \in Deposits, SaveError(t)
      PROVE  /\ credited' = credited /\ (start[u] = "done" => start'[u] = "done")
             /\ status'[u] = status[u] \/ (u = t /\ start[u] = "error" /\ start'[u] = "refused"
                                             /\ status'[u] = "failed")
  BY <1>4 DEF SaveError
<1>5. ASSUME NEW t \in Deposits,
             \/ \E to \in Reports : Charge(t, to)
             \/ \E report \in Reports : Arrive(t, report)
             \/ Look(t) \/ Expire(t) \/ DayPasses(t)
      PROVE  /\ start' = start /\ (credited[u] => credited'[u])
             /\ status[u] # "pending" => status'[u] = status[u] /\ credited'[u] = credited[u]
  <2>1. ASSUME NEW to \in Reports, Charge(t, to)
        PROVE  UNCHANGED <<start, status, credited>>
    BY <2>1 DEF Charge
  <2>2. ASSUME NEW report \in Reports, Arrive(t, report)
        PROVE  start' = start /\ Apply(t, report)
    BY <2>2 DEF Arrive
  <2>3. CASE Look(t)
    <3>1. start' = start /\ (Apply(t, charge[t]) \/ UNCHANGED <<status, credited>>)
      BY <2>3 DEF Look
    <3> QED
      BY <1>1, <3>1
  <2>4. CASE Expire(t)
    BY <2>4 DEF Expire
  <2>5. CASE DayPasses(t)
    BY <2>5 DEF DayPasses
  <2> QED
    BY <1>1, <1>5, <2>1, <2>2, <2>3, <2>4, <2>5
<1>6. status[u] \in Final => status[u] # "none" /\ status[u] # "pending"
  BY DEF Final
<1>7. CASE Next
  BY <1>3, <1>4, <1>5, <1>6, <1>7 DEF Next, Proceed, Final
<1> QED
  BY <1>2, <1>7

(* A transaction that is final stays as it is under any report; only       *)
(* start_deposit's own FAILED is saved over it (apply_status, _refresh).   *)
THEOREM FinalStaysFinal == Spec => FinalIsFinal
<1>1. DepositInv /\ [Next]_vars =>
        [\A t \in Deposits :
           status[t] \in Final =>
             status'[t] = status[t] \/ (start[t] = "error" /\ start'[t] = "refused")]_vars
  BY WhatStays
<1> QED
  BY <1>1, DepositInvariance, PTL DEF Spec, FinalIsFinal

-----------------------------------------------------------------------------
(* The dialog.                                                             *)

\* It follows deposits whose start has saved its answer; what it has heard of
\* one, waits to claim for one, or has said of one is so and stays so.
EndedUnpaid(t) == status[t] \in Final /\ ~ credited[t]
DialogInv ==
  /\ told \in [Deposits -> SUBSET Final]
  /\ watch # "off" => follows \in Deposits
  /\ follows \in Deposits => start[follows] = "done"
  /\ watch = "paid" => credited[follows]
  /\ watch \in {"failed", "cancelled"} => EndedUnpaid(follows)
  /\ \A t \in claiming : t \in Deposits /\ credited[t]
  /\ \A t \in Deposits :
       /\ "paid" \in told[t] => credited[t]
       /\ told[t] \cap {"failed", "cancelled"} # {} => EndedUnpaid(t)

(* What the dialog does is a step of Payments, or nothing to it.           *)
LEMMA DialogStepsAreDepositSteps ==
  ASSUME DepositInv, DialogInv, [CheckoutNext]_all
  PROVE  [Next]_vars
<1>1. CASE UNCHANGED gateway
  BY <1>1 DEF gateway, vars
<1>2. ASSUME NEW t \in Deposits, Receive(t) \/ Proceed(t)
      PROVE  Next
  BY <1>2 DEF Receive, Next
<1>3. ASSUME Tick, ~ UNCHANGED gateway
      PROVE  Next
  <2>1. follows \in Deposits /\ pollable[follows] /\ Arrive(follows, charge[follows])
    BY <1>3 DEF Tick, DialogInv
  <2>2. charge[follows] \in Reports
    BY <2>1 DEF DepositInv, TypeOK, AskedBeforeTold
  <2> QED
    BY <2>1, <2>2 DEF Next, Proceed
<1>4. CASE Open \/ Close \/ Escape \/ HandleConfirm \/ AnsweredByError \/ AskAgain \/ GiveUp
  BY <1>1, <1>4 DEF Open, Close, Escape, HandleConfirm, AnsweredByError, AskAgain, GiveUp
<1>5. CASE Unpaid \/ Paid \/ Rotate \/ Leave
  BY <1>1, <1>5 DEF Unpaid, Paid, Rotate, Leave
<1>6. ASSUME NEW t \in Deposits, Answered202(t) \/ FinishDeposit(t)
      PROVE  UNCHANGED gateway
  BY <1>6 DEF Answered202, FinishDeposit
<1>7. CASE UNCHANGED all
  BY <1>1, <1>7 DEF all
<1> QED
  BY <1>1, <1>2, <1>3, <1>4, <1>5, <1>6, <1>7 DEF CheckoutNext

(* The dialog keeps its invariant.  Each action is looked at for what it   *)
(* follows and what it tells; that deposits do not take it back is         *)
(* WhatStays.                                                              *)
LEMMA DialogKeepsInv ==
  ASSUME DepositInv, DepositInv', DialogInv, [CheckoutNext]_all
  PROVE  DialogInv'
<1>0. ASSUME NEW u \in Deposits
      PROVE  /\ credited[u] => credited'[u]
             /\ EndedUnpaid(u) => EndedUnpaid(u)'
             /\ start[u] = "done" => start'[u] = "done"
  BY DialogStepsAreDepositSteps, WhatStays DEF EndedUnpaid
<1>1. ASSUME UNCHANGED <<follows, watch, claiming, told>>
      PROVE  DialogInv'
  BY <1>0, <1>1 DEF DialogInv
<1>2. ASSUME NEW at, NEW t \in Deposits \cup {None}, Watch(at, t),
             t \in Deposits => start[t] = "done"
      PROVE  /\ watch' # "off" => follows' \in Deposits
             /\ follows' \in Deposits => start'[follows'] = "done"
             /\ watch' \in {"off", "timer"}
  BY <1>0, <1>2 DEF Watch
<1>3. None \notin Deposits
  BY CheckoutAssumption
<1>4. CASE Open \/ Escape \/ HandleConfirm \/ AnsweredByError
  BY <1>1, <1>4 DEF Open, Escape, HandleConfirm, AnsweredByError
<1>5. CASE Close \/ Leave
  <2>1. Watch("form", None) /\ told' = told /\ claiming' \subseteq claiming
    BY <1>5 DEF Close, Leave
  <2> QED
    BY <1>0, <1>2, <1>3, <2>1 DEF DialogInv
<1>6. ASSUME NEW t \in Deposits, Receive(t) \/ (Proceed(t) /\ UNCHANGED dialog)
      PROVE  DialogInv'
  BY <1>1, <1>6 DEF Receive, dialog
<1>7. ASSUME NEW t \in Deposits, Answered202(t)
      PROVE  DialogInv'
  <2>1. start[t] = "done" /\ told' = told /\ claiming' \subseteq claiming
    BY <1>7 DEF Answered202
  <2>2. Watch("waiting", t) \/ Watch("return", t)
    BY <1>7 DEF Answered202
  <2> QED
    BY <1>0, <1>2, <2>1, <2>2 DEF DialogInv
<1>8. CASE Tick
  <2>1. /\ follows \in Deposits /\ start[follows] = "done"
        /\ watch' = status'[follows] /\ UNCHANGED <<follows, claiming, told>>
    BY <1>8 DEF Tick, DialogInv
  <2>2. start'[follows] = "done"
    BY <1>0, <2>1
  <2>3. /\ status'[follows] = "paid" => credited'[follows]
        /\ status'[follows] \in {"failed", "cancelled"} => EndedUnpaid(follows)'
    BY <2>1, <2>2 DEF DepositInv, PaidMatchesCredit, EndedUnpaid, Final
  <2> QED
    BY <1>0, <2>1, <2>2, <2>3 DEF DialogInv
<1>9. CASE AskAgain \/ GiveUp
  <2>1. watch # "off" /\ watch' \in {"timer", "gave up"} /\ UNCHANGED <<follows, claiming, told>>
    BY <1>9 DEF AskAgain, GiveUp, Final
  <2> QED
    BY <1>0, <2>1 DEF DialogInv
<1>10. CASE Unpaid
  <2>1. /\ follows \in Deposits /\ EndedUnpaid(follows) /\ claiming' = claiming
        /\ watch \in {"failed", "cancelled"}
        /\ told' = [told EXCEPT ![follows] = @ \cup {watch}]
    BY <1>10 DEF Unpaid, DialogInv
  <2>2. Watch("form", None) \/ (watch' = "off" /\ follows' = follows)
    BY <1>10 DEF Unpaid
  <2>3. /\ watch' # "off" => follows' \in Deposits
        /\ follows' \in Deposits => start'[follows'] = "done"
        /\ watch' \in {"off", "timer"}
    BY <1>0, <1>2, <1>3, <2>2 DEF DialogInv
  <2>4. told' \in [Deposits -> SUBSET Final]
    BY <2>1 DEF DialogInv, Final
  <2>5. \A t \in Deposits : "paid" \in told'[t] => "paid" \in told[t]
    BY <2>1 DEF DialogInv
  <2>6. \A t \in Deposits : told'[t] \cap {"failed", "cancelled"} # {} => EndedUnpaid(t)
    BY <2>1 DEF DialogInv
  <2> QED
    BY <1>0, <2>1, <2>3, <2>4, <2>5, <2>6 DEF DialogInv
<1>11. CASE Paid
  <2>1. follows \in Deposits /\ credited[follows] /\ start[follows] = "done"
    BY <1>11 DEF Paid, DialogInv
  <2>2. CASE claiming' = claiming \cup {follows} /\ watch' = "claiming" /\ UNCHANGED <<follows, told>>
    BY <1>0, <2>1, <2>2 DEF DialogInv
  <2>3. CASE /\ Watch("success", None) \/ (watch' = "off" /\ follows' = follows)
             /\ told' = [told EXCEPT ![follows] = @ \cup {"paid"}] /\ claiming' = claiming
    <3>1. /\ watch' # "off" => follows' \in Deposits
          /\ follows' \in Deposits => start'[follows'] = "done"
          /\ watch' \in {"off", "timer"}
      BY <1>0, <1>2, <1>3, <2>3 DEF DialogInv
    <3>2. told' \in [Deposits -> SUBSET Final]
      BY <2>1, <2>3 DEF DialogInv, Final
    <3>3. \A t \in Deposits : /\ "paid" \in told'[t] => credited[t]
                              /\ told'[t] \cap {"failed", "cancelled"} # {} => EndedUnpaid(t)
      BY <2>1, <2>3 DEF DialogInv
    <3> QED
      BY <1>0, <2>3, <3>1, <3>2, <3>3 DEF DialogInv
  <2> QED
    BY <1>11, <2>2, <2>3 DEF Paid
<1>12. ASSUME NEW t \in Deposits, FinishDeposit(t)
       PROVE  DialogInv'
  <2>1. /\ t \in claiming /\ credited[t] /\ claiming' \subseteq claiming
        /\ Watch("success", None) /\ told' = [told EXCEPT ![t] = @ \cup {"paid"}]
    BY <1>12 DEF FinishDeposit, DialogInv
  <2>2. told' \in [Deposits -> SUBSET Final]
    BY <2>1 DEF DialogInv, Final
  <2>3. \A u \in Deposits : /\ "paid" \in told'[u] => credited[u]
                            /\ told'[u] \cap {"failed", "cancelled"} # {} => EndedUnpaid(u)
    BY <2>1 DEF DialogInv
  <2> QED
    BY <1>0, <1>2, <1>3, <2>1, <2>2, <2>3 DEF DialogInv
<1>13. CASE Rotate
  <2>1. follows \in Deposits /\ Watch(step, follows) /\ UNCHANGED <<claiming, told>>
    BY <1>13 DEF Rotate, DialogInv
  <2> QED
    BY <1>0, <1>2, <2>1 DEF DialogInv
<1>14. CASE UNCHANGED all
  BY <1>1, <1>14 DEF all, dialog
<1> QED
  BY <1>4, <1>5, <1>6, <1>7, <1>8, <1>9, <1>10, <1>11, <1>12, <1>13, <1>14 DEF CheckoutNext

(* The two invariants together are inductive for the composition.          *)
THEOREM CheckoutInvariance == CheckoutSpec => [](DepositInv /\ DialogInv)
<1>1. CheckoutInit => DepositInv /\ DialogInv
  BY CheckoutAssumption DEF CheckoutInit, Init, DepositInv, DialogInv, TypeOK, AskedBeforeTold,
     CreditIsBacked, PaidMatchesCredit
<1>2. DepositInv /\ DialogInv /\ [CheckoutNext]_all => (DepositInv /\ DialogInv)'
  <2> SUFFICES ASSUME DepositInv, DialogInv, [CheckoutNext]_all
               PROVE  (DepositInv /\ DialogInv)'
    OBVIOUS
  <2>1. DepositInv'
    BY DialogStepsAreDepositSteps, DepositStep
  <2> QED
    BY <2>1, DialogKeepsInv
<1> QED
  BY <1>1, <1>2, PTL DEF CheckoutSpec

(* The dialog on top of Payments implements Payments: polling and asking   *)
(* from the browser add nothing to what a deposit may go through.          *)
THEOREM CheckoutImplementsPayments == CheckoutSpec => Spec
<1>1. CheckoutInit => Init
  BY DEF CheckoutInit
<1>2. DepositInv /\ DialogInv /\ [CheckoutNext]_all => [Next]_vars
  BY DialogStepsAreDepositSteps
<1> QED
  BY <1>1, <1>2, CheckoutInvariance, PTL DEF CheckoutSpec, Spec

(* A deposit the player was shown as made is in the wallet; one shown as   *)
(* failed or cancelled is not and will not be (deposit-modal.tsx, tick).   *)
THEOREM PlayersAreToldAsItIs == CheckoutSpec => []ToldAsItIs
<1>1. DialogInv => ToldAsItIs
  BY DEF DialogInv, ToldAsItIs, EndedUnpaid
<1> QED
  BY <1>1, CheckoutInvariance, PTL
=============================================================================
