------------------------------ MODULE Payments ------------------------------
(***************************************************************************)
(* apps/wallet/payments.py: deposits collected by Paynow.  A transaction   *)
(* is created, Paynow is asked to collect it, and its outcome is learnt    *)
(* from signed reports: callbacks, and answers to the polls of the player  *)
(* and of the background sweep.  Reports come late, twice, in any order or *)
(* never; polls fail; the process that starts a deposit may die half way.  *)
(*                                                                         *)
(* apply_status keeps the transaction locked while it applies a report and *)
(* credits the wallet in the same database transaction, so it is one step. *)
(* start_deposit is not: it saves without a lock what it made of Paynow's  *)
(* answer.  Paynow and the customer are external.                          *)
(***************************************************************************)
EXTENDS Naturals

CONSTANTS Deposits,    \* references of transactions
          Answered,    \* those whose polls Paynow never fails to answer
          MayEnd       \* bound: what may become of the charge of each

Final == {"paid", "failed", "cancelled"}

\* How a request to start a deposit ends: it has saved what Paynow made of it,
\* or its process died.
Over == {"refused", "done", "dead"}

\* What Paynow can say of a charge; "wrong" is paid, but another amount.
Reports == {"open", "paid", "wrong", "failed", "cancelled"}

ASSUME PaymentsAssumption ==
  /\ Answered \subseteq Deposits
  /\ MayEnd \in [Deposits -> SUBSET (Reports \ {"open"})]

VARIABLES
  status,    \* PaymentTransaction.status; "none" before it is created
  pollable,  \* whether poll_url is known
  credited,  \* whether the deposit's entry is in the ledger
  start,     \* how far start_deposit has come
  charge,    \* Paynow's view of the payment
  said,      \* every report Paynow has sent; each may arrive at any time
  old,       \* created more than EXPIRE_AFTER ago
  looked     \* the sweep has polled this old transaction, and not expired it yet

vars == <<status, pollable, credited, start, charge, said, old, looked>>

Init ==
  /\ status = [t \in Deposits |-> "none"]
  /\ pollable = [t \in Deposits |-> FALSE]
  /\ credited = [t \in Deposits |-> FALSE]
  /\ start = [t \in Deposits |-> "idle"]
  /\ charge = [t \in Deposits |-> "none"]
  /\ said = [t \in Deposits |-> {}]
  /\ old = [t \in Deposits |-> FALSE]
  /\ looked = [t \in Deposits |-> FALSE]

-----------------------------------------------------------------------------
Create(t) ==
  /\ start[t] = "idle"
  /\ start' = [start EXCEPT ![t] = "created"]
  /\ status' = [status EXCEPT ![t] = "pending"]
  /\ UNCHANGED <<pollable, credited, charge, said, old, looked>>

\* paynow.initiate: Paynow takes the payment on or not, and its answer comes
\* back or not; any error is a PaynowError.
Initiate(t) ==
  /\ start[t] = "created"
  /\ \/ /\ start' = [start EXCEPT ![t] = "error"]
        /\ UNCHANGED <<charge, said>>
     \/ /\ \E answer \in {"started", "error"} : start' = [start EXCEPT ![t] = answer]
        /\ charge' = [charge EXCEPT ![t] = "open"]
        /\ said' = [said EXCEPT ![t] = @ \cup {"open"}]
  /\ UNCHANGED <<status, pollable, credited, old, looked>>

\* except PaynowError: FAILED is saved over whatever the row has by now.
SaveError(t) ==
  /\ start[t] = "error"
  /\ start' = [start EXCEPT ![t] = "refused"]
  /\ status' = [status EXCEPT ![t] = "failed"]
  /\ UNCHANGED <<pollable, credited, charge, said, old, looked>>

SaveStarted(t) ==
  /\ start[t] = "started"
  /\ start' = [start EXCEPT ![t] = "done"]
  /\ pollable' = [pollable EXCEPT ![t] = TRUE]
  /\ UNCHANGED <<status, credited, charge, said, old, looked>>

\* The process dies before it has saved Paynow's answer.
Die(t) ==
  /\ start[t] \in {"created", "started", "error"}
  /\ start' = [start EXCEPT ![t] = "dead"]
  /\ UNCHANGED <<status, pollable, credited, charge, said, old, looked>>

\* External: the customer pays or does not; a paid charge may be refunded.
Charge(t, to) ==
  /\ to \in MayEnd[t]
  /\ charge[t] = "open" \/ (charge[t] = "paid" /\ to = "failed")
  /\ charge' = [charge EXCEPT ![t] = to]
  /\ said' = [said EXCEPT ![t] = @ \cup {to}]
  /\ UNCHANGED <<status, pollable, credited, start, old, looked>>

\* Faulty variant: the amount is not compared.
OutcomeOfAnyAmount(report) ==
  CASE report = "open" -> "pending"
    [] report \in {"paid", "wrong"} -> "paid"
    [] OTHER -> report

\* What a report makes of a pending transaction.
Outcome(report) ==
  CASE report = "open" -> "pending"
    [] report = "wrong" -> "failed"
    [] OTHER -> report

\* Faulty variant: reports on a final transaction are applied as well.
ApplyThoughFinal(t, report) ==
  /\ status' = [status EXCEPT ![t] = Outcome(report)]
  /\ credited' = [credited EXCEPT ![t] = @ \/ Outcome(report) = "paid"]

\* apply_status: the first final report decides, the others change nothing.
Apply(t, report) ==
  /\ IF status[t] = "pending"
     THEN /\ status' = [status EXCEPT ![t] = Outcome(report)]
          /\ credited' = [credited EXCEPT ![t] = @ \/ Outcome(report) = "paid"]
     ELSE UNCHANGED <<status, credited>>

\* handle_result, and the player's poll: a report arrives.  It may bring the
\* poll URL along.
Arrive(t, report) ==
  /\ report \in said[t]
  /\ status[t] # "none"
  /\ Apply(t, report)
  /\ pollable' \in {pollable, [pollable EXCEPT ![t] = @ \/ status[t] = "pending"]}
  /\ UNCHANGED <<start, charge, said, old, looked>>

\* Faulty variant: what cannot be polled is left alone.
LookIfPollable(t) ==
  /\ status[t] = "pending"
  /\ pollable[t]
  /\ ~looked[t]
  /\ looked' = [looked EXCEPT ![t] = old[t]]
  /\ \/ Apply(t, charge[t])
     \/ t \notin Answered /\ UNCHANGED <<status, credited>>
  /\ UNCHANGED <<pollable, start, charge, said, old>>

\* Faulty variant: an old transaction is expired without asking.
LookIfYoung(t) ==
  /\ status[t] = "pending"
  /\ ~looked[t]
  /\ looked' = [looked EXCEPT ![t] = old[t]]
  /\ \/ pollable[t] /\ ~old[t] /\ Apply(t, charge[t])
     \/ old[t] /\ UNCHANGED <<status, credited>>
  /\ UNCHANGED <<pollable, start, charge, said, old>>

\* sweep_pending comes to t: it polls Paynow if it can.
Look(t) ==
  /\ status[t] = "pending"
  /\ ~looked[t]
  /\ looked' = [looked EXCEPT ![t] = old[t]]
  /\ \/ pollable[t] /\ Apply(t, charge[t])
     \/ ~(pollable[t] /\ t \in Answered) /\ UNCHANGED <<status, credited>>
  /\ UNCHANGED <<pollable, start, charge, said, old>>

\* ... and expires it, if it is old and still pending after that.
Expire(t) ==
  /\ looked[t]
  /\ looked' = [looked EXCEPT ![t] = FALSE]
  /\ status' = [status EXCEPT ![t] = IF @ = "pending" THEN "cancelled" ELSE @]
  /\ UNCHANGED <<pollable, credited, start, charge, said, old>>

\* A request does not last a day: it is over, or its process has died.
DayPasses(t) ==
  /\ status[t] = "pending" /\ start[t] \in Over
  /\ ~old[t]
  /\ old' = [old EXCEPT ![t] = TRUE]
  /\ UNCHANGED <<status, pollable, credited, start, charge, said, looked>>

\* start_deposit, once the transaction is there: it goes on, or it dies.
GoOn(t) == Initiate(t) \/ SaveError(t) \/ SaveStarted(t) \/ Die(t)

Sweep(t) == Look(t) \/ Expire(t)

\* What happens to a transaction once it is there.
Proceed(t) ==
  \/ Initiate(t) \/ SaveError(t) \/ SaveStarted(t) \/ Die(t)
  \/ \E to \in Reports : Charge(t, to)
  \/ \E report \in Reports : Arrive(t, report)
  \/ Look(t) \/ Expire(t) \/ DayPasses(t)

Next == \E t \in Deposits : Create(t) \/ Proceed(t)

Spec == Init /\ [][Next]_vars

\* The sweep runs every minute, a request ends, and time passes.  Nothing else
\* is promised: neither that reports arrive nor that anybody pays.
FairSpec ==
  /\ Spec
  /\ \A t \in Deposits :
       WF_vars(GoOn(t)) /\ WF_vars(Sweep(t)) /\ WF_vars(DayPasses(t))

-----------------------------------------------------------------------------
TypeOK ==
  /\ status \in [Deposits -> {"none", "pending"} \cup Final]
  /\ pollable \in [Deposits -> BOOLEAN]
  /\ credited \in [Deposits -> BOOLEAN]
  /\ start \in [Deposits -> {"idle", "created", "started", "error"} \cup Over]
  /\ charge \in [Deposits -> {"none"} \cup Reports]
  /\ said \in [Deposits -> SUBSET Reports]
  /\ old \in [Deposits -> BOOLEAN]
  /\ looked \in [Deposits -> BOOLEAN]

(* A wallet is credited only for money Paynow did collect, the amount the  *)
(* player asked to pay, whatever order reports come in.                    *)
CreditIsBacked == \A t \in Deposits : credited[t] => "paid" \in said[t]

(* Paid and credited go together.  The one way they come apart is that     *)
(* start_deposit took its call to Paynow for failed and saved FAILED over  *)
(* a deposit that a callback had already credited.                         *)
PaidMatchesCredit ==
  \A t \in Deposits :
    /\ status[t] = "paid" => credited[t]
    /\ credited[t] => status[t] = "paid" \/ start[t] = "refused"

(* A transaction that is final stays as it is: a redelivered, late or      *)
(* contrary report does not move it.  Again only start_deposit's own save  *)
(* of FAILED overwrites.                                                   *)
FinalIsFinal ==
  [][\A t \in Deposits :
       status[t] \in Final => status'[t] = status[t] \/ (start[t] = "error" /\ start'[t] = "refused")]_vars

(* Every transaction comes to an end, even if Paynow is never heard of     *)
(* again: the sweep expires it after a day.                                *)
EveryDepositEnds ==
  \A t \in Deposits : status[t] = "pending" ~> status[t] \in Final

\* The customer has paid, and the sweep has yet to ask.
PaidAndPollable(t) ==
  /\ status[t] = "pending"
  /\ start[t] \in Over
  /\ pollable[t]
  /\ charge[t] = "paid"
  /\ ~looked[t]

(* As long as Paynow answers polls, what the customer has paid is credited *)
(* without any callback, unless it is refunded first: the sweep asks, and  *)
(* asks before it expires.                                                 *)
PollingFindsPayments ==
  \A t \in Answered :
    PaidAndPollable(t) ~> credited[t] \/ charge[t] = "failed"

(* What Paynow reports as paid is credited, "from the result callback, the *)
(* player's status poll, or the background sweep, whichever sees it first" *)
(* (payments.py:1-3): no transaction is closed over a payment.             *)
ReportedPaidIsCredited ==
  \A t \in Deposits :
    "paid" \in said[t] /\ charge[t] = "paid" /\ status[t] \in Final => credited[t]
=============================================================================
