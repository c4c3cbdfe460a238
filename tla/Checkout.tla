------------------------------ MODULE Checkout ------------------------------
(***************************************************************************)
(* apps/web: the dialog in which a player deposits (deposit-modal.tsx) and *)
(* the page the card gateway returns to (deposit/return/page.tsx), on top  *)
(* of Payments.  The dialog asks for a deposit, follows it by polling, and *)
(* tells the player how it ended.  Answers are lost or late; the dialog is *)
(* closed and opened under requests that go on; a new access token starts  *)
(* the polling again, and what was being asked is forgotten.               *)
(*                                                                         *)
(* Left out: amounts, methods and promo codes (the form is one step), the  *)
(* idempotency key (the gateway takes none), signing out, and the test     *)
(* processor, which credits at once.                                       *)
(***************************************************************************)
EXTENDS Payments

CONSTANTS None,       \* no deposit
          MaxTokens   \* bound on new access tokens

ASSUME CheckoutAssumption == None \notin Deposits /\ MaxTokens \in Nat

VARIABLES
  step,       \* where the dialog is (its form is one step); "return" is the other page
  open,       \* whether it is shown
  submitting, \* the flag that disables Confirm
  request,    \* the POST under way: "no", "sent", or the deposit it has made
  follows,    \* the deposit that is polled
  watch,      \* the effect that polls: its timer, its question, its answer
  claiming,   \* deposits found paid, whose bonus is being claimed
  told,       \* history: what the player was told of each deposit
  tokens      \* bound

dialog == <<step, open, submitting, request, follows, watch, claiming, told, tokens>>
gateway == <<status, pollable, credited, start, charge, said, old, looked>>
all == <<gateway, dialog>>

CheckoutInit ==
  /\ Init
  /\ step = "form" /\ open = FALSE /\ submitting = FALSE
  /\ request = "no"
  /\ follows = None
  /\ watch = "off"
  /\ claiming = {}
  /\ told = [t \in Deposits |-> {}]
  /\ tokens = 0

\* The effect: it polls while a deposit is waited for, and starts again, or
\* stops, whenever what it depends on changes.
Watch(at, t) ==
  /\ step' = at
  /\ follows' = t
  /\ watch' = IF at \in {"waiting", "return"} /\ t # None THEN "timer" ELSE "off"

-----------------------------------------------------------------------------
\* Bound: not on the page the gateway returns to, whose header has a dialog too.
Open ==
  /\ ~open /\ step # "return"
  /\ open' = TRUE
  /\ UNCHANGED <<gateway, step, submitting, request, follows, watch, claiming, told,
                 tokens>>

\* resetAndClose: it lets go of the payment, and of no request.
Close ==
  /\ open
  /\ open' = FALSE
  /\ Watch("form", None)
  /\ UNCHANGED <<gateway, submitting, request, claiming, told, tokens>>

\* Escape closes without a reset: the effect goes on.
Escape ==
  /\ open
  /\ open' = FALSE
  /\ UNCHANGED <<gateway, step, submitting, request, follows, watch, claiming, told,
                 tokens>>

\* Bound: finishDeposit lifts the flag of a later request too, and a third could
\* be made; here it waits.
HandleConfirm ==
  /\ open /\ step = "form" /\ ~submitting /\ request = "no"
  /\ submitting' = TRUE
  /\ request' = "sent"
  /\ UNCHANGED <<gateway, step, open, follows, watch, claiming, told, tokens>>

\* DepositView: the request reaches start_deposit.
Receive(t) ==
  /\ request = "sent"
  /\ Create(t)
  /\ request' = t
  /\ UNCHANGED <<step, open, submitting, follows, watch, claiming, told, tokens>>

\* Faulty variant: what was answered is taken for paid.
AnsweredAsPaid(t) ==
  /\ request = t /\ start[t] = "done"
  /\ request' = "no"
  /\ submitting' = FALSE
  /\ Watch("success", None)
  /\ told' = [told EXCEPT ![t] = @ \cup {"paid"}]
  /\ UNCHANGED <<gateway, open, claiming, tokens>>

\* 202: a payment on the phone is waited for here, a card takes the player to
\* Paynow's page and back to another one of ours.
Answered202(t) ==
  /\ request = t /\ start[t] = "done"
  /\ request' = "no"
  /\ submitting' = FALSE
  /\ \/ Watch("waiting", t) /\ UNCHANGED <<open, claiming>>
     \/ Watch("return", t) /\ open' = FALSE /\ claiming' = {}
  /\ UNCHANGED <<gateway, told, tokens>>

\* An error, or no answer at all though the server may have gone on.
AnsweredByError ==
  /\ request # "no"
  /\ request' = "no"
  /\ submitting' = FALSE
  /\ UNCHANGED <<gateway, step, open, follows, watch, claiming, told, tokens>>

-----------------------------------------------------------------------------
\* tick: PaymentStatusView asks Paynow for what is pending (refresh), unless
\* that was done a moment ago, and answers with what it knows then.
Tick ==
  /\ watch = "timer"
  /\ \/ pollable[follows] /\ Arrive(follows, charge[follows])
     \/ UNCHANGED gateway
  /\ watch' = status'[follows]
  /\ UNCHANGED <<step, open, submitting, request, follows, claiming, told, tokens>>

\* Faulty variant: an answer that does not come is the end of it.
AskNoMore ==
  /\ watch \in {"pending"} \cup Final
  /\ watch' = "off"
  /\ UNCHANGED <<gateway, step, open, submitting, request, follows, claiming, told,
                 tokens>>

\* The answer is "pending", or does not come: ask again, ...
AskAgain ==
  /\ watch \in {"pending"} \cup Final
  /\ watch' = "timer"
  /\ UNCHANGED <<gateway, step, open, submitting, request, follows, claiming, told,
                 tokens>>

\* ... but not after some minutes (four, or sixty questions on the other page).
GiveUp ==
  /\ watch \in {"pending"} \cup Final
  /\ watch' = "gave up"
  /\ UNCHANGED <<gateway, step, open, submitting, request, follows, claiming, told,
                 tokens>>

\* failed, cancelled: the player is told that no money was taken.
Unpaid ==
  /\ watch \in {"failed", "cancelled"}
  /\ told' = [told EXCEPT ![follows] = @ \cup {watch}]
  /\ IF step = "waiting"
     THEN Watch("form", None)
     ELSE watch' = "off" /\ UNCHANGED <<step, follows>>
  /\ UNCHANGED <<gateway, open, submitting, request, claiming, tokens>>

\* paid: the dialog claims the bonus that goes with the deposit before it says
\* so, if there is one, and no timer runs meanwhile.
Paid ==
  /\ watch = "paid"
  /\ \/ /\ step = "waiting"
        /\ watch' = "claiming"
        /\ claiming' = claiming \cup {follows}
        /\ UNCHANGED <<step, submitting, follows, told>>
     \/ /\ IF step = "waiting"
           THEN Watch("success", None) /\ submitting' = FALSE
           ELSE watch' = "off" /\ UNCHANGED <<step, submitting, follows>>
        /\ told' = [told EXCEPT ![follows] = @ \cup {"paid"}]
        /\ UNCHANGED claiming
  /\ UNCHANGED <<gateway, open, request, tokens>>

\* finishDeposit ends, whatever has become of the dialog.
FinishDeposit(t) ==
  /\ t \in claiming
  /\ claiming' = claiming \ {t}
  /\ submitting' = FALSE
  /\ Watch("success", None)
  /\ told' = [told EXCEPT ![t] = @ \cup {"paid"}]
  /\ UNCHANGED <<gateway, open, request, tokens>>

\* A new access token: the effect starts again, and drops what it asked.
Rotate ==
  /\ tokens < MaxTokens
  /\ tokens' = tokens + 1
  /\ watch # "off"
  /\ Watch(step, follows)
  /\ UNCHANGED <<gateway, open, submitting, request, claiming, told>>

\* The page is left or loaded anew: the browser forgets it all, the server does not.
Leave ==
  /\ open' = FALSE /\ submitting' = FALSE
  /\ request' = "no"
  /\ claiming' = {}
  /\ Watch("form", None)
  /\ UNCHANGED <<gateway, told, tokens>>

Answer == AskAgain \/ GiveUp \/ Unpaid \/ Paid

CheckoutNext ==
  \/ Open \/ Close \/ Escape \/ HandleConfirm \/ AnsweredByError
  \/ Tick \/ AskAgain \/ GiveUp \/ Unpaid \/ Paid \/ Rotate \/ Leave
  \/ \E t \in Deposits :
       \/ Receive(t) \/ Answered202(t) \/ FinishDeposit(t)
       \/ Proceed(t) /\ UNCHANGED dialog

CheckoutSpec == CheckoutInit /\ [][CheckoutNext]_all

\* As for Payments; the browser's timers fire, and a question to the server ends
\* with an answer or without.  Nobody has to click, and nothing promises that
\* any poll gets an answer.
FairCheckout ==
  /\ CheckoutSpec
  /\ \A t \in Deposits :
       /\ WF_all(GoOn(t) /\ UNCHANGED dialog)
       /\ WF_all(Sweep(t) /\ UNCHANGED dialog)
       /\ WF_all(DayPasses(t) /\ UNCHANGED dialog)
       /\ WF_all(FinishDeposit(t))
  /\ WF_all(Tick) /\ WF_all(Answer) /\ SF_all(GiveUp)

-----------------------------------------------------------------------------
(* What the player is told is so, whatever was closed, opened and asked    *)
(* again meanwhile: a deposit shown as made is in the wallet, and one shown*)
(* as failed or cancelled is not, and will not be.                         *)
ToldAsItIs ==
  \A t \in Deposits :
    /\ "paid" \in told[t] => credited[t]
    /\ told[t] \cap {"failed", "cancelled"} # {} => ~credited[t]

(* A dialog that waits for a deposit does not leave its player looking at  *)
(* a spinner: it tells how the deposit ended, or that it takes longer,     *)
(* even if every answer is lost.  (The other page stops asking as well,    *)
(* but goes on to say that it is confirming the payment.)                  *)
WaitingEnds ==
  \A t \in Deposits :
    follows = t /\ step = "waiting" ~> follows # t \/ watch = "gave up"

(* The message of a failed deposit: "No money was taken"                   *)
(* (deposit-modal.tsx:184, deposit/return/page.tsx:54).  Not kept: the     *)
(* customer may have paid another amount than was asked, or pay later.     *)
NoMoneyWasTaken ==
  \A t \in Deposits : "failed" \in told[t] => charge[t] \notin {"paid", "wrong"}
=============================================================================
