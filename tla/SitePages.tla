----------------------------- MODULE SitePages ------------------------------
(***************************************************************************)
(* The pages of the players' site (src/apps/web), in the words of          *)
(* Controls.tla.  A definition is a page, or a part of one.  The bet slip  *)
(* and the session are modules of their own.                               *)
(***************************************************************************)
EXTENDS Controls

-----------------------------------------------------------------------------
\* The account.

\* Data that is read when the page is opened, and has no filter.
Shown == [Listing EXCEPT !.filters = FALSE]

ProfilePage == Shown
CasinoHistoryPage == Shown

\* A ticket that is still running is read again on a timer, also when it was placed in
\* another tab; one that could not be read is not, nor are the settled ones, which are
\* the second query.
TicketView ==
  [Table({"open", "settled"}, {}, {<<"open", "settled">>, <<"open", "open">>}) EXCEPT !.polls = "running"]
MyBetsPage ==
  [TicketView EXCEPT !.start = {Gone, "open", "settled"}, !.filters = TRUE,
                     !.elsewhere = @ \cup {<<Gone, "open">>}]

AgentTicketsPage == Listing

\* Reading a notification, or all of them; whether it worked is not looked at.
NotificationsPage ==
  [Table({"unread"}, {Act("read", {"unread", "read"}, "read"), Act("read all", {"unread", "read"}, "read")},
         {<<"read", "read">>, <<Gone, "unread">>}) EXCEPT !.rows = Two]

\* The daily limit is filled in when the one saved has changed.  Two buttons share a
\* flag; a fetch without a catch.
SaveLimit == [Raw(Submit("limit", {"set"}, Same, "set", "limit")) EXCEPT !.ok = {"reads"}, !.failed = {"reads"}]
RemoveLimit == [SaveLimit EXCEPT !.name = "no limit", !.needs = FALSE, !.ok = {"closes", "reads"},
                                 !.failed = {"closes", "reads"}]

\* Faulty variant: after an error the flag is left as it is.
SelfExcludeStuck ==
  [Submit("exclude", {"set"}, "excluded", "sure", "exclude")
     EXCEPT !.needs = FALSE, !.lifts = {"ok"}, !.failed = {"closes", "reads"}]

\* Asked twice; the answer, whatever it is, takes the question away.
SelfExclude ==
  [Submit("exclude", {"set"}, "excluded", "sure", "exclude")
     EXCEPT !.needs = FALSE, !.failed = {"closes", "reads"}]

\* The account is gone: the player is signed out.
DeleteAccount == [Submit("delete", {"set", "excluded"}, Gone, "password", "delete") EXCEPT !.ok = {"leaves"}]
ExportData == Probe("export", {"set", "excluded"}, "export")

\* The settings page in three parts, which have nothing but the read in common.
LimitSection ==
  [Table({"set"}, {SaveLimit, RemoveLimit}, {<<"set", "set">>})
     EXCEPT !.rows = {"set"}, !.about = "set", !.forms = "set" :> "changed"]
ExclusionSection ==
  [Table({"set"}, {SelfExclude}, {<<"set", "excluded">>}) EXCEPT !.forms = "sure" :> "opened"]
PrivacySection ==
  [Table({"set"}, {DeleteAccount, ExportData}, {<<"set", "excluded">>})
     EXCEPT !.forms = "password" :> "opened"]

\* A document is sent for verification; a second one is taken as well, though the form
\* is not shown while one is waiting.
VerificationPage ==
  [Table({Gone, "pending"},
         {[Submit("upload", {Gone, "rejected", "approved"}, "pending", "document", "submitting")
             EXCEPT !.takes = @ \cup {"pending"}, !.counts = TRUE]},
         {<<"pending", "approved">>, <<"pending", "rejected">>})
     EXCEPT !.forms = "document" :> "blank"]

-----------------------------------------------------------------------------
\* Money.

\* A withdrawal is confirmed from the quote the server made for it, and each
\* confirmation is one request.
ConfirmWithdrawal ==
  [Submit("confirm", {Gone, "requested", "paid"}, "requested", "quote", "busy")
     EXCEPT !.needs = FALSE, !.counts = TRUE, !.failed = {"closes"}]

CancelWithdrawal == Act("cancel", {"requested"}, "cancelled")

WithdrawPanel ==
  [Table({Gone, "requested"}, {ConfirmWithdrawal, CancelWithdrawal},
         {<<"requested", "paid">>, <<"requested", "rejected">>})
     EXCEPT !.forms = "quote" :> "opened"]

WalletPage == Shown
SiteHeader == Shown

\* The value offered is read again every few seconds while the ticket is open; when it has changed the panel stays, with the new value to confirm.
ConfirmCashout ==
  {[Submit("cash out", {"open"}, "cashed", "sure", "busy")
      EXCEPT !.needs = FALSE, !.counts = TRUE, !.failed = failed] : failed \in {{}, {"closes", "reads"}}}

CashoutPanel ==
  [Table({"open"}, ConfirmCashout, {<<"open", "open">>, <<"open", "lost">>})
     EXCEPT !.forms = "sure" :> "opened", !.polls = "running"]

\* Singles and multiples in the rail, read again when the slip says something.
MyBets == Shown

-----------------------------------------------------------------------------
\* Affiliates.

Apply ==
  [Table({Gone}, {[Submit("apply", {Gone}, "pending", "form", "busy")
                     EXCEPT !.needs = FALSE, !.ok = {"reads"}]}, {<<"pending", "active">>})
     EXCEPT !.forms = "form" :> "blank"]

\* Each confirmation is one payout; what was typed is reset when the dialog opens.
PayoutDialog ==
  [Table({"active"}, {[Submit("payout", {"active"}, Same, "payout", "busy")
                         EXCEPT !.needs = FALSE, !.counts = TRUE]}, {<<"active", "active">>})
     EXCEPT !.forms = "payout" :> "opened", !.modal = TRUE]

Dashboard == Shown
PeriodReport == Listing

-----------------------------------------------------------------------------
\* Promotions and games.

ClaimPromotion == [Try("claim", {"open"}, "claimed", "row") EXCEPT !.failed = {"reads"}]
PromotionsPage == [Table({"open"}, {ClaimPromotion}, {<<"open", Gone>>}) EXCEPT !.rows = Two]
DepositBonuses == Shown

JoinTournament == [Try("join", {"live"}, "joined", "row") EXCEPT !.failed = {"reads"}]
TournamentsPage == [Table({"live"}, {JoinTournament}, {<<"live", "live">>}) EXCEPT !.rows = Two]

CasinoLobby == Shown

\* A spin takes the stake; the button is back when its answer is.
Spin == Try("spin", {"set"}, Same, "spinning")
GamePage == Table({"set"}, {Spin}, {<<"set", "set">>})

WinnersTicker == [Polled EXCEPT !.filters = FALSE]
AnnouncementBar == Shown
GlobalSearch == Shown

-----------------------------------------------------------------------------
\* The player's conversation with support: what was sent is shown at once, below what
\* was there.
SupportChatPage ==
  [Settings("text" :> "blank",
            {[Submit("send", {"set"}, Same, "text", "sending")
                EXCEPT !.counts = TRUE, !.ok = {"closes", "appends"}]})
     EXCEPT !.polls = "always"]

\* Signing up, signing in, a forgotten password: each leads elsewhere, or tells why not.
\* These pages read nothing; their one read stands for the page being there.
Gate(name, on, to) ==
  [Table({on}, {[Submit(name, {on, to}, to, "form", "loading") EXCEPT !.takes = {on}, !.ok = {"leaves"}]}, {<<on, on>>})
     EXCEPT !.forms = "form" :> "blank"]

RegisterPage == Gate("register", Gone, "player")
LoginForm == Gate("login", "player", Same)
ResetPasswordForm == Gate("reset", "player", Same)

\* A page opened with a link's token confirms the address by itself; without one it
\* offers to send the link again.  What came of it is shown.
ConfirmEmail == Try("confirm", {"player"}, "verified", "loading")
Resend == Probe("resend", {"player", "verified"}, "loading")
VerifyEmailContent ==
  Table({"player"}, {[op EXCEPT !.ok = {"adopts"}] : op \in {ConfirmEmail, Resend}}, {})
\* A link is asked for by name.
ForgotPasswordPage ==
  [Table({"player"}, {[Submit("forgot", {"player"}, Same, "email", "loading") EXCEPT !.takes = {}, !.failed = {"closes"}]}, {})
     EXCEPT !.forms = "email" :> "blank"]
=============================================================================
