------------------------------ MODULE Controls ------------------------------
(***************************************************************************)
(* The vocabulary in which the pages of the two web apps are described:    *)
(* what a page shows, what its controls send, and what the page does with  *)
(* the answer.  Page.tla is the machine that runs such a page.             *)
(***************************************************************************)
EXTENDS Naturals, TLC

Two == {"r1", "r2"}     \* rows of a list: two are enough to confuse one with another
One == {"r1"}           \* a page about one thing

Gone == "gone"          \* a row that is not there, or not yet
Same == "same"          \* an act that changes what a row says and not its status
NoForm == "none"
NoFlag == "none"

\* The ways out of the handler of a control: the server did it, refused it, or the request
\* threw or was not answered.
Ways == {"ok", "failed", "lost"}

\* A control.
\*   on      the statuses of the row shown with which it is offered
\*   takes   the statuses in which the server does it
\*   to      the row's status then
\*   form    the form it sends, which must have been typed into if it needs that
\*   of, flag   the flag that is set meanwhile, and to what; the controls that set it
\*           to the same are disabled.  "row" stands for the row acted on
\*   lifts   the ways out on which the handler lifts the flag it set
\*   raw     fetch without a catch: when the request fails nothing more is run
\*   counts  a second request from the same draft would do the thing a second time
\*   ok, failed   what is done with an answer: "reads" the data again, at once or
\*           "later"; "closes" the form; "adopts" the answer as data, which "refills"
\*           what is filled in from it; "appends" to the data what was sent; "leaves"
\*           the page
Act(name, on, to) ==
  [name |-> name, on |-> on, takes |-> on, to |-> to, form |-> NoForm, needs |-> FALSE,
   of |-> NoFlag, flag |-> NoFlag, lifts |-> {}, raw |-> FALSE,
   counts |-> FALSE, ok |-> {"reads"}, failed |-> {"reads"}]

\* A flag that is set when the request goes out, and lifted again on every way out.
Flagged(op, flag) == [op EXCEPT !.of = flag, !.flag = flag, !.lifts = Ways]

\* One that leaves things as they are after an error.
Try(name, on, to, flag) == [Flagged(Act(name, on, to), flag) EXCEPT !.failed = {}]

\* A control of a form: it stays open, with its error, unless it was saved.
Submit(name, on, to, form, flag) ==
  [Try(name, on, to, flag) EXCEPT !.form = form, !.needs = TRUE, !.ok = {"closes", "reads"}]

\* One that changes nothing, a test of something.
Probe(name, on, flag) == [Try(name, on, Same, flag) EXCEPT !.takes = {}]

\* One flag with a value for each control.
Shared(op, flag) == [Flagged(op, flag) EXCEPT !.of = "busy"]

\* Where fetch throws, the lines that lift the flag are not reached.
Raw(op) == [op EXCEPT !.raw = TRUE, !.lifts = @ \ {"lost"}]

\* A page, or a part of one that reads its own data.
\*   rows, start   the rows there are, and the statuses they begin with
\*   about   the row a form that is always there is about, unless it is named after one
\*   forms   each form's name, and when it is filled in: when it is "opened" on a
\*           row; from every answer that is "read"; when the row it is named after
\*           has "changed"; or only by the operator ("blank")
\*   modal   an open form covers the rest of the page
\*   filters  the query can be changed
\*   polls   whether a timer reads the data again: "never", "always", or "running", as
\*           long as one of the rows shown is open
\*   elsewhere   the changes others make
Listing ==
  [rows |-> One, about |-> "r1", start |-> {"there"}, ops |-> {}, forms |-> <<>>, modal |-> FALSE,
   filters |-> TRUE, polls |-> "never", elsewhere |-> {<<"there", "there">>, <<Gone, "there">>}]

Polled == [Listing EXCEPT !.polls = "always"]

\* A list whose rows have controls.
Table(start, ops, elsewhere) ==
  [Listing EXCEPT !.start = start, !.ops = ops, !.elsewhere = elsewhere, !.filters = FALSE]

\* Settings of one thing, and the forms it is edited with.
Settings(forms, ops) ==
  [Table({"set"}, ops, {<<"set", "set">>}) EXCEPT !.forms = forms]

Save == [Submit("save", {"set"}, Same, "form", "busy") EXCEPT !.ok = {"reads"}]

\* A row is switched, renamed, moved: it stays, and so does a switch offered for it.
Switch(name, on) == Act(name, on, Same)
=============================================================================
