-------------------------------- MODULE Page --------------------------------
(***************************************************************************)
(* One page of a web app, open in one tab: the data it shows (useApi), its *)
(* forms, its controls, and the calls it has out.  Which page it is is a   *)
(* parameter: ConsolePages.tla and SitePages.tla list them.                *)
(*                                                                         *)
(* The server is shared with others, who change its rows meanwhile.  A     *)
(* read is answered with the rows as the server had them when it was asked *)
(* for, and answers overtake each other.                                   *)
(*                                                                         *)
(* Left out: what is in a row besides its status, wording, layout, rights, *)
(* window.confirm (it holds everything up until it is answered), and the   *)
(* further pages of a list.                                                *)
(***************************************************************************)
EXTENDS Controls, Sequences, SequencesExt

CONSTANTS
  Pages,                    \* the pages there are
  Nothing,                  \* no data, no form
  MaxReads, MaxEvents       \* bounds: reads under way; clicks, changes of others and
                            \* requests that fail, taken together

Free == "free"
AnyOp == "any"

\* A form that is filled in: the row it is about, the control it was opened with, what the
\* operator did with it, and its history.
Drafts ==
  [row : UNION {p.rows : p \in Pages}, op : {op.name : op \in UNION {p.ops : p \in Pages}} \cup {AnyOp},
   typed : BOOLEAN, made : Nat, unheard : BOOLEAN]

ASSUME PageAssumption ==
  /\ {MaxReads, MaxEvents} \subseteq Nat
  /\ \A p \in Pages :
       /\ p.about \in p.rows /\ NoForm \notin DOMAIN p.forms
       /\ \A op \in p.ops : op.form \in DOMAIN p.forms \cup {NoForm}
  /\ Nothing \notin Drafts

Queries == {1, 2}

VARIABLES
  page,      \* which page it is
  rows,      \* external: the server's rows, their status and how often they changed
  query,     \* the path asked for: filters, search, page of the list
  data,      \* useApi: what is shown, and the query it was read for
  reads,     \* reads under way, oldest first; "late" once a later one was answered
  drafts,    \* the forms.  "made" and "unheard" are history: how often the server did
             \* what the draft asks, and whether an answer to it was lost
  busy,      \* the flags that disable controls
  calls,     \* acts under way
  due,       \* a timer that will read the data again is running
  left,      \* the page was left for another
  untold,    \* history: why the page may show what is not so: it "missed" something that
             \* happened, or an answer was "overtaken" by a later one
  events     \* bound

vars == <<page, rows, query, data, reads, drafts, busy, calls, due, left, untold, events>>
list == <<query, data, reads, due, untold>>
panel == <<drafts, busy>>

Forms == DOMAIN page.forms
Flags == {op.of : op \in page.ops} \ {NoFlag}
Offered(op, id) == data # Nothing /\ data.seen[id].is \in op.on

Draft(id, op) == [row |-> id, op |-> op, typed |-> FALSE, made |-> 0, unheard |-> FALSE]
\* The row a form that is always there is about.
About(f) == IF f \in page.rows THEN f ELSE page.about

\* The forms that are always there.
Standing == {f \in Forms : page.forms[f] # "opened"}

Init ==
  /\ page \in Pages
  /\ rows \in [page.rows -> {[is |-> s, rev |-> 0] : s \in page.start}]
  /\ query = 1
  /\ data = Nothing
  /\ reads = <<[query |-> 1, seen |-> rows, late |-> FALSE]>>
  /\ drafts = [f \in Forms |-> Nothing]
  /\ busy = [b \in Flags |-> Free]
  /\ calls = <<>>
  /\ due = FALSE /\ left = FALSE /\ untold = {}
  /\ events = 0

-----------------------------------------------------------------------------
\* Data is read.

Ask(q) == Append(reads, [query |-> q, seen |-> rows, late |-> FALSE])

\* Another filter, search or page of the list.
SetQuery(q) ==
  /\ page.filters /\ ~ left /\ q # query /\ events < MaxEvents /\ Len(reads) < MaxReads
  /\ query' = q
  /\ reads' = Ask(q)
  /\ events' = events + 1
  /\ UNCHANGED <<page, data, due, untold, panel, calls, left, rows>>

Reread ==
  /\ ~ left /\ Len(reads) < MaxReads
  /\ reads' = Ask(query)
  /\ UNCHANGED <<page, query, data, due, untold, panel, calls, left, rows>>

\* The Refresh button, a new access token.
Refresh == Reread /\ events < MaxEvents /\ events' = events + 1

\* Something shown is still running.  The other queries of such a page are for what is not.
Running == data # Nothing /\ query = 1 /\ \E id \in page.rows : data.seen[id].is = "open"

\* The page's own timer.
Ticking == page.polls = "always" \/ (page.polls = "running" /\ Running)

Poll == Ticking /\ Reread /\ UNCHANGED events

TimerFires ==
  /\ due /\ ~ left /\ Len(reads) < MaxReads
  /\ reads' = Ask(query)
  /\ due' = FALSE
  /\ UNCHANGED <<page, query, data, untold, panel, calls, left, rows, events>>

\* An answer fills in the forms that are filled in from it; those that are filled in by
\* every read, by one that is adopted only if the handler says so.
SeededBy(f, new, refills) ==
  \/ page.forms[f] = "read" /\ refills
  \/ page.forms[f] = "changed" /\ data.seen[About(f)] # new[About(f)]

Seeded(new, refills) ==
  [f \in Forms |->
     IF f \in Standing /\ (drafts[f] = Nothing \/ SeededBy(f, new, refills)) THEN Draft(About(f), AnyOp)
     ELSE drafts[f]]

\* What was typed is still there: e is the draft d was.
Continues(d, e) ==
  d # Nothing /\ e # Nothing /\ e.row = d.row /\ e.op = d.op /\ (d.typed => e.typed)

\* The calls, when the forms become new: whether each one's draft is still there.
Owned(new) ==
  [c \in DOMAIN calls |->
     LET f == calls[c].op.form IN
     [calls[c] EXCEPT !.own = @ /\ (f = NoForm \/ Continues(drafts[f], new[f]))]]

\* useApi takes whichever answer comes, for whichever query.
Arrive(i) ==
  LET r == reads[i] IN
  /\ ~ left
  /\ data' = [query |-> r.query, seen |-> r.seen]
  /\ reads' = [j \in DOMAIN RemoveAt(reads, i) |->
                 IF j < i THEN [reads[j] EXCEPT !.late = TRUE] ELSE reads[j + 1]]
  /\ untold' = IF r.seen = rows /\ r.query = query THEN {}
               ELSE untold \cup {why \in {"overtaken"} : r.late}
  /\ drafts' = Seeded(r.seen, TRUE)
  /\ calls' = Owned(drafts')
  /\ UNCHANGED <<page, query, due, busy, left, rows, events>>

\* A read fails: what is shown stays, with an error above it.
ReadFails(i) ==
  /\ ~ left /\ events < MaxEvents
  /\ reads' = RemoveAt(reads, i)
  /\ untold' = untold \cup {"missed"}
  /\ events' = events + 1
  /\ UNCHANGED <<page, query, data, due, panel, calls, left, rows>>

-----------------------------------------------------------------------------
\* The operator.

\* A form is opened on a row, and filled in from what is shown of it.
Open(op, id) ==
  LET f == op.form IN
  /\ ~ left /\ f # NoForm /\ page.forms[f] = "opened"
  /\ Offered(op, id)
  /\ page.modal => \A g \in Forms \ Standing : drafts[g] = Nothing
  /\ drafts' = [drafts EXCEPT ![f] = Draft(id, op.name)]
  /\ calls' = Owned(drafts')
  /\ UNCHANGED <<page, list, busy, left, rows, events>>

\* One that is always there is shown with a control that is.
AtHand(f) ==
  /\ drafts[f] # Nothing
  /\ f \in Standing => \E op \in page.ops : op.form = f /\ Offered(op, drafts[f].row)

Type(f) ==
  /\ ~ left /\ AtHand(f) /\ ~ drafts[f].typed
  /\ drafts' = [drafts EXCEPT ![f].typed = TRUE]
  /\ UNCHANGED <<page, list, busy, calls, left, rows, events>>

\* Cancel, Escape, the backdrop; of a form that is always there, Discard.
Close(f) ==
  /\ ~ left /\ AtHand(f)
  /\ drafts' = [drafts EXCEPT ![f] = IF f \in Standing THEN Draft(@.row, AnyOp) ELSE Nothing]
  /\ drafts' # drafts
  /\ calls' = Owned(drafts')
  /\ UNCHANGED <<page, list, busy, left, rows, events>>

Flag(op, id) == IF op.flag = "row" THEN id ELSE op.flag

\* Faulty variant: the control stays enabled while its call is out.
EnabledAlways(op, id) == TRUE

Enabled(op, id) == op.of \in Flags => busy[op.of] # Flag(op, id)

Filled(op, id) ==
  /\ drafts[op.form] # Nothing
  /\ drafts[op.form].row = id /\ drafts[op.form].op \in {op.name, AnyOp}
  /\ op.needs => drafts[op.form].typed
  /\ op.form \in Standing => Offered(op, id)

\* A control is clicked.  One in a form that was opened on a row acts on that row,
\* whatever the list shows of it by now.
Click(op, id) ==
  /\ ~ left /\ events < MaxEvents
  /\ IF op.form = NoForm THEN Offered(op, id) ELSE Filled(op, id)
  /\ Enabled(op, id)
  /\ calls' = Append(calls, [op |-> op, row |-> id, own |-> TRUE, is |-> "sent"])
  /\ busy' = IF op.of = NoFlag THEN busy ELSE [busy EXCEPT ![op.of] = Flag(op, id)]
  /\ events' = events + 1
  /\ UNCHANGED <<page, list, drafts, left, rows>>

-----------------------------------------------------------------------------
\* The server.

Changed(id, to) ==
  [rows EXCEPT ![id] = [is |-> IF to = Same THEN @.is ELSE to, rev |-> @.rev + 1]]

\* Others change a row of theirs, or one that is shown here.
Elsewhere(id, change) ==
  /\ events < MaxEvents /\ rows[id].is = change[1]
  /\ rows' = Changed(id, change[2])
  /\ untold' = untold \cup {"missed"}
  /\ events' = events + 1
  /\ UNCHANGED <<page, query, data, reads, due, panel, calls, left>>

Done(c) == [calls EXCEPT ![c].is = "ok"]

Taken(op, id) == rows[id].is \in op.takes

Serve(c) ==
  LET op == calls[c].op  id == calls[c].row IN
  /\ calls[c].is = "sent"
  /\ \/ /\ Taken(op, id)
        /\ rows' = Changed(id, op.to)
        /\ calls' = Done(c)
        /\ drafts' = IF op.counts /\ calls[c].own
                     THEN [drafts EXCEPT ![op.form].made = @ + 1] ELSE drafts
     \/ /\ ~ Taken(op, id)
        /\ calls' = [calls EXCEPT ![c].is = "failed"]
        /\ UNCHANGED <<rows, drafts>>
  /\ UNCHANGED <<page, list, busy, left, events>>

-----------------------------------------------------------------------------
\* The answer.

\* A handler lifts its flag on the ways out on which its code does, whoever has set it since.
Released(op, way) ==
  IF op.of # NoFlag /\ way \in op.lifts THEN [busy EXCEPT ![op.of] = Free] ELSE busy

\* Whatever the form is open on by now.
Shut(op, effects, ds) ==
  IF "closes" \notin effects \/ op.form = NoForm THEN ds
  ELSE [ds EXCEPT ![op.form] = IF op.form \in Standing /\ @ # Nothing
                               THEN Draft(@.row, AnyOp) ELSE Nothing]

\* Faulty variant: the list is not read again.
ReadAgainNever(effects) == reads

\* What the answer brings is newer than what any read under way will.
Overtaken == [i \in DOMAIN reads |-> [reads[i] EXCEPT !.late = TRUE]]

ReadAgain(effects) ==
  IF effects \cap {"adopts", "appends"} # {} THEN Overtaken
  ELSE IF "reads" \in effects THEN Ask(query) ELSE reads

\* What is shown after an answer: all that the server has, or what there was and what was sent.
Shows(effects, id) ==
  IF "adopts" \in effects THEN [data EXCEPT !.seen = rows]
  ELSE IF "appends" \in effects THEN [data EXCEPT !.seen[id].rev = @ + 1]
  ELSE data

\* The page does what its code does on that way out of the handler; heard: it knows
\* what became of the call.
React(c, effects, way, heard) ==
  LET op == calls[c].op
      seeded == IF "adopts" \in effects THEN Seeded(rows, "refills" \in effects) ELSE drafts
      known == IF heard \/ ~ calls[c].own \/ op.form = NoForm \/ drafts[op.form] = Nothing THEN seeded
               ELSE [seeded EXCEPT ![op.form].unheard = TRUE]
  IN
  /\ busy' = Released(op, way)
  /\ drafts' = Shut(op, effects, known)
  /\ data' = Shows(effects, calls[c].row)
  /\ reads' = ReadAgain(effects)
  /\ due' = (due \/ "later" \in effects)
  /\ left' = ("leaves" \in effects)
  /\ calls' = RemoveAt(Owned(drafts'), c)

Answer(c) ==
  /\ ~ left /\ calls[c].is # "sent" /\ Len(reads) < MaxReads
  /\ React(c, IF calls[c].is = "ok" THEN calls[c].op.ok ELSE calls[c].op.failed, calls[c].is, TRUE)
  /\ UNCHANGED <<page, query, untold, rows, events>>

\* The request does not get through, or its answer is lost: the helpers of
\* use-api.ts make an error of it, a raw fetch throws and nothing more is run.
Lose(c) ==
  /\ ~ left /\ events < MaxEvents /\ Len(reads) < MaxReads
  /\ React(c, IF calls[c].op.raw THEN {} ELSE calls[c].op.failed, "lost", calls[c].is = "sent")
  /\ untold' = untold \cup {why \in {"missed"} : calls[c].is = "ok"}
  /\ events' = events + 1
  /\ UNCHANGED <<page, query, rows>>

-----------------------------------------------------------------------------
ServeSome == \E c \in DOMAIN calls : Serve(c)
AnswerSome == \E c \in DOMAIN calls : Answer(c)
ArriveSome == \E i \in DOMAIN reads : Arrive(i)

Next ==
  \/ \E q \in Queries : SetQuery(q)
  \/ Refresh \/ Poll \/ TimerFires
  \/ ArriveSome \/ \E i \in DOMAIN reads : ReadFails(i)
  \/ \E op \in page.ops, id \in page.rows : Open(op, id) \/ Click(op, id)
  \/ \E f \in Forms : Type(f) \/ Close(f)
  \/ \E id \in page.rows, change \in page.elsewhere : Elsewhere(id, change)
  \/ ServeSome \/ AnswerSome
  \/ \E c \in DOMAIN calls : Lose(c)

Spec == Init /\ [][Next]_vars

\* The server answers, the browser delivers, timers fire.  Nobody has to click.  Most timers
\* pause while the tab is hidden: the tab is one that is looked at again and again.
FairSpec ==
  /\ Spec
  /\ WF_vars(ServeSome) /\ WF_vars(AnswerSome) /\ WF_vars(ArriveSome)
  /\ WF_vars(Poll) /\ WF_vars(TimerFires)

-----------------------------------------------------------------------------
\* The variables have their types (useApi's state, the drafts, the flags).
TypeOK ==
  /\ query \in Queries
  /\ data # Nothing => data.query \in Queries /\ DOMAIN data.seen = page.rows
  /\ Len(reads) <= MaxReads
  /\ busy \in [Flags -> {Free} \cup page.rows \cup {op.flag : op \in page.ops}]
  /\ \A f \in Forms : drafts[f] # Nothing => drafts[f].row \in page.rows
  /\ \A c \in DOMAIN calls : calls[c].op \in page.ops /\ calls[c].row \in page.rows
  /\ {due, left} \subseteq BOOLEAN /\ untold \subseteq {"missed", "overtaken"}

\* What a form asks for is done once: while its request is out the button is
\* disabled, and afterwards the form is gone or filled in anew.  Only an answer that
\* was lost leaves a form there that can be sent again.
OncePerDraft == \A f \in Forms : drafts[f] # Nothing /\ drafts[f].made > 1 => drafts[f].unheard

\* How the pages see to that.  A control that would do a thing a second time is disabled by
\* a flag of its own while a call is out under it, answers of other controls lift no flag
\* it needs, and it closes its form when it is told that the thing is done.
FormsAreGuarded ==
  \A p \in Pages : \A op \in p.ops : op.counts =>
    /\ op.form # NoForm /\ "closes" \in op.ok
    /\ op.of # NoFlag /\ op.flag # "row" /\ ~ op.raw
    /\ \A other \in p.ops :
         /\ other.of = op.of => other.flag = op.flag
         /\ other.counts /\ other.form = op.form => other.of = op.of

\* No control stays disabled once nothing is under way.
FlagsAreLifted == calls = <<>> => \A b \in Flags : busy[b] = Free

\* What that takes of a page: each handler lifts its flag on every way out of it.
HandlersLift(p) == \A op \in p.ops : op.of # NoFlag => op.lifts = Ways

\* What was typed is not lost to an answer about something else, a read or the answer
\* to another form.  It is, on the pages whose forms are filled in by every read.
TypingSurvives ==
  [][\A f \in Forms :
       /\ ArriveSome \/ \E c \in DOMAIN calls : calls[c].op.form # f /\ Answer(c)
       /\ drafts[f] # Nothing
       => Continues(drafts[f], drafts'[f])]_vars

InStep == data # Nothing /\ data.query = query /\ data.seen = rows

\* The page ends up showing what the server has and what it was asked for, as far as it
\* was told and its answers came in order; while its timer runs it does so whatever
\* others do and whichever answer comes last.
ShowsTheServer == <>[](InStep \/ left \/ (untold # {} /\ ~ Ticking))

\* The same of a page that takes no answer that was overtaken.  useApi takes it, and
\* without a timer nothing corrects that.
ShowsTheLatest == <>[](InStep \/ left \/ ("missed" \in untold /\ ~ Ticking))
=============================================================================
