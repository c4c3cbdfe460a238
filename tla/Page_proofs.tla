---------------------------- MODULE Page_proofs -----------------------------
(***************************************************************************)
(* What holds of any page that is described in the vocabulary of Controls: *)
(* if its handlers lift their flags on every way out no control stays      *)
(* disabled, and if its forms are guarded nothing is done twice.  The      *)
(* argument for the second: under a flag that guards such a form there is  *)
(* one call at a time, and what was done once but not yet answered still   *)
(* has its call out.                                                       *)
(***************************************************************************)
EXTENDS Page, SequenceTheorems, TLAPS

-----------------------------------------------------------------------------
(* The inductive invariant.                                                *)

Calls ==
  [op : UNION {p.ops : p \in Pages}, row : UNION {p.rows : p \in Pages}, own : BOOLEAN,
   is : {"sent", "ok", "failed"}]

Types ==
  /\ page \in Pages
  /\ calls \in Seq(Calls) /\ \A c \in DOMAIN calls : calls[c].op \in page.ops
  /\ drafts \in [Forms -> Drafts \cup {Nothing}]
  /\ busy = [b \in Flags |-> busy[b]]

\* A flag is set only as long as a call is out under it.
FlagsHaveCalls ==
  HandlersLift(page) =>
    \A b \in Flags : busy[b] # Free => \E c \in DOMAIN calls : calls[c].op.of = b

\* The flags of controls that count.
Guards == {op.of : op \in {o \in page.ops : o.counts}}

OneOut ==
  \A c \in DOMAIN calls : calls[c].op.of \in Guards =>
    /\ busy[calls[c].op.of] = calls[c].op.flag
    /\ \A d \in DOMAIN calls : calls[d].op.of = calls[c].op.of => d = c

\* A call that owns a draft has one.
DraftsOfCalls ==
  \A c \in DOMAIN calls : calls[c].own /\ calls[c].op.form \in Forms => drafts[calls[c].op.form] # Nothing

\* The call that did what draft f asks is out.
DoneBy(k, f) == k.own /\ k.op.counts /\ k.op.form = f /\ k.is = "ok"

DoneOnce ==
  \A f \in Forms : drafts[f] # Nothing /\ ~ drafts[f].unheard =>
    \/ drafts[f].made = 0
    \/ drafts[f].made = 1 /\ \E c \in DOMAIN calls : DoneBy(calls[c], f)

-----------------------------------------------------------------------------
(* Sequences.                                                              *)

\* Where the e-th element was before the c-th was removed.
Before(c, e) == IF e < c THEN e ELSE e + 1

LEMMA Removed ==
  ASSUME NEW S, NEW s \in Seq(S), NEW c \in DOMAIN s
  PROVE  /\ RemoveAt(s, c) \in Seq(S)
         /\ Len(RemoveAt(s, c)) = Len(s) - 1
         /\ \A e \in DOMAIN RemoveAt(s, c) :
              /\ RemoveAt(s, c)[e] = s[Before(c, e)]
              /\ Before(c, e) \in DOMAIN s \ {c}
         /\ \A d \in DOMAIN s \ {c} : \E e \in DOMAIN RemoveAt(s, c) : Before(c, e) = d
<1> DEFINE front == SubSeq(s, 1, c - 1)
           back == SubSeq(s, c + 1, Len(s))
<1>1. Len(s) \in Nat /\ DOMAIN s = 1 .. Len(s) /\ c \in 1 .. Len(s)
  OBVIOUS
<1>2. front \in Seq(S) /\ Len(front) = c - 1 /\ \A i \in 1 .. c - 1 : front[i] = s[i]
  BY <1>1
<1>3. back \in Seq(S) /\ Len(back) = Len(s) - c /\ \A i \in 1 .. Len(s) - c : back[i] = s[c + i]
  BY <1>1
<1>4. RemoveAt(s, c) = front \o back
  BY DEF RemoveAt
<1> HIDE DEF front, back
<1>5. /\ RemoveAt(s, c) \in Seq(S) /\ Len(RemoveAt(s, c)) = Len(s) - 1
      /\ DOMAIN RemoveAt(s, c) = 1 .. Len(s) - 1
  <2>1. front \o back \in Seq(S) /\ Len(front \o back) = Len(front) + Len(back)
    BY <1>2, <1>3, ConcatProperties
  <2>2. Len(front) + Len(back) = Len(s) - 1
    BY <1>1, <1>2, <1>3
  <2> QED
    BY <1>4, <2>1, <2>2, LenProperties
<1>6. ASSUME NEW e \in 1 .. Len(s) - 1
      PROVE  RemoveAt(s, c)[e] = s[Before(c, e)] /\ Before(c, e) \in DOMAIN s \ {c}
  <2>1. \A i \in 1 .. Len(front) + Len(back) :
          (front \o back)[i] = IF i <= Len(front) THEN front[i] ELSE back[i - Len(front)]
    BY <1>2, <1>3, ConcatProperties
  <2>2. e \in 1 .. Len(front) + Len(back)
    BY <1>1, <1>2, <1>3
  <2>3. CASE e < c
    <3>1. e \in 1 .. c - 1 /\ e <= Len(front)
      BY <1>1, <1>2, <2>3
    <3> QED
      BY <1>1, <1>2, <1>4, <2>1, <2>2, <2>3, <3>1 DEF Before
  <2>4. CASE ~ (e < c)
    <3>1. ~ (e <= Len(front)) /\ e - Len(front) \in 1 .. Len(s) - c /\ c + (e - Len(front)) = e + 1
      BY <1>1, <1>2, <2>4
    <3>2. RemoveAt(s, c)[e] = back[e - Len(front)]
      BY <1>4, <2>1, <2>2, <3>1
    <3> QED
      BY <1>1, <1>3, <2>4, <3>1, <3>2 DEF Before
  <2> QED
    BY <2>3, <2>4
<1>7. ASSUME NEW d \in DOMAIN s \ {c}
      PROVE  \E e \in 1 .. Len(s) - 1 : Before(c, e) = d
  <2>1. CASE d < c
    BY <1>1, <2>1 DEF Before
  <2>2. CASE d > c
    <3>1. d - 1 \in 1 .. Len(s) - 1 /\ Before(c, d - 1) = d
      BY <1>1, <2>2 DEF Before
    <3> QED
      BY <3>1
  <2> QED
    BY <1>1, <2>1, <2>2
<1> QED
  BY <1>5, <1>6, <1>7

-----------------------------------------------------------------------------
(* Forms and the calls that know them.                                     *)

(* A form that is filled in anew is one with which nothing was done.       *)
LEMMA FreshDraft ==
  ASSUME Types, NEW id \in page.rows, NEW name \in {op.name : op \in page.ops} \cup {AnyOp}
  PROVE  Draft(id, name) \in Drafts /\ Draft(id, name).made = 0
  BY DEF Types, Draft, Drafts

(* A form that is always there is about a row of the page.                 *)
LEMMA AboutARow ==
  ASSUME Types, NEW f
  PROVE  About(f) \in page.rows
<1>1. page.about \in page.rows
  BY PageAssumption DEF Types
<1> QED
  BY <1>1 DEF About

(* An answer leaves a form as it is or fills it in anew.                   *)
LEMMA SeededForms ==
  ASSUME Types, NEW new, NEW refills
  PROVE  /\ Seeded(new, refills) \in [Forms -> Drafts \cup {Nothing}]
         /\ \A f \in Forms :
              \/ Seeded(new, refills)[f] = drafts[f]
              \/ Seeded(new, refills)[f] \in Drafts /\ Seeded(new, refills)[f].made = 0
<1>1. \A f \in Forms : Draft(About(f), AnyOp) \in Drafts /\ Draft(About(f), AnyOp).made = 0
  BY FreshDraft, AboutARow
<1> QED
  BY <1>1 DEF Types, Seeded

(* A control has a form of the page, or none.                              *)
LEMMA FormsOfOps ==
  ASSUME Types
  PROVE  NoForm \notin Forms /\ \A op \in page.ops : op.form \in Forms \cup {NoForm}
  BY PageAssumption DEF Types, Forms

(* What Owned makes of the calls: only whether they still own their draft  *)
(* changes.                                                                *)
LEMMA OwnedCalls ==
  ASSUME Types, NEW new
  PROVE  /\ Owned(new) \in Seq(Calls) /\ DOMAIN Owned(new) = DOMAIN calls /\ Len(Owned(new)) = Len(calls)
         /\ \A c \in DOMAIN calls :
              /\ Owned(new)[c].op = calls[c].op /\ Owned(new)[c].is = calls[c].is
              /\ Owned(new)[c].own <=>
                   /\ calls[c].own
                   /\ \/ calls[c].op.form = NoForm
                      \/ Continues(drafts[calls[c].op.form], new[calls[c].op.form])
<1> DEFINE still(c) == calls[c].op.form = NoForm \/ Continues(drafts[calls[c].op.form], new[calls[c].op.form])
           made(c) == [calls[c] EXCEPT !.own = calls[c].own /\ still(c)]
<1>1. Owned(new) = [c \in DOMAIN calls |-> made(c)]
  BY DEF Owned
<1>2. ASSUME NEW c \in DOMAIN calls
      PROVE  /\ made(c) \in Calls /\ made(c).op = calls[c].op /\ made(c).is = calls[c].is
             /\ made(c).own <=> calls[c].own /\ still(c)
  <2>1. calls[c] \in Calls
    BY DEF Types
  <2>2. still(c) \in BOOLEAN
    BY DEF Continues
  <2> HIDE DEF still
  <2> QED
    BY <2>1, <2>2 DEF Calls
<1> HIDE DEF made, still
<1>3. DOMAIN calls = 1 .. Len(calls) /\ Len(calls) \in Nat
  BY DEF Types
<1>4. Owned(new) \in Seq(Calls) /\ Len(Owned(new)) = Len(calls)
  <2>1. Owned(new) \in [1 .. Len(calls) -> Calls]
    BY <1>1, <1>2, <1>3
  <2> QED
    BY <1>3, <2>1, IsASeq, LenProperties
<1> QED
  BY <1>1, <1>2, <1>4 DEF still

-----------------------------------------------------------------------------
(* What a step does to the forms.                                          *)

\* The form goes on.
GoesOn(f) ==
  /\ drafts[f] # Nothing /\ drafts'[f] # Nothing
  /\ Continues(drafts[f], drafts'[f])
  /\ drafts'[f].made = drafts[f].made /\ drafts'[f].unheard = drafts[f].unheard

\* It is shut, filled in anew, or its call was not heard of.
Anew(f) == drafts'[f] = Nothing \/ drafts'[f].made = 0 \/ drafts'[f].unheard

FormsMay ==
  /\ drafts' \in [Forms -> Drafts \cup {Nothing}]
  /\ \A f \in Forms : GoesOn(f) \/ Anew(f)

(* A form that is left alone goes on, if there is one.                     *)
LEMMA LeftAlone ==
  ASSUME NEW f, drafts'[f] = drafts[f]
  PROVE  GoesOn(f) \/ Anew(f)
  BY DEF GoesOn, Anew, Continues

(* What an answer to a call does to the forms.                             *)
LEMMA ReactForms ==
  ASSUME Types, NEW c \in DOMAIN calls, NEW effects, NEW way, NEW heard \in BOOLEAN,
         React(c, effects, way, heard)
  PROVE  /\ FormsMay
         /\ calls[c].op.form \in Forms =>
              /\ "closes" \in effects => Anew(calls[c].op.form)
              /\ ~ heard /\ calls[c].own => Anew(calls[c].op.form)
<1> DEFINE f == calls[c].op.form
           seeded == IF "adopts" \in effects THEN Seeded(rows, "refills" \in effects) ELSE drafts
           silent == heard \/ ~ calls[c].own \/ f = NoForm \/ drafts[f] = Nothing
           known == IF silent THEN seeded ELSE [seeded EXCEPT ![f].unheard = TRUE]
           shut == IF f \in Standing /\ known[f] # Nothing THEN Draft(known[f].row, AnyOp) ELSE Nothing
<1>0. NoForm \notin Forms
  BY FormsOfOps
<1>1. /\ seeded \in [Forms -> Drafts \cup {Nothing}]
      /\ \A g \in Forms : seeded[g] = drafts[g] \/ (seeded[g] \in Drafts /\ seeded[g].made = 0)
  BY SeededForms DEF Types
<1>2. drafts' = IF "closes" \notin effects \/ f = NoForm THEN known ELSE [known EXCEPT ![f] = shut]
  BY DEF React, Shut
<1> HIDE DEF seeded
<1>3. /\ known \in [Forms -> Drafts \cup {Nothing}]
      /\ \A g \in Forms : g # f \/ silent => known[g] = seeded[g]
  <2>1. CASE silent
    BY <1>1, <2>1
  <2>2. CASE ~ silent /\ f \in Forms
    <3>1. seeded[f] \in Drafts
      BY <1>1, <2>2 DEF Types
    <3>2. [seeded[f] EXCEPT !.unheard = TRUE] \in Drafts
      BY <3>1 DEF Drafts
    <3> QED
      BY <1>1, <2>2, <3>2
  <2>3. CASE ~ silent /\ f \notin Forms
    BY <1>1, <2>3
  <2> QED
    BY <2>1, <2>2, <2>3
<1>4. ASSUME ~ silent, f \in Forms
      PROVE  known[f].unheard
  <2>1. seeded[f] \in Drafts
    BY <1>1, <1>4 DEF Types
  <2>2. [seeded[f] EXCEPT !.unheard = TRUE].unheard
    BY <2>1 DEF Drafts
  <2> QED
    BY <1>1, <1>4, <2>2
<1>5. f \in Forms => /\ shut \in Drafts \cup {Nothing}
                     /\ shut = Nothing \/ shut.made = 0
  BY <1>3 DEF Draft, Drafts
<1> HIDE DEF known, shut
<1>6. drafts' \in [Forms -> Drafts \cup {Nothing}]
  BY <1>2, <1>3, <1>5
<1>7. \A g \in Forms \ {f} : drafts'[g] = seeded[g]
  BY <1>2, <1>3
<1>8. ASSUME f \in Forms, "closes" \in effects
      PROVE  Anew(f)
  <2>1. drafts'[f] = shut
    BY <1>0, <1>2, <1>3, <1>8
  <2> QED
    BY <1>5, <1>8, <2>1 DEF Anew
<1>9. ASSUME f \in Forms, ~ ("closes" \in effects)
      PROVE  drafts'[f] = known[f]
  BY <1>0, <1>2, <1>9
<1>10. ASSUME f \in Forms, ~ heard, calls[c].own
       PROVE  Anew(f) \/ (drafts[f] = Nothing /\ drafts'[f] = seeded[f])
  BY <1>0, <1>3, <1>4, <1>8, <1>9, <1>10 DEF Anew
<1>11. ASSUME NEW g \in Forms, drafts'[g] = seeded[g]
       PROVE  GoesOn(g) \/ Anew(g)
  BY <1>1, <1>11, LeftAlone DEF Anew
<1>12. ASSUME f \in Forms
       PROVE  GoesOn(f) \/ Anew(f)
  <2>1. CASE silent
    BY <1>3, <1>8, <1>9, <1>11, <1>12, <2>1
  <2>2. CASE ~ silent
    BY <1>4, <1>8, <1>9, <1>12, <2>2 DEF Anew
  <2> QED
    BY <2>1, <2>2
<1>13. FormsMay
  BY <1>6, <1>7, <1>11, <1>12 DEF FormsMay
<1>14. ASSUME f \in Forms, ~ heard, calls[c].own
       PROVE  Anew(f)
  <2>1. CASE drafts[f] = Nothing /\ drafts'[f] = seeded[f]
    BY <1>1, <1>14, <2>1 DEF Anew
  <2> QED
    BY <1>10, <1>14, <2>1
<1> QED
  BY <1>8, <1>13, <1>14

-----------------------------------------------------------------------------
(* What a step does to the calls.                                          *)

\* The call goes on, and with it whether it owns its draft.
SameCall(k, l) ==
  /\ l.op = k.op /\ l.is = k.is
  /\ l.own => k.own
  /\ l.own /\ k.op.form \in Forms /\ drafts[k.op.form] # Nothing => drafts'[k.op.form] # Nothing
  /\ k.own /\ GoesOn(k.op.form) => l.own

\* All calls stay.
Stays ==
  /\ UNCHANGED <<page, busy>> /\ FormsMay
  /\ calls' \in Seq(Calls) /\ DOMAIN calls' = DOMAIN calls
  /\ \A c \in DOMAIN calls : SameCall(calls[c], calls'[c])

\* The call c is over.
Ends(c) ==
  /\ page' = page /\ FormsMay
  /\ calls' \in Seq(Calls)
  /\ \A e \in DOMAIN calls' : Before(c, e) \in DOMAIN calls \ {c} /\ SameCall(calls[Before(c, e)], calls'[e])
  /\ \A d \in DOMAIN calls \ {c} : \E e \in DOMAIN calls' : Before(c, e) = d
  /\ busy' = [b \in Flags |-> busy'[b]]
  /\ \A b \in Flags \ {calls[c].op.of} : busy'[b] = busy[b]
  /\ HandlersLift(page) /\ calls[c].op.of \in Flags => busy'[calls[c].op.of] = Free

(* Where the forms change, each call is looked at.                         *)
LEMMA OwnedAreSame ==
  ASSUME Types
  PROVE  \A c \in DOMAIN calls : SameCall(calls[c], Owned(drafts')[c])
<1> SUFFICES ASSUME NEW c \in DOMAIN calls
             PROVE  SameCall(calls[c], Owned(drafts')[c])
  OBVIOUS
<1> DEFINE k == calls[c]
           l == Owned(drafts')[c]
<1>1. /\ l.op = k.op /\ l.is = k.is
      /\ l.own <=> k.own /\ (k.op.form = NoForm \/ Continues(drafts[k.op.form], drafts'[k.op.form]))
  BY OwnedCalls
<1>2. NoForm \notin Forms
  BY FormsOfOps
<1> HIDE DEF k, l
<1>3. SameCall(k, l)
  BY <1>1, <1>2 DEF SameCall, GoesOn, Continues
<1> QED
  BY <1>3 DEF k, l

(* A call that is left alone, with its form.                               *)
LEMMA AloneIsSame ==
  ASSUME Types, \A f \in Forms : drafts[f] # Nothing => drafts'[f] # Nothing
  PROVE  \A c \in DOMAIN calls : SameCall(calls[c], calls[c])
  BY DEF SameCall

(* The calls that are left when one is over.                               *)
LEMMA RestOfCalls ==
  ASSUME Types, NEW c \in DOMAIN calls, NEW s \in Seq(Calls), DOMAIN s = DOMAIN calls,
         \A d \in DOMAIN calls : SameCall(calls[d], s[d]), calls' = RemoveAt(s, c)
  PROVE  /\ calls' \in Seq(Calls)
         /\ \A e \in DOMAIN calls' : Before(c, e) \in DOMAIN calls \ {c} /\ SameCall(calls[Before(c, e)], calls'[e])
         /\ \A d \in DOMAIN calls \ {c} : \E e \in DOMAIN calls' : Before(c, e) = d
  BY Removed

(* An answer to c, or word that there is none.                             *)
LEMMA ReactEnds ==
  ASSUME Types, NEW c \in DOMAIN calls, NEW effects, NEW way \in Ways, NEW heard \in BOOLEAN,
         React(c, effects, way, heard), page' = page
  PROVE  Ends(c)
<1>1. FormsMay
  BY ReactForms
<1>2. calls' = RemoveAt(Owned(drafts'), c)
  BY DEF React
<1>3. /\ Owned(drafts') \in Seq(Calls) /\ DOMAIN Owned(drafts') = DOMAIN calls
      /\ \A d \in DOMAIN calls : SameCall(calls[d], Owned(drafts')[d])
  BY OwnedCalls, OwnedAreSame
<1>4. busy' = Released(calls[c].op, way)
  BY DEF React
<1>5. /\ busy' = [b \in Flags |-> busy'[b]]
      /\ \A b \in Flags \ {calls[c].op.of} : busy'[b] = busy[b]
  BY <1>4 DEF Released, Types
<1>6. HandlersLift(page) /\ calls[c].op.of \in Flags => busy'[calls[c].op.of] = Free
  <2> SUFFICES ASSUME HandlersLift(page), calls[c].op.of \in Flags
               PROVE  busy'[calls[c].op.of] = Free
    OBVIOUS
  <2>1. calls[c].op \in page.ops /\ calls[c].op.of # NoFlag
    BY DEF Types, Flags
  <2>2. way \in calls[c].op.lifts
    BY <2>1 DEF HandlersLift
  <2> QED
    BY <1>4, <2>1, <2>2 DEF Released, Types
<1> HIDE DEF Owned
<1>7. /\ calls' \in Seq(Calls)
      /\ \A e \in DOMAIN calls' : Before(c, e) \in DOMAIN calls \ {c} /\ SameCall(calls[Before(c, e)], calls'[e])
      /\ \A d \in DOMAIN calls \ {c} : \E e \in DOMAIN calls' : Before(c, e) = d
  BY <1>2, <1>3, RestOfCalls
<1> QED
  BY <1>1, <1>5, <1>6, <1>7 DEF Ends

-----------------------------------------------------------------------------
(* Every step.                                                             *)

Inv == Types /\ DraftsOfCalls /\ FlagsHaveCalls

\* The call is answered by the server, and what it asked is done or not.
Served(c) ==
  /\ calls' = [calls EXCEPT ![c].is = IF Taken(calls[c].op, calls[c].row) THEN "ok" ELSE "failed"]
  /\ calls[c].is = "sent"
  /\ drafts' = IF Taken(calls[c].op, calls[c].row) /\ calls[c].op.counts /\ calls[c].own
               THEN [drafts EXCEPT ![calls[c].op.form].made = @ + 1] ELSE drafts
  /\ UNCHANGED <<page, busy>>

(* Reads, other people, timers and what the operator does to a form leave  *)
(* the calls as they are.                                                  *)
LEMMA ReadingStays ==
  ASSUME Types, UNCHANGED <<page, drafts, busy, calls>>
  PROVE  Stays
<1>1. FormsMay
  BY LeftAlone DEF FormsMay, Types
<1> QED
  BY <1>1, AloneIsSame DEF Stays, Types

LEMMA FormsStay ==
  ASSUME Types, UNCHANGED <<page, busy>>, FormsMay, calls' = Owned(drafts')
  PROVE  Stays
<1>1. /\ Owned(drafts') \in Seq(Calls) /\ DOMAIN Owned(drafts') = DOMAIN calls
      /\ \A c \in DOMAIN calls : SameCall(calls[c], Owned(drafts')[c])
  BY OwnedCalls, OwnedAreSame
<1> HIDE DEF Owned
<1> QED
  BY <1>1 DEF Stays

LEMMA ArriveStays ==
  ASSUME Types, NEW i \in DOMAIN reads, Arrive(i)
  PROVE  Stays
<1>1. drafts' = Seeded(reads[i].seen, TRUE)
  BY DEF Arrive
<1>2. FormsMay
  BY <1>1, SeededForms, LeftAlone DEF FormsMay, Anew
<1> QED
  BY <1>2, FormsStay DEF Arrive

LEMMA OpenStays ==
  ASSUME Types, NEW op \in page.ops, NEW id \in page.rows, Open(op, id)
  PROVE  Stays
<1>1. Draft(id, op.name) \in Drafts /\ Draft(id, op.name).made = 0
  BY FreshDraft
<1>2. drafts' = [drafts EXCEPT ![op.form] = Draft(id, op.name)]
  BY DEF Open
<1>3. FormsMay
  BY <1>1, <1>2, LeftAlone DEF FormsMay, Anew, Types
<1> QED
  BY <1>3, FormsStay DEF Open

LEMMA CloseStays ==
  ASSUME Types, NEW f \in Forms, Close(f)
  PROVE  Stays
<1> DEFINE d == IF f \in Standing THEN Draft(drafts[f].row, AnyOp) ELSE Nothing
<1>1. d \in Drafts \cup {Nothing} /\ (d = Nothing \/ d.made = 0)
  <2>1. drafts[f] \in Drafts
    BY DEF Close, AtHand, Types
  <2> QED
    BY <2>1 DEF Drafts, Draft
<1>2. drafts' = [drafts EXCEPT ![f] = d]
  BY DEF Close
<1> HIDE DEF d
<1>3. FormsMay
  BY <1>1, <1>2, LeftAlone DEF FormsMay, Anew, Types
<1> QED
  BY <1>3, FormsStay DEF Close

LEMMA TypeStays ==
  ASSUME Types, NEW f \in Forms, Type(f)
  PROVE  Stays
<1> DEFINE d == [drafts[f] EXCEPT !.typed = TRUE]
<1>1. /\ d \in Drafts /\ d # Nothing
      /\ Continues(drafts[f], d) /\ d.made = drafts[f].made /\ d.unheard = drafts[f].unheard
  <2>1. drafts[f] \in Drafts /\ drafts[f] # Nothing
    BY DEF Type, AtHand, Types
  <2>2. d \in Drafts
    BY <2>1 DEF Drafts
  <2>3. d # Nothing
    BY <2>2, PageAssumption
  <2>4. /\ d.row = drafts[f].row /\ d.op = drafts[f].op /\ d.typed = TRUE
        /\ d.made = drafts[f].made /\ d.unheard = drafts[f].unheard
    BY <2>1 DEF Drafts
  <2> QED
    BY <2>1, <2>2, <2>3, <2>4 DEF Continues
<1>2. drafts' = [drafts EXCEPT ![f] = d]
  BY DEF Type
<1> HIDE DEF d
<1>3. drafts'[f] = d /\ \A g \in Forms \ {f} : drafts'[g] = drafts[g]
  BY <1>2 DEF Types
<1>4. GoesOn(f)
  BY <1>1, <1>3 DEF GoesOn, Type, AtHand
<1>5. FormsMay
  BY <1>1, <1>2, <1>3, <1>4, LeftAlone DEF FormsMay, Types
<1>6. \A g \in Forms : drafts[g] # Nothing => drafts'[g] # Nothing
  BY <1>1, <1>3
<1>7. UNCHANGED <<page, busy, calls>>
  BY DEF Type
<1> QED
  BY <1>5, <1>6, <1>7, AloneIsSame DEF Stays, Types

LEMMA ServeServes ==
  ASSUME Types, NEW c \in DOMAIN calls, Serve(c)
  PROVE  Served(c)
  BY DEF Serve, Served, Done

(* A call ends, on one way or another out of its handler.                  *)
LEMMA LoseEnds ==
  ASSUME Types, NEW c \in DOMAIN calls, Lose(c)
  PROVE  Ends(c)
<1>1. React(c, IF calls[c].op.raw THEN {} ELSE calls[c].op.failed, "lost", calls[c].is = "sent") /\ page' = page
  BY DEF Lose
<1>2. "lost" \in Ways /\ (calls[c].is = "sent") \in BOOLEAN
  BY DEF Ways
<1> QED
  BY <1>1, <1>2, ReactEnds

LEMMA AnswerEnds ==
  ASSUME Types, NEW c \in DOMAIN calls, Answer(c)
  PROVE  Ends(c)
<1>1. PICK effects : React(c, effects, calls[c].is, TRUE)
  BY DEF Answer
<1>2. calls[c].is \in Ways
  <2>1. calls[c] \in Calls
    BY DEF Types
  <2> QED
    BY <2>1 DEF Calls, Answer, Ways
<1> QED
  BY <1>1, <1>2, ReactEnds DEF Answer

(* What any step is to the calls.                                          *)
LEMMA Steps ==
  ASSUME Types, [Next]_vars
  PROVE  \/ Stays
         \/ \E op \in page.ops, id \in page.rows : Click(op, id)
         \/ \E c \in DOMAIN calls : Served(c) \/ (Ends(c) /\ (Answer(c) \/ Lose(c)))
<1>1. CASE \/ \E q \in Queries : SetQuery(q)
           \/ Refresh \/ Poll \/ TimerFires \/ \E i \in DOMAIN reads : ReadFails(i)
           \/ \E id \in page.rows, change \in page.elsewhere : Elsewhere(id, change)
           \/ UNCHANGED vars
  <2>1. UNCHANGED <<page, drafts, busy, calls>>
    BY <1>1 DEF SetQuery, Refresh, Poll, Reread, TimerFires, ReadFails, Elsewhere, panel, vars
  <2> QED
    BY <2>1, ReadingStays
<1>2. CASE ArriveSome
  BY <1>2, ArriveStays DEF ArriveSome
<1>3. CASE \E op \in page.ops, id \in page.rows : Open(op, id) \/ Click(op, id)
  BY <1>3, OpenStays
<1>4. CASE \E f \in Forms : Type(f) \/ Close(f)
  BY <1>4, TypeStays, CloseStays
<1>5. CASE ServeSome \/ AnswerSome \/ \E c \in DOMAIN calls : Lose(c)
  BY <1>5, ServeServes, AnswerEnds, LoseEnds DEF ServeSome, AnswerSome
<1> QED
  BY <1>1, <1>2, <1>3, <1>4, <1>5 DEF Next

-----------------------------------------------------------------------------
(* The invariant is kept, whatever pages there are.                        *)

LEMMA StaysKeepsInv ==
  ASSUME Inv, Stays
  PROVE  Inv'
<1>1. Types'
  BY DEF Inv, Types, Stays, FormsMay, Forms, Flags, SameCall
<1>2. DraftsOfCalls'
  BY DEF Inv, DraftsOfCalls, Stays, SameCall, Forms
<1>3. FlagsHaveCalls'
  BY DEF Inv, FlagsHaveCalls, HandlersLift, Stays, SameCall, Flags
<1> QED
  BY <1>1, <1>2, <1>3 DEF Inv

LEMMA ServedKeepsInv ==
  ASSUME Inv, NEW c \in DOMAIN calls, Served(c)
  PROVE  Inv'
<1> DEFINE f == calls[c].op.form
           k == [calls[c] EXCEPT !.is = IF Taken(calls[c].op, calls[c].row) THEN "ok" ELSE "failed"]
<1>1. calls[c] \in Calls /\ calls[c].op \in page.ops /\ calls \in Seq(Calls)
  BY DEF Inv, Types
<1>2. k \in Calls /\ k.op = calls[c].op /\ k.own = calls[c].own
  BY <1>1 DEF Calls
<1>3. calls' = [calls EXCEPT ![c] = k]
  BY DEF Served
<1> HIDE DEF k
<1>4. /\ calls' \in Seq(Calls) /\ DOMAIN calls' = DOMAIN calls
      /\ \A d \in DOMAIN calls : calls'[d].op = calls[d].op /\ calls'[d].own = calls[d].own
  BY <1>1, <1>2, <1>3
<1>5. /\ drafts' \in [Forms -> Drafts \cup {Nothing}]
      /\ \A g \in Forms : drafts[g] # Nothing => drafts'[g] # Nothing
  <2>1. CASE calls[c].own /\ f \in Forms /\ drafts' # drafts
    <3>1. drafts[f] \in Drafts
      BY <2>1 DEF Inv, Types, DraftsOfCalls
    <3>2. [drafts[f] EXCEPT !.made = @ + 1] \in Drafts
      BY <3>1 DEF Drafts
    <3>3. drafts' = [drafts EXCEPT ![f] = [drafts[f] EXCEPT !.made = @ + 1]]
      BY <2>1 DEF Served
    <3> QED
      BY <3>2, <3>3, PageAssumption DEF Inv, Types
  <2>2. CASE f \notin Forms /\ drafts' # drafts
    <3>1. drafts' = drafts
      BY <2>2 DEF Served, Inv, Types
    <3> QED
      BY <2>2, <3>1
  <2>3. CASE drafts' = drafts
    BY <2>3 DEF Inv, Types
  <2> QED
    BY <2>1, <2>2, <2>3 DEF Served
<1>6. UNCHANGED <<page, busy>>
  BY DEF Served
<1>7. Types'
  BY <1>4, <1>5, <1>6 DEF Inv, Types, Forms, Flags
<1>8. DraftsOfCalls'
  BY <1>4, <1>5, <1>6 DEF Inv, DraftsOfCalls, Forms
<1>9. FlagsHaveCalls'
  BY <1>4, <1>6 DEF Inv, FlagsHaveCalls, HandlersLift, Flags
<1> QED
  BY <1>7, <1>8, <1>9 DEF Inv

LEMMA EndsKeepsInv ==
  ASSUME Inv, NEW c \in DOMAIN calls, Ends(c)
  PROVE  Inv'
<1>1. Types'
  BY DEF Inv, Types, Ends, FormsMay, Forms, Flags, SameCall
<1>2. DraftsOfCalls'
  BY DEF Inv, DraftsOfCalls, Ends, SameCall, Forms
<1>3. FlagsHaveCalls'
  <2> SUFFICES ASSUME HandlersLift(page), NEW b \in Flags, busy'[b] # Free
               PROVE  \E e \in DOMAIN calls' : calls'[e].op.of = b
    BY DEF FlagsHaveCalls, HandlersLift, Flags, Ends
  <2>1. b # calls[c].op.of /\ busy'[b] = busy[b]
    BY DEF Ends
  <2>2. PICK d \in DOMAIN calls : calls[d].op.of = b
    BY <2>1 DEF Inv, FlagsHaveCalls
  <2>3. PICK e \in DOMAIN calls' : Before(c, e) = d
    BY <2>1, <2>2 DEF Ends
  <2> QED
    BY <2>2, <2>3 DEF Ends, SameCall
<1> QED
  BY <1>1, <1>2, <1>3 DEF Inv

\* The call that a click adds.
Added(op, id) == [op |-> op, row |-> id, own |-> TRUE, is |-> "sent"]

(* What a click adds to the calls.                                         *)
LEMMA ClickAdds ==
  ASSUME Inv, NEW op \in page.ops, NEW id \in page.rows, Click(op, id)
  PROVE  /\ calls' \in Seq(Calls) /\ DOMAIN calls' = DOMAIN calls \cup {Len(calls) + 1}
         /\ Len(calls) + 1 \notin DOMAIN calls
         /\ \A c \in DOMAIN calls : calls'[c] = calls[c]
         /\ calls'[Len(calls) + 1] = Added(op, id)
         /\ op.form \in Forms => drafts[op.form] # Nothing
         /\ busy' = IF op.of = NoFlag THEN busy ELSE [busy EXCEPT ![op.of] = Flag(op, id)]
         /\ UNCHANGED <<page, drafts>>
<1>1. calls' = Append(calls, Added(op, id))
  BY DEF Click, Added
<1>2. Added(op, id) \in Calls
  BY DEF Added, Calls, Inv, Types
<1>3. calls \in Seq(Calls) /\ Len(calls) \in Nat /\ DOMAIN calls = 1 .. Len(calls)
  BY DEF Inv, Types
<1>4. /\ calls' \in Seq(Calls) /\ DOMAIN calls' = 1 .. Len(calls) + 1
      /\ \A c \in 1 .. Len(calls) : calls'[c] = calls[c]
      /\ calls'[Len(calls) + 1] = Added(op, id)
  BY <1>1, <1>2, <1>3, AppendProperties
<1>5. op.form \in Forms => drafts[op.form] # Nothing
  <2>1. NoForm \notin Forms
    BY FormsOfOps DEF Inv
  <2> QED
    BY <2>1 DEF Click, Filled
<1>6. DOMAIN calls' = DOMAIN calls \cup {Len(calls) + 1} /\ Len(calls) + 1 \notin DOMAIN calls
  BY <1>3, <1>4
<1> QED
  BY <1>3, <1>4, <1>5, <1>6 DEF Click, panel

LEMMA ClickKeepsInv ==
  ASSUME Inv, NEW op \in page.ops, NEW id \in page.rows, Click(op, id)
  PROVE  Inv'
<1> DEFINE n == Len(calls) + 1
<1>1. /\ calls' \in Seq(Calls) /\ DOMAIN calls' = DOMAIN calls \cup {n}
      /\ \A c \in DOMAIN calls : calls'[c] = calls[c]
      /\ calls'[n].op = op
      /\ op.form \in Forms => drafts[op.form] # Nothing
      /\ busy' = IF op.of = NoFlag THEN busy ELSE [busy EXCEPT ![op.of] = Flag(op, id)]
      /\ UNCHANGED <<page, drafts>>
  <2>1. Added(op, id).op = op
    BY DEF Added
  <2> QED
    BY <2>1, ClickAdds
<1> HIDE DEF n
<1>2. Types'
  BY <1>1 DEF Inv, Types, Forms, Flags
<1>3. DraftsOfCalls'
  BY <1>1 DEF Inv, DraftsOfCalls, Forms
<1>4. FlagsHaveCalls'
  <2> SUFFICES ASSUME HandlersLift(page), NEW b \in Flags, busy'[b] # Free
               PROVE  \E e \in DOMAIN calls' : calls'[e].op.of = b
    BY <1>1 DEF FlagsHaveCalls, HandlersLift, Flags
  <2>1. CASE b = op.of
    BY <1>1, <2>1
  <2>2. CASE b # op.of
    <3>1. busy'[b] = busy[b]
      BY <1>1, <2>2 DEF Inv, Types
    <3>2. PICK d \in DOMAIN calls : calls[d].op.of = b
      BY <3>1 DEF Inv, FlagsHaveCalls
    <3> QED
      BY <1>1, <3>2
  <2> QED
    BY <2>1, <2>2
<1> QED
  BY <1>2, <1>3, <1>4 DEF Inv

(* The inductive invariant holds of every page.                            *)
THEOREM Invariance == Spec => []Inv
<1>1. Init => Inv
  <2> SUFFICES ASSUME Init
               PROVE  Inv
    OBVIOUS
  <2>1. Types
    <3>1. calls \in Seq(Calls) /\ DOMAIN calls = {}
      BY DEF Init
    <3>2. drafts \in [Forms -> Drafts \cup {Nothing}] /\ busy = [b \in Flags |-> busy[b]]
      BY DEF Init
    <3> QED
      BY <3>1, <3>2 DEF Init, Types
  <2>2. calls = <<>> /\ \A b \in Flags : busy[b] = Free
    BY DEF Init
  <2> QED
    BY <2>1, <2>2 DEF Inv, DraftsOfCalls, FlagsHaveCalls
<1>2. Inv /\ [Next]_vars => Inv'
  <2> SUFFICES ASSUME Inv, [Next]_vars
               PROVE  Inv'
    OBVIOUS
  <2> QED
    BY Steps, StaysKeepsInv, ClickKeepsInv, ServedKeepsInv, EndsKeepsInv DEF Inv
<1> QED
  BY <1>1, <1>2, PTL DEF Spec

(* On a page whose handlers lift their flag on every way out no control    *)
(* stays disabled once nothing is under way, whoever shares the flag       *)
(* (the pages' useState flags and the handlers that set them).             *)
THEOREM FlagsComeDown == Spec => [](HandlersLift(page) => FlagsAreLifted)
<1>1. Inv => (HandlersLift(page) => FlagsAreLifted)
  BY DEF Inv, FlagsHaveCalls, FlagsAreLifted
<1> QED
  BY <1>1, Invariance, PTL

-----------------------------------------------------------------------------
(* Once per draft.                                                         *)

Once == OneOut /\ DoneOnce

(* Under a flag that guards a form the controls set the same.              *)
LEMMA GuardedFlags ==
  ASSUME FormsAreGuarded, Types, NEW op \in page.ops, op.of \in Guards
  PROVE  /\ op.of \in Flags /\ op.flag # "row"
         /\ \A other \in page.ops : other.of = op.of => other.flag = op.flag
<1>1. PICK o \in page.ops : o.counts /\ o.of = op.of
  BY DEF Guards
<1>2. /\ o.of # NoFlag /\ o.flag # "row"
      /\ \A other \in page.ops : other.of = o.of => other.flag = o.flag
  BY <1>1 DEF FormsAreGuarded, Types
<1> QED
  BY <1>1, <1>2 DEF Flags

(* A control that counts has a form, and closes it when it is done.        *)
LEMMA GuardedForms ==
  ASSUME FormsAreGuarded, Types, NEW op \in page.ops, op.counts
  PROVE  /\ op.form \in Forms /\ op.of \in Guards /\ "closes" \in op.ok /\ ~ op.raw
         /\ \A other \in page.ops : other.counts /\ other.form = op.form => other.of = op.of
<1>1. op.form # NoForm /\ "closes" \in op.ok /\ ~ op.raw
      /\ \A other \in page.ops : other.counts /\ other.form = op.form => other.of = op.of
  BY DEF FormsAreGuarded, Types
<1> QED
  BY <1>1, FormsOfOps DEF Guards

(* A draft whose thing was done goes on only with its call.                *)
LEMMA DoneGoesOn ==
  ASSUME DoneOnce, NEW f \in Forms, GoesOn(f) \/ Anew(f), drafts'[f] # Nothing, ~ drafts'[f].unheard
  PROVE  \/ drafts'[f].made = 0
         \/ /\ GoesOn(f) /\ drafts'[f].made = 1
            /\ \E c \in DOMAIN calls : DoneBy(calls[c], f)
  BY DEF DoneOnce, GoesOn, Anew

LEMMA StaysKeepsOnce ==
  ASSUME Inv, Once, Stays
  PROVE  Once'
<1>1. OneOut'
  BY DEF Once, OneOut, Stays, SameCall, Guards
<1>2. DoneOnce'
  <2> SUFFICES ASSUME NEW f \in Forms, drafts'[f] # Nothing, ~ drafts'[f].unheard
               PROVE  \/ drafts'[f].made = 0
                      \/ drafts'[f].made = 1 /\ \E c \in DOMAIN calls' : DoneBy(calls'[c], f)
    BY DEF DoneOnce, Forms, Stays
  <2>1. GoesOn(f) \/ Anew(f)
    BY DEF Stays, FormsMay
  <2>2. CASE drafts'[f].made # 0
    <3>1. GoesOn(f) /\ drafts'[f].made = 1 /\ \E c \in DOMAIN calls : DoneBy(calls[c], f)
      BY <2>1, <2>2, DoneGoesOn DEF Once
    <3>2. PICK c \in DOMAIN calls : DoneBy(calls[c], f)
      BY <3>1
    <3>3. DoneBy(calls'[c], f)
      BY <3>1, <3>2 DEF DoneBy, Stays, SameCall
    <3> QED
      BY <3>1, <3>3 DEF Stays
  <2> QED
    BY <2>2
<1> QED
  BY <1>1, <1>2 DEF Once

LEMMA EndsKeepsOnce ==
  ASSUME FormsAreGuarded, Inv, Once, NEW c \in DOMAIN calls, Ends(c), Answer(c) \/ Lose(c)
  PROVE  Once'
<1>1. OneOut'
  <2> SUFFICES ASSUME NEW e \in DOMAIN calls', calls'[e].op.of \in Guards
               PROVE  /\ busy'[calls'[e].op.of] = calls'[e].op.flag
                      /\ \A i \in DOMAIN calls' : calls'[i].op.of = calls'[e].op.of => i = e
    BY DEF OneOut, Guards, Ends
  <2>1. /\ Before(c, e) \in DOMAIN calls \ {c} /\ calls'[e].op = calls[Before(c, e)].op
        /\ \A i \in DOMAIN calls' : Before(c, i) \in DOMAIN calls \ {c} /\ calls'[i].op = calls[Before(c, i)].op
    BY DEF Ends, SameCall
  <2>2. /\ busy[calls'[e].op.of] = calls'[e].op.flag
        /\ \A d \in DOMAIN calls : calls[d].op.of = calls'[e].op.of => d = Before(c, e)
    BY <2>1 DEF Once, OneOut
  <2>3. calls'[e].op.of \in Flags \ {calls[c].op.of}
    <3>1. calls[Before(c, e)].op \in page.ops
      BY <2>1 DEF Inv, Types
    <3> QED
      BY <2>1, <2>2, <3>1, GuardedFlags DEF Inv
  <2>4. \A i \in DOMAIN calls' : Before(c, i) = Before(c, e) => i = e
    <3>1. c \in Nat /\ e \in Nat /\ \A i \in DOMAIN calls' : i \in Nat
      BY DEF Ends, Inv, Types
    <3> QED
      BY <3>1 DEF Before
  <2> QED
    BY <2>1, <2>2, <2>3, <2>4 DEF Ends
<1>2. DoneOnce'
  <2> SUFFICES ASSUME NEW f \in Forms, drafts'[f] # Nothing, ~ drafts'[f].unheard
               PROVE  \/ drafts'[f].made = 0
                      \/ drafts'[f].made = 1 /\ \E e \in DOMAIN calls' : DoneBy(calls'[e], f)
    BY DEF DoneOnce, Forms, Ends
  <2>1. GoesOn(f) \/ Anew(f)
    BY DEF Ends, FormsMay
  <2>2. CASE drafts'[f].made # 0
    <3>1. GoesOn(f) /\ drafts'[f].made = 1 /\ \E d \in DOMAIN calls : DoneBy(calls[d], f)
      BY <2>1, <2>2, DoneGoesOn DEF Once
    <3>2. PICK d \in DOMAIN calls : DoneBy(calls[d], f)
      BY <3>1
    <3>3. d # c
      <4> SUFFICES ASSUME d = c
                   PROVE  FALSE
        OBVIOUS
      <4>1. calls[c].op \in page.ops /\ calls[c].op.counts /\ calls[c].op.form = f
            /\ calls[c].is = "ok" /\ calls[c].own
        BY <3>2 DEF DoneBy, Inv, Types
      <4>2. "closes" \in calls[c].op.ok /\ ~ calls[c].op.raw
        BY <4>1, GuardedForms DEF Inv
      <4>3. \/ React(c, calls[c].op.ok, "ok", TRUE)
            \/ React(c, calls[c].op.failed, "lost", FALSE)
        <5>1. (calls[c].is = "sent") = FALSE
          BY <4>1
        <5> QED
          BY <4>1, <4>2, <5>1 DEF Answer, Lose
      <4>4. Anew(f)
        BY <4>1, <4>2, <4>3, ReactForms DEF Inv
      <4> QED
        BY <2>2, <4>4 DEF Anew
    <3>4. PICK e \in DOMAIN calls' : Before(c, e) = d
      BY <3>3 DEF Ends
    <3>5. DoneBy(calls'[e], f)
      BY <3>1, <3>2, <3>4 DEF DoneBy, Ends, SameCall
    <3> QED
      BY <3>1, <3>5
  <2> QED
    BY <2>2
<1> QED
  BY <1>1, <1>2 DEF Once

LEMMA ClickKeepsOnce ==
  ASSUME FormsAreGuarded, Inv, Once, NEW op \in page.ops, NEW id \in page.rows, Click(op, id)
  PROVE  Once'
<1> DEFINE n == Len(calls) + 1
<1>1. /\ DOMAIN calls' = DOMAIN calls \cup {n} /\ n \notin DOMAIN calls
      /\ \A c \in DOMAIN calls : calls'[c] = calls[c]
      /\ calls'[n].op = op
      /\ busy' = IF op.of = NoFlag THEN busy ELSE [busy EXCEPT ![op.of] = Flag(op, id)]
      /\ UNCHANGED <<page, drafts>>
  <2>1. Added(op, id).op = op
    BY DEF Added
  <2> QED
    BY <2>1, ClickAdds
<1> HIDE DEF n
<1>2. ASSUME op.of \in Guards
      PROVE  /\ \A c \in DOMAIN calls : calls[c].op.of # op.of
             /\ busy'[op.of] = op.flag
  <2>1. op.of \in Flags /\ op.flag # "row" /\ \A other \in page.ops : other.of = op.of => other.flag = op.flag
    BY <1>2, GuardedFlags DEF Inv
  <2>2. busy[op.of] # op.flag
    BY <2>1 DEF Click, Enabled, Flag
  <2>3. \A c \in DOMAIN calls : calls[c].op.of = op.of => busy[op.of] = op.flag
    BY <1>2, <2>1 DEF Once, OneOut, Inv, Types
  <2>4. busy'[op.of] = op.flag
    BY <1>1, <2>1 DEF Flag, Flags, Inv, Types
  <2> QED
    BY <2>2, <2>3, <2>4
<1>3. \A b \in Flags \ {op.of} : busy'[b] = busy[b]
  BY <1>1 DEF Inv, Types
<1>4. \A c \in DOMAIN calls : calls[c].op.of \in Guards => calls[c].op.of \in Flags
  BY GuardedFlags DEF Inv, Types
<1>5. OneOut'
  <2> SUFFICES ASSUME NEW e \in DOMAIN calls', calls'[e].op.of \in Guards
               PROVE  /\ busy'[calls'[e].op.of] = calls'[e].op.flag
                      /\ \A i \in DOMAIN calls' : calls'[i].op.of = calls'[e].op.of => i = e
    BY <1>1 DEF OneOut, Guards
  <2>1. CASE e = n
    BY <1>1, <1>2, <2>1
  <2>2. CASE e \in DOMAIN calls
    <3>1. calls'[e] = calls[e] /\ calls[e].op.of \in Flags
      BY <1>1, <1>4, <2>2
    <3>2. calls[e].op.of # op.of
      BY <1>2, <2>2, <3>1
    <3>3. busy'[calls[e].op.of] = calls[e].op.flag
      BY <1>3, <2>2, <3>1, <3>2 DEF Once, OneOut
    <3>4. \A d \in DOMAIN calls : calls[d].op.of = calls[e].op.of => d = e
      BY <2>2, <3>1 DEF Once, OneOut
    <3> QED
      BY <1>1, <3>1, <3>2, <3>3, <3>4
  <2> QED
    BY <1>1, <2>1, <2>2
<1>6. DoneOnce'
  BY <1>1 DEF Once, DoneOnce, Forms
<1> QED
  BY <1>5, <1>6 DEF Once

LEMMA ServedKeepsOnce ==
  ASSUME FormsAreGuarded, Inv, Once, NEW c \in DOMAIN calls, Served(c)
  PROVE  Once'
<1> DEFINE f == calls[c].op.form
           done == Taken(calls[c].op, calls[c].row)
           k == [calls[c] EXCEPT !.is = IF done THEN "ok" ELSE "failed"]
<1>1. calls[c] \in Calls /\ calls[c].op \in page.ops /\ calls \in Seq(Calls) /\ done \in BOOLEAN
  BY DEF Inv, Types, Taken
<1>2. k.op = calls[c].op /\ k.own = calls[c].own /\ (done => k.is = "ok")
  BY <1>1 DEF Calls
<1>3. /\ calls' = [calls EXCEPT ![c] = k] /\ calls[c].is = "sent"
      /\ drafts' = IF done /\ calls[c].op.counts /\ calls[c].own
                   THEN [drafts EXCEPT ![f].made = @ + 1] ELSE drafts
      /\ UNCHANGED <<page, busy>>
  BY DEF Served
<1> HIDE DEF k, done
<1>4. /\ DOMAIN calls' = DOMAIN calls
      /\ \A d \in DOMAIN calls : calls'[d].op = calls[d].op /\ calls'[d].own = calls[d].own
      /\ calls'[c] = k
      /\ \A d \in DOMAIN calls \ {c} : calls'[d] = calls[d]
  BY <1>1, <1>2, <1>3
<1>5. OneOut'
  BY <1>3, <1>4 DEF Once, OneOut, Guards
<1>6. \A g \in Forms : \A d \in DOMAIN calls : DoneBy(calls[d], g) => d # c /\ DoneBy(calls'[d], g)
  BY <1>3, <1>4 DEF DoneBy
<1>7. DoneOnce'
  <2> SUFFICES ASSUME NEW g \in Forms, drafts'[g] # Nothing, ~ drafts'[g].unheard
               PROVE  \/ drafts'[g].made = 0
                      \/ drafts'[g].made = 1 /\ \E d \in DOMAIN calls' : DoneBy(calls'[d], g)
    BY <1>3 DEF DoneOnce, Forms
  <2>1. CASE drafts'[g] = drafts[g]
    BY <1>4, <1>6, <2>1 DEF Once, DoneOnce
  <2>2. CASE drafts'[g] # drafts[g]
    <3>1. g = f /\ done /\ calls[c].op.counts /\ calls[c].own
      BY <1>3, <2>2 DEF Inv, Types
    <3>2. drafts[f] \in Drafts /\ drafts[f] # Nothing
      BY <3>1 DEF Inv, Types, DraftsOfCalls
    <3>3. drafts'[f] = [drafts[f] EXCEPT !.made = @ + 1]
      BY <1>3, <3>1 DEF Inv, Types
    <3>4. drafts'[f].made = drafts[f].made + 1 /\ drafts'[f].unheard = drafts[f].unheard
      BY <3>2, <3>3 DEF Drafts
    <3>5. ~ \E d \in DOMAIN calls : DoneBy(calls[d], f)
      <4> SUFFICES ASSUME NEW d \in DOMAIN calls, DoneBy(calls[d], f)
                   PROVE  FALSE
        OBVIOUS
      <4>1. d # c /\ calls[d].op \in page.ops /\ calls[d].op.counts /\ calls[d].op.form = f
        BY <1>6, <3>1 DEF DoneBy, Inv, Types
      <4>2. calls[c].op.of \in Guards /\ calls[d].op.of = calls[c].op.of
        BY <1>1, <3>1, <4>1, GuardedForms DEF Inv
      <4> QED
        BY <4>1, <4>2 DEF Once, OneOut
    <3>6. drafts[f].made = 0
      BY <3>1, <3>2, <3>4, <3>5 DEF Once, DoneOnce
    <3>7. DoneBy(calls'[c], f)
      BY <1>2, <1>4, <3>1 DEF DoneBy
    <3> QED
      BY <1>4, <3>1, <3>4, <3>6, <3>7
  <2> QED
    BY <2>1, <2>2
<1> QED
  BY <1>5, <1>7 DEF Once

(* What a form asks for is done once, on every page whose forms are        *)
(* guarded: MCPages evaluates FormsAreGuarded for the pages there are      *)
(* (the forms' submit handlers, disabled while busy).                      *)
THEOREM EachDraftOnce == ASSUME FormsAreGuarded PROVE Spec => []OncePerDraft
<1>1. Init => Once
  <2> SUFFICES ASSUME Init
               PROVE  Once
    OBVIOUS
  <2>1. DOMAIN calls = {} /\ \A f \in Forms : drafts[f] = Nothing
    BY DEF Init
  <2> QED
    BY <2>1 DEF Once, OneOut, DoneOnce
<1>2. Inv /\ Once /\ [Next]_vars => Once'
  <2> SUFFICES ASSUME Inv, Once, [Next]_vars
               PROVE  Once'
    OBVIOUS
  <2> QED
    BY FormsAreGuarded, Steps, StaysKeepsOnce, ClickKeepsOnce, ServedKeepsOnce, EndsKeepsOnce DEF Inv
<1>3. Once => OncePerDraft
  BY DEF Once, DoneOnce, OncePerDraft
<1> QED
  BY <1>1, <1>2, <1>3, Invariance, PTL DEF Spec
=============================================================================
