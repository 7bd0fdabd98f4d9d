----------------------------- MODULE EditingProofs -----------------------------
(***************************************************************************)
(* Theorems about what a user types into the application: the forms of the *)
(* pages, for any table, any profiles that satisfy FormsAssumption, and any*)
(* number of clicks and requests; and the notebook, for any number of      *)
(* notes, keystrokes and requests in flight.                               *)
(***************************************************************************)
EXTENDS PageForms, Notebook, TLAPS

-----------------------------------------------------------------------------
(* The forms of the pages *)

\* What the fields hold fits the form that is open; a form without rows never holds one.
FieldsFit ==
    /\ form.mode = "create" => fields.of = New
    /\ form.mode = "edit" => fields.of = form.row
    /\ page.drafts => fields.of = New /\ form.mode # "edit"

\* A request carries what belongs to the row it is about.
CallsFit ==
    \A c \in calls :
        /\ c.op = "create" => c.of = New
        /\ c.op # "create" => c.row \in Rows /\ c.of = c.row
        /\ c.stage = "done" => c.row \in Rows

RowsInv == FormsTypeOK /\ FieldsFit /\ CallsFit /\ SaveHitsItsRow

\* The form a request inserts a row for, or the click that did without one.
Source(c) == IF c.form = 0 THEN c.at ELSE c.form
Creates == {c \in calls : c.op = "create"}

\* Everything that was numbered was numbered by an earlier click.
Numbered ==
    /\ form.id <= clicks
    /\ \A r \in Rows : rows[r].by <= clicks
    /\ \A c \in calls : c.form <= clicks /\ c.at <= clicks

\* At most one insertion of a form is in flight, and while the form is open it is the
\* last one that was requested; a form without an insertion in flight has inserted
\* nothing, as far as none of its insertions seemed to fail.
Insertions ==
    /\ \A c, d \in Creates : c # d => Source(c) # Source(d)
    /\ \A c \in Creates, r \in Rows :
          c.stage = "sent" /\ rows[r].by = Source(c) => Source(c) \in failed
    /\ form.mode # "closed" =>
          /\ form.id # 0
          /\ \A c \in calls : c.form = 0 => c.at # form.id
    /\ form.mode = "create" =>
          /\ "create" \in page.offers
          /\ \A c \in Creates : c.form = form.id => page.closes # "click" /\ c.at = latest
          /\ \A r \in Rows :
                rows[r].by = form.id => form.id \in failed \/ \E c \in Creates : c.form = form.id

OnceInv == RowsInv /\ Numbered /\ Insertions /\ OneRowPerForm

\* A user who waits has at most one request in flight; a request of a form is one of the
\* open form and carries what it shows, and once it is served the text is saved.
PatientInv ==
    patient /\ page.closes # "click" /\ page.loads = "once" =>
        /\ \A c, d \in calls : c = d
        /\ \A c \in calls : c.form # 0 =>
              /\ c.op \in {"create", "edit"}
              /\ form.mode # "closed" /\ c.text = fields.text
              /\ c.stage = "done" => c.text \notin unsaved
        /\ unsaved \subseteq IF form.mode # "closed" THEN {fields.text} ELSE {}

-----------------------------------------------------------------------------
(* Types, and whose data is saved where *)

LEMMA FormFacts ==
    ASSUME FormsTypeOK
    PROVE  /\ form.mode \in {"closed", "create", "edit"}
           /\ form.mode = "closed" => form = Closed
           /\ form.mode = "create" => form.row = New
           /\ form.mode = "edit" => form.row \in Rows
           /\ form.row \in Targets /\ form.id \in Texts
           /\ fields.of \in Targets /\ fields.text \in Texts
           /\ page \in Profiles
BY FormsAssumption DEF FormsTypeOK, Forms, Closed, Texts, Targets

LEMMA ClickFacts ==
    ASSUME FormsTypeOK, Click
    PROVE  clicks + 1 \in Texts /\ clicks' = clicks + 1 /\ clicks' \in Texts /\ patient' \in BOOLEAN
BY FormsAssumption DEF FormsTypeOK, Click, Texts

\* Opening, closing, typing and asking leave the table and the requests alone.
LEMMA RowsAtInputs ==
    ASSUME RowsInv,
           OpenCreate \/ Type \/ Close \/ Refuse \/ \E r \in Rows : OpenEdit(r) \/ AskRemove(r)
    PROVE  RowsInv'
<1>1. /\ clicks + 1 \in Texts /\ clicks' = clicks + 1 /\ clicks' \in Texts /\ patient' \in BOOLEAN
  BY ClickFacts DEF RowsInv, OpenCreate, OpenEdit, Type, Close, AskRemove, Refuse
<1>2. UNCHANGED <<page, rows, shown, due, calls, latest, failed>>
  BY DEF OpenCreate, OpenEdit, Type, Close, AskRemove, Refuse, tableVars, callVars
<1>3. CallsFit' /\ SaveHitsItsRow'
  BY <1>2 DEF RowsInv, CallsFit, SaveHitsItsRow
<1>4. CASE OpenCreate
  BY <1>1, <1>2, <1>3, <1>4, FormFacts, FormsAssumption
     DEF OpenCreate, RowsInv, FormsTypeOK, FieldsFit, Forms, Blank, Texts, Targets
<1>5. ASSUME NEW r \in Rows, OpenEdit(r) PROVE RowsInv'
  <2>1. shown[r].text \in Texts /\ page \in Pages
    BY DEF RowsInv, FormsTypeOK, RowRecords
  <2> QED
    BY <1>1, <1>2, <1>3, <1>5, <2>1, FormFacts, FormsAssumption
       DEF OpenEdit, Load, RowsInv, FormsTypeOK, FieldsFit, Forms, Targets
<1>6. CASE Type
  BY <1>1, <1>2, <1>3, <1>6, FormFacts
     DEF Type, RowsInv, FormsTypeOK, FieldsFit, Targets
<1>7. CASE Close
  BY <1>1, <1>2, <1>3, <1>7, FormFacts
     DEF Close, RowsInv, FormsTypeOK, FieldsFit, Forms, Closed
<1>8. CASE Refuse \/ \E r \in Rows : AskRemove(r)
  BY <1>1, <1>2, <1>3, <1>8, FormFacts
     DEF AskRemove, Refuse, RowsInv, FormsTypeOK, FieldsFit, Targets
<1> QED  BY <1>4, <1>5, <1>6, <1>7, <1>8

\* A new request takes what it carries from the form, or from the row it is about.
LEMMA RowsAtSubmit ==
    ASSUME RowsInv, Submit
    PROVE  RowsInv'
<1>1. /\ clicks + 1 \in Texts /\ clicks' = clicks + 1 /\ clicks' \in Texts /\ patient' \in BOOLEAN
  BY ClickFacts DEF RowsInv, Submit
<1>2. form.mode \in {"create", "edit"}
  BY FormFacts DEF RowsInv, Submit, Enabled
<1> DEFINE c == [op |-> form.mode, row |-> form.row, of |-> fields.of, text |-> fields.text,
                 form |-> form.id, at |-> clicks + 1, stage |-> "sent"]
<1>3. c \in Calls
  BY <1>1, <1>2, FormFacts DEF RowsInv, Calls, Ops
<1>4. /\ c.op = "create" => c.of = New
      /\ c.op # "create" => c.row \in Rows /\ c.of = c.row
      /\ c.stage = "sent"
  BY <1>2, FormFacts DEF RowsInv, FieldsFit
<1>5. calls' = calls \cup {c}
  BY DEF Submit
<1>6. CallsFit'
  BY <1>4, <1>5 DEF RowsInv, CallsFit
<1>7. /\ UNCHANGED <<page, rows, shown, due, asked, failed, unsaved>>
      /\ form' \in {form, Closed} /\ fields' \in {fields, Blank}
      /\ form' = form => fields' = fields \/ form = Closed
      /\ latest' \in {latest, clicks + 1}
  BY DEF Submit, tableVars
<1>8. FormsTypeOK'
  BY <1>1, <1>3, <1>5, <1>7, FormsAssumption DEF RowsInv, FormsTypeOK, Forms, Blank, Texts, Targets
<1>9. FieldsFit' /\ SaveHitsItsRow'
  <2>1. form.mode # "closed"
    BY <1>2
  <2>2. form # Closed
    BY <2>1 DEF Closed
  <2> QED
    BY <1>7, <2>2 DEF RowsInv, FieldsFit, SaveHitsItsRow, Closed, Blank
<1> QED  BY <1>6, <1>8, <1>9 DEF RowsInv

LEMMA RowsAtButtons ==
    ASSUME RowsInv, Copy \/ Confirm \/ \E r \in Rows : Change(r) \/ RemoveAtOnce(r)
    PROVE  RowsInv'
<1>1. /\ clicks + 1 \in Texts /\ clicks' = clicks + 1 /\ clicks' \in Texts /\ patient' \in BOOLEAN
  BY ClickFacts DEF RowsInv, Copy, Change, Confirm, RemoveAtOnce
<1>2. PICK op \in Ops, t \in Targets :
        /\ Send(op, t, t) /\ asked' \in {asked, New}
        /\ op = "create" => t = New
        /\ op # "create" => t \in Rows
  BY DEF Copy, Change, Confirm, RemoveAtOnce, Ops, Targets, RowsInv, FormsTypeOK
<1> DEFINE c == [op |-> op, row |-> t, of |-> t,
                 text |-> IF op = "create" THEN 0 ELSE shown[t].text,
                 form |-> 0, at |-> clicks + 1, stage |-> "sent"]
<1>3. c \in Calls
  BY <1>1, <1>2, FormsAssumption DEF RowsInv, FormsTypeOK, RowRecords, Calls, Texts
<1>4. calls' = calls \cup {c} /\ latest' \in {latest, clicks + 1}
  BY <1>2 DEF Send
<1>5. UNCHANGED <<page, rows, shown, due, form, fields, failed, unsaved>>
  BY <1>2 DEF Send, tableVars
<1>6. CallsFit'
  BY <1>2, <1>4 DEF RowsInv, CallsFit
<1>7. FormsTypeOK'
  BY <1>1, <1>2, <1>3, <1>4, <1>5 DEF RowsInv, FormsTypeOK, Targets
<1> QED  BY <1>5, <1>6, <1>7 DEF RowsInv, FieldsFit, SaveHitsItsRow

\* A row that is removed holds what it held.
LEMMA ErasedRow ==
    ASSUME RowsInv, NEW r \in Rows, rows' = [rows EXCEPT ![r].live = FALSE]
    PROVE  /\ rows' \in [Rows -> RowRecords] /\ SaveHitsItsRow'
           /\ \A s \in Rows : rows'[s].by = rows[s].by
<1>1. rows \in [Rows -> RowRecords] /\ rows[r] \in RowRecords
  BY DEF RowsInv, FormsTypeOK
<1> DEFINE row == [rows[r] EXCEPT !.live = FALSE]
<1>2. row \in RowRecords /\ row.live = FALSE /\ row.by = rows[r].by
  BY <1>1 DEF RowRecords
<1>3. rows' = [rows EXCEPT ![r] = row]
  OBVIOUS
<1> HIDE DEF row
<1> QED
  BY <1>1, <1>2, <1>3 DEF RowsInv, SaveHitsItsRow

\* The server changes one row, and the request learns which one it was.
LEMMA RowsAtServer ==
    ASSUME RowsInv, NEW c \in calls, (\E r \in Rows : Insert(c, r)) \/ Update(c) \/ Remove(c)
    PROVE  RowsInv'
<1>1. c \in Calls /\ (c.op = "create" => c.of = New)
      /\ (c.op # "create" => c.row \in Rows /\ c.of = c.row)
  BY DEF RowsInv, FormsTypeOK, CallsFit
<1>2. PICK t \in Rows : Serve(c, t) /\ (c.op # "create" => t = c.row)
  BY <1>1 DEF Insert, Update, Remove
<1> DEFINE d == [c EXCEPT !.stage = "done", !.row = t]
<1>3. /\ d \in Calls /\ d.op = c.op /\ d.of = c.of /\ d.row = t
  BY <1>1, <1>2 DEF Calls, Targets
<1>4. calls' = (calls \ {c}) \cup {d}
  BY <1>2 DEF Serve
<1>5. CallsFit'
  BY <1>1, <1>2, <1>3, <1>4 DEF RowsInv, CallsFit
<1>6. UNCHANGED <<page, shown, due, form, fields, asked, latest, failed, patient, clicks>>
  BY <1>2 DEF Serve
<1>7. rows' \in [Rows -> RowRecords] /\ SaveHitsItsRow' /\ unsaved' \subseteq unsaved
  <2>1. ASSUME NEW r \in Rows, Insert(c, r)
        PROVE  rows' \in [Rows -> RowRecords] /\ SaveHitsItsRow' /\ unsaved' \subseteq unsaved
    <3>1. c.of = New /\ (IF c.form = 0 THEN c.at ELSE c.form) \in Texts /\ c.text \in Texts
      BY <1>1, <2>1 DEF Insert, Calls
    <3> DEFINE by == IF c.form = 0 THEN c.at ELSE c.form
    <3>2. /\ rows' = [rows EXCEPT ![r] = [live |-> TRUE, of |-> r, text |-> c.text, by |-> by]]
          /\ unsaved' = unsaved \ {c.text}
      BY <2>1, <3>1 DEF Insert
    <3>3. [live |-> TRUE, of |-> r, text |-> c.text, by |-> by] \in RowRecords
      BY <3>1 DEF RowRecords, Targets
    <3> QED
      BY <3>2, <3>3 DEF RowsInv, FormsTypeOK, SaveHitsItsRow
  <2>2. CASE Update(c)
    <3>1. c.op # "create" /\ c.text \in Texts /\ c.row \in Rows /\ c.of = c.row
      BY <1>1, <2>2 DEF Update, Calls
    <3>2. /\ unsaved' \in {unsaved, unsaved \ {c.text}}
          /\ rows' \in {rows, [rows EXCEPT ![c.row].of = c.of, ![c.row].text = c.text]}
      BY <2>2 DEF Update
    <3> QED
      BY <3>1, <3>2 DEF RowsInv, FormsTypeOK, SaveHitsItsRow, RowRecords, Targets
  <2>3. CASE Remove(c)
    <3>1. c.row \in Rows
      BY <1>1, <2>3 DEF Remove
    <3> QED
      BY <2>3, <3>1, ErasedRow DEF Remove, RowsInv, FormsTypeOK
  <2> QED  BY <2>1, <2>2, <2>3
<1>8. FormsTypeOK'
  BY <1>3, <1>4, <1>6, <1>7 DEF RowsInv, FormsTypeOK
<1> QED  BY <1>5, <1>6, <1>7, <1>8 DEF RowsInv, FieldsFit

\* An answer closes the form or turns it into the editor of the row.
LEMMA RowsAtArrive ==
    ASSUME RowsInv, NEW c \in calls, Arrive(c)
    PROVE  RowsInv'
<1>1. c \in Calls /\ c.row \in Rows
  BY DEF RowsInv, FormsTypeOK, CallsFit, Arrive
<1>2. /\ calls' = calls \ {c} /\ due' = TRUE
      /\ UNCHANGED <<page, rows, shown, asked, latest, failed, unsaved, patient, clicks>>
  BY DEF Arrive, userVars
<1>3. CallsFit' /\ SaveHitsItsRow'
  BY <1>2 DEF RowsInv, CallsFit, SaveHitsItsRow
<1>4. /\ form' \in Forms /\ fields' \in [of : Targets, text : Texts] /\ FieldsFit'
  <2>1. CASE form' = form /\ fields' = fields
    BY <1>2, <2>1 DEF RowsInv, FormsTypeOK, FieldsFit
  <2>2. CASE form' = Closed /\ fields' \in {fields, Blank}
    BY <1>2, <2>2, FormsAssumption
       DEF RowsInv, FormsTypeOK, FieldsFit, Forms, Closed, Blank, Texts, Targets
  <2>3. CASE /\ c.form # 0 /\ page.closes = "never" /\ form.id = c.form
             /\ form' = [form EXCEPT !.mode = "edit", !.row = c.row]
             /\ fields' = [fields EXCEPT !.of = c.row]
    <3>1. ~page.drafts
      BY <2>3, FormsAssumption DEF RowsInv, FormsTypeOK
    <3>2. form \in [mode : {"create", "edit"}, row : Targets, id : Texts]
      BY <2>3 DEF RowsInv, FormsTypeOK, Forms, Closed, Targets
    <3>3. /\ form' \in [mode : {"edit"}, row : Rows, id : Texts]
          /\ form'.mode = "edit" /\ form'.row = c.row
      BY <1>1, <2>3, <3>2
    <3>4. fields' \in [of : Targets, text : Texts] /\ fields'.of = c.row
      BY <1>1, <2>3 DEF RowsInv, FormsTypeOK, Targets
    <3> QED
      BY <1>2, <3>1, <3>3, <3>4 DEF FieldsFit, Forms
  <2> QED
    BY <2>1, <2>2, <2>3 DEF Arrive
<1> QED
  BY <1>2, <1>3, <1>4 DEF RowsInv, FormsTypeOK

LEMMA RowsAtBreak ==
    ASSUME RowsInv, NEW c \in calls, Break(c)
    PROVE  RowsInv'
<1>1. c.form \in Texts
  BY DEF RowsInv, FormsTypeOK, Calls
<1> QED
  BY <1>1 DEF Break, RowsInv, FormsTypeOK, FieldsFit, CallsFit, SaveHitsItsRow, tableVars, userVars

LEMMA RowsAtRest ==
    ASSUME RowsInv, Refresh \/ \E r \in Rows : RemovedElsewhere(r)
    PROVE  RowsInv'
<1>1. CASE Refresh
  <2>1. /\ fields' \in [of : Targets, text : Texts]
        /\ fields' # fields => form.mode = "edit" /\ fields'.of = form.row
    BY <1>1, FormFacts DEF Refresh, RowsInv, FormsTypeOK, RowRecords, Targets
  <2> QED
    BY <1>1, <2>1
       DEF Refresh, RowsInv, FormsTypeOK, FieldsFit, CallsFit, SaveHitsItsRow, callVars, userVars
<1>2. ASSUME NEW r \in Rows, RemovedElsewhere(r) PROVE RowsInv'
  BY <1>2, ErasedRow
     DEF RemovedElsewhere, RowsInv, FormsTypeOK, FieldsFit, CallsFit, callVars, userVars
<1> QED  BY <1>1, <1>2

LEMMA RowsStart == FormsInit => RowsInv
<1> SUFFICES ASSUME FormsInit PROVE RowsInv
  OBVIOUS
<1>1. PICK S \in SUBSET Rows :
        rows = [r \in Rows |-> [live |-> r \in S, of |-> IF r \in S THEN r ELSE New,
                                text |-> 0, by |-> 0]]
  BY DEF FormsInit
<1>2. 0 \in Texts
  BY FormsAssumption DEF Texts
<1>3. rows \in [Rows -> RowRecords] /\ SaveHitsItsRow
  <2>1. \A r \in Rows : [live |-> r \in S, of |-> IF r \in S THEN r ELSE New, text |-> 0, by |-> 0]
                             \in RowRecords
    <3> TAKE r \in Rows
    <3>1. (r \in S) \in BOOLEAN
      OBVIOUS
    <3>2. (IF r \in S THEN r ELSE New) \in Targets
      BY DEF Targets
    <3> QED
      BY <1>2, <3>1, <3>2, Zenon DEF RowRecords
  <2>2. \A r \in Rows : rows[r].live = (r \in S) /\ rows[r].of = IF r \in S THEN r ELSE New
    BY <1>1
  <2> QED
    BY <1>1, <2>1, <2>2 DEF SaveHitsItsRow
<1>4. /\ form = Closed /\ fields = Blank /\ calls = {}
      /\ page \in Pages /\ shown = rows /\ due = FALSE /\ asked = New /\ latest = 0 /\ failed = {}
      /\ unsaved = {} /\ patient = TRUE /\ clicks = 0
  BY DEF FormsInit
<1>5. FormsTypeOK
  BY <1>2, <1>3, <1>4 DEF FormsTypeOK, Forms, Blank, Targets
<1> QED
  BY <1>3, <1>4, <1>5 DEF RowsInv, FieldsFit, CallsFit, Closed, Blank

LEMMA RowsStep == RowsInv /\ [FormsNext]_formVars => RowsInv'
<1> SUFFICES ASSUME RowsInv, [FormsNext]_formVars PROVE RowsInv'
  OBVIOUS
<1>1. CASE FormsUser
  BY <1>1, RowsAtInputs, RowsAtSubmit, RowsAtButtons DEF FormsUser
<1>2. CASE FormsServer
  BY <1>2, RowsAtServer DEF FormsServer
<1>3. CASE \E c \in calls : Arrive(c) \/ Break(c)
  BY <1>3, RowsAtArrive, RowsAtBreak
<1>4. CASE Refresh \/ \E r \in Rows : RemovedElsewhere(r)
  BY <1>4, RowsAtRest
<1>5. CASE UNCHANGED formVars
  BY <1>5
     DEF formVars, tableVars, callVars, userVars, RowsInv, FormsTypeOK, FieldsFit, CallsFit, SaveHitsItsRow
<1> QED  BY <1>1, <1>2, <1>3, <1>4, <1>5 DEF FormsNext

\* Every page, form and request keeps its type (useCollection.ts:49-103).
THEOREM FormsTypeCorrect == FormsSpec => []FormsTypeOK
<1>1. RowsInv => FormsTypeOK
  BY DEF RowsInv
<1> QED  BY <1>1, RowsStart, RowsStep, PTL DEF FormsSpec

\* A row holds only what was loaded from it or written into its own create form, for any
\* number of rows, clicks and requests (UsersRolesPage.tsx:153-200).
THEOREM SavesHitTheirRows == FormsSpec => []SaveHitsItsRow
<1>1. RowsInv => SaveHitsItsRow
  BY DEF RowsInv
<1> QED  BY <1>1, RowsStart, RowsStep, PTL DEF FormsSpec

-----------------------------------------------------------------------------
(* Insertions *)

LEMMA Numbers ==
    ASSUME RowsInv
    PROVE  /\ clicks \in Nat /\ form.id \in Nat /\ latest \in Nat
           /\ \A c \in calls : c.form \in Nat /\ c.at \in Nat /\ Source(c) \in Nat
           /\ \A r \in Rows : rows[r].by \in Nat
<1>1. \A t \in Texts : t \in Nat
  BY FormsAssumption DEF Texts
<1> QED
  BY <1>1, FormFacts DEF RowsInv, FormsTypeOK, Calls, RowRecords, Source

LEMMA OnceAtInputs ==
    ASSUME OnceInv,
           OpenCreate \/ Type \/ Close \/ Refuse \/ \E r \in Rows : OpenEdit(r) \/ AskRemove(r)
    PROVE  OnceInv'
<1>1. UNCHANGED <<page, rows, calls, latest, failed>> /\ clicks' = clicks + 1
  BY ClickFacts
     DEF OpenCreate, OpenEdit, Type, Close, AskRemove, Refuse, tableVars, callVars, OnceInv, RowsInv
<1>2. \/ form' = form \/ form' = Closed
      \/ /\ form'.id = clicks + 1
         /\ form'.mode = "create" => "create" \in page.offers
  BY DEF OpenCreate, OpenEdit, Type, Close, AskRemove, Refuse
<1>3. RowsInv' /\ RowsInv
  BY RowsAtInputs DEF OnceInv
<1>4. Numbered'
  BY <1>1, <1>2, <1>3, Numbers DEF OnceInv, Numbered, Closed
<1>5. Insertions'
  <2>1. CASE form' = form
    BY <1>1, <2>1 DEF OnceInv, Insertions, Creates, Source
  <2>2. CASE form' = Closed
    BY <1>1, <2>2 DEF OnceInv, Insertions, Creates, Source, Closed
  <2>3. CASE form'.id = clicks + 1 /\ (form'.mode = "create" => "create" \in page.offers)
    <3>1. \A c \in calls : c.form # form'.id /\ c.at # form'.id
      BY <1>3, <2>3, Numbers DEF OnceInv, Numbered
    <3>2. form'.id # 0 /\ \A r \in Rows : rows[r].by # form'.id
      BY <1>3, <2>3, Numbers DEF OnceInv, Numbered
    <3> QED
      BY <1>1, <2>3, <3>1, <3>2 DEF OnceInv, Insertions, Creates, Source
  <2> QED  BY <1>2, <2>1, <2>2, <2>3
<1> QED
  BY <1>1, <1>3, <1>4, <1>5 DEF OnceInv, OneRowPerForm

\* The button of the form is disabled while an insertion of the form is in flight.
LEMMA OnceAtSubmit ==
    ASSUME OnceInv, Submit
    PROVE  OnceInv'
<1> DEFINE c == [op |-> form.mode, row |-> form.row, of |-> fields.of, text |-> fields.text,
                 form |-> form.id, at |-> clicks + 1, stage |-> "sent"]
<1>1. /\ calls' = calls \cup {c} /\ clicks' = clicks + 1
      /\ UNCHANGED <<page, rows, failed>>
      /\ latest' = IF form.mode = "create" THEN clicks + 1 ELSE latest
      /\ form' = IF page.closes = "click" THEN Closed ELSE form
  BY ClickFacts DEF Submit, tableVars, OnceInv, RowsInv
<1>2. RowsInv' /\ RowsInv
  BY RowsAtSubmit DEF OnceInv
<1>3. form.id # 0 /\ form.mode # "closed" /\ form.mode \in {"create", "edit"}
  BY <1>2, FormFacts DEF Submit, Enabled, OnceInv, Insertions, RowsInv
<1>4. Numbered'
  BY <1>1, <1>2, Numbers DEF OnceInv, Numbered, Closed
<1>5. Source(c) = form.id /\ c.op = form.mode /\ c.stage = "sent" /\ c.form = form.id /\ c.at = clicks + 1
  BY <1>3 DEF Source
<1>6. ASSUME form.mode = "create" PROVE \A d \in Creates : d.form # form.id
  <2> SUFFICES ASSUME NEW d \in Creates, d.form = form.id PROVE FALSE
    OBVIOUS
  <2>1. page.closes # "click" /\ "create" \in page.offers
    BY <1>6 DEF OnceInv, Insertions
  <2>2. "create" \in page.waits
    BY <1>2, <2>1, FormsAssumption DEF RowsInv, FormsTypeOK
  <2>3. ~Pending("create")
    BY <2>2 DEF Submit, Enabled
  <2> QED  BY <2>3 DEF Pending, Creates
<1>7. ASSUME form.mode = "create" PROVE \A d \in Creates : Source(d) # form.id
  BY <1>3, <1>6, <1>7 DEF Source, Creates, OnceInv, Insertions
<1>8. Creates' = IF form.mode = "create" THEN Creates \cup {c} ELSE Creates
  BY <1>1, <1>5 DEF Creates
<1> HIDE DEF c
<1>9. \A d, e \in Creates' : d # e => Source(d) # Source(e)
  BY <1>5, <1>7, <1>8 DEF OnceInv, Insertions
<1>10. \A d \in Creates', r \in Rows : d.stage = "sent" /\ rows'[r].by = Source(d) => Source(d) \in failed'
  BY <1>1, <1>5, <1>6, <1>8 DEF OnceInv, Insertions
<1>11. form'.mode # "closed" => form'.id # 0 /\ \A d \in calls' : d.form = 0 => d.at # form'.id
  BY <1>1, <1>3, <1>5 DEF OnceInv, Insertions, Closed
<1>12. ASSUME form'.mode = "create"
       PROVE  /\ "create" \in page.offers
              /\ \A d \in Creates' : d.form = form'.id => page.closes # "click" /\ d.at = latest'
              /\ \A r \in Rows : rows'[r].by = form'.id =>
                    form'.id \in failed' \/ \E d \in Creates' : d.form = form'.id
  <2>1. form' = form /\ form.mode = "create" /\ page.closes # "click" /\ latest' = clicks + 1
    BY <1>1, <1>12 DEF Closed
  <2> QED
    BY <1>1, <1>5, <1>6, <1>8, <2>1 DEF OnceInv, Insertions
<1>13. Insertions'
  BY <1>1, <1>9, <1>10, <1>11, <1>12 DEF Insertions, Source
<1> QED
  BY <1>1, <1>2, <1>4, <1>13 DEF OnceInv, OneRowPerForm

\* A request of a button of a row has a number of its own.
LEMMA OnceAtButtons ==
    ASSUME OnceInv, Copy \/ Confirm \/ \E r \in Rows : Change(r) \/ RemoveAtOnce(r)
    PROVE  OnceInv'
<1>1. RowsInv' /\ RowsInv
  BY RowsAtButtons DEF OnceInv
<1>2. clicks' = clicks + 1
  BY ClickFacts, <1>1 DEF Copy, Change, Confirm, RemoveAtOnce, RowsInv
<1>3. PICK op \in Ops, t \in Targets : Send(op, t, t) /\ (op = "create" => form.mode = "closed")
  BY <1>1 DEF Copy, Change, Confirm, RemoveAtOnce, Idle, Ops, Targets, RowsInv, FormsTypeOK
<1> DEFINE c == [op |-> op, row |-> t, of |-> t,
                 text |-> IF op = "create" THEN 0 ELSE shown[t].text,
                 form |-> 0, at |-> clicks + 1, stage |-> "sent"]
<1>4. /\ calls' = calls \cup {c}
      /\ UNCHANGED <<page, rows, form, failed>>
      /\ op # "create" => latest' = latest
  BY <1>3 DEF Send, tableVars
<1>5. c.op = op /\ c.form = 0 /\ c.at = clicks + 1 /\ Source(c) = clicks + 1
  BY DEF Source
<1> HIDE DEF c
<1>6. /\ \A d \in calls : Source(d) # clicks + 1
      /\ \A r \in Rows : rows[r].by # clicks + 1
      /\ form.id # clicks + 1
  BY <1>1, Numbers DEF OnceInv, Numbered, Source
<1>7. Numbered'
  BY <1>1, <1>2, <1>4, <1>5, Numbers DEF OnceInv, Numbered
<1>8. Creates' = IF op = "create" THEN Creates \cup {c} ELSE Creates
  BY <1>4, <1>5 DEF Creates
<1>9. \A d, e \in Creates' : d # e => Source(d) # Source(e)
  BY <1>5, <1>6, <1>8 DEF OnceInv, Insertions, Creates
<1>10. \A d \in Creates', r \in Rows : d.stage = "sent" /\ rows'[r].by = Source(d) => Source(d) \in failed'
  BY <1>4, <1>5, <1>6, <1>8 DEF OnceInv, Insertions
<1>11. form'.mode # "closed" => form'.id # 0 /\ \A d \in calls' : d.form = 0 => d.at # form'.id
  BY <1>4, <1>5, <1>6 DEF OnceInv, Insertions
<1>12. ASSUME form'.mode = "create"
       PROVE  /\ "create" \in page.offers
              /\ \A d \in Creates' : d.form = form'.id => page.closes # "click" /\ d.at = latest'
              /\ \A r \in Rows : rows'[r].by = form'.id =>
                    form'.id \in failed' \/ \E d \in Creates' : d.form = form'.id
  <2>1. form' = form /\ form.mode = "create" /\ op # "create"
    BY <1>3, <1>4, <1>12
  <2> QED
    BY <1>4, <1>8, <2>1 DEF OnceInv, Insertions
<1>13. Insertions'
  BY <1>4, <1>9, <1>10, <1>11, <1>12 DEF Insertions, Source
<1> QED
  BY <1>1, <1>4, <1>7, <1>13 DEF OnceInv, OneRowPerForm

\* A request is served once: the row it inserts is the first of its form, unless a
\* request of that form seemed to fail.
LEMMA OnceAtServer ==
    ASSUME OnceInv, NEW c \in calls, (\E r \in Rows : Insert(c, r)) \/ Update(c) \/ Remove(c)
    PROVE  OnceInv'
<1>1. RowsInv' /\ RowsInv
  BY RowsAtServer DEF OnceInv
<1>2. c \in Calls
  BY <1>1 DEF RowsInv, FormsTypeOK
<1>3. PICK t \in Rows : Serve(c, t)
  BY <1>1 DEF Insert, Update, Remove, RowsInv, CallsFit
<1> DEFINE d == [c EXCEPT !.stage = "done", !.row = t]
<1>4. /\ d.op = c.op /\ d.form = c.form /\ d.at = c.at /\ d.stage = "done" /\ Source(d) = Source(c)
      /\ c.stage = "sent"
  BY <1>2, <1>3 DEF Calls, Serve, Source
<1>5. /\ calls' = (calls \ {c}) \cup {d}
      /\ UNCHANGED <<page, form, latest, failed, clicks>>
  BY <1>3 DEF Serve
<1> HIDE DEF d
<1>6. Creates' = IF c.op = "create" THEN (Creates \ {c}) \cup {d} ELSE Creates
  BY <1>4, <1>5 DEF Creates
<1>7. \A e \in Creates' : \E b \in Creates :
         /\ Source(b) = Source(e) /\ b.form = e.form /\ b.at = e.at
         /\ (e = d /\ b = c) \/ (e # d /\ b = e /\ b # c) \/ (c.op # "create" /\ b = e)
  BY <1>4, <1>6 DEF Creates
<1>8. \/ /\ c.op = "create"
         /\ \E r \in Rows : /\ rows'[r].by = Source(c)
                            /\ \A s \in Rows \ {r} : rows'[s].by = rows[s].by
      \/ \A s \in Rows : rows'[s].by = rows[s].by
  <2>1. ASSUME NEW r \in Rows, Insert(c, r)
        PROVE  /\ c.op = "create" /\ rows'[r].by = Source(c)
               /\ \A s \in Rows \ {r} : rows'[s].by = rows[s].by
    BY <1>1, <2>1 DEF Insert, RowsInv, FormsTypeOK, Source
  <2>2. CASE Update(c)
    <3>1. rows \in [Rows -> RowRecords]
      BY <1>1 DEF RowsInv, FormsTypeOK
    <3>2. rows' \in {rows, [rows EXCEPT ![c.row].of = c.of, ![c.row].text = c.text]}
      BY <2>2 DEF Update
    <3> QED  BY <3>1, <3>2 DEF RowRecords
  <2>3. CASE Remove(c)
    BY <1>1, <2>3, ErasedRow DEF Remove, RowsInv, CallsFit
  <2> QED  BY <2>1, <2>2, <2>3
<1>9. c.op = "create" => c \in Creates /\ \A r \in Rows : rows[r].by = Source(c) => Source(c) \in failed
  BY <1>4 DEF OnceInv, Insertions, Creates
<1>10. Numbered'
  <2>1. \A e \in calls' : e.form <= clicks /\ e.at <= clicks
    BY <1>4, <1>5 DEF OnceInv, Numbered
  <2>2. Source(c) <= clicks
    BY DEF OnceInv, Numbered, Source
  <2> QED
    BY <1>5, <1>8, <2>1, <2>2 DEF OnceInv, Numbered
<1>11. \A e, f \in Creates' : e # f => Source(e) # Source(f)
  BY <1>4, <1>6 DEF OnceInv, Insertions, Creates
<1>12. \A e \in Creates', r \in Rows : e.stage = "sent" /\ rows'[r].by = Source(e) => Source(e) \in failed'
  <2> SUFFICES ASSUME NEW e \in Creates', NEW r \in Rows, e.stage = "sent", rows'[r].by = Source(e)
               PROVE  Source(e) \in failed
    BY <1>5
  <2>1. e \in Creates /\ (c.op = "create" => e # c)
    BY <1>4, <1>6 DEF Creates
  <2>2. c.op = "create" => Source(e) # Source(c)
    BY <1>9, <2>1 DEF OnceInv, Insertions
  <2>3. rows[r].by = Source(e)
    BY <1>8, <2>2
  <2> QED  BY <2>1, <2>3 DEF OnceInv, Insertions
<1>13. form.mode # "closed" => form.id # 0 /\ \A e \in calls' : e.form = 0 => e.at # form.id
  BY <1>4, <1>5 DEF OnceInv, Insertions
<1>14. ASSUME form.mode = "create"
       PROVE  /\ "create" \in page.offers
              /\ \A e \in Creates' : e.form = form.id => page.closes # "click" /\ e.at = latest
              /\ \A r \in Rows : rows'[r].by = form.id =>
                    form.id \in failed \/ \E e \in Creates' : e.form = form.id
  <2>1. \A e \in Creates' : e.form = form.id => page.closes # "click" /\ e.at = latest
    BY <1>7, <1>14 DEF OnceInv, Insertions
  <2>2. (\E b \in Creates : b.form = form.id) => \E e \in Creates' : e.form = form.id
    BY <1>4, <1>6
  <2> SUFFICES ASSUME NEW r \in Rows, rows'[r].by = form.id
               PROVE  form.id \in failed \/ \E e \in Creates' : e.form = form.id
    BY <1>14, <2>1 DEF OnceInv, Insertions
  <2>3. CASE rows[r].by = form.id
    BY <1>14, <2>2, <2>3 DEF OnceInv, Insertions
  <2>4. CASE c.op = "create" /\ Source(c) = form.id
    <3>1. c.form = form.id
      BY <1>14, <2>4 DEF Source, OnceInv, Insertions
    <3> QED  BY <1>9, <2>2, <2>4, <3>1
  <2> QED  BY <1>8, <2>3, <2>4
<1>15. Insertions'
  BY <1>5, <1>11, <1>12, <1>13, <1>14 DEF Insertions, Source
<1>16. OneRowPerForm'
  <2> SUFFICES ASSUME NEW r \in Rows, NEW s \in Rows, r # s, rows'[r].by = rows'[s].by, rows'[r].by # 0
               PROVE  rows'[r].by \in failed
    BY <1>5 DEF OneRowPerForm
  <2>1. CASE \A q \in Rows : rows'[q].by = rows[q].by
    BY <2>1 DEF OnceInv, OneRowPerForm
  <2>2. ASSUME c.op = "create",
               NEW q \in Rows, rows'[q].by = Source(c), \A p \in Rows \ {q} : rows'[p].by = rows[p].by
        PROVE  rows'[r].by \in failed
    <3>1. CASE q = r \/ q = s
      BY <1>9, <2>2, <3>1
    <3>2. CASE q # r /\ q # s
      BY <2>2, <3>2 DEF OnceInv, OneRowPerForm
    <3> QED  BY <3>1, <3>2
  <2> QED  BY <1>8, <2>1, <2>2
<1> QED  BY <1>1, <1>10, <1>15, <1>16 DEF OnceInv

\* The answer to the insertion of the open form ends its creating.
LEMMA OnceAtArrive ==
    ASSUME OnceInv, NEW c \in calls, Arrive(c)
    PROVE  OnceInv'
<1>1. RowsInv' /\ RowsInv
  BY RowsAtArrive DEF OnceInv
<1>2. /\ calls' = calls \ {c} /\ Creates' = Creates \ {c}
      /\ UNCHANGED <<page, rows, latest, failed, clicks>>
  BY DEF Arrive, userVars, Creates
<1>3. /\ form' \in {form, Closed} \/ (form'.mode = "edit" /\ form'.id = form.id /\ form.mode # "closed")
      /\ form'.mode = "create" => form' = form
  <2>1. c.form # 0 /\ form.id = c.form => form.mode # "closed"
    BY <1>1, FormFacts DEF RowsInv, Closed
  <2> QED
    BY <1>1, <2>1 DEF Arrive, Closed, RowsInv, FormsTypeOK, Forms
<1>4. form'.id = form.id \/ form' = Closed
  BY <1>3
<1>5. Numbered'
  BY <1>1, <1>2, <1>4, Numbers DEF OnceInv, Numbered, Closed
<1>6. form'.mode # "closed" =>
         form'.id # 0 /\ \A d \in calls' : d.form = 0 => d.at # form'.id
  BY <1>2, <1>3 DEF OnceInv, Insertions, Closed
<1>7. ASSUME form'.mode = "create", c \in Creates PROVE c.form # form.id
  <2> SUFFICES ASSUME c.form = form.id PROVE FALSE
    OBVIOUS
  <2>1. form' = form /\ form.mode = "create"
    BY <1>3, <1>7
  <2>2. page.closes # "click" /\ c.at = latest /\ c.form # 0
    BY <1>7, <2>1 DEF OnceInv, Insertions
  <2>3. page.closes \in {"answer", "leave", "never"}
    BY <1>1, <2>2, FormFacts DEF RowsInv, Profiles
  <2>4. form'.mode \in {"closed", "edit"}
    BY <1>1, <2>2, <2>3 DEF Arrive, Closed, RowsInv, FormsTypeOK, Forms
  <2> QED  BY <2>1, <2>4
<1>8. ASSUME form'.mode = "create"
      PROVE  /\ "create" \in page.offers
             /\ \A d \in Creates' : d.form = form'.id => page.closes # "click" /\ d.at = latest'
             /\ \A r \in Rows : rows'[r].by = form'.id =>
                   form'.id \in failed' \/ \E d \in Creates' : d.form = form'.id
  <2>1. form' = form /\ form.mode = "create"
    BY <1>3, <1>8
  <2> QED
    BY <1>2, <1>7, <1>8, <2>1 DEF OnceInv, Insertions
<1>9. Insertions'
  BY <1>2, <1>6, <1>8 DEF OnceInv, Insertions, Source
<1> QED
  BY <1>1, <1>2, <1>5, <1>9 DEF OnceInv, OneRowPerForm

\* A request that seemed to fail is remembered: the form may insert again.
LEMMA OnceAtBreak ==
    ASSUME OnceInv, NEW c \in calls, Break(c)
    PROVE  OnceInv'
<1>1. RowsInv' /\ RowsInv
  BY RowsAtBreak DEF OnceInv
<1>2. /\ calls' = calls \ {c} /\ Creates' = Creates \ {c} /\ failed' = failed \cup {c.form}
      /\ UNCHANGED <<page, rows, form, latest, clicks>>
  BY DEF Break, tableVars, userVars, Creates
<1>3. Numbered' /\ OneRowPerForm'
  BY <1>2 DEF OnceInv, Numbered, OneRowPerForm
<1>4. Insertions'
  BY <1>2 DEF OnceInv, Insertions, Source
<1> QED  BY <1>1, <1>3, <1>4 DEF OnceInv

LEMMA OnceAtRest ==
    ASSUME OnceInv, Refresh \/ \E r \in Rows : RemovedElsewhere(r)
    PROVE  OnceInv'
<1>1. RowsInv' /\ RowsInv
  BY RowsAtRest DEF OnceInv
<1>2. /\ \A r \in Rows : rows'[r].by = rows[r].by
      /\ UNCHANGED <<page, calls, form, latest, failed, clicks>>
  BY <1>1, ErasedRow DEF Refresh, RemovedElsewhere, callVars, userVars
<1>3. Creates' = Creates
  BY <1>2 DEF Creates
<1> QED
  BY <1>1, <1>2, <1>3 DEF OnceInv, Numbered, Insertions, OneRowPerForm, Source

LEMMA OnceStart == FormsInit => OnceInv
<1> SUFFICES ASSUME FormsInit PROVE OnceInv
  OBVIOUS
<1>1. RowsInv
  BY RowsStart
<1>2. /\ form = Closed /\ calls = {} /\ clicks = 0
      /\ \A r \in Rows : rows[r].by = 0
  BY DEF FormsInit
<1> QED
  BY <1>1, <1>2 DEF OnceInv, Numbered, Insertions, Creates, OneRowPerForm, Closed

LEMMA OnceStep == OnceInv /\ [FormsNext]_formVars => OnceInv'
<1> SUFFICES ASSUME OnceInv, [FormsNext]_formVars PROVE OnceInv'
  OBVIOUS
<1>1. CASE FormsUser
  BY <1>1, OnceAtInputs, OnceAtSubmit, OnceAtButtons DEF FormsUser
<1>2. CASE FormsServer
  BY <1>2, OnceAtServer DEF FormsServer
<1>3. CASE \E c \in calls : Arrive(c) \/ Break(c)
  BY <1>3, OnceAtArrive, OnceAtBreak
<1>4. CASE Refresh \/ \E r \in Rows : RemovedElsewhere(r)
  BY <1>4, OnceAtRest
<1>5. CASE UNCHANGED formVars
  <2>1. RowsInv'
    BY <1>5, RowsStep DEF OnceInv
  <2>2. UNCHANGED <<page, rows, calls, form, latest, failed, clicks>>
    BY <1>5 DEF formVars, tableVars, callVars, userVars
  <2> QED
    BY <2>1, <2>2 DEF OnceInv, Numbered, Insertions, Creates, OneRowPerForm, Source
<1> QED  BY <1>1, <1>2, <1>3, <1>4, <1>5 DEF FormsNext

\* A form inserts one row, for any number of clicks on its button and of requests in
\* flight, as long as no request of it seemed to fail (Button.tsx, useCollection.ts:49-103).
THEOREM OneRowForEveryForm == FormsSpec => []OneRowPerForm
<1>1. OnceInv => OneRowPerForm
  BY DEF OnceInv
<1> QED  BY <1>1, OnceStart, OnceStep, PTL DEF FormsSpec

-----------------------------------------------------------------------------
(* What the user wrote *)

\* A user who waits acts only when nothing is in flight.
LEMMA PatientAtUser ==
    ASSUME RowsInv, PatientInv, FormsUser
    PROVE  PatientInv'
<1>1. Click /\ page' = page
  BY DEF FormsUser, OpenCreate, Type, Close, Submit, Copy, Confirm, Refuse, OpenEdit, Change, AskRemove,
         RemoveAtOnce, Send
<1> SUFFICES ASSUME patient', page.closes # "click", page.loads = "once"
             PROVE  /\ \A c, d \in calls' : c = d
                    /\ \A c \in calls' : c.form # 0 =>
                          /\ c.op \in {"create", "edit"}
                          /\ form'.mode # "closed" /\ c.text = fields'.text
                          /\ c.stage = "done" => c.text \notin unsaved'
                    /\ unsaved' \subseteq IF form'.mode # "closed" THEN {fields'.text} ELSE {}
  BY <1>1 DEF PatientInv
<1>2. calls = {} /\ unsaved \subseteq IF form.mode # "closed" THEN {fields.text} ELSE {}
  BY <1>1 DEF Click, PatientInv
<1>3. CASE Submit
  <2> DEFINE c == [op |-> form.mode, row |-> form.row, of |-> fields.of, text |-> fields.text,
                   form |-> form.id, at |-> clicks + 1, stage |-> "sent"]
  <2>1. calls' = {c} /\ UNCHANGED <<form, fields, unsaved>>
    BY <1>2, <1>3 DEF Submit
  <2>2. form.mode \in {"create", "edit"}
    BY <1>3, FormFacts DEF Submit, Enabled, RowsInv
  <2> QED  BY <1>2, <2>1, <2>2
<1>4. CASE Copy \/ Confirm \/ \E r \in Rows : Change(r) \/ RemoveAtOnce(r)
  <2>1. PICK op \in Ops, t \in Targets : Send(op, t, t)
    BY <1>4 DEF Copy, Change, Confirm, RemoveAtOnce, Ops, Targets, RowsInv, FormsTypeOK
  <2> DEFINE c == [op |-> op, row |-> t, of |-> t,
                   text |-> IF op = "create" THEN 0 ELSE shown[t].text,
                   form |-> 0, at |-> clicks + 1, stage |-> "sent"]
  <2>2. calls' = {c} /\ c.form = 0 /\ UNCHANGED <<form, fields, unsaved>>
    BY <1>2, <2>1 DEF Send
  <2> QED  BY <1>2, <2>2
<1>5. CASE OpenCreate \/ \E r \in Rows : OpenEdit(r)
  BY <1>2, <1>5 DEF OpenCreate, OpenEdit, callVars
<1>6. CASE Type
  BY <1>2, <1>6, FormFacts DEF Type, callVars, RowsInv, FormsTypeOK
<1>7. CASE Close
  BY <1>2, <1>7 DEF Close, callVars, Closed
<1>8. CASE Refuse \/ \E r \in Rows : AskRemove(r)
  BY <1>2, <1>8 DEF Refuse, AskRemove, callVars
<1> QED  BY <1>3, <1>4, <1>5, <1>6, <1>7, <1>8 DEF FormsUser

\* What a request of a form carries is saved when the request is served.
LEMMA PatientAtServer ==
    ASSUME RowsInv, PatientInv, NEW c \in calls,
           (\E r \in Rows : Insert(c, r)) \/ Update(c) \/ Remove(c)
    PROVE  PatientInv'
<1>1. c \in Calls /\ (c.op # "create" => c.row \in Rows)
  BY DEF RowsInv, FormsTypeOK, CallsFit
<1>2. PICK t \in Rows : Serve(c, t)
  BY <1>1 DEF Insert, Update, Remove
<1> DEFINE d == [c EXCEPT !.stage = "done", !.row = t]
<1>3. d.form = c.form /\ d.op = c.op /\ d.text = c.text
  BY <1>1 DEF Calls
<1>4. calls' = (calls \ {c}) \cup {d} /\ UNCHANGED <<page, form, fields, patient>>
  BY <1>2 DEF Serve
<1>5. /\ unsaved' \subseteq unsaved
      /\ c.op \in {"create", "edit"} => c.text \notin unsaved'
  BY DEF Insert, Update, Remove
<1> HIDE DEF d
<1> SUFFICES ASSUME patient, page.closes # "click", page.loads = "once"
             PROVE  /\ \A a, b \in calls' : a = b
                    /\ \A a \in calls' : a.form # 0 =>
                          /\ a.op \in {"create", "edit"}
                          /\ form.mode # "closed" /\ a.text = fields.text
                          /\ a.stage = "done" => a.text \notin unsaved'
                    /\ unsaved' \subseteq IF form.mode # "closed" THEN {fields.text} ELSE {}
  BY <1>4 DEF PatientInv
<1>6. calls' = {d}
  BY <1>4 DEF PatientInv
<1> QED  BY <1>3, <1>5, <1>6 DEF PatientInv

\* The form closes only when what it shows is saved.
LEMMA PatientAtArrive ==
    ASSUME RowsInv, PatientInv, NEW c \in calls, Arrive(c)
    PROVE  PatientInv'
<1>1. UNCHANGED <<page, unsaved, patient>> /\ calls' = calls \ {c} /\ c.stage = "done"
  BY DEF Arrive, userVars
<1> SUFFICES ASSUME patient, page.closes # "click", page.loads = "once"
             PROVE  /\ calls' = {}
                    /\ unsaved \subseteq IF form'.mode # "closed" THEN {fields'.text} ELSE {}
  BY <1>1 DEF PatientInv
<1>2. calls' = {}
  BY <1>1 DEF PatientInv
<1>3. CASE UNCHANGED <<form, fields>>
  BY <1>2, <1>3 DEF PatientInv
<1>4. CASE c.form # 0 /\ form' = Closed
  BY <1>1, <1>2, <1>4 DEF PatientInv, Closed
<1>5. CASE /\ form' = [form EXCEPT !.mode = "edit", !.row = c.row]
           /\ fields' = [fields EXCEPT !.of = c.row]
  <2>1. form'.mode # "closed" /\ fields'.text = fields.text
    BY <1>5 DEF RowsInv, FormsTypeOK, Forms, Closed
  <2> QED  BY <1>2, <2>1 DEF PatientInv
<1> QED  BY <1>3, <1>4, <1>5 DEF Arrive

LEMMA PatientAtRest ==
    ASSUME PatientInv, (\E c \in calls : Break(c)) \/ Refresh \/ \E r \in Rows : RemovedElsewhere(r)
    PROVE  PatientInv'
<1>1. CASE \E c \in calls : Break(c)
  BY <1>1 DEF Break, PatientInv, tableVars, userVars
<1>2. CASE Refresh
  BY <1>2 DEF Refresh, PatientInv, callVars, userVars
<1>3. CASE \E r \in Rows : RemovedElsewhere(r)
  BY <1>3 DEF RemovedElsewhere, PatientInv, callVars, userVars
<1> QED  BY <1>1, <1>2, <1>3

\* In a form that does not close before the answer, a user who waits loses nothing she
\* wrote, whatever fails, on any page whose editor is loaded once (Drawer.tsx, Modal.tsx).
THEOREM PatientUsersLoseNothing == FormsSpec => []PatientUserLosesNothing
<1> DEFINE Inv == RowsInv /\ PatientInv
<1>1. FormsInit => Inv
  BY RowsStart DEF FormsInit, PatientInv
<1>2. Inv /\ [FormsNext]_formVars => Inv'
  <2> SUFFICES ASSUME Inv, [FormsNext]_formVars PROVE Inv'
    OBVIOUS
  <2>1. RowsInv'
    BY RowsStep
  <2>2. CASE FormsUser
    BY <2>1, <2>2, PatientAtUser
  <2>3. CASE FormsServer
    BY <2>1, <2>3, PatientAtServer DEF FormsServer
  <2>4. CASE \E c \in calls : Arrive(c)
    BY <2>1, <2>4, PatientAtArrive
  <2>5. CASE (\E c \in calls : Break(c)) \/ Refresh \/ \E r \in Rows : RemovedElsewhere(r)
    BY <2>1, <2>5, PatientAtRest
  <2>6. CASE UNCHANGED formVars
    BY <2>1, <2>6 DEF formVars, callVars, userVars, PatientInv
  <2> QED  BY <2>2, <2>3, <2>4, <2>5, <2>6 DEF FormsNext
<1>3. Inv => PatientUserLosesNothing
  BY DEF PatientInv, PatientUserLosesNothing
<1> QED  BY <1>1, <1>2, <1>3, PTL DEF FormsSpec

-----------------------------------------------------------------------------
(* The notebook *)

\* The inputs belong to the selected note, and the list shows it.
PadFits == picked \in Notes => pad.of = picked /\ docs[picked].live

ListFits == \A n \in Notes : docs[n].live => docs[n].of = n

ListIsCurrent == ~newer => docs = notes

TimerFits == timer # NoTimer => timer.of = timer.note

SavesFit ==
    \A c \in saves :
        /\ c.op = "save" => c.of = c.note
        /\ c.op # "create" => c.note \in Notes
        /\ c.stage = "done" => c.note \in Notes

\* The selected note is listed as the server would store what the inputs hold.
EditorShows(list, n, p) ==
    n \in Notes /\ list[n].live => list[n].text = Stored(p.text) /\ list[n].shared = p.shared

\* What an effect may leave in the editor.
SelectionFits(list, s) ==
    /\ s.picked \in Notes \cup {NoNote} /\ s.pad \in Pads
    /\ s.picked \in Notes => s.pad.of = s.picked /\ list[s.picked].live

\* While the owner waits and nothing fails, one thing goes on at a time: the timer runs
\* with what the editor shows, or one request is in flight, or the list is fetched; the
\* editor is ahead of the table only while its timer or its save is.
CalmInv ==
    calm /\ ~lost =>
        /\ \A c, d \in saves : c = d
        /\ timer # NoTimer =>
              /\ ~stale /\ saves = {} /\ ~newer
              /\ picked \in Notes /\ timer.note = picked
              /\ timer.text = pad.text /\ timer.shared = pad.shared
        /\ saves = {} /\ ~stale => ~newer
        /\ \A c \in saves : c.stage = "sent" =>
              /\ ~stale /\ ~newer
              /\ c.op = "save" =>
                    /\ picked \in Notes /\ c.note = picked
                    /\ c.text = pad.text /\ c.shared = pad.shared
        /\ \A c \in saves : c.op = "create" /\ c.stage = "done" =>
              /\ \A n \in Notes : docs[n].live => docs[n] = notes[n]
              /\ notes[c.note].text = FirstText /\ notes[c.note].shared = c.shared
        /\ timer = NoTimer /\ (\A c \in saves : c.op # "save" \/ c.stage = "done") =>
              EditorShows(notes, picked, pad)

NoteInv ==
    NotesTypeOK /\ NoteTextsStay /\ PadFits /\ ListFits /\ ListIsCurrent /\ TimerFits /\ SavesFit

-----------------------------------------------------------------------------
(* What a render chooses *)

LEMMA StrokeFacts ==
    ASSUME NotesTypeOK, Stroke
    PROVE  strokes + 1 \in Strokes /\ strokes' = strokes + 1 /\ calm' \in BOOLEAN
BY NotesAssumption DEF NotesTypeOK, Stroke, Strokes

LEMMA StoredFacts ==
    /\ FirstText \in StoredTexts /\ NoText \in NoteTexts
    /\ StoredTexts \subseteq NoteTexts
    /\ \A text \in NoteTexts : Stored(text) \in StoredTexts
    /\ \A text \in StoredTexts : Stored(text) = text
<1>1. 0 \in Strokes
  BY NotesAssumption DEF Strokes
<1>2. FirstText \in StoredTexts /\ NoText \in NoteTexts
  BY <1>1 DEF FirstText, NoText, StoredTexts, NoteTexts, Titles
<1>3. ASSUME NEW text \in NoteTexts PROVE Stored(text) \in StoredTexts
  BY <1>3 DEF Stored, StoredTexts, NoteTexts, Titles
<1> QED  BY <1>2, <1>3 DEF Stored, StoredTexts

LEMMA NoteFacts ==
    ASSUME NotesTypeOK
    PROVE  /\ \A n \in Notes : notes[n] \in NoteRows /\ docs[n] \in NoteRows
           /\ NoPad \in Pads /\ NoNote \notin Notes
BY NotesAssumption, StoredFacts DEF NotesTypeOK, NoPad, Pads

\* It keeps the selection or moves it to a listed note, with that note in the inputs.
LEMMA SelectionFacts ==
    ASSUME NEW list \in [Notes -> NoteRows], \A n \in Notes : list[n].live => list[n].of = n,
           NEW f, NEW n, NEW p, NEW s \in Selections(list, f, n, p)
    PROVE  \/ s.picked = NoNote /\ s.pad = NoPad
           \/ s.picked = n /\ s.pad = p /\ n \in Filtered(list, f)
           \/ s.picked \in Listed(list) /\ s.pad = PadOf(list, s.picked) /\ n \notin Filtered(list, f)
<1>1. Filtered(list, f) \subseteq Listed(list)
  BY DEF Filtered
<1> QED  BY <1>1 DEF Selections

LEMMA PadOfFacts ==
    ASSUME NEW list \in [Notes -> NoteRows], NEW n \in Notes
    PROVE  /\ PadOf(list, n) \in Pads /\ PadOf(list, n).of = list[n].of
           /\ PadOf(list, n).text = list[n].text /\ PadOf(list, n).shared = list[n].shared
           /\ EditorShows(list, n, PadOf(list, n))
<1>1. list[n] \in NoteRows
  OBVIOUS
<1>2. list[n].text \in NoteTexts /\ Stored(list[n].text) = list[n].text
  BY <1>1, StoredFacts DEF NoteRows
<1> QED  BY <1>1, <1>2 DEF PadOf, Pads, NoteRows, EditorShows

LEMMA SelectionsFit ==
    ASSUME NotesTypeOK,
           NEW list \in [Notes -> NoteRows], \A m \in Notes : list[m].live => list[m].of = m,
           NEW f, NEW n, NEW p \in Pads, n \in Notes => p.of = n, NEW s \in Selections(list, f, n, p)
    PROVE  SelectionFits(list, s)
BY SelectionFacts, PadOfFacts, NoteFacts DEF Listed, Filtered, SelectionFits

LEMMA SaveOfFacts ==
    ASSUME NEW list \in [Notes -> NoteRows], NEW n \in Notes \cup {NoNote}, NEW p \in Pads,
           n \in Notes => p.of = n
    PROVE  /\ SaveOf(list, n, p) \in {NoTimer} \cup NoteTimers
           /\ SaveOf(list, n, p) # NoTimer =>
                 n \in Notes /\ SaveOf(list, n, p) = [note |-> n, of |-> n, text |-> p.text, shared |-> p.shared]
BY DEF SaveOf, Pads, NoteTimers

\* Once the effects ran the inputs belong to the note that is selected, and so does the save.
LEMMA SettleFits ==
    ASSUME NoteInv, NEW list \in [Notes -> NoteRows], NEW s, SelectionFits(list, s),
           Settle(list, s), docs' = list
    PROVE  /\ picked' \in Notes \cup {NoNote} /\ pad' \in Pads
           /\ timer' \in {NoTimer} \cup NoteTimers
           /\ PadFits' /\ TimerFits'
<1>1. /\ picked' = s.picked /\ pad' = s.pad
      /\ timer' \in {timer, SaveOf(list, s.picked, s.pad)}
  BY DEF Settle
<1>2. PadFits' /\ picked' \in Notes \cup {NoNote} /\ pad' \in Pads
  BY <1>1 DEF PadFits, SelectionFits
<1>3. CASE timer' = timer
  BY <1>2, <1>3 DEF NoteInv, NotesTypeOK, TimerFits
<1>4. CASE timer' = SaveOf(list, s.picked, s.pad)
  BY <1>2, <1>4, SaveOfFacts DEF TimerFits, SelectionFits
<1> QED  BY <1>1, <1>2, <1>3, <1>4

-----------------------------------------------------------------------------
(* One step *)

Typing == Write \/ ClearTitle \/ Undo \/ Share
Choosing == (\E n \in Notes : PickNote(n)) \/ \E f \in Filters : SetFilter(f)

\* A keystroke leaves the selection alone.
LEMMA TypingSettles ==
    ASSUME NoteInv, Typing
    PROVE  /\ Stroke /\ UNCHANGED <<serverVars, docs, filter>>
           /\ \E p \in Pads : /\ Keystroke(p)
                             /\ SelectionFits(docs, [picked |-> picked, pad |-> p])
<1>1. Stroke /\ UNCHANGED <<serverVars, docs, filter>> /\ Editing
  BY DEF Typing, Write, ClearTitle, Undo, Share
<1>2. PICK p \in Pads : Keystroke(p) /\ p.of = picked
  <2>1. CASE Write
    <3>1. PICK title \in {pad.text.title, "named"} :
            Keystroke([pad EXCEPT !.of = picked, !.text = [stroke |-> strokes + 1, title |-> title],
                                  !.before = pad.text])
      BY <2>1 DEF Write
    <3>2. [stroke |-> strokes + 1, title |-> title] \in NoteTexts
      BY <1>1, StrokeFacts DEF NoteInv, NotesTypeOK, Pads, NoteTexts, Titles
    <3> DEFINE text == [stroke |-> strokes + 1, title |-> title]
    <3> HIDE DEF text
    <3>3. /\ [pad EXCEPT !.of = picked, !.text = text, !.before = pad.text] \in Pads
          /\ [pad EXCEPT !.of = picked, !.text = text, !.before = pad.text].of = picked
      BY <3>2 DEF NoteInv, NotesTypeOK, Pads, text
    <3> QED  BY <3>1, <3>3 DEF text
  <2>2. CASE ClearTitle
    <3>1. [pad.text EXCEPT !.title = "empty"] \in NoteTexts
      BY DEF NoteInv, NotesTypeOK, Pads, NoteTexts, Titles
    <3>2. /\ [pad EXCEPT !.text.title = "empty", !.before = pad.text] \in Pads
          /\ [pad EXCEPT !.text.title = "empty", !.before = pad.text].of = pad.of
      BY <3>1 DEF NoteInv, NotesTypeOK, Pads
    <3> QED  BY <1>1, <2>2, <3>2 DEF ClearTitle, NoteInv, PadFits, Editing
  <2>3. CASE Undo
    <3>1. [pad EXCEPT !.text = pad.before] \in Pads /\ [pad EXCEPT !.text = pad.before].of = pad.of
      BY DEF NoteInv, NotesTypeOK, Pads
    <3> QED  BY <1>1, <2>3, <3>1 DEF Undo, NoteInv, PadFits, Editing
  <2>4. CASE Share
    <3>1. [pad EXCEPT !.shared = ~pad.shared] \in Pads /\ [pad EXCEPT !.shared = ~pad.shared].of = pad.of
      BY DEF NoteInv, NotesTypeOK, Pads
    <3> QED  BY <1>1, <2>4, <3>1 DEF Share, NoteInv, PadFits, Editing
  <2> QED  BY <2>1, <2>2, <2>3, <2>4 DEF Typing
<1>3. SelectionFits(docs, [picked |-> picked, pad |-> p])
  BY <1>1, <1>2 DEF SelectionFits, Editing
<1> QED  BY <1>1, <1>2, <1>3

\* A choice renders the list as it was fetched, under the filter that is chosen now.
LEMMA ChoosingRenders ==
    ASSUME NoteInv, Choosing
    PROVE  /\ Stroke /\ UNCHANGED <<serverVars, docs>> /\ filter' \in Filters
           /\ \E n, p : p \in Pads /\ (n \in Notes => p.of = n) /\ Render(docs, filter', n, p)
<1>1. Stroke /\ UNCHANGED <<serverVars, docs>> /\ filter' \in Filters
  BY DEF Choosing, PickNote, SetFilter, NoteInv, NotesTypeOK
<1>2. ASSUME NEW n \in Notes, PickNote(n)
      PROVE  \E m, p : p \in Pads /\ (m \in Notes => p.of = m) /\ Render(docs, filter', m, p)
  <2>1. docs \in [Notes -> NoteRows] /\ docs[n].live
    BY <1>2 DEF PickNote, Filtered, Listed, NoteInv, NotesTypeOK
  <2>2. PadOf(docs, n) \in Pads /\ PadOf(docs, n).of = n
    BY <2>1, PadOfFacts DEF NoteInv, ListFits
  <2> QED  BY <1>2, <2>2 DEF PickNote
<1>3. ASSUME NEW f \in Filters, SetFilter(f)
      PROVE  \E n, p : p \in Pads /\ (n \in Notes => p.of = n) /\ Render(docs, filter', n, p)
  BY <1>3 DEF SetFilter, NoteInv, NotesTypeOK, PadFits
<1> QED  BY <1>1, <1>2, <1>3 DEF Choosing

\* Either way the editor holds a listed note, or none.
LEMMA StrokeSettles ==
    ASSUME NoteInv, Typing \/ Choosing
    PROVE  /\ Stroke /\ UNCHANGED <<serverVars, docs>> /\ filter' \in Filters
           /\ \E s : SelectionFits(docs, s) /\ Settle(docs, s)
<1>1. CASE Typing
  BY <1>1, TypingSettles DEF Keystroke, NoteInv, NotesTypeOK
<1>2. CASE Choosing
  BY <1>2, ChoosingRenders, SelectionsFit DEF Render, NoteInv, NotesTypeOK, ListFits
<1> QED  BY <1>1, <1>2

LEMMA NoteAtStrokes ==
    ASSUME NoteInv, Typing \/ Choosing
    PROVE  NoteInv'
<1>1. strokes' \in Strokes /\ calm' \in BOOLEAN
  BY StrokeFacts, StrokeSettles DEF NoteInv
<1>2. UNCHANGED <<serverVars, docs>> /\ filter' \in Filters
  BY StrokeSettles
<1>3. /\ picked' \in Notes \cup {NoNote} /\ pad' \in Pads
      /\ timer' \in {NoTimer} \cup NoteTimers
      /\ PadFits' /\ TimerFits'
  BY <1>2, StrokeSettles, SettleFits DEF NoteInv, NotesTypeOK
<1> QED
  BY <1>1, <1>2, <1>3 DEF NoteInv, NotesTypeOK, NoteTextsStay, ListFits, ListIsCurrent, SavesFit, serverVars

LEMMA NoteAtButtons ==
    ASSUME NoteInv, CreateNote \/ DeleteNote
    PROVE  NoteInv'
<1>1. strokes' \in Strokes /\ strokes + 1 \in Strokes /\ calm' \in BOOLEAN
  BY StrokeFacts DEF CreateNote, DeleteNote, NoteInv
<1>2. PICK op \in {"create", "delete"}, n \in Notes \cup {NoNote} :
        SendNote(op, n) /\ (op = "delete" => n \in Notes)
  BY DEF CreateNote, DeleteNote, Editing
<1> DEFINE c == [op |-> op, note |-> n, of |-> n, text |-> FirstText, shared |-> filter = "shared",
                 at |-> strokes + 1, stage |-> "sent"]
<1>3. c \in NoteCalls
  <2>1. (filter = "shared") \in BOOLEAN
    OBVIOUS
  <2>2. FirstText \in NoteTexts
    BY StoredFacts
  <2> QED  BY <1>1, <2>1, <2>2, Zenon DEF NoteCalls
<1>4. saves' = saves \cup {c} /\ UNCHANGED <<notes, docs, stale, newer, filter, picked, pad, timer, lost>>
  BY <1>2 DEF SendNote
<1>5. SavesFit'
  BY <1>2, <1>4 DEF NoteInv, SavesFit
<1> QED
  BY <1>1, <1>3, <1>4, <1>5 DEF NoteInv, NotesTypeOK, NoteTextsStay, PadFits, ListFits, ListIsCurrent, TimerFits

LEMMA NoteAtAutoSave ==
    ASSUME NoteInv, AutoSave
    PROVE  NoteInv'
<1> DEFINE c == [op |-> "save", note |-> timer.note, of |-> timer.of, text |-> timer.text,
                 shared |-> timer.shared, at |-> strokes, stage |-> "sent"]
<1>1. c \in NoteCalls /\ c.of = c.note /\ c.note \in Notes
  BY DEF AutoSave, NoteInv, NotesTypeOK, NoteCalls, NoteTimers, TimerFits
<1>2. saves' = saves \cup {c} /\ timer' = NoTimer
      /\ UNCHANGED <<notes, docs, stale, newer, filter, picked, pad, lost, calm, strokes>>
  BY DEF AutoSave
<1>3. SavesFit'
  BY <1>1, <1>2 DEF NoteInv, SavesFit
<1> QED
  BY <1>1, <1>2, <1>3 DEF NoteInv, NotesTypeOK, NoteTextsStay, PadFits, ListFits, ListIsCurrent, TimerFits

LEMMA NoteAtServer ==
    ASSUME NoteInv, NEW c \in saves, StoreNote(c) \/ EraseNote(c) \/ \E n \in Notes : InsertNote(c, n)
    PROVE  NoteInv'
<1>1. c \in NoteCalls
  BY DEF NoteInv, NotesTypeOK
<1>2. PICK n \in Notes, row \in NoteRows :
        /\ ServeNote(c, n, row) /\ (row.live => row.of = n) /\ (c.op # "create" => c.note = n)
  <2>1. CASE StoreNote(c)
    <3>1. [live |-> TRUE, shared |-> c.shared, of |-> c.of, text |-> Stored(c.text)] \in NoteRows
      BY <1>1, StoredFacts DEF NoteCalls, NoteRows
    <3> QED  BY <2>1, <3>1 DEF StoreNote, NoteInv, SavesFit
  <2>2. CASE EraseNote(c)
    <3>1. c.note \in Notes
      BY <2>2 DEF EraseNote, NoteInv, SavesFit
    <3>2. /\ [notes[c.note] EXCEPT !.live = FALSE] \in NoteRows
          /\ [notes[c.note] EXCEPT !.live = FALSE].live = FALSE
      BY <3>1, NoteFacts DEF NoteInv, NoteRows
    <3> QED  BY <2>2, <3>1, <3>2 DEF EraseNote
  <2>3. ASSUME NEW n \in Notes, InsertNote(c, n)
        PROVE  \E m \in Notes, row \in NoteRows :
                  ServeNote(c, m, row) /\ (row.live => row.of = m) /\ (c.op # "create" => c.note = m)
    <3>1. [live |-> TRUE, shared |-> c.shared, of |-> n, text |-> FirstText] \in NoteRows
      BY <1>1, StoredFacts DEF NoteCalls, NoteRows
    <3> QED  BY <2>3, <3>1 DEF InsertNote
  <2> QED  BY <2>1, <2>2, <2>3
<1> DEFINE d == [c EXCEPT !.stage = "done", !.note = n]
<1>3. d \in NoteCalls /\ d.op = c.op /\ d.of = c.of /\ d.note = n
  BY <1>1 DEF NoteCalls
<1>4. /\ notes' = [notes EXCEPT ![n] = row] /\ newer' = TRUE /\ saves' = (saves \ {c}) \cup {d}
      /\ UNCHANGED <<docs, stale, filter, picked, pad, timer, lost, calm, strokes>>
  BY <1>2 DEF ServeNote
<1>5. SavesFit'
  BY <1>2, <1>3, <1>4 DEF NoteInv, SavesFit
<1>6. NotesTypeOK' /\ NoteTextsStay'
  BY <1>2, <1>3, <1>4 DEF NoteInv, NotesTypeOK, NoteTextsStay
<1> QED
  BY <1>4, <1>5, <1>6 DEF NoteInv, PadFits, ListFits, ListIsCurrent, TimerFits

\* What the selection becomes when a note was created.
LEMMA AnswerFits ==
    ASSUME NoteInv, NEW c \in saves, NoteAnswered(c), c.op = "create"
    PROVE  \E s \in Selections(docs, filter, c.note,
                               [of |-> c.note, text |-> FirstText, shared |-> c.shared, before |-> FirstText]) :
              /\ picked' = s.picked /\ pad' = s.pad /\ timer' = SaveOf(docs, s.picked, s.pad)
              /\ SelectionFits(docs, s)
<1>1. c \in NoteCalls /\ c.note \in Notes
  BY DEF NoteAnswered, NoteInv, NotesTypeOK, SavesFit
<1> DEFINE p == [of |-> c.note, text |-> FirstText, shared |-> c.shared, before |-> FirstText]
<1>2. p \in Pads /\ p.of = c.note
  BY <1>1, StoredFacts DEF NoteInv, NoteCalls, Pads
<1>3. PICK s \in Selections(docs, filter, c.note, p) :
        picked' = s.picked /\ pad' = s.pad /\ timer' = SaveOf(docs, s.picked, s.pad)
  BY DEF NoteAnswered
<1> HIDE DEF p
<1>4. SelectionFits(docs, s)
  BY <1>2, <1>3, SelectionsFit DEF NoteInv, NotesTypeOK, ListFits
<1> QED  BY <1>3, <1>4 DEF p

LEMMA NoteAtAnswers ==
    ASSUME NoteInv, NEW c \in saves, NoteAnswered(c) \/ NoteFailed(c)
    PROVE  NoteInv'
<1>1. /\ saves' = saves \ {c} /\ stale' \in BOOLEAN /\ lost' \in BOOLEAN
      /\ UNCHANGED <<notes, docs, newer, filter, calm, strokes>>
  BY DEF NoteAnswered, NoteFailed, NoteInv, NotesTypeOK
<1>2. NoteTextsStay' /\ ListFits' /\ ListIsCurrent' /\ SavesFit'
  BY <1>1 DEF NoteInv, NoteTextsStay, ListFits, ListIsCurrent, SavesFit
<1>3. CASE UNCHANGED <<picked, pad, timer>>
  BY <1>1, <1>2, <1>3 DEF NoteInv, NotesTypeOK, PadFits, TimerFits
<1>4. CASE NoteAnswered(c) /\ c.op = "create"
  <2>1. PICK s : /\ picked' = s.picked /\ pad' = s.pad /\ timer' = SaveOf(docs, s.picked, s.pad)
                 /\ SelectionFits(docs, s)
    BY <1>4, AnswerFits
  <2>2. timer' \in {NoTimer} \cup NoteTimers /\ (timer' # NoTimer => timer'.of = timer'.note)
    BY <2>1, SaveOfFacts DEF SelectionFits, NoteInv, NotesTypeOK
  <2> QED
    BY <1>1, <1>2, <2>1, <2>2 DEF NoteInv, NotesTypeOK, PadFits, TimerFits, SelectionFits
<1> QED  BY <1>3, <1>4 DEF NoteAnswered, NoteFailed

LEMMA NoteAtFetch ==
    ASSUME NoteInv, FetchNotes
    PROVE  NoteInv'
<1>1. /\ docs' = notes /\ stale' = FALSE /\ newer' = FALSE
      /\ Render(notes, filter, picked, pad) \/ (~newer /\ UNCHANGED <<picked, pad, timer>>)
      /\ UNCHANGED <<notes, saves, filter, lost, calm, strokes>>
  BY DEF FetchNotes
<1>2. /\ picked' \in Notes \cup {NoNote} /\ pad' \in Pads
      /\ timer' \in {NoTimer} \cup NoteTimers
      /\ PadFits' /\ TimerFits'
  <2>1. CASE Render(notes, filter, picked, pad)
    <3>1. PICK s \in Selections(notes, filter, picked, pad) : Settle(notes, s)
      BY <2>1 DEF Render
    <3>2. SelectionFits(notes, s)
      BY <3>1, SelectionsFit DEF NoteInv, NotesTypeOK, NoteTextsStay, PadFits
    <3> QED  BY <1>1, <3>1, <3>2, SettleFits DEF NoteInv, NotesTypeOK
  <2>2. CASE ~newer /\ UNCHANGED <<picked, pad, timer>>
    BY <1>1, <2>2 DEF NoteInv, NotesTypeOK, ListIsCurrent, PadFits, TimerFits
  <2> QED  BY <1>1, <2>1, <2>2
<1> QED
  BY <1>1, <1>2 DEF NoteInv, NotesTypeOK, NoteTextsStay, ListFits, ListIsCurrent, SavesFit

LEMMA NoteStart == NotesInit => NoteInv
<1> SUFFICES ASSUME NotesInit PROVE NoteInv
  OBVIOUS
<1>1. 0 \in Strokes /\ FirstText \in StoredTexts /\ NoText \in NoteTexts
  BY NotesAssumption, StoredFacts DEF Strokes
<1>2. PICK S \in SUBSET Notes :
        notes = [n \in Notes |-> IF n \in S THEN [Unused EXCEPT !.live = TRUE, !.of = n] ELSE Unused]
  BY DEF NotesInit
<1>3. Unused \in NoteRows /\ \A n \in Notes : [Unused EXCEPT !.live = TRUE, !.of = n] \in NoteRows
  BY <1>1 DEF Unused, NoteRows
<1>4. notes \in [Notes -> NoteRows] /\ NoteTextsStay
  BY <1>2, <1>3 DEF NoteTextsStay, Unused
<1>5. docs \in [Notes -> NoteRows] /\ ListFits /\ ListIsCurrent
  BY <1>3 DEF NotesInit, ListFits, ListIsCurrent, Unused
<1>6. pad \in Pads /\ PadFits
  BY <1>1, NotesAssumption DEF NotesInit, NoPad, Pads, PadFits
<1> QED
  BY <1>1, <1>4, <1>5, <1>6 DEF NotesInit, NoteInv, NotesTypeOK, Filters, TimerFits, SavesFit

LEMMA NoteStep == NoteInv /\ [NotesNext]_noteVars => NoteInv'
<1> SUFFICES ASSUME NoteInv, [NotesNext]_noteVars PROVE NoteInv'
  OBVIOUS
<1>1. CASE NotesNext
  BY <1>1, NoteAtStrokes, NoteAtButtons, NoteAtAutoSave, NoteAtServer, NoteAtAnswers, NoteAtFetch
     DEF NotesNext, Typing, Choosing
<1>2. CASE UNCHANGED noteVars
  BY <1>2
     DEF noteVars, NoteInv, NotesTypeOK, NoteTextsStay, PadFits, ListFits, ListIsCurrent, TimerFits, SavesFit
<1> QED  BY <1>1, <1>2

\* The table, the editor, its timer and the requests keep their types
\* (NotebookPage.tsx:88-177).
THEOREM NotesTypeCorrect == NotesSpec => []NotesTypeOK
<1>1. NoteInv => NotesTypeOK
  BY DEF NoteInv
<1> QED  BY <1>1, NoteStart, NoteStep, PTL DEF NotesSpec

\* A note holds only what was written in it, for any number of notes, strokes and saves in
\* flight: the timer is set anew or dropped with the selection (NotebookPage.tsx:125-177).
THEOREM TextsStayInTheirNotes == NotesSpec => []NoteTextsStay
<1>1. NoteInv => NoteTextsStay
  BY DEF NoteInv
<1> QED  BY <1>1, NoteStart, NoteStep, PTL DEF NotesSpec

-----------------------------------------------------------------------------
(* The owner who waits *)

\* A timer that starts runs with what the inputs hold, and only when the inputs changed and
\* the list shows something else; otherwise the note is listed as it would be stored.
LEMMA CalmSettle ==
    ASSUME NoteInv, NEW list \in [Notes -> NoteRows], NEW s, SelectionFits(list, s),
           Settle(list, s), timer = NoTimer, EditorShows(list, picked, pad)
    PROVE  /\ timer' = NoTimer => EditorShows(list, picked', pad')
           /\ timer' # NoTimer =>
                 /\ picked' \in Notes /\ timer'.note = picked'
                 /\ timer'.text = pad'.text /\ timer'.shared = pad'.shared
                 /\ pad'.text = list[picked'].text => pad'.shared # list[picked'].shared
                 /\ picked' = picked => pad' # pad
<1>1. /\ picked' = s.picked /\ pad' = s.pad
      /\ timer' = IF Watched(list, s.picked, s.pad) = Watched(docs, picked, pad) THEN timer
                  ELSE SaveOf(list, s.picked, s.pad)
  BY DEF Settle
<1>2. CASE Watched(list, s.picked, s.pad) = Watched(docs, picked, pad)
  <2>1. timer' = NoTimer
    BY <1>1, <1>2
  <2>2. ASSUME s.picked \in Notes PROVE s.picked = picked /\ s.pad.text = pad.text /\ s.pad.shared = pad.shared
    BY <1>2, <2>2, NoteFacts DEF Watched, NoteInv, SelectionFits
  <2> QED
    BY <1>1, <2>1, <2>2 DEF EditorShows
<1>3. CASE Watched(list, s.picked, s.pad) # Watched(docs, picked, pad)
  <2>1. timer' = SaveOf(list, s.picked, s.pad)
    BY <1>1, <1>3
  <2>2. SaveOf(list, s.picked, s.pad) = NoTimer => EditorShows(list, s.picked, s.pad)
    <3>1. ASSUME s.picked \in Notes, s.pad.text = list[s.picked].text, s.pad.shared = list[s.picked].shared
          PROVE  EditorShows(list, s.picked, s.pad)
      BY <3>1, StoredFacts DEF EditorShows, NoteRows
    <3> QED  BY <3>1, NoteFacts DEF SaveOf, EditorShows, NoTimer, NoteInv
  <2>3. SaveOf(list, s.picked, s.pad) # NoTimer =>
           /\ s.picked \in Notes
           /\ s.pad.text = list[s.picked].text => s.pad.shared # list[s.picked].shared
           /\ SaveOf(list, s.picked, s.pad) =
                 [note |-> s.picked, of |-> s.picked, text |-> s.pad.text, shared |-> s.pad.shared]
    BY SaveOfFacts DEF SaveOf, SelectionFits
  <2>4. ASSUME s.picked \in Notes PROVE s.picked = picked => s.pad # pad
    BY <1>3, <2>4 DEF Watched, SelectionFits, NoteInv, PadFits
  <2> QED
    BY <1>1, <2>1, <2>2, <2>3, <2>4
<1> QED  BY <1>1, <1>2, <1>3

LEMMA CalmAtStrokes ==
    ASSUME NoteInv, CalmInv, Typing \/ Choosing
    PROVE  CalmInv'
<1>1. Stroke /\ UNCHANGED <<notes, stale, newer, saves, lost, docs>>
  BY StrokeSettles DEF serverVars
<1> SUFFICES ASSUME calm', ~lost PROVE CalmInv'
  BY <1>1 DEF CalmInv
<1>2. timer = NoTimer /\ saves = {} /\ ~stale /\ ~newer /\ docs = notes /\ EditorShows(docs, picked, pad)
  BY <1>1 DEF Stroke, NotesQuiet, CalmInv, NoteInv, ListIsCurrent
<1>3. /\ timer' = NoTimer => EditorShows(docs, picked', pad')
      /\ timer' # NoTimer =>
            /\ picked' \in Notes /\ timer'.note = picked'
            /\ timer'.text = pad'.text /\ timer'.shared = pad'.shared
  BY <1>2, StrokeSettles, CalmSettle DEF NoteInv, NotesTypeOK
<1> QED
  BY <1>1, <1>2, <1>3 DEF CalmInv, EditorShows

LEMMA CalmAtButtons ==
    ASSUME NoteInv, CalmInv, CreateNote \/ DeleteNote
    PROVE  CalmInv'
<1>1. PICK op \in {"create", "delete"}, n \in Notes \cup {NoNote} : Stroke /\ SendNote(op, n)
  BY DEF CreateNote, DeleteNote, Editing
<1> DEFINE c == [op |-> op, note |-> n, of |-> n, text |-> FirstText, shared |-> filter = "shared",
                 at |-> strokes + 1, stage |-> "sent"]
<1>2. /\ saves' = saves \cup {c} /\ UNCHANGED <<notes, docs, stale, newer, filter, picked, pad, timer, lost>>
      /\ c.op \in {"create", "delete"} /\ c.stage = "sent"
  BY <1>1 DEF SendNote
<1> HIDE DEF c
<1> SUFFICES ASSUME calm', ~lost PROVE CalmInv'
  BY <1>2 DEF CalmInv
<1>3. timer = NoTimer /\ saves = {} /\ ~stale /\ ~newer /\ EditorShows(notes, picked, pad)
  BY <1>1 DEF Stroke, NotesQuiet, CalmInv
<1> QED
  BY <1>2, <1>3 DEF CalmInv, EditorShows

LEMMA CalmAtAutoSave ==
    ASSUME NoteInv, CalmInv, AutoSave
    PROVE  CalmInv'
<1> DEFINE c == [op |-> "save", note |-> timer.note, of |-> timer.of, text |-> timer.text,
                 shared |-> timer.shared, at |-> strokes, stage |-> "sent"]
<1>1. /\ saves' = saves \cup {c} /\ timer' = NoTimer /\ timer # NoTimer
      /\ UNCHANGED <<notes, docs, stale, newer, filter, picked, pad, lost, calm, strokes>>
  BY DEF AutoSave
<1>2. /\ c.op = "save" /\ c.stage = "sent" /\ c.note = timer.note /\ c.text = timer.text
      /\ c.shared = timer.shared
  OBVIOUS
<1> HIDE DEF c
<1> SUFFICES ASSUME calm, ~lost PROVE CalmInv'
  BY <1>1 DEF CalmInv
<1>3. /\ ~stale /\ saves = {} /\ ~newer
      /\ picked \in Notes /\ timer.note = picked
      /\ timer.text = pad.text /\ timer.shared = pad.shared
  BY <1>1 DEF CalmInv
<1> QED
  BY <1>1, <1>2, <1>3 DEF CalmInv

\* The save stores what the editor shows; a new note is none that is listed.
LEMMA CalmAtServer ==
    ASSUME NoteInv, CalmInv, NEW c \in saves,
           StoreNote(c) \/ EraseNote(c) \/ \E n \in Notes : InsertNote(c, n)
    PROVE  CalmInv'
<1>1. PICK n \in Notes :
        /\ saves' = (saves \ {c}) \cup {[c EXCEPT !.stage = "done", !.note = n]} /\ c.stage = "sent"
        /\ UNCHANGED <<docs, stale, filter, picked, pad, timer, lost, calm, strokes>>
        /\ \/ /\ c.op = "save" /\ n = c.note
              /\ notes' = [notes EXCEPT ![n] = [live |-> TRUE, shared |-> c.shared, of |-> c.of, text |-> Stored(c.text)]]
           \/ c.op = "delete" /\ notes' = [notes EXCEPT ![n] = [notes[n] EXCEPT !.live = FALSE]]
           \/ /\ c.op = "create" /\ notes[n].of = NoNote
              /\ notes' = [notes EXCEPT ![n] = [live |-> TRUE, shared |-> c.shared, of |-> n, text |-> FirstText]]
  BY DEF StoreNote, EraseNote, InsertNote, ServeNote, NoteInv, SavesFit
<1> DEFINE d == [c EXCEPT !.stage = "done", !.note = n]
<1>2. d.op = c.op /\ d.stage = "done" /\ d.note = n /\ d.shared = c.shared
  BY DEF NoteInv, NotesTypeOK, NoteCalls
<1>3. saves' = (saves \ {c}) \cup {d}
  BY <1>1
<1> HIDE DEF d
<1> SUFFICES ASSUME calm, ~lost PROVE CalmInv'
  BY <1>1 DEF CalmInv
<1>4. saves = {c} /\ timer = NoTimer /\ ~stale /\ docs = notes
  BY <1>1 DEF CalmInv, NoteInv, ListIsCurrent
<1>5. saves' = {d}
  BY <1>3, <1>4
<1>6. /\ notes \in [Notes -> NoteRows] /\ notes[n] \in NoteRows
      /\ picked \in Notes => notes[picked].live
  BY <1>4 DEF NoteInv, NotesTypeOK, PadFits
<1>7. EditorShows(notes', picked, pad)
  <2>1. CASE c.op = "save"
    <3>1. n = picked /\ c.text = pad.text /\ c.shared = pad.shared
      BY <1>1, <2>1 DEF CalmInv
    <3> QED  BY <1>1, <1>6, <2>1, <3>1 DEF EditorShows
  <2>2. CASE c.op # "save"
    <3>1. EditorShows(notes, picked, pad)
      BY <1>4, <2>2 DEF CalmInv
    <3>2. picked \in Notes => notes[picked].of = picked /\ picked # NoNote
      BY <1>6, NoteFacts DEF NoteInv, NoteTextsStay
    <3> QED  BY <1>1, <1>6, <2>2, <3>1, <3>2 DEF EditorShows, NoteRows
  <2> QED  BY <2>1, <2>2
<1>8. ASSUME c.op = "create"
      PROVE  /\ \A m \in Notes : docs[m].live => docs[m] = notes'[m]
             /\ notes'[n].text = FirstText /\ notes'[n].shared = c.shared
  <2>1. ~notes[n].live
    BY <1>1, <1>8, NoteFacts DEF NoteInv, NoteTextsStay
  <2> QED  BY <1>1, <1>4, <1>6, <1>8, <2>1
<1> QED
  BY <1>1, <1>2, <1>4, <1>5, <1>7, <1>8 DEF CalmInv

\* The editor is left alone, or shows a note as it is listed; the new note, when the list
\* has it already, is stored as it opens.
LEMMA CalmAtAnswer ==
    ASSUME NoteInv, CalmInv, NEW c \in saves, NoteAnswered(c)
    PROVE  CalmInv'
<1>1. /\ saves' = saves \ {c} /\ stale' = TRUE /\ c.stage = "done"
      /\ UNCHANGED <<notes, docs, filter, lost, calm, strokes>>
  BY DEF NoteAnswered
<1> SUFFICES ASSUME calm, ~lost PROVE CalmInv'
  BY <1>1 DEF CalmInv
<1>2. saves = {c} /\ saves' = {} /\ timer = NoTimer
  BY <1>1 DEF CalmInv
<1>3. timer' = NoTimer /\ EditorShows(notes, picked', pad')
  <2>1. CASE c.op # "create"
    BY <1>1, <1>2, <2>1 DEF NoteAnswered, CalmInv
  <2>2. CASE c.op = "create"
    <3>1. docs \in [Notes -> NoteRows]
      BY DEF NoteInv, NotesTypeOK
    <3> DEFINE p == [of |-> c.note, text |-> FirstText, shared |-> c.shared, before |-> FirstText]
    <3>2. PICK s \in Selections(docs, filter, c.note, p) :
             /\ picked' = s.picked /\ pad' = s.pad /\ timer' = SaveOf(docs, s.picked, s.pad)
             /\ SelectionFits(docs, s)
      BY <2>2, AnswerFits
    <3>3. /\ \A m \in Notes : docs[m].live => docs[m] = notes[m]
          /\ notes[c.note].text = FirstText /\ notes[c.note].shared = c.shared
      BY <1>1, <2>2 DEF CalmInv
    <3>4. p.text = FirstText /\ p.shared = c.shared
      OBVIOUS
    <3> HIDE DEF p
    <3>5. \/ s.picked \notin Notes
          \/ s.picked = c.note /\ s.pad = p
          \/ s.pad = PadOf(docs, s.picked)
      BY <3>1, SelectionFacts, NoteFacts DEF NoteInv, ListFits
    <3>6. s.picked \in Notes =>
             /\ docs[s.picked].live
             /\ docs[s.picked].text = s.pad.text /\ docs[s.picked].shared = s.pad.shared
      BY <3>1, <3>2, <3>3, <3>4, <3>5, PadOfFacts DEF SelectionFits
    <3>7. s.picked \in Notes => Stored(s.pad.text) = s.pad.text
      BY <3>1, <3>6, StoredFacts DEF NoteRows
    <3> QED
      BY <3>2, <3>3, <3>6, <3>7 DEF SaveOf, EditorShows
  <2> QED  BY <2>1, <2>2
<1> QED
  BY <1>1, <1>2, <1>3 DEF CalmInv

\* A fetch shows the selected note as it is stored, unless the editor is ahead of it.
LEMMA CalmAtFetch ==
    ASSUME NoteInv, CalmInv, FetchNotes
    PROVE  CalmInv'
<1>1. /\ docs' = notes /\ stale' = FALSE /\ newer' = FALSE
      /\ Render(notes, filter, picked, pad) \/ (~newer /\ UNCHANGED <<picked, pad, timer>>)
      /\ UNCHANGED <<notes, saves, filter, lost, calm, strokes>>
  BY DEF FetchNotes
<1> SUFFICES ASSUME calm, ~lost PROVE CalmInv'
  BY <1>1 DEF CalmInv
<1>2. CASE ~newer /\ UNCHANGED <<picked, pad, timer>>
  BY <1>1, <1>2 DEF CalmInv, NoteInv, ListIsCurrent
<1>3. CASE newer /\ Render(notes, filter, picked, pad)
  <2>1. timer = NoTimer /\ \A c \in saves : c.op # "save" \/ c.stage = "done"
    BY <1>3 DEF CalmInv, NoteInv, NotesTypeOK, NoteCalls
  <2>2. EditorShows(notes, picked, pad)
    BY <2>1 DEF CalmInv
  <2>3. PICK s \in Selections(notes, filter, picked, pad) : Settle(notes, s)
    BY <1>3 DEF Render
  <2>4. SelectionFits(notes, s)
    BY <2>3, SelectionsFit DEF NoteInv, NotesTypeOK, NoteTextsStay, PadFits
  <2>5. \/ s.picked \notin Notes
        \/ s.picked = picked /\ s.pad = pad
        \/ s.picked \in Notes /\ s.pad = PadOf(notes, s.picked)
    BY <2>3, SelectionFacts, NoteFacts DEF NoteInv, NotesTypeOK, NoteTextsStay, Listed
  <2>6. timer' = NoTimer /\ EditorShows(notes, picked', pad')
    BY <1>1, <2>1, <2>2, <2>3, <2>4, <2>5, CalmSettle, PadOfFacts DEF NoteInv, NotesTypeOK, Settle
  <2>7. \A c \in saves : c.stage = "sent" => c.op # "save"
    BY <2>1
  <2> QED
    BY <1>1, <1>3, <2>1, <2>6, <2>7 DEF CalmInv
<1> QED  BY <1>1, <1>2, <1>3 DEF FetchNotes

\* An owner who waits finds her note stored as the editor shows it, for any number of
\* notes and strokes, whichever order fetches and answers come in (NotebookPage.tsx:88-177).
THEOREM CalmWritersAreSaved == NotesSpec => []CalmWriterIsSaved
<1> DEFINE Inv == NoteInv /\ CalmInv
<1>1. NotesInit => Inv
  <2>1. NotesInit => CalmInv
    BY NotesAssumption DEF NotesInit, CalmInv, EditorShows
  <2> QED  BY <2>1, NoteStart
<1>2. Inv /\ [NotesNext]_noteVars => Inv'
  <2> SUFFICES ASSUME Inv, [NotesNext]_noteVars PROVE Inv'
    OBVIOUS
  <2>1. NoteInv'
    BY NoteStep
  <2>2. CASE NotesNext
    <3>1. ASSUME NEW c \in saves, NoteFailed(c) PROVE CalmInv'
      BY <3>1 DEF NoteFailed, CalmInv
    <3> QED
      BY <2>1, <2>2, <3>1, CalmAtStrokes, CalmAtButtons, CalmAtAutoSave, CalmAtServer, CalmAtAnswer, CalmAtFetch
         DEF NotesNext, Typing, Choosing
  <2>3. CASE UNCHANGED noteVars
    BY <2>1, <2>3 DEF noteVars, CalmInv, EditorShows
  <2> QED  BY <2>2, <2>3
<1>3. Inv => CalmWriterIsSaved
  BY DEF NoteInv, CalmInv, CalmWriterIsSaved, NotesQuiet, PadFits, ListIsCurrent, EditorShows
<1> QED  BY <1>1, <1>2, <1>3, PTL DEF NotesSpec
=============================================================================
