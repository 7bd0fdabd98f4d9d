------------------------------ MODULE PageForms -------------------------------
(***************************************************************************)
(* The forms of the pages: a list of rows, a form that creates or edits    *)
(* one of them, and buttons that remove or change one.  What differs from  *)
(* page to page is the profile of the page, translated in the modules      *)
(* WorkspacePages and AdminPages; a behaviour stays on one page.           *)
(***************************************************************************)
EXTENDS Naturals, FiniteSets

CONSTANTS
    Rows,       \* ids of the table behind the page
    Pages,      \* the profiles of the pages, tabs and panels with a form
    MaxClicks,  \* bound on what the user does
    MaxCalls    \* bound on the requests in flight

New == "new"    \* whose data the fields hold when no row was loaded
Ops == {"create", "edit", "change", "remove"}
Profiles ==
    [offers : SUBSET {"create", "copy", "edit", "change", "remove"},
     asks : BOOLEAN,         \* a removal is confirmed first
     resends : BOOLEAN,      \* a change sends the whole row as it is shown
     drafts : BOOLEAN,       \* the create form opens with what was left in its fields
     loads : {"once", "live"},   \* when the row is copied into the fields of the edit form
     closes : {"answer", "click", "leave", "never"},  \* when the form closes; "leave": it
                             \* is a page of its own, left when the answer comes
     waits : SUBSET (Ops \cup {"copy", "switch"})]  \* requests in flight that disable its
                             \* button; "copy": insertions disable the copying button too,
                             \* "switch": changes disable the switches of the rows

\* A form that stays open while its request is in flight disables its button
\* meanwhile; fields that are kept are never those of a row.
ASSUME FormsAssumption ==
    /\ New \notin Rows
    /\ MaxClicks \in Nat /\ MaxCalls \in Nat
    /\ Pages \subseteq Profiles
    /\ \A p \in Pages :
          /\ p.closes # "click" => p.offers \cap {"create", "edit"} \subseteq p.waits
          /\ p.drafts => "edit" \notin p.offers /\ p.closes # "never"

VARIABLES
    page,    \* the page that is open: pages of one profile behave alike
    rows,    \* the table: whose data a row holds (New's if the id is not used yet), which
             \* text, and the form that inserted it
    shown,   \* the rows as the page fetched them last
    due,     \* the page was told to fetch them again
    form,    \* the form: what it is for, and which opening of it this is
    fields,  \* what its inputs hold; closing the form does not clear them
    asked,   \* the row whose removal is being confirmed
    calls,   \* requests in flight
    latest,  \* when an insertion was requested last: only its callbacks run
    failed,  \* forms of which a request failed, as far as the page knows
    unsaved, \* texts the user wrote and neither saved, replaced nor gave up
    patient, \* the user never did anything while a request or a fetch was in flight
    clicks

tableVars == <<rows, shown, due>>
callVars == <<calls, latest, failed>>
userVars == <<unsaved, patient, clicks>>
formVars == <<page, tableVars, form, fields, asked, callVars, userVars>>

Texts == 0..MaxClicks   \* a text is the click that wrote it; 0 was there before
Targets == Rows \cup {New}
RowRecords == [live : BOOLEAN, of : Targets, text : Texts, by : Texts]
Closed == [mode |-> "closed", row |-> New, id |-> 0]
Forms ==
    {Closed} \cup [mode : {"create"}, row : {New}, id : Texts]
             \cup [mode : {"edit"}, row : Rows, id : Texts]
Blank == [of |-> New, text |-> 0]
Calls == [op : Ops, row : Targets, of : Targets, text : Texts, form : Texts, at : Texts,
          stage : {"sent", "done"}]

FormsTypeOK ==
    /\ page \in Pages
    /\ rows \in [Rows -> RowRecords] /\ shown \in [Rows -> RowRecords] /\ due \in BOOLEAN
    /\ form \in Forms
    /\ fields \in [of : Targets, text : Texts]
    /\ asked \in Targets
    /\ calls \in SUBSET Calls /\ latest \in Texts /\ failed \in SUBSET Texts
    /\ unsaved \in SUBSET Texts /\ patient \in BOOLEAN /\ clicks \in Texts

FormsInit ==
    /\ page \in Pages
    /\ \E S \in SUBSET Rows :
          rows = [r \in Rows |-> [live |-> r \in S, of |-> IF r \in S THEN r ELSE New,
                                 text |-> 0, by |-> 0]]
    /\ shown = rows /\ due = FALSE
    /\ form = Closed /\ fields = Blank /\ asked = New
    /\ calls = {} /\ latest = 0 /\ failed = {}
    /\ unsaved = {} /\ patient = TRUE /\ clicks = 0

-----------------------------------------------------------------------------
(* The form *)

Click ==
    /\ clicks < MaxClicks
    /\ clicks' = clicks + 1
    /\ patient' = (patient /\ calls = {} /\ ~due)

\* A drawer belongs to its page and knows every request of it; a page that is itself
\* the form forgets its requests when it is left.
Pending(op) ==
    \E c \in calls : c.op = op /\ (page.closes \in {"never", "leave"} => c.form = form.id)

\* Mutant: the button ignores the mutation.
AlwaysEnabled == form.mode # "closed"

\* Button disables itself while it is loading.
Enabled == form.mode # "closed" /\ \A op \in page.waits : ~Pending(op)

\* Mutant: the effect runs for blank fields only.
LoadIfBlank(r) == IF fields.of = New THEN [of |-> r, text |-> shown[r].text] ELSE fields

\* The row is copied into the fields whenever the form opens for it.
Load(r) == [of |-> r, text |-> shown[r].text]

OpenCreate ==
    /\ Click
    /\ "create" \in page.offers /\ form.mode = "closed" /\ asked = New
    /\ form' = [mode |-> "create", row |-> New, id |-> clicks + 1]
    /\ fields' = IF page.drafts THEN fields ELSE Blank
    /\ UNCHANGED <<page, tableVars, asked, callVars, unsaved>>

OpenEdit(r) ==
    /\ Click
    /\ "edit" \in page.offers /\ form.mode = "closed" /\ asked = New
    /\ shown[r].live
    /\ form' = [mode |-> "edit", row |-> r, id |-> clicks + 1]
    /\ fields' = Load(r)
    /\ UNCHANGED <<page, tableVars, asked, callVars, unsaved>>

Type ==
    /\ Click
    /\ form.mode # "closed"
    /\ fields' = [fields EXCEPT !.text = clicks + 1]
    /\ unsaved' = (unsaved \ {fields.text}) \cup {clicks + 1}
    /\ UNCHANGED <<page, tableVars, form, asked, callVars>>

\* Mutant: the edited row is not reset.
CloseKeepsRow ==
    /\ Click
    /\ form.mode # "closed"
    /\ form' = [form EXCEPT !.mode = "closed"]
    /\ unsaved' = unsaved \ {fields.text}
    /\ UNCHANGED <<page, tableVars, fields, asked, callVars>>

\* Cancel, Escape, a click beside the drawer or a link away, also while a request is in
\* flight.
Close ==
    /\ Click
    /\ form.mode # "closed"
    /\ form' = Closed
    /\ unsaved' = unsaved \ {fields.text}
    /\ UNCHANGED <<page, tableVars, fields, asked, callVars>>

\* The form stays until the answer, or closes and forgets its fields at once.
Submit ==
    /\ Click
    /\ Enabled
    /\ Cardinality(calls) < MaxCalls
    /\ calls' = calls \cup {[op |-> form.mode, row |-> form.row, of |-> fields.of,
                             text |-> fields.text, form |-> form.id, at |-> clicks + 1,
                             stage |-> "sent"]}
    /\ latest' = IF form.mode = "create" THEN clicks + 1 ELSE latest
    /\ form' = IF page.closes = "click" THEN Closed ELSE form
    /\ fields' = IF page.closes = "click" THEN Blank ELSE fields
    /\ UNCHANGED <<page, tableVars, asked, failed, unsaved>>

-----------------------------------------------------------------------------
(* Buttons of the rows *)

Idle == form.mode = "closed" /\ asked = New

Send(op, r, of) ==
    /\ Cardinality(calls) < MaxCalls
    /\ calls' = calls \cup {[op |-> op, row |-> r, of |-> of,
                             text |-> IF op = "create" THEN 0 ELSE shown[of].text,
                             form |-> 0, at |-> clicks + 1, stage |-> "sent"]}
    /\ latest' = IF op = "create" THEN clicks + 1 ELSE latest
    /\ UNCHANGED <<page, tableVars, form, fields, failed, unsaved>>

\* Duplicate, or one click that inserts a row without a form.
Copy ==
    /\ Click
    /\ "copy" \in page.offers /\ Idle
    /\ "copy" \in page.waits => ~Pending("create")
    /\ Send("create", New, New)
    /\ UNCHANGED asked

\* The row as it is shown, or a flag of it, is sent with one change.
Change(r) ==
    /\ Click
    /\ "change" \in page.offers /\ Idle
    /\ "switch" \in page.waits => ~Pending("change")
    /\ shown[r].live
    /\ Send("change", r, r)
    /\ UNCHANGED asked

AskRemove(r) ==
    /\ Click
    /\ "remove" \in page.offers /\ page.asks /\ asked = New
    /\ form.mode = "closed" \/ (page.closes = "never" /\ form.row = r)
    /\ shown[r].live
    /\ asked' = r
    /\ UNCHANGED <<page, tableVars, form, fields, callVars, unsaved>>

\* ConfirmModal: onConfirm starts the request and the modal closes.
Confirm ==
    /\ Click
    /\ asked # New
    /\ asked' = New
    /\ Send("remove", asked, asked)

Refuse ==
    /\ Click
    /\ asked # New
    /\ asked' = New
    /\ UNCHANGED <<page, tableVars, form, fields, callVars, unsaved>>

RemoveAtOnce(r) ==
    /\ Click
    /\ "remove" \in page.offers /\ ~page.asks /\ Idle
    /\ shown[r].live
    /\ Send("remove", r, r)
    /\ UNCHANGED asked

-----------------------------------------------------------------------------
(* Requests *)

Fresh(r) == rows[r].of = New

Serve(c, r) ==
    /\ c.stage = "sent"
    /\ calls' = (calls \ {c}) \cup {[c EXCEPT !.stage = "done", !.row = r]}
    /\ UNCHANGED <<page, shown, due, form, fields, asked, latest, failed, patient, clicks>>

\* One INSERT: nothing in the request would make a second one harmless.
Insert(c, r) ==
    /\ c.op = "create"
    /\ Fresh(r)
    /\ rows' = [rows EXCEPT ![r] = [live |-> TRUE, of |-> IF c.of = New THEN r ELSE c.of,
                                   text |-> c.text, by |-> IF c.form = 0 THEN c.at ELSE c.form]]
    /\ unsaved' = unsaved \ {c.text}
    /\ Serve(c, r)

\* One UPDATE, of a row that is still there.
Update(c) ==
    /\ c.op \in {"edit", "change"}
    /\ rows[c.row].live
    /\ IF c.op = "edit" \/ page.resends
       THEN /\ rows' = [rows EXCEPT ![c.row].of = c.of, ![c.row].text = c.text]
            /\ unsaved' = unsaved \ {c.text}
       ELSE UNCHANGED <<rows, unsaved>>
    /\ Serve(c, c.row)

\* A soft delete; a second one is answered like the first.
Remove(c) ==
    /\ c.op = "remove"
    /\ rows' = [rows EXCEPT ![c.row].live = FALSE]
    /\ UNCHANGED unsaved
    /\ Serve(c, c.row)

\* Success: the lists are invalidated.  A form that waited closes, whichever form is
\* open by then; the page that is itself the form goes on with the row it created.
Arrive(c) ==
    LET mine == c.form # 0 /\ (c.op = "create" => c.at = latest)
        closes == mine /\ page.closes \in {"answer", "leave"}
        goesOn == mine /\ page.closes = "never" /\ form.id = c.form
    IN  /\ c.stage = "done"
        /\ calls' = calls \ {c}
        /\ due' = TRUE
        /\ form' = IF closes THEN Closed
                   ELSE IF goesOn THEN [form EXCEPT !.mode = "edit", !.row = c.row] ELSE form
        /\ fields' = IF closes /\ page.drafts THEN Blank
                     ELSE IF goesOn THEN [fields EXCEPT !.of = c.row] ELSE fields
        /\ UNCHANGED <<page, rows, shown, asked, latest, failed, userVars>>

\* Mutant: the form closes when the mutation settles.
CloseOnSettle(c) ==
    /\ calls' = calls \ {c}
    /\ failed' = failed \cup {c.form}
    /\ form' = IF c.form # 0 THEN Closed ELSE form
    /\ UNCHANGED <<page, tableVars, fields, asked, latest, userVars>>

\* An error, or no answer: the connection broke before or after the statement ran.
Break(c) ==
    /\ calls' = calls \ {c}
    /\ failed' = failed \cup {c.form}
    /\ UNCHANGED <<page, tableVars, form, fields, asked, latest, userVars>>

\* The list, or the record, is fetched again: after a write, or because it went stale.
\* An editor that follows its record takes over what changed.
Refresh ==
    /\ shown' = rows
    /\ due' = FALSE
    /\ fields' = IF /\ page.loads = "live" /\ form.mode = "edit"
                    /\ rows[form.row].live /\ rows[form.row] # shown[form.row]
                 THEN [of |-> form.row, text |-> rows[form.row].text] ELSE fields
    /\ UNCHANGED <<page, rows, form, asked, callVars, userVars>>

\* A colleague removes a row.
RemovedElsewhere(r) ==
    /\ rows[r].live
    /\ rows' = [rows EXCEPT ![r].live = FALSE]
    /\ UNCHANGED <<page, shown, due, form, fields, asked, callVars, userVars>>

FormsUser ==
    \/ OpenCreate \/ Type \/ Close \/ Submit \/ Copy \/ Confirm \/ Refuse
    \/ \E r \in Rows : OpenEdit(r) \/ Change(r) \/ AskRemove(r) \/ RemoveAtOnce(r)

FormsServer ==
    \E c \in calls : (\E r \in Rows : Insert(c, r)) \/ Update(c) \/ Remove(c)

FormsNext ==
    \/ FormsUser
    \/ FormsServer
    \/ \E c \in calls : Arrive(c) \/ Break(c)
    \/ Refresh
    \/ \E r \in Rows : RemovedElsewhere(r)

FormsSpec == FormsInit /\ [][FormsNext]_formVars

-----------------------------------------------------------------------------
\* A form inserts one row however often its button is pressed, unless a request of it
\* seemed to fail: mutations have no key that would make a second request harmless.
OneRowPerForm ==
    \A r, s \in Rows : r # s /\ rows[r].by = rows[s].by /\ rows[r].by # 0 => rows[r].by \in failed

\* What a row holds was loaded from it or written into its own create form, though the
\* fields survive the form and one drawer serves every row.
SaveHitsItsRow ==
    \A r \in Rows : rows[r].live => rows[r].of = r

\* In a form that does not close before the answer, a user who waits for it too loses
\* nothing she wrote: it is in the form or on its way until it is saved, whatever fails.
\* An editor that follows its record is left out: what a lost answer had saved may
\* replace, at the next fetch, what she wrote since.
PatientUserLosesNothing ==
    patient /\ page.closes # "click" /\ page.loads = "once" =>
        unsaved \subseteq (IF form.mode # "closed" THEN {fields.text} ELSE {}) \cup {c.text : c \in calls}
=============================================================================
