------------------------------- MODULE Notebook -------------------------------
(***************************************************************************)
(* The notebook: notes of one owner, the list the page fetched, an editor  *)
(* that saves itself 600 ms after the last keystroke, and the effect that  *)
(* chooses the note in the editor when the list, the filter or the         *)
(* selection changes.                                                      *)
(***************************************************************************)
EXTENDS Naturals, FiniteSets

CONSTANTS
    Notes,       \* ids of the table
    MaxStrokes   \* bound on what the owner does

NoNote == "none"
ASSUME NotesAssumption == NoNote \notin Notes /\ MaxStrokes \in Nat

VARIABLES
    notes,    \* the table: which text a note holds and in which note it was written, none
              \* if the id is not used yet
    docs,     \* the list as the page fetched it last
    stale,    \* the page was told to fetch the list again
    newer,    \* the table was written since
    filter,
    picked,   \* the selected note
    pad,      \* the inputs of the editor
    timer,    \* the save that waits for a pause
    saves,    \* requests in flight
    lost,     \* a save failed; nothing tries it again
    calm,     \* the owner always waited until nothing was going on
    strokes

noteVars == <<notes, docs, stale, newer, filter, picked, pad, timer, saves, lost, calm, strokes>>
serverVars == <<notes, stale, newer, saves, lost>>

\* A text is the stroke that wrote it, 0 for what was there before, under a title.
Strokes == 0..MaxStrokes
Titles == {"named", "empty", "default"}
NoteTexts == [stroke : Strokes, title : Titles]
FirstText == [stroke |-> 0, title |-> "named"]
NoText == [stroke |-> 0, title |-> "empty"]

\* defaultNotebookTitle: the server stores no empty title.
Stored(text) == IF text.title = "empty" THEN [text EXCEPT !.title = "default"] ELSE text
StoredTexts == {text \in NoteTexts : text.title # "empty"}

NoteRows == [live : BOOLEAN, shared : BOOLEAN, of : Notes \cup {NoNote}, text : StoredTexts]
Pads == [of : Notes \cup {NoNote}, text : NoteTexts, shared : BOOLEAN, before : NoteTexts]
NoPad == [of |-> NoNote, text |-> NoText, shared |-> FALSE, before |-> NoText]
NoTimer == [note |-> NoNote, of |-> NoNote, text |-> NoText, shared |-> FALSE]
NoteTimers == [note : Notes, of : Notes, text : NoteTexts, shared : BOOLEAN]
NoteCalls == [op : {"save", "create", "delete"}, note : Notes \cup {NoNote},
              of : Notes \cup {NoNote}, text : NoteTexts, shared : BOOLEAN,
              at : Strokes, stage : {"sent", "done"}]

\* "search" is a search that no note matches.
Filters == {"all", "private", "shared", "search"}

NotesTypeOK ==
    /\ notes \in [Notes -> NoteRows] /\ docs \in [Notes -> NoteRows]
    /\ stale \in BOOLEAN /\ newer \in BOOLEAN /\ filter \in Filters
    /\ picked \in Notes \cup {NoNote} /\ pad \in Pads
    /\ timer \in {NoTimer} \cup NoteTimers
    /\ saves \subseteq NoteCalls
    /\ lost \in BOOLEAN /\ calm \in BOOLEAN /\ strokes \in Strokes

-----------------------------------------------------------------------------
(* Effects of a render *)

Listed(list) == {n \in Notes : list[n].live}
Filtered(list, f) ==
    {n \in Listed(list) : f = "all" \/ f = IF list[n].shared THEN "shared" ELSE "private"}

\* Mutant: only the selection moves.
KeepPad(list, n) == pad

\* The note as it is listed fills the inputs.
PadOf(list, n) ==
    [of |-> list[n].of, text |-> list[n].text, shared |-> list[n].shared, before |-> list[n].text]

\* A selection that the filter hides moves to the first note, whatever is being typed; the
\* order of the list is left open.
Selections(list, f, n, p) ==
    IF Listed(list) = {} THEN {[picked |-> NoNote, pad |-> NoPad]}
    ELSE IF n \in Filtered(list, f) THEN {[picked |-> n, pad |-> p]}
    ELSE {[picked |-> m, pad |-> PadOf(list, m)] :
             m \in IF Filtered(list, f) # {} THEN Filtered(list, f) ELSE Listed(list)}

\* Mutant: the effect watches the text only.
SaveOfText(list, n, p) ==
    IF n \notin Notes \/ (n \in Notes /\ (~list[n].live \/ p.text = list[n].text)) THEN NoTimer
    ELSE [note |-> n, of |-> p.of, text |-> p.text, shared |-> p.shared]

\* What the timer will save: nothing when the inputs hold what the list shows.
SaveOf(list, n, p) ==
    IF n \notin Notes \/ (n \in Notes /\ (~list[n].live \/ (p.text = list[n].text /\ p.shared = list[n].shared)))
    THEN NoTimer
    ELSE [note |-> n, of |-> p.of, text |-> p.text, shared |-> p.shared]

\* The timer starts anew when an input or the selected note of the list changed; the
\* save that was waiting is dropped.
Watched(list, n, p) == <<IF n \in Notes /\ list[n].live THEN n ELSE NoNote, p.text, p.shared>>

Settle(list, s) ==
    /\ picked' = s.picked
    /\ pad' = s.pad
    /\ timer' = IF Watched(list, s.picked, s.pad) = Watched(docs, picked, pad) THEN timer
                ELSE SaveOf(list, s.picked, s.pad)

\* The list, the filter or the selection changed: the effect that selects runs first.
Render(list, f, n, p) == \E s \in Selections(list, f, n, p) : Settle(list, s)

\* A keystroke does not run it: what is typed under a filter that hides the note stays,
\* and is saved.
Keystroke(p) == Settle(docs, [picked |-> picked, pad |-> p])

-----------------------------------------------------------------------------
(* The owner *)

NotesQuiet == timer = NoTimer /\ saves = {} /\ ~stale

Stroke ==
    /\ strokes < MaxStrokes
    /\ strokes' = strokes + 1
    /\ calm' = (calm /\ NotesQuiet)

Editing == picked \in Notes /\ docs[picked].live

\* The content, or the title.
Write ==
    /\ Stroke
    /\ Editing
    /\ \E title \in {pad.text.title, "named"} :
          Keystroke([pad EXCEPT !.of = picked, !.text = [stroke |-> strokes + 1, title |-> title],
                                !.before = pad.text])
    /\ UNCHANGED <<serverVars, docs, filter>>

ClearTitle ==
    /\ Stroke
    /\ Editing /\ pad.text.title # "empty"
    /\ Keystroke([pad EXCEPT !.text.title = "empty", !.before = pad.text])
    /\ UNCHANGED <<serverVars, docs, filter>>

Undo ==
    /\ Stroke
    /\ Editing /\ pad.before # pad.text
    /\ Keystroke([pad EXCEPT !.text = pad.before])
    /\ UNCHANGED <<serverVars, docs, filter>>

Share ==
    /\ Stroke
    /\ Editing
    /\ Keystroke([pad EXCEPT !.shared = ~pad.shared])
    /\ UNCHANGED <<serverVars, docs, filter>>

PickNote(n) ==
    /\ Stroke
    /\ n \in Filtered(docs, filter)
    /\ Render(docs, filter, n, PadOf(docs, n))
    /\ UNCHANGED <<serverVars, docs, filter>>

\* One search may follow another.
SetFilter(f) ==
    /\ Stroke
    /\ filter # f \/ f = "search"
    /\ filter' = f
    /\ Render(docs, f, picked, pad)
    /\ UNCHANGED <<serverVars, docs>>

SendNote(op, n) ==
    /\ saves' = saves \cup {[op |-> op, note |-> n, of |-> n, text |-> FirstText, shared |-> filter = "shared",
                             at |-> strokes + 1, stage |-> "sent"]}
    /\ UNCHANGED <<notes, docs, stale, newer, filter, picked, pad, timer, lost>>

CreateNote ==
    /\ Stroke
    /\ \A c \in saves : c.op # "create"
    /\ SendNote("create", NoNote)

DeleteNote ==
    /\ Stroke
    /\ Editing
    /\ SendNote("delete", picked)

-----------------------------------------------------------------------------
(* Requests *)

\* 600 ms without a change.  Nothing orders this save after one still in flight.
AutoSave ==
    /\ timer # NoTimer
    /\ saves' = saves \cup {[op |-> "save", note |-> timer.note, of |-> timer.of, text |-> timer.text,
                             shared |-> timer.shared, at |-> strokes, stage |-> "sent"]}
    /\ timer' = NoTimer
    /\ UNCHANGED <<notes, docs, stale, newer, filter, picked, pad, lost, calm, strokes>>

ServeNote(c, n, row) ==
    /\ c.stage = "sent"
    /\ notes' = [notes EXCEPT ![n] = row]
    /\ newer' = TRUE
    /\ saves' = (saves \ {c}) \cup {[c EXCEPT !.stage = "done", !.note = n]}
    /\ UNCHANGED <<docs, stale, filter, picked, pad, timer, lost, calm, strokes>>

StoreNote(c) ==
    /\ c.op = "save"
    /\ notes[c.note].live
    /\ ServeNote(c, c.note, [live |-> TRUE, shared |-> c.shared, of |-> c.of, text |-> Stored(c.text)])

InsertNote(c, n) ==
    /\ c.op = "create"
    /\ notes[n].of = NoNote
    /\ ServeNote(c, n, [live |-> TRUE, shared |-> c.shared, of |-> n, text |-> FirstText])

EraseNote(c) ==
    /\ c.op = "delete"
    /\ ServeNote(c, c.note, [notes[c.note] EXCEPT !.live = FALSE])

\* The answer invalidates the list; a new note is selected before the list has it, so
\* the effect moves the selection on to a listed one.
NoteAnswered(c) ==
    /\ c.stage = "done"
    /\ saves' = saves \ {c}
    /\ stale' = TRUE
    /\ IF c.op = "create"
       THEN \E s \in Selections(docs, filter, c.note,
                                [of |-> c.note, text |-> FirstText, shared |-> c.shared, before |-> FirstText]) :
                picked' = s.picked /\ pad' = s.pad /\ timer' = SaveOf(docs, s.picked, s.pad)
       ELSE UNCHANGED <<picked, pad, timer>>
    /\ UNCHANGED <<notes, docs, newer, filter, lost, calm, strokes>>

\* An error or no answer.
NoteFailed(c) ==
    /\ saves' = saves \ {c}
    /\ lost' = TRUE
    /\ UNCHANGED <<notes, docs, stale, newer, filter, picked, pad, timer, calm, strokes>>

\* An equal list is the same object to React, and the effect does not run.
FetchNotes ==
    /\ docs' = notes
    /\ stale' = FALSE /\ newer' = FALSE
    /\ IF newer THEN Render(notes, filter, picked, pad) ELSE UNCHANGED <<picked, pad, timer>>
    /\ UNCHANGED <<notes, saves, filter, lost, calm, strokes>>

-----------------------------------------------------------------------------

Unused == [live |-> FALSE, shared |-> FALSE, of |-> NoNote, text |-> FirstText]

\* The list is being fetched.
NotesInit ==
    /\ \E S \in SUBSET Notes :
          notes = [n \in Notes |-> IF n \in S THEN [Unused EXCEPT !.live = TRUE, !.of = n] ELSE Unused]
    /\ docs = [n \in Notes |-> Unused] /\ stale = TRUE /\ newer = TRUE /\ filter = "all"
    /\ picked = NoNote /\ pad = NoPad
    /\ timer = NoTimer /\ saves = {} /\ lost = FALSE
    /\ calm = TRUE /\ strokes = 0

NotesNext ==
    \/ Write \/ ClearTitle \/ Undo \/ Share \/ CreateNote \/ DeleteNote
    \/ \E n \in Notes : PickNote(n)
    \/ \E f \in Filters : SetFilter(f)
    \/ AutoSave
    \/ \E c \in saves : \/ StoreNote(c) \/ EraseNote(c) \/ NoteAnswered(c) \/ NoteFailed(c)
                        \/ \E n \in Notes : InsertNote(c, n)
    \/ FetchNotes

NotesSpec == NotesInit /\ [][NotesNext]_noteVars

-----------------------------------------------------------------------------
\* A note holds only what was written in it, though one editor, one timer and saves that
\* outlive the selection serve every note (NotebookPage.tsx:125-177).
NoteTextsStay ==
    \A n \in Notes : notes[n].live => notes[n].of = n

\* When nothing is going on and no request failed, the note in the editor is stored as
\* the editor shows it, if the owner always waited that long; in place of a title she
\* cleared the default one is stored, and the editor goes on showing none.  An owner who
\* goes on sooner can lose a stroke to the next selection, or see one that is not stored.
CalmWriterIsSaved ==
    calm /\ ~lost /\ NotesQuiet /\ picked \in Notes =>
        /\ notes[picked].live
        /\ notes[picked].text = Stored(pad.text)
        /\ notes[picked].shared = pad.shared
=============================================================================
