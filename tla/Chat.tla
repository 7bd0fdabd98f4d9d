--------------------------------- MODULE Chat ---------------------------------
(***************************************************************************)
(* The internal chat: the room 'General' that the first list of the        *)
(* conversations creates, the participants, and the composer of each       *)
(* member's page.  A statement of the server is a step.                    *)
(***************************************************************************)
EXTENDS Naturals, FiniteSets

CONSTANTS
    People,     \* members of one organisation
    MaxRooms,   \* bound on the conversations
    MaxPresses  \* bound on what the members do

ASSUME ChatAssumption == MaxRooms \in Nat /\ MaxPresses \in Nat

VARIABLES
    rooms,     \* conversations 'General' and their participants
    messages,
    asking,    \* the request of each member for its conversations
    seat,      \* the page of each member
    sends,     \* messages on their way
    unsent,    \* texts a member wrote that are neither stored nor overwritten by her
    hasty,     \* members who did something while a message of theirs was on its way
    uncertain, \* texts of which a request failed, as far as the page knows
    presses

chatVars == <<rooms, messages, asking, seat, sends, unsent, hasty, uncertain, presses>>
composerVars == <<sends, unsent, hasty, uncertain, presses>>

RoomIds == 1..MaxRooms
NoRoom == 0
Drafts == 0..MaxPresses   \* a text is the press that wrote it; 0 is an empty composer
Made == {r \in RoomIds : rooms[r].made}
NotAsking == [stage |-> "no", room |-> NoRoom, fresh |-> FALSE]
Empty == [text |-> 0, bot |-> FALSE]

ChatTypeOK ==
    /\ rooms \in [RoomIds -> [made : BOOLEAN, in : SUBSET People]]
    /\ messages \subseteq [by : People, room : RoomIds, text : Drafts, at : Drafts]
    /\ asking \in [People -> [stage : {"no", "find", "join", "insert", "enter", "read"},
                              room : RoomIds \cup {NoRoom}, fresh : BOOLEAN]]
    /\ seat \in [People -> [list : SUBSET RoomIds, met : BOOLEAN, active : RoomIds \cup {NoRoom},
                            draft : [text : Drafts, bot : BOOLEAN]]]
    /\ sends \subseteq [by : People, room : RoomIds, text : Drafts, at : Drafts,
                        stage : {"derive", "sent", "done"}]
    /\ unsent \in [People -> SUBSET Drafts]
    /\ hasty \in SUBSET People /\ uncertain \in SUBSET Drafts /\ presses \in Drafts

-----------------------------------------------------------------------------
(* The list of conversations *)

Ask(m, stage, room, fresh) ==
    asking' = [asking EXCEPT ![m] = [stage |-> stage, room |-> room, fresh |-> fresh]]

AskRooms(m) ==
    /\ asking[m].stage = "no"
    /\ Ask(m, "find", NoRoom, FALSE)
    /\ UNCHANGED <<rooms, messages, seat, composerVars>>

\* Mutant: the query has no ORDER BY.
SomeRoom == Made

\* SELECT ... ORDER BY id LIMIT 1.
Lobby == {r \in Made : \A s \in Made : r <= s}

FindLobby(m) ==
    /\ asking[m].stage = "find"
    /\ IF Made = {} THEN Ask(m, "insert", NoRoom, FALSE)
       ELSE \E r \in Lobby : Ask(m, "join", r, TRUE)
    /\ UNCHANGED <<rooms, messages, seat, composerVars>>

Admit(m, r) == rooms' = [rooms EXCEPT ![r].in = @ \cup {m}]

\* An error of this statement is ignored.
JoinLobby(m) ==
    /\ asking[m].stage = "join"
    /\ \/ Admit(m, asking[m].room) /\ Ask(m, "read", asking[m].room, asking[m].fresh)
       \/ UNCHANGED rooms /\ Ask(m, "read", asking[m].room, FALSE)
    /\ UNCHANGED <<messages, seat, composerVars>>

\* No constraint makes the room unique, and rows become visible in any order of their ids.
InsertRoom(m) ==
    /\ asking[m].stage = "insert"
    /\ \E r \in RoomIds \ Made :
          /\ rooms' = [rooms EXCEPT ![r].made = TRUE]
          /\ asking' = [p \in People |->
                IF p = m THEN [stage |-> "enter", room |-> r, fresh |-> FALSE]
                ELSE [asking[p] EXCEPT !.fresh = FALSE]]
          /\ seat' = [p \in People |-> [seat[p] EXCEPT !.met = FALSE]]
    /\ UNCHANGED <<messages, composerVars>>

EnterRoom(m) ==
    /\ asking[m].stage = "enter"
    /\ Admit(m, asking[m].room)
    /\ Ask(m, "read", asking[m].room, FALSE)
    /\ UNCHANGED <<messages, seat, composerVars>>

\* The page opens the first conversation unless one is open; their order is left open.
ReadRooms(m) ==
    LET list == {r \in Made : m \in rooms[r].in}
    IN  /\ asking[m].stage = "read"
        /\ \E r \in IF seat[m].active # NoRoom \/ list = {} THEN {seat[m].active} ELSE list :
              seat' = [seat EXCEPT ![m].list = list, ![m].met = asking[m].fresh, ![m].active = r]
        /\ Ask(m, "no", NoRoom, FALSE)
        /\ UNCHANGED <<rooms, messages, composerVars>>

\* A statement fails, the connection breaks, or the answer gets lost.
FailRooms(m) ==
    /\ asking[m].stage # "no"
    /\ Ask(m, "no", NoRoom, FALSE)
    /\ UNCHANGED <<rooms, messages, seat, composerVars>>

-----------------------------------------------------------------------------
(* The composer: one for all conversations *)

Speaking(m) == \E s \in sends : s.by = m

Act(m) ==
    /\ presses < MaxPresses
    /\ presses' = presses + 1
    /\ hasty' = IF Speaking(m) THEN hasty \cup {m} ELSE hasty

Compose(m, bot) ==
    /\ Act(m)
    /\ seat[m].active # NoRoom
    /\ seat' = [seat EXCEPT ![m].draft = [text |-> presses + 1, bot |-> bot]]
    /\ unsent' = [unsent EXCEPT ![m] = (@ \ {seat[m].draft.text}) \cup {presses + 1}]
    /\ UNCHANGED <<rooms, messages, asking, sends, uncertain>>

OpenRoom(m, r) ==
    /\ Act(m)
    /\ r \in seat[m].list /\ r # seat[m].active
    /\ seat' = [seat EXCEPT ![m].active = r]
    /\ UNCHANGED <<rooms, messages, asking, sends, unsent, uncertain>>

\* The button waits for the message before; the Enter key does not.
Press(m) ==
    /\ Act(m)
    /\ seat[m].draft # Empty /\ seat[m].active # NoRoom
    /\ sends' = sends \cup {[by |-> m, room |-> seat[m].active, text |-> seat[m].draft.text,
                             at |-> presses + 1, stage |-> IF seat[m].draft.bot THEN "derive" ELSE "sent"]}
    /\ UNCHANGED <<rooms, messages, asking, seat, unsent, uncertain>>

\* The ticket is there; what the bot says goes to the conversation that is open by now.
Derived(s) ==
    /\ s.stage = "derive"
    /\ sends' = (sends \ {s}) \cup {[s EXCEPT !.stage = "sent", !.room = seat[s.by].active]}
    /\ UNCHANGED <<rooms, messages, asking, seat, unsent, hasty, uncertain, presses>>

StoreMessage(s) ==
    /\ s.stage = "sent"
    /\ s.by \in rooms[s.room].in
    /\ messages' = messages \cup {[by |-> s.by, room |-> s.room, text |-> s.text, at |-> s.at]}
    /\ unsent' = [unsent EXCEPT ![s.by] = @ \ {s.text}]
    /\ sends' = (sends \ {s}) \cup {[s EXCEPT !.stage = "done"]}
    /\ UNCHANGED <<rooms, asking, seat, hasty, uncertain, presses>>

\* Mutant: the composer is not cleared.
KeepDraft(s) ==
    /\ s.stage = "done"
    /\ sends' = sends \ {s}
    /\ UNCHANGED <<rooms, messages, asking, seat, unsent, hasty, uncertain, presses>>

\* The answer clears the composer, whatever it holds by then.
MessageAnswered(s) ==
    /\ s.stage = "done"
    /\ sends' = sends \ {s}
    /\ seat' = [seat EXCEPT ![s.by].draft = Empty]
    /\ UNCHANGED <<rooms, messages, asking, unsent, hasty, uncertain, presses>>

\* Mutant: the composer is cleared when the promise settles.
ClearAnyway(s) ==
    /\ sends' = sends \ {s}
    /\ seat' = [seat EXCEPT ![s.by].draft = Empty]
    /\ uncertain' = uncertain \cup {s.text}
    /\ UNCHANGED <<rooms, messages, asking, unsent, hasty, presses>>

MessageFailed(s) ==
    /\ sends' = sends \ {s}
    /\ uncertain' = uncertain \cup {s.text}
    /\ UNCHANGED <<rooms, messages, asking, seat, unsent, hasty, presses>>

-----------------------------------------------------------------------------

ChatInit ==
    /\ rooms = [r \in RoomIds |-> [made |-> FALSE, in |-> {}]]
    /\ messages = {} /\ sends = {}
    /\ asking = [m \in People |-> NotAsking]
    /\ seat = [m \in People |-> [list |-> {}, met |-> FALSE, active |-> NoRoom, draft |-> Empty]]
    /\ unsent = [m \in People |-> {}] /\ hasty = {} /\ uncertain = {} /\ presses = 0

ChatListing(m) ==
    \/ AskRooms(m) \/ FindLobby(m) \/ JoinLobby(m) \/ InsertRoom(m) \/ EnterRoom(m)
    \/ ReadRooms(m) \/ FailRooms(m)

ChatNext ==
    \/ \E m \in People :
          \/ ChatListing(m)
          \/ \E bot \in BOOLEAN : Compose(m, bot)
          \/ \E r \in RoomIds : OpenRoom(m, r)
          \/ Press(m)
    \/ \E s \in sends : Derived(s) \/ StoreMessage(s) \/ MessageAnswered(s) \/ MessageFailed(s)

ChatSpec == ChatInit /\ [][ChatNext]_chatVars

-----------------------------------------------------------------------------
\* Two members whose lists began after the last room was created, and met no failing
\* statement, see a common room, though first lists that race create several.
MembersMeet ==
    \A m, p \in People : seat[m].met /\ seat[p].met => seat[m].list \cap seat[p].list # {}

\* A member who does nothing while her message is on its way loses none: it is stored,
\* on its way or still in the composer, whichever request fails and wherever she went.
DraftKept ==
    \A m \in People \ hasty :
        unsent[m] \subseteq {seat[m].draft.text} \cup {s.text : s \in {t \in sends : t.by = m}}

\* Such a member says nothing twice unless a request seemed to fail: the server takes
\* every message, also one it has.
SaidOnce ==
    \A x, y \in messages :
        x # y /\ x.text = y.text => x.by \in hasty \/ x.text \in uncertain
=============================================================================
