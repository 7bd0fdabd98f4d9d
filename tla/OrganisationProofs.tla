-------------------------- MODULE OrganisationProofs ---------------------------
(***************************************************************************)
(* Theorems about what the members of one organisation share: the chat,    *)
(* for any number of members, rooms and messages; the roles, for any       *)
(* number of members, roles and concurrent requests; and the extensions,   *)
(* for any number of organisations and switches.                           *)
(***************************************************************************)
EXTENDS Chat, Members, Extensions, TLAPS

-----------------------------------------------------------------------------
(* The chat *)

\* Whoever has a message on its way has a conversation open.
Seated == \A s \in sends : seat[s.by].active # NoRoom

\* A list that began after the last room was created found the first of all rooms.
LobbyKnown ==
    \A m \in People :
        /\ asking[m].fresh => asking[m].stage \in {"join", "read"}
        /\ asking[m].fresh /\ asking[m].stage = "join" => asking[m].room \in Lobby
        /\ asking[m].fresh /\ asking[m].stage = "read" => \E r \in Lobby : m \in rooms[r].in
        /\ seat[m].met => \E r \in Lobby : r \in seat[m].list

RoomsInv == ChatTypeOK /\ Seated /\ LobbyKnown

LEMMA ChatFacts ==
    ASSUME ChatTypeOK, NEW m \in People
    PROVE  /\ rooms \in [RoomIds -> [made : BOOLEAN, in : SUBSET People]]
           /\ seat[m].list \subseteq RoomIds /\ seat[m].met \in BOOLEAN
           /\ seat[m].active \in RoomIds \cup {NoRoom}
           /\ seat[m].draft \in [text : Drafts, bot : BOOLEAN]
           /\ asking[m].room \in RoomIds \cup {NoRoom} /\ asking[m].fresh \in BOOLEAN
           /\ 0 \in Drafts /\ Empty \in [text : Drafts, bot : BOOLEAN]
           /\ NoRoom \notin RoomIds
BY ChatAssumption DEF ChatTypeOK, Drafts, Empty, NoRoom, RoomIds

\* Admitting somebody makes no room.
LEMMA AdmitFacts ==
    ASSUME ChatTypeOK, NEW m \in People, NEW r \in RoomIds \cup {NoRoom}, Admit(m, r)
    PROVE  /\ rooms' \in [RoomIds -> [made : BOOLEAN, in : SUBSET People]]
           /\ Lobby' = Lobby
           /\ \A q \in RoomIds : rooms[q].in \subseteq rooms'[q].in
           /\ r \in RoomIds => m \in rooms'[r].in
<1>1. rooms' = [rooms EXCEPT ![r].in = rooms[r].in \cup {m}] /\ NoRoom \notin RoomIds
  BY ChatFacts DEF Admit
<1>2. rooms \in [RoomIds -> [made : BOOLEAN, in : SUBSET People]]
  BY DEF ChatTypeOK
<1>3. \A q \in RoomIds : rooms'[q].made = rooms[q].made
  BY <1>1, <1>2
<1>4. Made' = Made
  BY <1>3 DEF Made
<1> QED  BY <1>1, <1>2, <1>4 DEF Lobby

LEMMA AskFacts ==
    ASSUME ChatTypeOK, NEW m \in People,
           NEW stage \in {"no", "find", "join", "insert", "enter", "read"},
           NEW room \in RoomIds \cup {NoRoom}, NEW fresh \in BOOLEAN, Ask(m, stage, room, fresh)
    PROVE  /\ asking' \in [People -> [stage : {"no", "find", "join", "insert", "enter", "read"},
                                     room : RoomIds \cup {NoRoom}, fresh : BOOLEAN]]
           /\ asking'[m] = [stage |-> stage, room |-> room, fresh |-> fresh]
           /\ \A p \in People \ {m} : asking'[p] = asking[p]
BY DEF Ask, ChatTypeOK

\* A request goes on while no room is made.
LEMMA AskStep ==
    ASSUME RoomsInv, NEW m \in People,
           NEW stage \in {"no", "find", "join", "insert", "enter", "read"},
           NEW room \in RoomIds \cup {NoRoom}, NEW fresh \in BOOLEAN, Ask(m, stage, room, fresh),
           fresh => \/ stage = "join" /\ room \in Lobby
                    \/ stage = "read" /\ \E r \in Lobby : m \in rooms'[r].in,
           UNCHANGED <<messages, seat, composerVars>>,
           rooms' \in [RoomIds -> [made : BOOLEAN, in : SUBSET People]],
           Lobby' = Lobby, \A r \in RoomIds : rooms[r].in \subseteq rooms'[r].in
    PROVE  RoomsInv'
<1>1. /\ asking' \in [People -> [stage : {"no", "find", "join", "insert", "enter", "read"},
                               room : RoomIds \cup {NoRoom}, fresh : BOOLEAN]]
      /\ asking'[m] = [stage |-> stage, room |-> room, fresh |-> fresh]
      /\ \A p \in People \ {m} : asking'[p] = asking[p]
  BY AskFacts DEF RoomsInv
<1>2. ChatTypeOK'
  BY <1>1 DEF RoomsInv, ChatTypeOK, composerVars
<1>3. Seated'
  BY DEF RoomsInv, Seated, composerVars
<1>4. LobbyKnown'
  <2> SUFFICES ASSUME NEW p \in People
               PROVE  /\ asking'[p].fresh => asking'[p].stage \in {"join", "read"}
                      /\ asking'[p].fresh /\ asking'[p].stage = "join" => asking'[p].room \in Lobby
                      /\ asking'[p].fresh /\ asking'[p].stage = "read" => \E r \in Lobby : p \in rooms'[r].in
                      /\ seat[p].met => \E r \in Lobby : r \in seat[p].list
    BY DEF LobbyKnown
  <2>1. Lobby \subseteq RoomIds
    BY DEF Lobby, Made
  <2>2. CASE p = m
    BY <1>1, <2>2 DEF RoomsInv, LobbyKnown
  <2>3. CASE p # m
    <3>1. asking'[p] = asking[p]
      BY <1>1, <2>3
    <3> QED  BY <2>1, <3>1 DEF RoomsInv, LobbyKnown
  <2> QED  BY <2>2, <2>3
<1> QED  BY <1>2, <1>3, <1>4 DEF RoomsInv

\* A list that begins finds the first room.
LEMMA RoomsAtAsk ==
    ASSUME RoomsInv, NEW m \in People, AskRooms(m) \/ FindLobby(m) \/ FailRooms(m)
    PROVE  RoomsInv'
<1>1. UNCHANGED <<rooms, messages, seat, composerVars>>
  BY DEF AskRooms, FindLobby, FailRooms
<1>2. PICK stage \in {"no", "find", "join", "insert"}, room \in RoomIds \cup {NoRoom}, fresh \in BOOLEAN :
         Ask(m, stage, room, fresh) /\ (fresh => stage = "join" /\ room \in Lobby)
  BY DEF AskRooms, FindLobby, FailRooms, Lobby, Made
<1>3. Lobby' = Lobby /\ rooms \in [RoomIds -> [made : BOOLEAN, in : SUBSET People]]
  BY <1>1 DEF Lobby, Made, RoomsInv, ChatTypeOK
<1> QED  BY <1>1, <1>2, <1>3, AskStep

LEMMA RoomsAtAdmission ==
    ASSUME RoomsInv, NEW m \in People, JoinLobby(m) \/ EnterRoom(m)
    PROVE  RoomsInv'
<1>1. /\ asking[m].room \in RoomIds \cup {NoRoom} /\ asking[m].fresh \in BOOLEAN
      /\ asking[m].fresh => asking[m].stage \in {"join", "read"}
      /\ asking[m].fresh /\ asking[m].stage = "join" => asking[m].room \in Lobby
      /\ rooms \in [RoomIds -> [made : BOOLEAN, in : SUBSET People]] /\ Lobby \subseteq RoomIds
  BY ChatFacts DEF RoomsInv, LobbyKnown, Lobby, Made
<1>2. UNCHANGED <<messages, seat, composerVars>>
  BY DEF JoinLobby, EnterRoom
<1>3. PICK fresh \in BOOLEAN :
        /\ Ask(m, "read", asking[m].room, fresh)
        /\ Admit(m, asking[m].room) \/ (UNCHANGED rooms /\ ~fresh)
        /\ fresh => asking[m].room \in Lobby
  BY <1>1 DEF JoinLobby, EnterRoom
<1>4. /\ rooms' \in [RoomIds -> [made : BOOLEAN, in : SUBSET People]]
      /\ Lobby' = Lobby
      /\ \A q \in RoomIds : rooms[q].in \subseteq rooms'[q].in
      /\ fresh => m \in rooms'[asking[m].room].in
  <2>1. CASE Admit(m, asking[m].room)
    BY <1>1, <1>3, <2>1, AdmitFacts DEF RoomsInv
  <2>2. CASE UNCHANGED rooms /\ ~fresh
    BY <1>1, <2>2 DEF Lobby, Made
  <2> QED  BY <1>3, <2>1, <2>2
<1>5. fresh => \E r \in Lobby : m \in rooms'[r].in
  BY <1>3, <1>4
<1> QED  BY <1>1, <1>2, <1>3, <1>4, <1>5, AskStep

\* A new room makes every list that is under way an old one.
LEMMA RoomsAtInsert ==
    ASSUME RoomsInv, NEW m \in People, InsertRoom(m)
    PROVE  RoomsInv'
<1>1. PICK r \in RoomIds :
        /\ rooms' = [rooms EXCEPT ![r].made = TRUE]
        /\ asking' = [p \in People |->
              IF p = m THEN [stage |-> "enter", room |-> r, fresh |-> FALSE]
              ELSE [asking[p] EXCEPT !.fresh = FALSE]]
        /\ seat' = [p \in People |-> [seat[p] EXCEPT !.met = FALSE]]
  BY DEF InsertRoom, Made
<1>2. UNCHANGED <<messages, composerVars>>
  BY DEF InsertRoom
<1>3. rooms' \in [RoomIds -> [made : BOOLEAN, in : SUBSET People]]
  BY <1>1 DEF RoomsInv, ChatTypeOK
<1>4. \A p \in People :
         /\ asking'[p] \in [stage : {"no", "find", "join", "insert", "enter", "read"},
                            room : RoomIds \cup {NoRoom}, fresh : BOOLEAN]
         /\ asking'[p].fresh = FALSE
  BY <1>1 DEF RoomsInv, ChatTypeOK
<1>5. \A p \in People :
         /\ seat'[p] \in [list : SUBSET RoomIds, met : BOOLEAN, active : RoomIds \cup {NoRoom},
                          draft : [text : Drafts, bot : BOOLEAN]]
         /\ seat'[p].met = FALSE /\ seat'[p].active = seat[p].active
  BY <1>1 DEF RoomsInv, ChatTypeOK
<1>6. /\ asking' \in [People -> [stage : {"no", "find", "join", "insert", "enter", "read"},
                               room : RoomIds \cup {NoRoom}, fresh : BOOLEAN]]
      /\ seat' \in [People -> [list : SUBSET RoomIds, met : BOOLEAN, active : RoomIds \cup {NoRoom},
                             draft : [text : Drafts, bot : BOOLEAN]]]
  BY <1>1, <1>4, <1>5
<1>7. ChatTypeOK'
  BY <1>2, <1>3, <1>6 DEF RoomsInv, ChatTypeOK, composerVars
<1>8. Seated'
  BY <1>2, <1>5 DEF RoomsInv, ChatTypeOK, Seated, composerVars
<1> QED
  BY <1>4, <1>5, <1>7, <1>8 DEF RoomsInv, LobbyKnown

LEMMA RoomsAtRead ==
    ASSUME RoomsInv, NEW m \in People, ReadRooms(m)
    PROVE  RoomsInv'
<1> DEFINE list == {r \in Made : m \in rooms[r].in}
<1>1. PICK r \in IF seat[m].active # NoRoom \/ list = {} THEN {seat[m].active} ELSE list :
         seat' = [seat EXCEPT ![m].list = list, ![m].met = asking[m].fresh, ![m].active = r]
  BY DEF ReadRooms
<1>2. /\ list \subseteq RoomIds /\ asking[m].fresh \in BOOLEAN /\ r \in RoomIds \cup {NoRoom}
      /\ seat[m].active # NoRoom => r = seat[m].active
  BY <1>1, ChatFacts DEF RoomsInv, Made
<1>3. /\ asking[m].stage = "read" /\ Ask(m, "no", NoRoom, FALSE)
      /\ UNCHANGED <<rooms, messages, composerVars>> /\ Lobby' = Lobby
  BY DEF ReadRooms, Lobby, Made
<1>4. asking[m].fresh => \E q \in Lobby : q \in list
  BY <1>3 DEF RoomsInv, LobbyKnown, Lobby
<1> HIDE DEF list
<1>5. /\ seat' \in [People -> [list : SUBSET RoomIds, met : BOOLEAN, active : RoomIds \cup {NoRoom},
                               draft : [text : Drafts, bot : BOOLEAN]]]
      /\ seat'[m].list = list /\ seat'[m].met = asking[m].fresh /\ seat'[m].active = r
      /\ \A p \in People \ {m} : seat'[p] = seat[p]
  <2>1. seat \in [People -> [list : SUBSET RoomIds, met : BOOLEAN, active : RoomIds \cup {NoRoom},
                             draft : [text : Drafts, bot : BOOLEAN]]]
    BY DEF RoomsInv, ChatTypeOK
  <2> DEFINE fresh == asking[m].fresh
             g == [seat EXCEPT ![m].list = list, ![m].met = fresh, ![m].active = r]
  <2>2. fresh \in BOOLEAN /\ m \in People /\ list \in SUBSET RoomIds /\ r \in RoomIds \cup {NoRoom}
    BY <1>2
  <2> HIDE DEF fresh
  <2>3. /\ g \in [People -> [list : SUBSET RoomIds, met : BOOLEAN, active : RoomIds \cup {NoRoom},
                            draft : [text : Drafts, bot : BOOLEAN]]]
        /\ g[m].list = list /\ g[m].met = fresh /\ g[m].active = r
        /\ \A p \in People \ {m} : g[p] = seat[p]
    BY <2>1, <2>2
  <2>4. seat' = g
    BY <1>1, Zenon DEF fresh
  <2> HIDE DEF g
  <2> QED  BY <2>3, <2>4 DEF fresh
<1>6. /\ asking' \in [People -> [stage : {"no", "find", "join", "insert", "enter", "read"},
                               room : RoomIds \cup {NoRoom}, fresh : BOOLEAN]]
      /\ asking'[m] = [stage |-> "no", room |-> NoRoom, fresh |-> FALSE]
      /\ \A p \in People \ {m} : asking'[p] = asking[p]
  BY <1>3, AskFacts DEF RoomsInv
<1>7. ChatTypeOK'
  BY <1>3, <1>5, <1>6 DEF RoomsInv, ChatTypeOK, composerVars
<1>8. Seated'
  <2>1. \A p \in People : seat[p].active # NoRoom => seat'[p].active # NoRoom
    BY <1>2, <1>5
  <2> QED  BY <1>3, <2>1 DEF RoomsInv, ChatTypeOK, Seated, composerVars
<1>9. LobbyKnown'
  <2>1. ASSUME NEW p \in People, p # m PROVE asking'[p] = asking[p] /\ seat'[p] = seat[p]
    BY <1>5, <1>6, <2>1
  <2> QED  BY <1>3, <1>4, <1>5, <1>6, <2>1 DEF RoomsInv, LobbyKnown
<1> QED  BY <1>7, <1>8, <1>9 DEF RoomsInv

\* The composer changes neither the rooms nor what a member knows of them.
LEMMA ComposerStep ==
    ASSUME RoomsInv, UNCHANGED <<rooms, asking>>,
           seat' \in [People -> [list : SUBSET RoomIds, met : BOOLEAN, active : RoomIds \cup {NoRoom},
                                 draft : [text : Drafts, bot : BOOLEAN]]],
           \A p \in People : seat'[p].list = seat[p].list /\ seat'[p].met = seat[p].met
    PROVE  LobbyKnown'
<1>1. Lobby' = Lobby
  BY DEF Lobby, Made
<1> QED  BY <1>1 DEF RoomsInv, LobbyKnown

LEMMA PressFacts ==
    ASSUME ChatTypeOK, NEW m \in People, Act(m)
    PROVE  presses + 1 \in Drafts /\ presses' = presses + 1 /\ presses' \in Drafts /\ hasty' \in SUBSET People
BY ChatAssumption DEF ChatTypeOK, Act, Drafts

LEMMA RoomsAtPresses ==
    ASSUME RoomsInv, NEW m \in People,
           Press(m) \/ (\E bot \in BOOLEAN : Compose(m, bot)) \/ \E r \in RoomIds : OpenRoom(m, r)
    PROVE  RoomsInv'
<1>1. presses + 1 \in Drafts /\ presses' \in Drafts /\ hasty' \in SUBSET People
  BY PressFacts DEF RoomsInv, Press, Compose, OpenRoom
<1>2. UNCHANGED <<rooms, messages, asking, uncertain>>
  BY DEF Press, Compose, OpenRoom
<1>3. CASE Press(m)
  <2> DEFINE s == [by |-> m, room |-> seat[m].active, text |-> seat[m].draft.text,
                   at |-> presses + 1, stage |-> IF seat[m].draft.bot THEN "derive" ELSE "sent"]
  <2>1. sends' = sends \cup {s} /\ UNCHANGED <<seat, unsent>> /\ seat[m].active # NoRoom
    BY <1>3 DEF Press
  <2>2. /\ s \in [by : People, room : RoomIds, text : Drafts, at : Drafts, stage : {"derive", "sent", "done"}]
        /\ s.by = m
    BY <1>1, <2>1, ChatFacts DEF RoomsInv
  <2> HIDE DEF s
  <2>3. LobbyKnown'
    BY <1>2, <2>1, ComposerStep DEF RoomsInv, ChatTypeOK
  <2>4. ChatTypeOK' /\ Seated'
    BY <1>1, <1>2, <2>1, <2>2 DEF RoomsInv, ChatTypeOK, Seated
  <2> QED  BY <2>3, <2>4 DEF RoomsInv
<1>4. ASSUME NEW bot \in BOOLEAN, Compose(m, bot) PROVE RoomsInv'
  <2>1. /\ seat' = [seat EXCEPT ![m].draft = [text |-> presses + 1, bot |-> bot]]
        /\ unsent' = [unsent EXCEPT ![m] = (unsent[m] \ {seat[m].draft.text}) \cup {presses + 1}]
        /\ sends' = sends
    BY <1>4 DEF Compose
  <2>2. [text |-> presses + 1, bot |-> bot] \in [text : Drafts, bot : BOOLEAN]
    BY <1>1, Zenon
  <2>3. /\ seat' \in [People -> [list : SUBSET RoomIds, met : BOOLEAN, active : RoomIds \cup {NoRoom},
                                 draft : [text : Drafts, bot : BOOLEAN]]]
        /\ \A p \in People : /\ seat'[p].list = seat[p].list /\ seat'[p].met = seat[p].met
                             /\ seat'[p].active = seat[p].active
    BY <2>1, <2>2 DEF RoomsInv, ChatTypeOK
  <2>4. unsent' \in [People -> SUBSET Drafts]
    BY <1>1, <2>1 DEF RoomsInv, ChatTypeOK
  <2>5. LobbyKnown'
    BY <1>2, <2>3, ComposerStep
  <2>6. ChatTypeOK' /\ Seated'
    BY <1>1, <1>2, <2>1, <2>3, <2>4 DEF RoomsInv, ChatTypeOK, Seated
  <2> QED  BY <2>5, <2>6 DEF RoomsInv
<1>5. ASSUME NEW r \in RoomIds, OpenRoom(m, r) PROVE RoomsInv'
  <2>1. seat' = [seat EXCEPT ![m].active = r] /\ UNCHANGED <<sends, unsent>> /\ r # NoRoom
    BY <1>5, ChatFacts DEF OpenRoom, RoomsInv
  <2>2. /\ seat' \in [People -> [list : SUBSET RoomIds, met : BOOLEAN, active : RoomIds \cup {NoRoom},
                                 draft : [text : Drafts, bot : BOOLEAN]]]
        /\ \A p \in People : /\ seat'[p].list = seat[p].list /\ seat'[p].met = seat[p].met
                             /\ seat'[p].active \in {seat[p].active, r}
    BY <2>1 DEF RoomsInv, ChatTypeOK
  <2>3. LobbyKnown'
    BY <1>2, <2>2, ComposerStep
  <2>4. ChatTypeOK' /\ Seated'
    BY <1>1, <1>2, <2>1, <2>2 DEF RoomsInv, ChatTypeOK, Seated
  <2> QED  BY <2>3, <2>4 DEF RoomsInv
<1> QED  BY <1>3, <1>4, <1>5

LEMMA RoomsAtSends ==
    ASSUME RoomsInv, NEW s \in sends,
           Derived(s) \/ StoreMessage(s) \/ MessageAnswered(s) \/ MessageFailed(s)
    PROVE  RoomsInv'
<1>1. /\ s \in [by : People, room : RoomIds, text : Drafts, at : Drafts, stage : {"derive", "sent", "done"}]
      /\ seat[s.by].active \in RoomIds
  BY ChatFacts DEF RoomsInv, ChatTypeOK, Seated
<1>2. UNCHANGED <<rooms, asking, hasty, presses>>
  BY DEF Derived, StoreMessage, MessageAnswered, MessageFailed
<1>3. \E d \in [by : People, room : RoomIds, text : Drafts, at : Drafts, stage : {"derive", "sent", "done"}] :
         d.by = s.by /\ sends' \subseteq (sends \ {s}) \cup {d}
  <2>1. [s EXCEPT !.stage = "sent", !.room = seat[s.by].active] \in
           [by : People, room : RoomIds, text : Drafts, at : Drafts, stage : {"derive", "sent", "done"}]
    BY <1>1
  <2>2. [s EXCEPT !.stage = "done"] \in
           [by : People, room : RoomIds, text : Drafts, at : Drafts, stage : {"derive", "sent", "done"}]
    BY <1>1
  <2>3. CASE MessageAnswered(s) \/ MessageFailed(s)
    BY <1>1, <2>3 DEF MessageAnswered, MessageFailed
  <2>4. CASE Derived(s)
    BY <1>1, <2>1, <2>4 DEF Derived
  <2>5. CASE StoreMessage(s)
    BY <1>1, <2>2, <2>5 DEF StoreMessage
  <2> QED  BY <2>3, <2>4, <2>5
<1>4. /\ seat' \in [People -> [list : SUBSET RoomIds, met : BOOLEAN, active : RoomIds \cup {NoRoom},
                               draft : [text : Drafts, bot : BOOLEAN]]]
      /\ \A p \in People : /\ seat'[p].list = seat[p].list /\ seat'[p].met = seat[p].met
                           /\ seat'[p].active = seat[p].active
  <2>1. seat' \in {seat, [seat EXCEPT ![s.by].draft = Empty]}
    BY DEF Derived, StoreMessage, MessageAnswered, MessageFailed
  <2>2. Empty \in [text : Drafts, bot : BOOLEAN] /\ s.by \in People
    BY <1>1, ChatFacts DEF RoomsInv
  <2>3. CASE seat' = seat
    BY <2>3 DEF RoomsInv, ChatTypeOK
  <2>4. CASE seat' = [seat EXCEPT ![s.by].draft = Empty]
    BY <2>2, <2>4 DEF RoomsInv, ChatTypeOK
  <2> QED  BY <2>1, <2>3, <2>4
<1>5. /\ messages' \subseteq [by : People, room : RoomIds, text : Drafts, at : Drafts]
      /\ unsent' \in [People -> SUBSET Drafts] /\ uncertain' \in SUBSET Drafts
  BY <1>1 DEF Derived, StoreMessage, MessageAnswered, MessageFailed, RoomsInv, ChatTypeOK
<1>6. LobbyKnown'
  BY <1>2, <1>4, ComposerStep
<1>7. ChatTypeOK'
  BY <1>2, <1>3, <1>4, <1>5 DEF RoomsInv, ChatTypeOK
<1>8. Seated'
  BY <1>1, <1>3, <1>4 DEF RoomsInv, Seated, ChatTypeOK
<1> QED  BY <1>6, <1>7, <1>8 DEF RoomsInv

LEMMA RoomsStart == ChatInit => RoomsInv
<1> SUFFICES ASSUME ChatInit PROVE RoomsInv
  OBVIOUS
<1>1. 0 \in Drafts /\ Empty \in [text : Drafts, bot : BOOLEAN]
  BY ChatAssumption DEF Drafts, Empty
<1>2. seat \in [People -> [list : SUBSET RoomIds, met : BOOLEAN, active : RoomIds \cup {NoRoom},
                           draft : [text : Drafts, bot : BOOLEAN]]]
  BY <1>1 DEF ChatInit
<1>3. \A m \in People : ~asking[m].fresh /\ ~seat[m].met
  BY DEF ChatInit, NotAsking
<1>4. ChatTypeOK
  BY <1>1, <1>2 DEF ChatInit, ChatTypeOK, NotAsking
<1> QED
  BY <1>3, <1>4 DEF ChatInit, RoomsInv, Seated, LobbyKnown

LEMMA RoomsStep == RoomsInv /\ [ChatNext]_chatVars => RoomsInv'
<1> SUFFICES ASSUME RoomsInv, [ChatNext]_chatVars PROVE RoomsInv'
  OBVIOUS
<1>1. ASSUME NEW m \in People, ChatListing(m) PROVE RoomsInv'
  BY <1>1, RoomsAtAsk, RoomsAtAdmission, RoomsAtInsert, RoomsAtRead DEF ChatListing
<1>2. CASE ChatNext
  BY <1>1, <1>2, RoomsAtPresses, RoomsAtSends DEF ChatNext
<1>3. CASE UNCHANGED chatVars
  <2>1. UNCHANGED <<rooms, messages, asking, seat, sends, unsent, hasty, uncertain, presses>>
    BY <1>3 DEF chatVars
  <2>2. Lobby' = Lobby
    BY <2>1 DEF Lobby, Made
  <2> QED  BY <2>1, <2>2 DEF RoomsInv, ChatTypeOK, Seated, LobbyKnown
<1> QED  BY <1>2, <1>3

\* The rooms, the lists and the composers keep their types (chat_handlers.go:40-304,
\* ChatPage.tsx:67-252).
THEOREM ChatTypeCorrect == ChatSpec => []ChatTypeOK
<1>1. RoomsInv => ChatTypeOK
  BY DEF RoomsInv
<1> QED  BY <1>1, RoomsStart, RoomsStep, PTL DEF ChatSpec

\* Members meet however many of their first lists race and however many rooms that makes,
\* for any number of members (chat_handlers.go:260-304).
THEOREM EverybodyMeets == ChatSpec => []MembersMeet
<1>1. RoomsInv => MembersMeet
  <2> SUFFICES ASSUME RoomsInv, NEW m \in People, NEW p \in People, seat[m].met, seat[p].met
               PROVE  seat[m].list \cap seat[p].list # {}
    BY DEF MembersMeet
  <2>1. PICK r \in Lobby, q \in Lobby : r \in seat[m].list /\ q \in seat[p].list
    BY DEF RoomsInv, LobbyKnown
  <2>2. r = q
    <3>1. r \in Made /\ q \in Made /\ r <= q /\ q <= r
      BY DEF Lobby
    <3>2. r \in Nat /\ q \in Nat
      BY <3>1, ChatAssumption DEF Made, RoomIds
    <3> QED  BY <3>1, <3>2
  <2> QED  BY <2>1, <2>2
<1> QED  BY <1>1, RoomsStart, RoomsStep, PTL DEF ChatSpec

-----------------------------------------------------------------------------
(* The messages *)

\* Where a member's text can be: in her composer, on its way, or said.
Wrote(m, t) ==
    \/ seat[m].draft.text = t
    \/ \E s \in sends : s.by = m /\ s.text = t
    \/ \E x \in messages : x.by = m /\ x.text = t

\* A text has one author, and was written by an earlier press.
Authored ==
    /\ \A m \in People : \A t : Wrote(m, t) => t <= presses
    /\ \A m, p \in People : \A t : t # 0 /\ Wrote(m, t) /\ Wrote(p, t) => m = p
    /\ \A m \in People : seat[m].draft = Empty \/ seat[m].draft.text # 0
    /\ \A s \in sends : s.text # 0
    /\ \A x \in messages : x.text # 0

\* A member who waits has at most one message on its way, the one in her composer, and
\* what is in her composer was said only if its answer is on its way or seemed lost.
Careful ==
    \A m \in People \ hasty :
        /\ \A s, t \in sends : s.by = m /\ t.by = m => s = t
        /\ \A s \in sends : s.by = m =>
              s.text = seat[m].draft.text /\ (s.stage = "done" => s.text \notin unsent[m])
        /\ unsent[m] \subseteq {seat[m].draft.text}
        /\ \A x \in messages : x.by = m /\ x.text = seat[m].draft.text =>
              x.text \in uncertain \/ \E s \in sends : s.by = m /\ s.stage = "done"
        /\ \A x, y \in messages : x.by = m /\ y.by = m /\ x # y /\ x.text = y.text => x.text \in uncertain

SpeechInv == RoomsInv /\ Authored /\ Careful

LEMMA SpeechAtListing ==
    ASSUME SpeechInv, NEW m \in People, ChatListing(m)
    PROVE  Authored' /\ Careful'
<1>1. UNCHANGED <<messages, sends, unsent, hasty, uncertain, presses>>
  BY DEF ChatListing, AskRooms, FindLobby, JoinLobby, InsertRoom, EnterRoom, ReadRooms, FailRooms, composerVars
<1>2. \A p \in People : seat'[p].draft = seat[p].draft
  <2>1. \A p \in People : seat[p] \in [list : SUBSET RoomIds, met : BOOLEAN, active : RoomIds \cup {NoRoom},
                                       draft : [text : Drafts, bot : BOOLEAN]]
    BY DEF SpeechInv, RoomsInv, ChatTypeOK
  <2>2. CASE InsertRoom(m)
    BY <2>1, <2>2 DEF InsertRoom
  <2>3. CASE ReadRooms(m)
    <3> DEFINE list == {q \in Made : m \in rooms[q].in}
               met == asking[m].fresh
    <3>1. PICK r \in IF seat[m].active # NoRoom \/ list = {} THEN {seat[m].active} ELSE list :
             seat' = [seat EXCEPT ![m].list = list, ![m].met = met, ![m].active = r]
      BY <2>3 DEF ReadRooms
    <3> HIDE DEF list, met
    <3>2. seat \in [People -> [list : SUBSET RoomIds, met : BOOLEAN, active : RoomIds \cup {NoRoom},
                              draft : [text : Drafts, bot : BOOLEAN]]]
      BY DEF SpeechInv, RoomsInv, ChatTypeOK
    <3> DEFINE row == [seat[m] EXCEPT !.list = list, !.met = met, !.active = r]
    <3>3. seat' = [seat EXCEPT ![m] = row] /\ row.draft = seat[m].draft
      BY <2>1, <3>1, <3>2
    <3> HIDE DEF row
    <3> QED  BY <3>2, <3>3
  <2> QED
    BY <2>2, <2>3 DEF ChatListing, AskRooms, FindLobby, JoinLobby, EnterRoom, FailRooms
<1>3. \A p \in People : \A t : Wrote(p, t)' <=> Wrote(p, t)
  BY <1>1, <1>2 DEF Wrote
<1> QED
  BY <1>1, <1>2, <1>3 DEF SpeechInv, Authored, Careful

\* A text stays with its author: what was written before keeps its place or loses it.
LEMMA AuthorsStay ==
    ASSUME Authored, presses' >= presses, presses \in Nat, presses' \in Nat,
           \A p \in People : \A t : Wrote(p, t)' => Wrote(p, t),
           \A p \in People : seat'[p].draft = Empty \/ seat'[p].draft.text # 0,
           \A s \in sends' : s.text # 0,
           \A x \in messages' : x.text # 0,
           \A p \in People : \A t : Wrote(p, t) => t \in Nat
    PROVE  Authored'
<1>1. \A p \in People : \A t : Wrote(p, t)' => t <= presses'
  BY DEF Authored
<1>2. \A m, p \in People : \A t : t # 0 /\ Wrote(m, t)' /\ Wrote(p, t)' => m = p
  BY DEF Authored
<1> QED  BY <1>1, <1>2 DEF Authored

LEMMA TextFacts ==
    ASSUME ChatTypeOK
    PROVE  /\ presses \in Nat
           /\ \A p \in People : \A t : Wrote(p, t) => t \in Nat
           /\ \A p \in People : seat[p].draft \in [text : Drafts, bot : BOOLEAN]
<1>1. \A t \in Drafts : t \in Nat
  BY ChatAssumption DEF Drafts
<1>2. \A p \in People : seat[p].draft \in [text : Drafts, bot : BOOLEAN]
  BY DEF ChatTypeOK
<1>3. \A s \in sends : s.text \in Drafts
  BY DEF ChatTypeOK
<1>4. \A x \in messages : x.text \in Drafts
  BY DEF ChatTypeOK
<1> QED
  BY <1>1, <1>2, <1>3, <1>4 DEF Wrote, ChatTypeOK

LEMMA SpeechAtPress ==
    ASSUME SpeechInv, NEW m \in People, Press(m)
    PROVE  Authored' /\ Careful'
<1> DEFINE s == [by |-> m, room |-> seat[m].active, text |-> seat[m].draft.text,
                 at |-> presses + 1, stage |-> IF seat[m].draft.bot THEN "derive" ELSE "sent"]
<1>1. /\ sends' = sends \cup {s} /\ UNCHANGED <<seat, messages, unsent, uncertain>>
      /\ presses' = presses + 1 /\ hasty' = IF Speaking(m) THEN hasty \cup {m} ELSE hasty
      /\ seat[m].draft # Empty
  BY DEF Press, Act
<1>2. s.by = m /\ s.text = seat[m].draft.text /\ s.stage # "done"
  OBVIOUS
<1> HIDE DEF s
<1>3. s.text # 0
  BY <1>1, <1>2 DEF SpeechInv, Authored
<1>4. \A p \in People : \A t : Wrote(p, t)' => Wrote(p, t)
  BY <1>1, <1>2 DEF Wrote
<1>5. Authored'
  BY <1>1, <1>3, <1>4, AuthorsStay, TextFacts DEF SpeechInv, RoomsInv, Authored
<1>6. Careful'
  <2> SUFFICES ASSUME NEW p \in People, p \notin hasty'
               PROVE  /\ \A a, b \in sends' : a.by = p /\ b.by = p => a = b
                      /\ \A a \in sends' : a.by = p =>
                            a.text = seat[p].draft.text /\ (a.stage = "done" => a.text \notin unsent[p])
                      /\ unsent[p] \subseteq {seat[p].draft.text}
                      /\ \A x \in messages : x.by = p /\ x.text = seat[p].draft.text =>
                            x.text \in uncertain \/ \E a \in sends' : a.by = p /\ a.stage = "done"
                      /\ \A x, y \in messages : x.by = p /\ y.by = p /\ x # y /\ x.text = y.text => x.text \in uncertain
    BY <1>1 DEF Careful
  <2>1. p \notin hasty
    BY <1>1
  <2>2. CASE p = m
    <3>1. \A a \in sends : a.by # m
      BY <1>1, <2>2 DEF Speaking
    <3> QED  BY <1>1, <1>2, <2>1, <2>2, <3>1 DEF SpeechInv, Careful
  <2>3. CASE p # m
    BY <1>1, <1>2, <2>1, <2>3 DEF SpeechInv, Careful
  <2> QED  BY <2>2, <2>3
<1> QED  BY <1>5, <1>6

\* A new text replaces the one in the composer.
LEMMA SpeechAtCompose ==
    ASSUME SpeechInv, NEW m \in People, NEW bot \in BOOLEAN, Compose(m, bot)
    PROVE  Authored' /\ Careful'
<1>1. /\ UNCHANGED <<messages, sends, uncertain>>
      /\ presses' = presses + 1 /\ hasty' = IF Speaking(m) THEN hasty \cup {m} ELSE hasty
      /\ seat' = [seat EXCEPT ![m].draft = [text |-> presses + 1, bot |-> bot]]
      /\ unsent' = [unsent EXCEPT ![m] = (unsent[m] \ {seat[m].draft.text}) \cup {presses + 1}]
  BY DEF Compose, Act
<1>2. presses \in Nat /\ \A p \in People : \A t : Wrote(p, t) => t \in Nat
  BY TextFacts DEF SpeechInv, RoomsInv
<1>3. /\ seat'[m].draft.text = presses + 1
      /\ \A p \in People \ {m} : seat'[p] = seat[p] /\ unsent'[p] = unsent[p]
      /\ unsent'[m] = (unsent[m] \ {seat[m].draft.text}) \cup {presses + 1}
  BY <1>1 DEF SpeechInv, RoomsInv, ChatTypeOK
<1>4. \A p \in People : \A t : Wrote(p, t)' => Wrote(p, t) \/ (p = m /\ t = presses + 1)
  BY <1>1, <1>3 DEF Wrote
<1>5. Authored'
  <2>1. \A p \in People : \A t : Wrote(p, t)' => t <= presses'
    BY <1>1, <1>2, <1>4 DEF SpeechInv, Authored
  <2>2. \A p \in People : \A t : Wrote(p, t) => t # presses + 1
    BY <1>2 DEF SpeechInv, Authored
  <2>3. \A n, p \in People : \A t : t # 0 /\ Wrote(n, t)' /\ Wrote(p, t)' => n = p
    BY <1>4, <2>2 DEF SpeechInv, Authored
  <2>4. \A p \in People : seat'[p].draft = Empty \/ seat'[p].draft.text # 0
    BY <1>2, <1>3 DEF SpeechInv, Authored
  <2> QED  BY <1>1, <2>1, <2>3, <2>4 DEF SpeechInv, Authored
<1>6. Careful'
  <2> SUFFICES ASSUME NEW p \in People, p \notin hasty'
               PROVE  /\ \A a, b \in sends : a.by = p /\ b.by = p => a = b
                      /\ \A a \in sends : a.by = p =>
                            a.text = seat'[p].draft.text /\ (a.stage = "done" => a.text \notin unsent'[p])
                      /\ unsent'[p] \subseteq {seat'[p].draft.text}
                      /\ \A x \in messages : x.by = p /\ x.text = seat'[p].draft.text =>
                            x.text \in uncertain \/ \E a \in sends : a.by = p /\ a.stage = "done"
                      /\ \A x, y \in messages : x.by = p /\ y.by = p /\ x # y /\ x.text = y.text => x.text \in uncertain
    BY <1>1 DEF Careful
  <2>1. p \notin hasty
    BY <1>1
  <2>2. CASE p = m
    <3>1. \A a \in sends : a.by # m
      BY <1>1, <2>2 DEF Speaking
    <3>2. \A x \in messages : x.by = m => x.text # presses + 1
      BY <1>2 DEF SpeechInv, Authored, Wrote
    <3> QED  BY <1>3, <2>1, <2>2, <3>1, <3>2 DEF SpeechInv, Careful
  <2>3. CASE p # m
    BY <1>3, <2>1, <2>3 DEF SpeechInv, Careful
  <2> QED  BY <2>2, <2>3
<1> QED  BY <1>5, <1>6

LEMMA SpeechAtOpen ==
    ASSUME SpeechInv, NEW m \in People, NEW r \in RoomIds, OpenRoom(m, r)
    PROVE  Authored' /\ Careful'
<1>1. /\ UNCHANGED <<messages, sends, unsent, uncertain>>
      /\ presses' = presses + 1 /\ hasty \subseteq hasty'
      /\ seat' = [seat EXCEPT ![m].active = r]
  BY DEF OpenRoom, Act
<1>2. \A p \in People : seat'[p].draft = seat[p].draft
  BY <1>1 DEF SpeechInv, RoomsInv, ChatTypeOK
<1>3. \A p \in People : \A t : Wrote(p, t)' => Wrote(p, t)
  BY <1>1, <1>2 DEF Wrote
<1>4. Authored'
  BY <1>1, <1>2, <1>3, AuthorsStay, TextFacts DEF SpeechInv, RoomsInv, Authored
<1>5. Careful'
  BY <1>1, <1>2 DEF SpeechInv, Careful
<1> QED  BY <1>4, <1>5

LEMMA SpeechAtDerived ==
    ASSUME SpeechInv, NEW s \in sends, Derived(s)
    PROVE  Authored' /\ Careful'
<1> DEFINE d == [s EXCEPT !.stage = "sent", !.room = seat[s.by].active]
<1>1. /\ sends' = (sends \ {s}) \cup {d}
      /\ UNCHANGED <<messages, seat, unsent, hasty, uncertain, presses>> /\ s.stage = "derive"
  BY DEF Derived
<1>2. d.by = s.by /\ d.text = s.text /\ d.stage = "sent"
  BY DEF SpeechInv, RoomsInv, ChatTypeOK
<1> HIDE DEF d
<1>3. \A p \in People : \A t : Wrote(p, t)' => Wrote(p, t)
  BY <1>1, <1>2 DEF Wrote
<1>4. Authored'
  BY <1>1, <1>2, <1>3, AuthorsStay, TextFacts DEF SpeechInv, RoomsInv, Authored
<1>5. Careful'
  <2> SUFFICES ASSUME NEW p \in People, p \notin hasty
               PROVE  /\ \A a, b \in sends' : a.by = p /\ b.by = p => a = b
                      /\ \A a \in sends' : a.by = p =>
                            a.text = seat[p].draft.text /\ (a.stage = "done" => a.text \notin unsent[p])
                      /\ \A x \in messages : x.by = p /\ x.text = seat[p].draft.text =>
                            x.text \in uncertain \/ \E a \in sends' : a.by = p /\ a.stage = "done"
    BY <1>1 DEF SpeechInv, Careful
  <2> QED  BY <1>1, <1>2 DEF SpeechInv, Careful
<1> QED  BY <1>4, <1>5

\* What is stored was not stored before, unless its answer seemed lost.
LEMMA SpeechAtStore ==
    ASSUME SpeechInv, NEW s \in sends, StoreMessage(s)
    PROVE  Authored' /\ Careful'
<1> DEFINE d == [s EXCEPT !.stage = "done"]
           x == [by |-> s.by, room |-> s.room, text |-> s.text, at |-> s.at]
<1>1. /\ sends' = (sends \ {s}) \cup {d} /\ messages' = messages \cup {x} /\ s.stage = "sent"
      /\ unsent' = [unsent EXCEPT ![s.by] = unsent[s.by] \ {s.text}]
      /\ UNCHANGED <<seat, hasty, uncertain, presses>>
  BY DEF StoreMessage
<1>2. d.by = s.by /\ d.text = s.text /\ d.stage = "done" /\ x.by = s.by /\ x.text = s.text /\ s.by \in People
  BY DEF SpeechInv, RoomsInv, ChatTypeOK
<1>3. /\ unsent'[s.by] = unsent[s.by] \ {s.text}
      /\ \A p \in People \ {s.by} : unsent'[p] = unsent[p]
  BY <1>1, <1>2 DEF SpeechInv, RoomsInv, ChatTypeOK
<1> HIDE DEF d, x
<1>4. \A p \in People : \A t : Wrote(p, t)' => Wrote(p, t)
  BY <1>1, <1>2 DEF Wrote
<1>5. Authored'
  BY <1>1, <1>2, <1>4, AuthorsStay, TextFacts DEF SpeechInv, RoomsInv, Authored
<1>6. Careful'
  <2> SUFFICES ASSUME NEW p \in People, p \notin hasty
               PROVE  /\ \A a, b \in sends' : a.by = p /\ b.by = p => a = b
                      /\ \A a \in sends' : a.by = p =>
                            a.text = seat[p].draft.text /\ (a.stage = "done" => a.text \notin unsent'[p])
                      /\ unsent'[p] \subseteq {seat[p].draft.text}
                      /\ \A y \in messages' : y.by = p /\ y.text = seat[p].draft.text =>
                            y.text \in uncertain \/ \E a \in sends' : a.by = p /\ a.stage = "done"
                      /\ \A y, z \in messages' :
                            y.by = p /\ z.by = p /\ y # z /\ y.text = z.text => y.text \in uncertain
    BY <1>1 DEF Careful
  <2>1. CASE p = s.by
    <3>1. \A a \in sends : a.by = p => a = s
      BY <2>1 DEF SpeechInv, Careful
    <3>2. s.text = seat[p].draft.text
      BY <2>1 DEF SpeechInv, Careful
    <3>3. \A y \in messages : y.by = p /\ y.text = s.text => y.text \in uncertain
      BY <1>1, <3>1, <3>2 DEF SpeechInv, Careful
    <3>4. /\ \A a, b \in sends' : a.by = p /\ b.by = p => a = b
          /\ \A a \in sends' : a.by = p =>
                a.text = seat[p].draft.text /\ (a.stage = "done" => a.text \notin unsent'[p])
          /\ \E a \in sends' : a.by = p /\ a.stage = "done"
      BY <1>1, <1>2, <1>3, <2>1, <3>1, <3>2
    <3>5. unsent'[p] \subseteq {seat[p].draft.text}
      BY <1>3, <2>1 DEF SpeechInv, Careful
    <3>6. \A y, z \in messages' :
             y.by = p /\ z.by = p /\ y # z /\ y.text = z.text => y.text \in uncertain
      BY <1>1, <1>2, <3>3 DEF SpeechInv, Careful
    <3> QED  BY <3>4, <3>5, <3>6
  <2>2. CASE p # s.by
    BY <1>1, <1>2, <1>3, <2>2 DEF SpeechInv, Careful
  <2> QED  BY <2>1, <2>2
<1> QED  BY <1>5, <1>6

\* The answer clears a composer whose text is stored; an error leaves it as it is.
LEMMA SpeechAtAnswer ==
    ASSUME SpeechInv, NEW s \in sends, MessageAnswered(s) \/ MessageFailed(s)
    PROVE  Authored' /\ Careful'
<1>1. sends' = sends \ {s} /\ UNCHANGED <<messages, unsent, hasty, presses>> /\ s.by \in People
  BY DEF MessageAnswered, MessageFailed, SpeechInv, RoomsInv, ChatTypeOK
<1>2. CASE MessageAnswered(s)
  <2>1. s.stage = "done" /\ uncertain' = uncertain /\ seat' = [seat EXCEPT ![s.by].draft = Empty]
    BY <1>2 DEF MessageAnswered
  <2>2. /\ seat'[s.by].draft = Empty /\ seat'[s.by].draft.text = 0
        /\ \A p \in People \ {s.by} : seat'[p] = seat[p]
    BY <1>1, <2>1 DEF SpeechInv, RoomsInv, ChatTypeOK, Empty
  <2>3. \A p \in People : \A t : Wrote(p, t)' => Wrote(p, t) \/ t = 0
    BY <1>1, <2>2 DEF Wrote
  <2>4. Authored'
    <3>1. presses \in Nat
      BY TextFacts DEF SpeechInv, RoomsInv
    <3>2. \A p \in People : \A t : Wrote(p, t)' => t <= presses'
      BY <1>1, <2>3, <3>1 DEF SpeechInv, Authored
    <3>3. \A m, p \in People : \A t : t # 0 /\ Wrote(m, t)' /\ Wrote(p, t)' => m = p
      BY <2>3 DEF SpeechInv, Authored
    <3> QED  BY <1>1, <2>2, <3>2, <3>3 DEF SpeechInv, Authored
  <2>5. Careful'
    <3> SUFFICES ASSUME NEW p \in People, p \notin hasty
                 PROVE  /\ \A a, b \in sends' : a.by = p /\ b.by = p => a = b
                        /\ \A a \in sends' : a.by = p =>
                              a.text = seat'[p].draft.text /\ (a.stage = "done" => a.text \notin unsent[p])
                        /\ unsent[p] \subseteq {seat'[p].draft.text}
                        /\ \A x \in messages : x.by = p /\ x.text = seat'[p].draft.text =>
                              x.text \in uncertain \/ \E a \in sends' : a.by = p /\ a.stage = "done"
      BY <1>1, <2>1 DEF SpeechInv, Careful
    <3>1. CASE p = s.by
      <4>1. \A a \in sends' : a.by # p
        BY <1>1, <3>1 DEF SpeechInv, Careful
      <4>2. unsent[p] = {}
        BY <2>1, <3>1 DEF SpeechInv, Careful
      <4>3. \A x \in messages : x.text # seat'[p].draft.text
        BY <2>2, <3>1 DEF SpeechInv, Authored
      <4> QED  BY <4>1, <4>2, <4>3
    <3>2. CASE p # s.by
      BY <1>1, <2>2, <3>2 DEF SpeechInv, Careful
    <3> QED  BY <3>1, <3>2
  <2> QED  BY <2>4, <2>5
<1>3. CASE MessageFailed(s)
  <2>1. seat' = seat /\ uncertain' = uncertain \cup {s.text}
    BY <1>3 DEF MessageFailed
  <2>2. \A p \in People : \A t : Wrote(p, t)' => Wrote(p, t)
    BY <1>1, <2>1 DEF Wrote
  <2>3. Authored'
    BY <1>1, <2>1, <2>2, AuthorsStay, TextFacts DEF SpeechInv, RoomsInv, Authored
  <2>4. Careful'
    BY <1>1, <2>1 DEF SpeechInv, Careful
  <2> QED  BY <2>3, <2>4
<1> QED  BY <1>2, <1>3

LEMMA SpeechStart == ChatInit => SpeechInv
<1> SUFFICES ASSUME ChatInit PROVE SpeechInv
  OBVIOUS
<1>1. /\ \A p \in People : seat[p].draft = Empty /\ seat[p].draft.text = 0 /\ unsent[p] = {}
      /\ messages = {} /\ sends = {} /\ presses = 0
  BY DEF ChatInit, Empty
<1>2. Authored /\ Careful
  BY <1>1 DEF Authored, Careful, Wrote
<1> QED  BY <1>2, RoomsStart DEF SpeechInv

LEMMA SpeechStep == SpeechInv /\ [ChatNext]_chatVars => SpeechInv'
<1> SUFFICES ASSUME SpeechInv, [ChatNext]_chatVars PROVE SpeechInv'
  OBVIOUS
<1>1. RoomsInv'
  BY RoomsStep DEF SpeechInv
<1>2. CASE ChatNext
  BY <1>1, <1>2, SpeechAtListing, SpeechAtPress, SpeechAtCompose, SpeechAtOpen, SpeechAtDerived,
     SpeechAtStore, SpeechAtAnswer DEF ChatNext, SpeechInv
<1>3. CASE UNCHANGED chatVars
  <2>1. UNCHANGED <<rooms, messages, asking, seat, sends, unsent, hasty, uncertain, presses>>
    BY <1>3 DEF chatVars
  <2>2. \A p \in People : \A t : Wrote(p, t)' <=> Wrote(p, t)
    BY <2>1 DEF Wrote
  <2> QED  BY <1>1, <2>1, <2>2 DEF SpeechInv, Authored, Careful
<1> QED  BY <1>2, <1>3

\* A member who waits for her message loses none, for any number of members, rooms and
\* messages (ChatPage.tsx:169-263).
THEOREM DraftsAreKept == ChatSpec => []DraftKept
<1>1. SpeechInv => DraftKept
  BY DEF SpeechInv, Careful, DraftKept
<1> QED  BY <1>1, SpeechStart, SpeechStep, PTL DEF ChatSpec

\* She says nothing twice unless a request seemed to fail (ChatPage.tsx:242-263,
\* chat_handlers.go:155-215).
THEOREM EverythingIsSaidOnce == ChatSpec => []SaidOnce
<1>1. SpeechInv => SaidOnce
  <2> SUFFICES ASSUME SpeechInv, NEW x \in messages, NEW y \in messages, x # y, x.text = y.text
               PROVE  x.by \in hasty \/ x.text \in uncertain
    BY DEF SaidOnce
  <2>1. x.by \in People /\ y.by \in People
    BY DEF SpeechInv, RoomsInv, ChatTypeOK
  <2>2. x.by = y.by
    BY <2>1 DEF SpeechInv, Authored, Wrote
  <2> QED  BY <2>1, <2>2 DEF SpeechInv, Careful
<1> QED  BY <1>1, SpeechStart, SpeechStep, PTL DEF ChatSpec

-----------------------------------------------------------------------------
(* The roles *)

OpenRequest(c) == request[c].stage # "no"

\* A request that is alone with its member sees and drops every role she holds.
AloneSeesAll ==
    \A c \in Requests : OpenRequest(c) =>
        /\ request[c].alone =>
              /\ \A d \in Requests : OpenRequest(d) /\ request[d].member = request[c].member => d = c
              /\ request[c].stage = "delete" => held[request[c].member] \subseteq request[c].seen
              /\ request[c].stage = "insert" => held[request[c].member] \subseteq request[c].drop
        /\ ~request[c].alone => request[c].member \in mixed

RolesInv == MembersTypeOK /\ AloneSeesAll /\ RolesAsAnswered

LEMMA RequestFacts ==
    ASSUME MembersTypeOK, NEW c \in Requests
    PROVE  /\ OpenRequest(c) => request[c] \in OpenRequests
           /\ ~OpenRequest(c) => request[c] = NoRequest
           /\ request[c].stage \in {"roles", "delete", "insert"} => OpenRequest(c)
BY DEF MembersTypeOK, OpenRequest, OpenRequests, NoRequest

\* A request that begins beside another one of its member is alone no longer, nor is that.
LEMMA RolesAtStart ==
    ASSUME RolesInv, NEW c \in Requests, NEW m \in MembershipIds, NEW want \in SUBSET RoleIds,
           request[c] = NoRequest, StartRoles(c, m, want), UNCHANGED <<roles, held, wanted>>,
           members' \in [MembershipIds -> [of : Accounts \cup {NoAccount}, live : BOOLEAN]]
    PROVE  RolesInv'
<1> DEFINE new == [NoRequest EXCEPT !.stage = "roles", !.member = m, !.want = want,
                                    !.alone = OpenOn(m) = {}]
<1>1. new \in OpenRequests
  <2>1. (OpenOn(m) = {}) \in BOOLEAN
    OBVIOUS
  <2>2. \A b \in BOOLEAN : [NoRequest EXCEPT !.stage = "roles", !.member = m, !.want = want, !.alone = b]
                               \in OpenRequests
    BY DEF NoRequest, OpenRequests
  <2> QED  BY <2>1, <2>2, Zenon
<1>2. new.stage = "roles" /\ new.member = m /\ (new.alone <=> OpenOn(m) = {})
  BY DEF NoRequest
<1>3. request' = [d \in Requests |->
          IF d = c THEN new ELSE IF d \in OpenOn(m) THEN [request[d] EXCEPT !.alone = FALSE] ELSE request[d]]
  BY DEF StartRoles
<1> HIDE DEF new
<1>4. ASSUME NEW d \in OpenOn(m)
      PROVE  /\ [request[d] EXCEPT !.alone = FALSE] \in OpenRequests
             /\ [request[d] EXCEPT !.alone = FALSE].stage = request[d].stage
             /\ [request[d] EXCEPT !.alone = FALSE].member = request[d].member
             /\ [request[d] EXCEPT !.alone = FALSE].alone = FALSE
  <2>1. request[d] \in OpenRequests
    BY RequestFacts DEF OpenOn, OpenRequest, RolesInv
  <2> QED  BY <2>1 DEF OpenRequests
<1>5. request' \in [Requests -> {NoRequest} \cup OpenRequests]
  BY <1>1, <1>3, <1>4 DEF RolesInv, MembersTypeOK
<1>6. request'[c] = new /\ \A d \in Requests \ {c} :
         /\ d \in OpenOn(m) => /\ ~request'[d].alone /\ request'[d].stage = request[d].stage
                               /\ request'[d].member = m
         /\ d \notin OpenOn(m) => request'[d] = request[d]
  BY <1>3, <1>4 DEF OpenOn
<1>7. /\ mixed' = IF OpenOn(m) = {} THEN mixed ELSE mixed \cup {m}
      /\ \A d \in Requests : d \in OpenOn(m) <=> OpenRequest(d) /\ request[d].member = m
  BY DEF StartRoles, OpenOn, OpenRequest
<1>8. ~OpenRequest(c)
  BY DEF OpenRequest, NoRequest
<1>9. AloneSeesAll'
  <2> SUFFICES ASSUME NEW d \in Requests, OpenRequest(d)'
               PROVE  /\ request'[d].alone =>
                            /\ \A e \in Requests : OpenRequest(e)' /\ request'[e].member = request'[d].member => e = d
                            /\ request'[d].stage = "delete" => held[request'[d].member] \subseteq request'[d].seen
                            /\ request'[d].stage = "insert" => held[request'[d].member] \subseteq request'[d].drop
                      /\ ~request'[d].alone => request'[d].member \in mixed'
    BY DEF AloneSeesAll
  <2>1. CASE d = c
    BY <1>2, <1>6, <1>7, <2>1 DEF OpenRequest
  <2>2. CASE d # c /\ d \in OpenOn(m)
    BY <1>6, <1>7, <2>2
  <2>3. CASE d # c /\ d \notin OpenOn(m)
    BY <1>2, <1>6, <1>7, <1>8, <2>3 DEF OpenRequest, RolesInv, AloneSeesAll
  <2> QED  BY <2>1, <2>2, <2>3
<1>10. RolesAsAnswered'
  BY <1>7 DEF RolesInv, RolesAsAnswered
<1>11. MembersTypeOK'
  BY <1>5, <1>7 DEF RolesInv, MembersTypeOK
<1> QED  BY <1>9, <1>10, <1>11 DEF RolesInv

LEMMA RolesAtEdits ==
    ASSUME RolesInv,
           \/ \E c \in Requests, m \in MembershipIds, want \in SUBSET RoleIds :
                 (\E a \in Accounts : CreateWorkspaceMember(c, a, m, want)) \/ UpdateSettingsUser(c, m, want)
           \/ \E m \in MembershipIds : DeleteSettingsUser(m)
    PROVE  RolesInv'
<1>1. ASSUME NEW c \in Requests, NEW m \in MembershipIds, NEW want \in SUBSET RoleIds, NEW a \in Accounts,
             CreateWorkspaceMember(c, a, m, want)
      PROVE  RolesInv'
  <2>1. /\ members' \in [MembershipIds -> [of : Accounts \cup {NoAccount}, live : BOOLEAN]]
        /\ UNCHANGED <<roles, held, wanted>> /\ request[c] = NoRequest
    BY <1>1 DEF CreateWorkspaceMember, RolesInv, MembersTypeOK
  <2>2. CASE want = {}
    BY <1>1, <2>1, <2>2 DEF CreateWorkspaceMember, RolesInv, MembersTypeOK, AloneSeesAll, RolesAsAnswered,
                            OpenRequest
  <2>3. CASE want # {}
    BY <1>1, <2>1, <2>3, RolesAtStart DEF CreateWorkspaceMember
  <2> QED  BY <2>2, <2>3
<1>2. ASSUME NEW c \in Requests, NEW m \in MembershipIds, NEW want \in SUBSET RoleIds,
             UpdateSettingsUser(c, m, want)
      PROVE  RolesInv'
  BY <1>2, RolesAtStart DEF UpdateSettingsUser, RolesInv, MembersTypeOK
<1>3. ASSUME NEW m \in MembershipIds, DeleteSettingsUser(m) PROVE RolesInv'
  <2>1. members' \in [MembershipIds -> [of : Accounts \cup {NoAccount}, live : BOOLEAN]]
    BY <1>3 DEF DeleteSettingsUser, RolesInv, MembersTypeOK
  <2> QED
    BY <1>3, <2>1 DEF DeleteSettingsUser, RolesInv, MembersTypeOK, AloneSeesAll, RolesAsAnswered, OpenRequest
<1> QED  BY <1>1, <1>2, <1>3

\* A statement of the transaction reads or deletes all that is held, if the request is alone.
LEMMA RolesAtStatements ==
    ASSUME RolesInv, NEW c \in Requests, ReadRoles(c) \/ DeleteRoles(c) \/ \E r \in RoleIds : InsertRole(c, r)
    PROVE  RolesInv'
<1>1. request[c] \in OpenRequests /\ OpenRequest(c) /\ held[request[c].member] \in SUBSET RoleRows
  <2>1. request[c].stage \in {"roles", "delete", "insert"}
    BY DEF ReadRoles, DeleteRoles, InsertRole
  <2>2. request[c] \in OpenRequests /\ OpenRequest(c)
    BY <2>1, RequestFacts DEF RolesInv
  <2> QED  BY <2>2 DEF RolesInv, MembersTypeOK, OpenRequests
<1>2. UNCHANGED <<members, roles, held, wanted, mixed>>
  BY DEF ReadRoles, DeleteRoles, InsertRole
<1>3. PICK new \in OpenRequests :
        /\ request' = [request EXCEPT ![c] = new]
        /\ new.member = request[c].member /\ new.alone = request[c].alone
        /\ new.alone /\ new.stage = "delete" => held[new.member] \subseteq new.seen
        /\ new.alone /\ new.stage = "insert" => held[new.member] \subseteq new.drop
  <2>1. CASE ReadRoles(c)
    <3> DEFINE new == [request[c] EXCEPT !.stage = "delete", !.seen = held[request[c].member]]
    <3>1. request' = [request EXCEPT ![c] = new]
      BY <2>1 DEF ReadRoles
    <3>2. /\ new \in OpenRequests /\ new.member = request[c].member /\ new.alone = request[c].alone
          /\ new.stage = "delete" /\ new.seen = held[request[c].member]
      BY <1>1 DEF OpenRequests
    <3> QED  BY <3>1, <3>2
  <2>2. CASE DeleteRoles(c)
    <3> DEFINE new == [request[c] EXCEPT !.stage = "insert", !.drop = ToDelete(c)]
    <3>1. request' = [request EXCEPT ![c] = new] /\ request[c].stage = "delete"
      BY <2>2 DEF DeleteRoles
    <3>2. ToDelete(c) = request[c].seen \cap held[request[c].member]
      BY DEF ToDelete
    <3>3. /\ new \in OpenRequests /\ new.member = request[c].member /\ new.alone = request[c].alone
          /\ new.stage = "insert" /\ new.drop = ToDelete(c)
      BY <1>1, <3>2 DEF OpenRequests
    <3>4. request[c].alone => held[request[c].member] \subseteq ToDelete(c)
      BY <1>1, <3>1, <3>2 DEF RolesInv, AloneSeesAll
    <3> QED  BY <3>1, <3>3, <3>4
  <2>3. ASSUME NEW r \in RoleIds, InsertRole(c, r)
        PROVE  \E new \in OpenRequests :
                  /\ request' = [request EXCEPT ![c] = new]
                  /\ new.member = request[c].member /\ new.alone = request[c].alone
                  /\ new.alone /\ new.stage = "delete" => held[new.member] \subseteq new.seen
                  /\ new.alone /\ new.stage = "insert" => held[new.member] \subseteq new.drop
    <3>1. PICK x \in NewRows(request[c].member, r) :
             request' = [request EXCEPT ![c].add = request[c].add \cup {x}]
      BY <2>3 DEF InsertRole
    <3>2. x \in RoleRows /\ request[c].stage = "insert"
      BY <2>3, <3>1 DEF InsertRole, NewRows
    <3> DEFINE new == [request[c] EXCEPT !.add = request[c].add \cup {x}]
    <3>3. request' = [request EXCEPT ![c] = new]
      BY <3>1
    <3>4. /\ new \in OpenRequests /\ new.member = request[c].member /\ new.alone = request[c].alone
          /\ new.stage = "insert" /\ new.drop = request[c].drop
      BY <1>1, <3>2 DEF OpenRequests
    <3>5. request[c].alone => held[request[c].member] \subseteq request[c].drop
      BY <1>1, <3>2 DEF RolesInv, AloneSeesAll
    <3> QED  BY <3>3, <3>4, <3>5
  <2> QED  BY <2>1, <2>2, <2>3
<1>4. request'[c] = new /\ \A d \in Requests \ {c} : request'[d] = request[d]
  BY <1>3 DEF RolesInv, MembersTypeOK
<1>5. MembersTypeOK'
  BY <1>2, <1>3 DEF RolesInv, MembersTypeOK
<1>6. \A d \in Requests : (OpenRequest(d)' => OpenRequest(d)) /\ request'[d].member = request[d].member
  BY <1>1, <1>3, <1>4 DEF OpenRequest
<1>7. AloneSeesAll'
  BY <1>1, <1>2, <1>3, <1>4, <1>6 DEF RolesInv, AloneSeesAll, OpenRequest
<1> QED
  BY <1>2, <1>5, <1>7 DEF RolesInv, RolesAsAnswered

\* The request that is alone leaves what it asked for and nothing else.
LEMMA RolesAtEnd ==
    ASSUME RolesInv, NEW c \in Requests, CommitRoles(c) \/ FailRoles(c)
    PROVE  RolesInv'
<1>1. request[c] \in OpenRequests /\ OpenRequest(c)
  BY RequestFacts DEF CommitRoles, FailRoles, RolesInv, OpenRequest
<1>2. /\ request' = [request EXCEPT ![c] = NoRequest] /\ UNCHANGED <<members, roles>>
      /\ request'[c] = NoRequest /\ \A d \in Requests \ {c} : request'[d] = request[d]
  BY DEF CommitRoles, FailRoles, RolesInv, MembersTypeOK
<1>3. ~OpenRequest(c)' /\ \A d \in Requests : OpenRequest(d)' => OpenRequest(d) /\ d # c /\ request'[d] = request[d]
  BY <1>2 DEF OpenRequest, NoRequest
<1>4. CASE FailRoles(c)
  <2>1. UNCHANGED <<held, wanted, mixed>>
    BY <1>4 DEF FailRoles
  <2> QED
    BY <1>2, <1>3, <2>1 DEF RolesInv, MembersTypeOK, AloneSeesAll, RolesAsAnswered
<1>5. CASE CommitRoles(c)
  <2> DEFINE m == request[c].member
             after == (held[m] \ request[c].drop) \cup request[c].add
  <2>1. /\ held' = [held EXCEPT ![m] = after] /\ wanted' = [wanted EXCEPT ![m] = request[c].want]
        /\ mixed' = IF request[c].alone THEN mixed \ {m} ELSE mixed
        /\ RolesOf(request[c].add) = request[c].want /\ request[c].stage = "insert"
    BY <1>5 DEF CommitRoles
  <2>2. m \in MembershipIds /\ after \in SUBSET RoleRows /\ request[c].want \in SUBSET RoleIds
    BY <1>1 DEF OpenRequests, RolesInv, MembersTypeOK
  <2>3. request[c].alone => after = request[c].add
    BY <1>1, <2>1 DEF RolesInv, AloneSeesAll
  <2> HIDE DEF m, after
  <2>4. MembersTypeOK'
    BY <1>2, <2>1, <2>2 DEF RolesInv, MembersTypeOK
  <2>5. /\ held'[m] = after /\ wanted'[m] = request[c].want
        /\ \A n \in MembershipIds \ {m} : held'[n] = held[n] /\ wanted'[n] = wanted[n]
    BY <2>1, <2>2 DEF RolesInv, MembersTypeOK
  <2>6. ASSUME NEW d \in Requests, OpenRequest(d)' , request[d].alone
        PROVE  request[d].member # m
    BY <1>1, <1>3, <2>6 DEF RolesInv, AloneSeesAll, m
  <2>7. ASSUME NEW d \in Requests, OpenRequest(d)', ~request[d].alone
        PROVE  request[d].member \in mixed'
    BY <1>1, <1>3, <2>1, <2>7 DEF RolesInv, AloneSeesAll, m
  <2>8. \A d \in Requests : OpenRequest(d)' => request[d].member \in MembershipIds
    BY <1>3, RequestFacts DEF RolesInv, OpenRequests
  <2>9. AloneSeesAll'
    BY <1>3, <2>5, <2>6, <2>7, <2>8 DEF RolesInv, AloneSeesAll
  <2>10. RolesAsAnswered'
    <3> SUFFICES ASSUME NEW n \in MembershipIds, n \notin mixed' PROVE RolesOf(held'[n]) = wanted'[n]
      BY DEF RolesAsAnswered
    <3>1. CASE n = m /\ request[c].alone
      BY <2>1, <2>3, <2>5, <3>1
    <3>2. CASE n = m /\ ~request[c].alone
      BY <1>1, <2>1, <3>2 DEF RolesInv, AloneSeesAll, m
    <3>3. CASE n # m
      BY <2>1, <2>5, <3>3 DEF RolesInv, RolesAsAnswered
    <3> QED  BY <3>1, <3>2, <3>3
  <2> QED  BY <2>4, <2>9, <2>10 DEF RolesInv
<1> QED  BY <1>4, <1>5

LEMMA RolesAtRoleDelete ==
    ASSUME RolesInv, NEW r \in RoleIds, DeleteSettingsRole(r)
    PROVE  RolesInv'
<1>1. /\ roles' = roles \ {r} /\ UNCHANGED <<members, request, mixed>>
      /\ held' = [m \in MembershipIds |-> {x \in held[m] : x.role # r}]
      /\ wanted' = [m \in MembershipIds |-> wanted[m] \ {r}]
  BY DEF DeleteSettingsRole
<1>2. \A m \in MembershipIds : held'[m] \subseteq held[m] /\ RolesOf(held'[m]) = RolesOf(held[m]) \ {r}
  BY <1>1 DEF RolesOf
<1>3. MembersTypeOK'
  BY <1>1 DEF RolesInv, MembersTypeOK
<1>4. RolesAsAnswered'
  BY <1>1, <1>2 DEF RolesInv, RolesAsAnswered
<1>5. AloneSeesAll'
  <2>1. \A d \in Requests : OpenRequest(d) => request[d].member \in MembershipIds
    BY RequestFacts DEF RolesInv, OpenRequests
  <2> QED  BY <1>1, <1>2, <2>1 DEF RolesInv, AloneSeesAll, OpenRequest
<1> QED  BY <1>3, <1>4, <1>5 DEF RolesInv

LEMMA RolesStart == MembersInit => RolesInv
<1> SUFFICES ASSUME MembersInit PROVE RolesInv
  OBVIOUS
<1>1. MembersTypeOK
  BY DEF MembersInit, MembersTypeOK
<1>2. AloneSeesAll
  BY DEF MembersInit, AloneSeesAll, OpenRequest, NoRequest
<1>3. RolesAsAnswered
  BY DEF MembersInit, RolesAsAnswered, RolesOf
<1> QED  BY <1>1, <1>2, <1>3 DEF RolesInv

LEMMA RolesStep == RolesInv /\ [MembersNext]_memberTableVars => RolesInv'
<1> SUFFICES ASSUME RolesInv, [MembersNext]_memberTableVars PROVE RolesInv'
  OBVIOUS
<1>1. CASE MembersNext
  BY <1>1, RolesAtEdits, RolesAtStatements, RolesAtEnd, RolesAtRoleDelete DEF MembersNext
<1>2. CASE UNCHANGED memberTableVars
  BY <1>2 DEF memberTableVars, RolesInv, MembersTypeOK, AloneSeesAll, RolesAsAnswered, OpenRequest
<1> QED  BY <1>1, <1>2

\* The memberships, the rows of their roles and the requests keep their types
\* (organisation_repo.go:398-436).
THEOREM MembersTypeCorrect == MembersSpec => []MembersTypeOK
<1>1. RolesInv => MembersTypeOK
  BY DEF RolesInv
<1> QED  BY <1>1, RolesStart, RolesStep, PTL DEF MembersSpec

\* A member holds what the last successful request asked for, for any number of members,
\* roles and managers, unless requests about her overlapped (organisation_repo.go:398-436).
THEOREM RolesAreAsAnswered == MembersSpec => []RolesAsAnswered
<1>1. RolesInv => RolesAsAnswered
  BY DEF RolesInv
<1> QED  BY <1>1, RolesStart, RolesStep, PTL DEF MembersSpec

-----------------------------------------------------------------------------
(* The extensions *)

\* The tables of the server are inverse to each other.
LEMMA TablesInverse ==
    ASSUME NEW features, NEW key \in ExtensionKeys
    PROVE  /\ key \in ExtensionsOf(features) <=> FeatureKey(key) \in features
           /\ FeatureKey(key) \in FeatureKeys
<1>1. key \in {"contracts_pro", "ticketing_pro", "hr_pro", "internal_chat",
               "legislation_monitor", "ai_assistant", "multi_site_teams"}
  BY DEF ExtensionKeys
<1> QED  BY <1>1 DEF ExtensionsOf, FeatureKey, FeatureKeys, ExtensionKeys

LEMMA ExtensionFacts ==
    \A features : ExtensionsOf(features) \in SUBSET ExtensionKeys /\ ExtensionsOf(features) # NoAnswer
BY DEF ExtensionsOf, ExtensionKeys, NoAnswer

\* What the page shows is stored unless a switch of it is stored and not answered; a map
\* on its way is, unless a switch crossed it.
ShownStored ==
    \A o \in Organisations :
        /\ o \notin restless \cup unheard /\ flags[o] # NoAnswer /\ ~(toggle.org = o /\ toggle.stage = "done")
              => flags[o] = ExtensionsOf(enabled[o])
        /\ reading[o] # NoReading /\ ~reading[o].crossed => reading[o].map = ExtensionsOf(enabled[o])

SwitchInv == ExtensionsTypeOK /\ ShownStored /\ SwitchTakesEffect

LEMMA SwitchAtChoices ==
    ASSUME SwitchInv, (\E o \in Organisations : Choose(o)) \/ FetchMenu \/ ReadFlags
    PROVE  SwitchInv'
<1>1. CASE (\E o \in Organisations : Choose(o)) \/ FetchMenu
  BY <1>1, ExtensionFacts
     DEF Choose, FetchMenu, memberVars, SwitchInv, ExtensionsTypeOK, ShownStored, SwitchTakesEffect
<1>2. CASE ReadFlags
  <2> DEFINE new == [map |-> ExtensionsOf(enabled[chosen]), crossed |-> FALSE]
  <2>1. /\ reading' = [reading EXCEPT ![chosen] = new]
        /\ UNCHANGED <<enabled, flags, chosen, toggle, restless, unheard, memberVars, toggles>>
    BY <1>2 DEF ReadFlags
  <2>2. new \in [map : SUBSET ExtensionKeys, crossed : BOOLEAN] /\ new.map = ExtensionsOf(enabled[chosen])
    BY ExtensionFacts
  <2> HIDE DEF new
  <2> QED
    BY <2>1, <2>2 DEF memberVars, SwitchInv, ExtensionsTypeOK, ShownStored, SwitchTakesEffect
<1> QED  BY <1>1, <1>2

\* A map that no switch crossed is what is stored.
LEMMA SwitchAtArrival ==
    ASSUME SwitchInv, NEW o \in Organisations, FlagsArrive(o)
    PROVE  SwitchInv'
<1>1. /\ reading[o] # NoReading
      /\ flags' = [flags EXCEPT ![o] = reading[o].map]
      /\ reading' = [reading EXCEPT ![o] = NoReading]
      /\ restless' = IF reading[o].crossed THEN restless \cup {o} ELSE restless \ {o}
      /\ unheard' = IF reading[o].crossed THEN unheard ELSE unheard \ {o}
      /\ UNCHANGED <<enabled, chosen, toggle, menu, manages, toggles>>
  BY DEF FlagsArrive, memberVars
<1>2. reading[o] \in [map : SUBSET ExtensionKeys, crossed : BOOLEAN]
  BY <1>1 DEF SwitchInv, ExtensionsTypeOK
<1>3. ExtensionsTypeOK'
  BY <1>1, <1>2 DEF SwitchInv, ExtensionsTypeOK
<1>4. ShownStored'
  <2>1. \A p \in Organisations \ {o} : flags'[p] = flags[p] /\ reading'[p] = reading[p]
    BY <1>1 DEF SwitchInv, ExtensionsTypeOK
  <2>2. flags'[o] = reading[o].map /\ reading'[o] = NoReading
    BY <1>1 DEF SwitchInv, ExtensionsTypeOK
  <2> QED  BY <1>1, <1>2, <2>1, <2>2 DEF SwitchInv, ShownStored
<1> QED  BY <1>1, <1>3, <1>4 DEF SwitchInv, SwitchTakesEffect

LEMMA SwitchAtSwitch ==
    ASSUME SwitchInv, NEW key \in Switchable, Switch(key)
    PROVE  SwitchInv'
<1> DEFINE new == [org |-> chosen, key |-> key, on |-> key \notin flags[chosen], stage |-> "sent"]
<1>1. /\ toggle' = new /\ toggle = NoToggle /\ toggles < MaxToggles /\ toggles' = toggles + 1
      /\ UNCHANGED <<enabled, flags, reading, chosen, restless, unheard, menu, manages>>
  BY DEF Switch, memberVars
<1>2. new \in [org : Organisations, key : Available, on : BOOLEAN, stage : {"sent", "done"}]
  <2>1. (key \notin flags[chosen]) \in BOOLEAN /\ key \in Available /\ chosen \in Organisations
    BY ExtensionsAssumption DEF SwitchInv, ExtensionsTypeOK
  <2> QED  BY <2>1, Zenon
<1>3. new.stage = "sent"
  OBVIOUS
<1> HIDE DEF new
<1>4. ExtensionsTypeOK'
  BY <1>1, <1>2, ExtensionsAssumption DEF SwitchInv, ExtensionsTypeOK
<1> QED
  BY <1>1, <1>3, <1>4 DEF SwitchInv, ShownStored, SwitchTakesEffect, NoToggle

\* The feature of the extension is stored, and a map on its way is marked.
LEMMA SwitchAtStore ==
    ASSUME SwitchInv, StoreSwitch
    PROVE  SwitchInv'
<1> DEFINE o == toggle.org
           feature == FeatureKey(toggle.key)
           after == IF toggle.on THEN enabled[o] \cup {feature} ELSE enabled[o] \ {feature}
           done == [toggle EXCEPT !.stage = "done"]
           read == IF reading[o] = NoReading THEN reading[o] ELSE [reading[o] EXCEPT !.crossed = TRUE]
<1>1. /\ enabled' = [enabled EXCEPT ![o] = after]
      /\ reading' = [reading EXCEPT ![o] = read]
      /\ toggle' = done /\ toggle.stage = "sent"
      /\ UNCHANGED <<flags, chosen, restless, unheard, menu, manages, toggles>>
  BY DEF StoreSwitch, memberVars
<1>2. toggle \in [org : Organisations, key : Available, on : BOOLEAN, stage : {"sent", "done"}]
  BY <1>1 DEF SwitchInv, ExtensionsTypeOK, NoToggle
<1>3. /\ done \in [org : Organisations, key : Available, on : BOOLEAN, stage : {"sent", "done"}]
      /\ done.org = o /\ done.key = toggle.key /\ done.on = toggle.on /\ done.stage = "done"
      /\ o \in Organisations /\ toggle.key \in ExtensionKeys /\ toggle.on \in BOOLEAN
  BY <1>2 DEF Available
<1>4. after \in SUBSET FeatureKeys /\ (toggle.key \in ExtensionsOf(after)) = toggle.on
  <2>1. feature \in FeatureKeys /\ (toggle.key \in ExtensionsOf(after) <=> feature \in after)
    BY <1>3, TablesInverse
  <2>2. enabled[o] \in SUBSET FeatureKeys
    BY <1>3 DEF SwitchInv, ExtensionsTypeOK
  <2>3. feature \in after <=> toggle.on
    BY <1>3
  <2>4. after \in SUBSET FeatureKeys
    BY <2>1, <2>2
  <2> QED  BY <1>3, <2>1, <2>3, <2>4
<1>5. /\ read \in {NoReading} \cup [map : SUBSET ExtensionKeys, crossed : BOOLEAN]
      /\ read = NoReading \/ read.crossed
  <2>1. reading[o] \in {NoReading} \cup [map : SUBSET ExtensionKeys, crossed : BOOLEAN]
    BY <1>3 DEF SwitchInv, ExtensionsTypeOK
  <2> QED  BY <2>1
<1> HIDE DEF o, after, done, read, feature
<1>6. ExtensionsTypeOK'
  BY <1>1, <1>3, <1>4, <1>5 DEF SwitchInv, ExtensionsTypeOK
<1>7. /\ enabled'[o] = after /\ reading'[o] = read
      /\ \A p \in Organisations \ {o} : enabled'[p] = enabled[p] /\ reading'[p] = reading[p]
  BY <1>1, <1>3 DEF SwitchInv, ExtensionsTypeOK
<1>8. ShownStored'
  <2> SUFFICES ASSUME NEW p \in Organisations
               PROVE  /\ p \notin restless \cup unheard /\ flags[p] # NoAnswer /\ ~(done.org = p /\ done.stage = "done")
                            => flags[p] = ExtensionsOf(enabled'[p])
                      /\ reading'[p] # NoReading /\ ~reading'[p].crossed => reading'[p].map = ExtensionsOf(enabled'[p])
    BY <1>1 DEF ShownStored
  <2>1. CASE p = o
    BY <1>3, <1>5, <1>7, <2>1
  <2>2. CASE p # o
    BY <1>1, <1>7, <2>2 DEF SwitchInv, ShownStored, o
  <2> QED  BY <2>1, <2>2
<1>9. SwitchTakesEffect'
  BY <1>1, <1>3, <1>4, <1>7 DEF SwitchTakesEffect
<1> QED  BY <1>6, <1>8, <1>9 DEF SwitchInv

\* An answer shows what is stored, or the page is restless about it.
LEMMA SwitchAtAnswer ==
    ASSUME SwitchInv, SwitchAnswered \/ SwitchFailed
    PROVE  SwitchInv'
<1>1. /\ toggle' = NoToggle /\ UNCHANGED <<enabled, reading, chosen, menu, manages, toggles>>
      /\ toggle # NoToggle
  BY DEF SwitchAnswered, SwitchFailed, memberVars, NoToggle
<1>2. toggle.org \in Organisations /\ chosen \in Organisations
  BY <1>1 DEF SwitchInv, ExtensionsTypeOK
<1>3. SwitchTakesEffect'
  BY <1>1 DEF SwitchTakesEffect, NoToggle
<1>4. CASE SwitchAnswered
  <2>1. /\ flags' = [flags EXCEPT ![chosen] = ExtensionsOf(enabled[toggle.org])] /\ unheard' = unheard
        /\ restless' = IF chosen = toggle.org THEN restless ELSE restless \cup {chosen, toggle.org}
    BY <1>4 DEF SwitchAnswered, AnswerMap
  <2>2. ExtensionsTypeOK'
    BY <1>1, <1>2, <2>1, ExtensionFacts DEF SwitchInv, ExtensionsTypeOK
  <2>3. /\ flags'[chosen] = ExtensionsOf(enabled[toggle.org])
        /\ \A p \in Organisations \ {chosen} : flags'[p] = flags[p]
    BY <1>2, <2>1 DEF SwitchInv, ExtensionsTypeOK
  <2>4. ShownStored'
    BY <1>1, <1>2, <2>1, <2>3 DEF SwitchInv, ShownStored
  <2> QED  BY <1>3, <2>2, <2>4 DEF SwitchInv
<1>5. CASE SwitchFailed
  <2>1. UNCHANGED <<flags, restless>> /\ unheard' = unheard \cup {toggle.org}
    BY <1>5 DEF SwitchFailed
  <2>2. ExtensionsTypeOK' /\ ShownStored'
    BY <1>1, <1>2, <2>1 DEF SwitchInv, ExtensionsTypeOK, ShownStored
  <2> QED  BY <1>3, <2>2 DEF SwitchInv
<1> QED  BY <1>4, <1>5

LEMMA SwitchStart == ASSUME ExtensionsInit PROVE SwitchInv
<1> USE DEF ExtensionsInit
<1>1. \A o \in Organisations : enabled[o] \subseteq FeatureKeys /\ flags[o] = NoAnswer /\ reading[o] = NoReading
  BY ExtensionsAssumption
<1>2. enabled \in [Organisations -> SUBSET FeatureKeys]
  <2>1. PICK features \in Bought : enabled = [o \in Organisations |-> IF o = Ours THEN features ELSE {}]
    OBVIOUS
  <2>2. features \subseteq FeatureKeys
    BY ExtensionsAssumption
  <2> QED  BY <2>1, <2>2
<1>3. ExtensionsTypeOK
  BY <1>2, ExtensionsAssumption DEF ExtensionsTypeOK, Organisations
<1> QED
  BY <1>1, <1>3 DEF SwitchInv, ShownStored, SwitchTakesEffect, NoToggle

LEMMA SwitchStep == ASSUME SwitchInv, [ExtensionsNext]_extensionVars PROVE SwitchInv'
<1>1. CASE \E o \in Organisations : Choose(o) \/ FlagsArrive(o)
  BY <1>1, SwitchAtChoices, SwitchAtArrival
<1>2. CASE \E key \in Switchable : Switch(key)
  BY <1>2, SwitchAtSwitch
<1>3. CASE ReadFlags \/ FetchMenu
  BY <1>3, SwitchAtChoices
<1>4. CASE StoreSwitch
  BY <1>4, SwitchAtStore
<1>5. CASE SwitchAnswered \/ SwitchFailed
  BY <1>5, SwitchAtAnswer
<1>6. CASE UNCHANGED extensionVars
  BY <1>6 DEF extensionVars, SwitchInv, ExtensionsTypeOK, ShownStored, SwitchTakesEffect
<1> QED  BY <1>1, <1>2, <1>3, <1>4, <1>5, <1>6 DEF ExtensionsNext

LEMMA SwitchesKept == ExtensionsSpec => []SwitchInv
BY SwitchStart, SwitchStep, PTL DEF ExtensionsSpec

\* The values of the variables of the extensions, and of the two requests of the
\* administrator's page, are as declared.
THEOREM ExtensionsTypeCorrect == ExtensionsSpec => []ExtensionsTypeOK
<1>1. SwitchInv => ExtensionsTypeOK
  BY DEF SwitchInv
<1> QED  BY <1>1, SwitchesKept, PTL

\* An administrator who neither moves the selection nor fetches during a switch, and
\* missed no answer, sees what is stored (ExtensionsPage.tsx, the query and the mutation).
THEOREM AdminsSeeWhatIsStored == ExtensionsSpec => []AdminSeesStored
<1>1. SwitchInv => AdminSeesStored
  BY DEF SwitchInv, ShownStored, AdminSeesStored, NoToggle
<1> QED  BY <1>1, SwitchesKept, PTL

\* A switch that is stored is shown as switched: the tables that turn an extension into a
\* feature and features into extensions are inverse (compatibility_handlers.go,
\* current_organisation_handlers.go).
THEOREM SwitchesTakeEffect == ExtensionsSpec => []SwitchTakesEffect
<1>1. SwitchInv => SwitchTakesEffect
  BY DEF SwitchInv
<1> QED  BY <1>1, SwitchesKept, PTL

-----------------------------------------------------------------------------
(* The tables of pages *)

ContractPages ==
    {"clients", "clients/:id", "contracts/templates", "contracts/templates/new",
     "contracts/templates/:id/edit", "contracts/invites", "contracts/submissions",
     "contracts/submissions/:id"}

LEMMA GateTable ==
    ASSUME NEW path
    PROVE  /\ path \in ContractPages => Gates(path) = {"contracts_pro"} /\ Needs(path) = {"contracts"}
           /\ path = "ticketing" => Gates(path) = {"ticketing_pro"} /\ Needs(path) = {"ticketing"}
           /\ path = "chat" => Gates(path) = {"internal_chat"} /\ Needs(path) = {"internal_chat"}
           /\ path = "hr" => Gates(path) = {"hr_pro"} /\ Needs(path) = {"hr"}
           /\ path = "planner-smart" => Gates(path) = {"ai_assistant"} /\ Needs(path) = {}
           /\ path = "legislation" => Gates(path) = {"legislation_monitor"} /\ Needs(path) = {}
           /\ path \notin ContractPages \cup {"ticketing", "chat", "hr", "planner-smart", "legislation"}
                => Gates(path) = {} /\ Needs(path) = {}
<1>1. CASE path \in ContractPages
  BY <1>1 DEF ContractPages, Gates, Needs
<1>2. CASE path \in {"ticketing", "chat", "hr", "planner-smart", "legislation"}
  BY <1>2 DEF ContractPages, Gates, Needs
<1>3. CASE path \notin ContractPages \cup {"ticketing", "chat", "hr", "planner-smart", "legislation"}
  BY <1>3 DEF ContractPages, Gates, Needs
<1> QED  BY <1>1, <1>2, <1>3 DEF ContractPages

\* The extension of an item is the one its page is gated by.
LEMMA ItemTable ==
    ASSUME NEW i \in navGroups
    PROVE  /\ i.ext = "base" => Gates(i.href) = {}
           /\ i.ext # "base" => Gates(i.href) = {i.ext}
           /\ ForSettings(i.href) => i.adminOnly
<1>1. CASE i \in {Link("dashboard", "base"), Link("calendar", "base"), Link("notebook", "base"),
                  Link("documents", "base"), Link("reports", "base"), Link("settings", "base")}
  BY <1>1, GateTable DEF Link, ForSettings, ContractPages
<1>2. CASE i \in {Link("clients", "contracts_pro"), Link("contracts/templates", "contracts_pro"),
                  Link("contracts/invites", "contracts_pro"), Link("contracts/submissions", "contracts_pro")}
  BY <1>2, GateTable DEF Link, ForSettings, ContractPages
<1>3. CASE i \in {Link("ticketing", "ticketing_pro"), Link("chat", "internal_chat"), Link("hr", "hr_pro"),
                  Link("planner-smart", "ai_assistant"), Link("legislation", "legislation_monitor")}
  BY <1>3, GateTable DEF Link, ForSettings, ContractPages
<1>4. CASE i \in {SettingsLink("settings/users-roles"), SettingsLink("settings/automations"),
                  SettingsLink("settings/activity-log")}
  BY <1>4, GateTable DEF SettingsLink, ForSettings, ContractPages
<1> QED  BY <1>1, <1>2, <1>3, <1>4 DEF navGroups

LEMMA OpenItemsShow ==
    ASSUME menu # NoAnswer, NEW i \in ListedItems, ~Locked(i)
    PROVE  Shows(i.href)
<1>1. i \in navGroups /\ (i.adminOnly => manages)
  BY DEF ListedItems
<1>2. i.ext = "base" \/ CanUse(i.ext)
  BY DEF Locked
<1> QED  BY <1>1, <1>2, ItemTable DEF Shows

\* What a gate asks of the browser's map is what the guards of its routes ask.
LEMMA GatedPagesServed ==
    ASSUME NEW features, NEW path, menu = ExtensionsOf(features), Gates(path) # {}, Shows(path)
    PROVE  Needs(path) \subseteq features
<1>1. \A key \in Gates(path) : key \in ExtensionsOf(features)
  BY DEF Shows, CanUse
<1>2. /\ "contracts_pro" \in ExtensionsOf(features) => "contracts" \in features
      /\ "ticketing_pro" \in ExtensionsOf(features) => "ticketing" \in features
      /\ "internal_chat" \in ExtensionsOf(features) => "internal_chat" \in features
      /\ "hr_pro" \in ExtensionsOf(features) => "hr" \in features
  BY DEF ExtensionsOf
<1> QED  BY <1>1, <1>2, GateTable DEF ContractPages

LEMMA ShortcutsLead ==
    ASSUME NEW path \in VisibleCommands \cup ShortcutPages, manages \in BOOLEAN
    PROVE  path \in Paths /\ (ForSettings(path) => manages)
<1> DEFINE open == {"dashboard", "planner-smart", "calendar", "clients", "ticketing", "chat",
                    "contracts/templates", "contracts/invites", "contracts/submissions", "notebook",
                    "documents", "hr", "legislation", "reports", "settings"}
           managed == {"settings/users-roles", "settings/automations", "settings/activity-log"}
<1>1. path \in open \/ (path \in managed /\ manages)
  <2>1. CASE path \in ShortcutPages
    <3>1. path \in open \/ path \in (IF manages THEN {"settings/activity-log"} ELSE {})
      BY <2>1 DEF ShortcutPages
    <3>2. manages \/ path \notin (IF manages THEN {"settings/activity-log"} ELSE {})
      BY Zenon
    <3>3. path \in (IF manages THEN {"settings/activity-log"} ELSE {}) => path = "settings/activity-log"
      OBVIOUS
    <3>4. path = "settings/activity-log" => path \in managed
      OBVIOUS
    <3> HIDE DEF open, managed
    <3> QED  BY <3>1, <3>2, <3>3, <3>4, Zenon
  <2>2. CASE path \in VisibleCommands
    <3>1. PICK c \in COMMANDS : path = c.href /\ (c.adminOnly => manages)
      BY <2>2 DEF VisibleCommands
    <3>2. \/ c.href \in open
          \/ (c.href = "settings/users-roles" /\ c.adminOnly)
      BY DEF COMMANDS, Link, SettingsLink
    <3>3. "settings/users-roles" \in managed
      OBVIOUS
    <3> HIDE DEF open, managed
    <3> QED  BY <3>1, <3>2, <3>3, Zenon
  <2> QED  BY <2>1, <2>2
<1>2. \A p \in open \cup managed : \E i \in navGroups : i.href = p
  BY DEF navGroups, Link, SettingsLink
<1>3. path \in open => ~ForSettings(path)
  BY DEF ForSettings
<1> QED  BY <1>1, <1>2, <1>3 DEF Paths

\* For any features and any map: no item that looks open leads to a locked page, no page
\* behind an open gate is refused, and every command leads somewhere (Sidebar.tsx, router.tsx,
\* CommandPalette.tsx, useGlobalShortcuts.ts and the guards of routes.go).
THEOREM OpenPagesAreServed == ExtensionsSpec => []OpenPagesServed
<1>1. SwitchInv => OpenPagesServed
  BY OpenItemsShow, GatedPagesServed, ShortcutsLead DEF SwitchInv, ExtensionsTypeOK, OpenPagesServed
<1> QED  BY <1>1, SwitchesKept, PTL
=============================================================================
