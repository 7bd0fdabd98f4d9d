---------------------------- MODULE WorkspaceProofs ----------------------------
(***************************************************************************)
(* The screens side by side: a behaviour of the workspace is a behaviour   *)
(* of each of its screens, so what is proved of a screen by itself holds   *)
(* in the workspace.                                                       *)
(***************************************************************************)
EXTENDS Workspace, EditingProofs, OrganisationProofs, CalendarViewProofs

-----------------------------------------------------------------------------
(* The workspace implements its screens *)

LEMMA ScreensStart ==
    WorkspaceInit =>
        /\ screen \in Screens
        /\ FormsInit /\ NotesInit /\ ChatInit /\ CalendarInit /\ ExtensionsInit /\ MembersInit
<1>1. QED
    BY DEF WorkspaceInit

LEMMA ScreensStep ==
    [WorkspaceNext]_workspaceVars =>
        /\ UNCHANGED screen
        /\ [FormsNext]_formVars /\ [NotesNext]_noteVars /\ [ChatNext]_chatVars
        /\ [CalendarNext]_calendarVars /\ [ExtensionsNext]_extensionVars
        /\ [MembersNext]_memberTableVars
<1> SUFFICES ASSUME [WorkspaceNext]_workspaceVars
             PROVE  /\ UNCHANGED screen
                    /\ [FormsNext]_formVars /\ [NotesNext]_noteVars /\ [ChatNext]_chatVars
                    /\ [CalendarNext]_calendarVars /\ [ExtensionsNext]_extensionVars
                    /\ [MembersNext]_memberTableVars
    OBVIOUS
<1>1. CASE InForms
    BY <1>1 DEF InForms
<1>2. CASE InNotebook
    BY <1>2 DEF InNotebook
<1>3. CASE InChat
    BY <1>3 DEF InChat
<1>4. CASE InCalendar
    BY <1>4 DEF InCalendar
<1>5. CASE InExtensions
    BY <1>5 DEF InExtensions
<1>6. CASE InMembers
    BY <1>6 DEF InMembers
<1>7. CASE UNCHANGED workspaceVars
    BY <1>7 DEF workspaceVars
<1>8. QED
    BY <1>1, <1>2, <1>3, <1>4, <1>5, <1>6, <1>7 DEF WorkspaceNext

\* Every behaviour of the workspace is one of each screen: what a member does on one of them
\* the others see as a stutter.
THEOREM WorkspaceImplementsScreens ==
    WorkspaceSpec =>
        /\ FormsSpec /\ NotesSpec /\ ChatSpec /\ CalendarSpec /\ ExtensionsSpec /\ MembersSpec
        /\ [](screen \in Screens)
<1>1. screen \in Screens /\ UNCHANGED screen => (screen \in Screens)'
    OBVIOUS
<1>2. QED
    BY ScreensStart, ScreensStep, <1>1, PTL
    DEF WorkspaceSpec, FormsSpec, NotesSpec, ChatSpec, CalendarSpec, ExtensionsSpec, MembersSpec

-----------------------------------------------------------------------------
(* What follows for the workspace *)

\* Every screen and what it holds of the server keep their types in the workspace.
THEOREM WorkspaceTypeCorrect == WorkspaceSpec => []WorkspaceTypeOK
<1>1. CalendarInv => CalendarTypeOK
    BY DEF CalendarInv
<1>2. (/\ screen \in Screens /\ FormsTypeOK /\ NotesTypeOK /\ ChatTypeOK /\ CalendarTypeOK
       /\ ExtensionsTypeOK /\ MembersTypeOK) => WorkspaceTypeOK
    BY DEF WorkspaceTypeOK
<1>3. QED
    BY WorkspaceImplementsScreens, FormsTypeCorrect, NotesTypeCorrect, ChatTypeCorrect,
       CalendarType, ExtensionsTypeCorrect, MembersTypeCorrect, <1>1, <1>2, PTL

\* Editing in the workspace: one row for a form, each save in its row, nothing of a patient
\* user or a calm writer lost, no text in another note.
THEOREM WorkspaceKeepsEdits ==
    WorkspaceSpec =>
        [](/\ OneRowPerForm /\ SaveHitsItsRow /\ PatientUserLosesNothing
           /\ NoteTextsStay /\ CalmWriterIsSaved)
<1>1. QED
    BY WorkspaceImplementsScreens, OneRowForEveryForm, SavesHitTheirRows,
       PatientUsersLoseNothing, TextsStayInTheirNotes, CalmWritersAreSaved, PTL

\* What the members of the organisation share in the workspace: the room where they meet,
\* drafts and messages, their roles, the extensions and the pages behind them.
THEOREM WorkspaceKeepsOrganisation ==
    WorkspaceSpec =>
        [](/\ MembersMeet /\ DraftKept /\ SaidOnce /\ RolesAsAnswered
           /\ AdminSeesStored /\ SwitchTakesEffect /\ OpenPagesServed)
<1>1. QED
    BY WorkspaceImplementsScreens, EverybodyMeets, DraftsAreKept, EverythingIsSaidOnce,
       RolesAreAsAnswered, AdminsSeeWhatIsStored, SwitchesTakeEffect, OpenPagesAreServed, PTL

\* The columns keep the blocks of a day apart in the workspace too.
THEOREM WorkspaceKeepsBlocksApart == WorkspaceSpec => []BlocksOfADayApart
<1>1. QED
    BY WorkspaceImplementsScreens, CalendarKeepsBlocksApart, PTL
=============================================================================
