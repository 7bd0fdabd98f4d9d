------------------------------- MODULE Workspace ------------------------------
(***************************************************************************)
(* The screens of the application side by side.  They share the session    *)
(* (BrowserTabs) and nothing that is modelled here, so a behaviour works   *)
(* with one of them while the others rest.                                 *)
(***************************************************************************)
EXTENDS PageForms, Notebook, Chat, CalendarView, Extensions, Members

VARIABLE screen

workspaceVars ==
    <<screen, formVars, noteVars, chatVars, calendarVars, extensionVars, memberTableVars>>

Screens == {"forms", "notebook", "chat", "calendar", "extensions", "members"}

FormsRest == page = (CHOOSE p \in Pages : TRUE) /\ \A r \in Rows : ~rows[r].live
NotesRest == \A n \in Notes : ~notes[n].live
ExtensionsRest == enabled[Ours] = (CHOOSE features \in Bought : TRUE) /\ ~manages

WorkspaceInit ==
    /\ screen \in Screens
    /\ FormsInit /\ NotesInit /\ ChatInit /\ CalendarInit /\ ExtensionsInit /\ MembersInit
    /\ screen # "forms" => FormsRest
    /\ screen # "notebook" => NotesRest
    /\ screen # "extensions" => ExtensionsRest

InForms ==
    /\ screen = "forms" /\ FormsNext
    /\ UNCHANGED <<screen, noteVars, chatVars, calendarVars, extensionVars, memberTableVars>>

InNotebook ==
    /\ screen = "notebook" /\ NotesNext
    /\ UNCHANGED <<screen, formVars, chatVars, calendarVars, extensionVars, memberTableVars>>

InChat ==
    /\ screen = "chat" /\ ChatNext
    /\ UNCHANGED <<screen, formVars, noteVars, calendarVars, extensionVars, memberTableVars>>

InCalendar ==
    /\ screen = "calendar" /\ CalendarNext
    /\ UNCHANGED <<screen, formVars, noteVars, chatVars, extensionVars, memberTableVars>>

InExtensions ==
    /\ screen = "extensions" /\ ExtensionsNext
    /\ UNCHANGED <<screen, formVars, noteVars, chatVars, calendarVars, memberTableVars>>

InMembers ==
    /\ screen = "members" /\ MembersNext
    /\ UNCHANGED <<screen, formVars, noteVars, chatVars, calendarVars, extensionVars>>

WorkspaceNext ==
    InForms \/ InNotebook \/ InChat \/ InCalendar \/ InExtensions \/ InMembers

WorkspaceSpec == WorkspaceInit /\ [][WorkspaceNext]_workspaceVars

-----------------------------------------------------------------------------
\* Every screen and what it holds of the server keep their types.
WorkspaceTypeOK ==
    /\ screen \in Screens
    /\ FormsTypeOK /\ NotesTypeOK /\ ChatTypeOK /\ CalendarTypeOK
    /\ ExtensionsTypeOK /\ MembersTypeOK
=============================================================================
