---------------------------- MODULE WorkspacePages ----------------------------
(***************************************************************************)
(* The profiles (see PageForms) of the pages of a workspace.  The list of  *)
(* a page decides what its rows offer, its hooks and effects when a row is *)
(* loaded into the fields, its save handler when the form closes, its form *)
(* what disables the button, and its removal whether a modal asks first.   *)
(***************************************************************************)
LOCAL INSTANCE TLC

Plain == [offers |-> {}, asks |-> FALSE, resends |-> FALSE, drafts |-> FALSE,
          loads |-> "once", closes |-> "answer", waits |-> {}]
Both == {"create", "edit"}

-----------------------------------------------------------------------------
(* Users and roles: three tabs *)

CategoriesList == [offers |-> {"create", "edit", "remove"}]
CategoriesFields == [drafts |-> FALSE, loads |-> "once"]
CategoriesSave == [closes |-> "answer"]
CategoriesForm == [waits |-> Both]
CategoriesRemove == [asks |-> TRUE]
Categories ==
    CategoriesList @@ CategoriesFields @@ CategoriesSave @@ CategoriesForm
                   @@ CategoriesRemove @@ Plain

\* The drawer of a new member keeps its fields until a member was created.
NewUserFields == [offers |-> {"create"}, drafts |-> TRUE]
NewUserSave == [closes |-> "answer"]
NewUserForm == [waits |-> {"create"}]
NewUser == NewUserFields @@ NewUserSave @@ NewUserForm @@ Plain

\* Editing a member and changing its status use one mutation.
UsersList == [offers |-> {"edit", "change", "remove"}]
UsersFields == [drafts |-> FALSE, loads |-> "once"]
UsersSave == [closes |-> "answer"]
UsersForm == [waits |-> {"edit", "change"}]
UsersRemove == [asks |-> TRUE]
Users == UsersList @@ UsersFields @@ UsersSave @@ UsersForm @@ UsersRemove @@ Plain

RolesList == [offers |-> {"create", "edit", "remove"}]
RolesFields == [drafts |-> FALSE, loads |-> "once"]
RolesSave == [closes |-> "answer"]
RolesForm == [waits |-> Both]
RolesRemove == [asks |-> TRUE]
Roles == RolesList @@ RolesFields @@ RolesSave @@ RolesForm @@ RolesRemove @@ Plain

\* A box of the matrix sends the whole role as the page shows it; no box can be ticked
\* while that request is in flight.
MatrixSave == [resends |-> TRUE]
MatrixList == [offers |-> {"change"}, waits |-> {"switch"}]
Matrix == MatrixSave @@ MatrixList @@ Plain

-----------------------------------------------------------------------------
(* Forms that close and clear at the click, before the server has answered *)

\* Switching a rule on or off, and removing it, take one click.
AutomationList == [offers |-> {"create", "change", "remove"}, asks |-> FALSE]
AutomationFields == [drafts |-> TRUE]
AutomationSave == [closes |-> "click"]
AutomationForm == [waits |-> {}]
Automation ==
    AutomationList @@ AutomationFields @@ AutomationSave @@ AutomationForm @@ Plain

MessageTemplatesList == [offers |-> {"create", "remove"}, asks |-> FALSE]
MessageTemplatesFields == [drafts |-> TRUE]
MessageTemplatesSave == [closes |-> "click"]
MessageTemplatesForm == [waits |-> {}]
MessageTemplates ==
    MessageTemplatesList @@ MessageTemplatesFields @@ MessageTemplatesSave
                         @@ MessageTemplatesForm @@ Plain

\* A folder is created from an input above the list; files are inserted as they are
\* picked, one request each.
DocumentsList == [offers |-> {"create", "copy", "remove"}, asks |-> FALSE]
FolderSave == [closes |-> "click"]
FolderForm == [drafts |-> TRUE]
DocumentsUpload == [waits |-> {}]
Documents == DocumentsList @@ FolderSave @@ FolderForm @@ DocumentsUpload @@ Plain

HoursList == [offers |-> {"create"}]
HoursSave == [closes |-> "click", waits |-> {"create"}]
Hours == HoursList @@ HoursSave @@ [drafts |-> TRUE] @@ Plain

\* No page decides on a leave.
LeavesList == [offers |-> {"create"}]
LeavesForm == [closes |-> "click", waits |-> {"create"}]
Leaves == LeavesList @@ LeavesForm @@ [drafts |-> TRUE] @@ Plain

ReviewsList == [offers |-> {"create"}]
ReviewsForm == [closes |-> "click", waits |-> {"create"}]
Reviews == ReviewsList @@ ReviewsForm @@ [drafts |-> TRUE] @@ Plain

\* One button per kind of certificate, without a form and never disabled.
Certificates == [offers |-> {"copy"}] @@ Plain

ClientsList == [offers |-> {"create"}]
ClientsForm == [drafts |-> TRUE, waits |-> {"create"}, closes |-> "click"]
Clients == ClientsList @@ ClientsForm @@ Plain

SubmissionsForm == [offers |-> {"create"}, drafts |-> TRUE, waits |-> {"create"}, closes |-> "click"]
Submissions == SubmissionsForm @@ Plain

\* A pack inserts a template in one click; its buttons and the form's share a mutation.
Packs == [waits |-> {"create", "copy"}]
TemplatesList == [offers |-> {"create", "copy"}]
QuickTemplateForm == [drafts |-> TRUE, closes |-> "click"]
Templates == Packs @@ TemplatesList @@ QuickTemplateForm @@ Plain

\* An event is removed in the drawer of its details, by one click; a form opened on
\* a date starts blank.
EventForm == [drafts |-> FALSE, waits |-> {"create"}]
EventSave == [closes |-> "click"]
EventDetails == [offers |-> {"create", "remove"}, asks |-> FALSE]
Events == EventForm @@ EventSave @@ EventDetails @@ Plain

-----------------------------------------------------------------------------
(* Forms that stay until the answer, and pages that are forms *)

\* An effect copies the template into the fields whenever a fetch brings a changed one;
\* the page that created a template goes on as its editor.
TemplateEditorFields == [loads |-> "live"]
TemplateEditorSave == [offers |-> {"create", "edit", "remove"}, closes |-> "never"]
TemplateEditorRemove == [asks |-> TRUE]
TemplateEditorForm == [waits |-> Both]
TemplateEditor ==
    TemplateEditorFields @@ TemplateEditorSave @@ TemplateEditorRemove
                         @@ TemplateEditorForm @@ Plain

\* A change of status sends the whole invite as the page shows it.
InviteFields == [drafts |-> TRUE]
InviteSave == [closes |-> "answer"]
UpdateInviteStatus == [resends |-> TRUE]
InvitesBoard == {"create"}
InviteDrawer == {"copy", "change"}
InviteForm == [waits |-> {"create"}]
Invites ==
    InviteFields @@ InviteSave @@ UpdateInviteStatus @@ InviteForm
                 @@ [offers |-> InvitesBoard \cup InviteDrawer] @@ Plain

ClientLoad == [loads |-> "once"]
ClientFields == [drafts |-> FALSE]
ClientSave == [closes |-> "answer"]
ClientRemove == [asks |-> TRUE]
ClientHeader == [offers |-> {"edit", "remove"}, waits |-> {"edit"}]
ClientDetail ==
    ClientLoad @@ ClientFields @@ ClientSave @@ ClientRemove @@ ClientHeader @@ Plain

NotesSave == [closes |-> "answer", drafts |-> TRUE]
NotesList == [offers |-> {"create"}]
NotesForm == [waits |-> {"create"}]
ClientNotes == NotesSave @@ NotesList @@ NotesForm @@ Plain

DossierUpload == [offers |-> {"copy", "remove"}]
DossierList == [asks |-> FALSE]
Dossier == DossierUpload @@ DossierList @@ Plain

\* The form of one's own profile follows the principal.
ProfileLoad == [loads |-> "live"]
ProfileSave == [closes |-> "never"]
ProfileForm == [offers |-> {"edit"}, waits |-> {"edit"}]
OwnProfile == ProfileLoad @@ ProfileSave @@ ProfileForm @@ Plain

\* Logging in inserts a session and leaves the page.
LoginSave == [closes |-> "leave"]
LoginForm == [offers |-> {"create"}, waits |-> {"create"}]
Login == LoginSave @@ LoginForm @@ Plain

\* The bell of the top bar marks what was read; marking everything is left out.
Notifications == [offers |-> {"change"}]
Bell == Notifications @@ Plain

WorkspaceProfiles ==
    {Categories, NewUser, Users, Roles, Matrix, Login, Bell, Automation, MessageTemplates, Documents, Hours,
     Leaves, Reviews, Certificates, Clients, Submissions, Templates, Events,
     TemplateEditor, Invites, ClientDetail, ClientNotes, Dossier, OwnProfile}
=============================================================================
