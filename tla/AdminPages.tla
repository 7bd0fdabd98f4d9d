------------------------------ MODULE AdminPages ------------------------------
(***************************************************************************)
(* The profiles (see PageForms) of the platform administration.  Its       *)
(* drawers close in the hook of the mutation and fill their fields in an   *)
(* effect on the edited row.                                               *)
(***************************************************************************)
LOCAL INSTANCE TLC

Plain == [offers |-> {}, asks |-> FALSE, resends |-> FALSE, drafts |-> FALSE,
          loads |-> "once", closes |-> "answer", waits |-> {}]
Both == {"create", "edit"}

OrganisationsChange == [offers |-> {"create", "edit", "change", "remove"}]
OrganisationsCreate == [closes |-> "answer"]
OrganisationsRemove == [asks |-> TRUE]
OrganisationsEffect == [drafts |-> FALSE, loads |-> "once"]
OrganisationsForm == [waits |-> Both]
Organisations ==
    OrganisationsChange @@ OrganisationsCreate @@ OrganisationsRemove
                        @@ OrganisationsEffect @@ OrganisationsForm @@ Plain

AdminUsersSave == [closes |-> "answer"]
AdminUsersRemove == [asks |-> TRUE]
AdminUsersEffect == [drafts |-> FALSE, loads |-> "once"]
AdminUsersList == [offers |-> {"create", "edit", "remove"}]
AdminUsersForm == [waits |-> Both]
AdminUsers ==
    AdminUsersSave @@ AdminUsersRemove @@ AdminUsersEffect @@ AdminUsersList
                   @@ AdminUsersForm @@ Plain

PlansSave == [closes |-> "answer"]
PlansRemove == [asks |-> TRUE]
PlansEffect == [drafts |-> FALSE, loads |-> "once"]
PlansForm == [waits |-> Both]
PlanCard == [offers |-> {"create", "edit", "remove"}]
Plans == PlansSave @@ PlansRemove @@ PlansEffect @@ PlansForm @@ PlanCard @@ Plain

\* The broadcast is an input above the list, cleared by the answer.
BroadcastSend == [closes |-> "answer", drafts |-> TRUE]
BroadcastForm == [offers |-> {"create"}, waits |-> {"create"}]
Broadcast == BroadcastSend @@ BroadcastForm @@ Plain

\* A job's button waits for the trigger that was called last: another job frees it.
Jobs == [offers |-> {"copy"}] @@ Plain

AdminLoginSave == [closes |-> "leave"]
AdminLoginForm == [offers |-> {"create"}, waits |-> {"create"}]
AdminLogin == AdminLoginSave @@ AdminLoginForm @@ Plain

AdminProfiles == {AdminLogin, Organisations, AdminUsers, Plans, Broadcast, Jobs}
=============================================================================
