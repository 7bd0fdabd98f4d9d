----------------------------- MODULE MCWorkspace ------------------------------
(* An instance of Workspace for TLC: two ids serve as the ids of every table. *)
EXTENDS Workspace, TLC

CONSTANTS a, b

WorkspacePage == INSTANCE WorkspacePages
AdminPage == INSTANCE AdminPages

Ids == {a, b}
MCPages == WorkspacePage!WorkspaceProfiles \cup AdminPage!AdminProfiles
MCBought == {{}, FeatureKeys \ {"documents", "multi_site_teams"}}
Symmetry == Permutations(Ids)
=============================================================================
