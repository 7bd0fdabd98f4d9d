------------------------------ MODULE Extensions ------------------------------
(***************************************************************************)
(* The extensions of the organisations: the features the server guards its *)
(* routes with, the administrator's page that switches them, the map a     *)
(* member's browser holds, and the sidebar, the gates and the requests     *)
(* that depend on it.                                                      *)
(***************************************************************************)
EXTENDS Naturals, FiniteSets

CONSTANTS
    Ours,        \* the organisation of the member
    Others,      \* further organisations on the administrator's page
    Switchable,  \* the extensions the administrator switches
    Bought,      \* the features the organisation of the member may have at first
    MaxToggles   \* bound on what the administrator switches

VARIABLES
    enabled,   \* features of each organisation
    flags,     \* what the administrator's page shows of each organisation it opened
    reading,   \* maps on their way to that page, and whether a switch was stored meanwhile
    chosen,    \* the organisation selected on it
    toggle,    \* the switch in flight: its button is disabled meanwhile
    restless,  \* organisations shown by an answer that crossed a switch of theirs or came
               \* after the selection had moved, and not fetched again since
    unheard,   \* organisations with a switch whose answer got lost, not fetched since
    menu,      \* the extensions the member's browser holds, if it has an answer
    manages,   \* the member may manage the settings
    toggles

extensionVars ==
    <<enabled, flags, reading, chosen, toggle, restless, unheard, menu, manages, toggles>>

Organisations == Others \cup {Ours}
ExtensionKeys == {"contracts_pro", "ticketing_pro", "hr_pro", "internal_chat",
                  "legislation_monitor", "ai_assistant", "multi_site_teams"}
Available == ExtensionKeys \ {"multi_site_teams"}
NoAnswer == {"none"}
NoReading == [map |-> NoAnswer, crossed |-> FALSE]
NoToggle == [org |-> Ours, key |-> "none", on |-> FALSE, stage |-> "none"]

\* Mutant: the key of an extension is taken for the key of its feature.
SameKey(key) == key

FeatureKey(key) ==
    IF key = "contracts_pro" THEN "contracts"
    ELSE IF key = "ticketing_pro" THEN "ticketing"
    ELSE IF key = "hr_pro" THEN "hr"
    ELSE key

FeatureKeys == {"documents", "contracts", "ticketing", "internal_chat", "hr",
                "legislation_monitor", "ai_assistant", "multi_site_teams"}

ASSUME ExtensionsAssumption ==
    /\ Ours \notin Others /\ Switchable \subseteq Available
    /\ Bought \subseteq SUBSET FeatureKeys /\ MaxToggles \in Nat

\* What the server tells the browsers.  The dates a feature may start and expire at are left
\* out: no code sets them.
ExtensionsOf(features) ==
    {key \in ExtensionKeys :
        CASE key = "contracts_pro" -> "contracts" \in features
          [] key = "ticketing_pro" -> "ticketing" \in features
          [] key = "hr_pro" -> "hr" \in features
          [] OTHER -> key \in features}

ExtensionsTypeOK ==
    /\ enabled \in [Organisations -> SUBSET FeatureKeys]
    /\ flags \in [Organisations -> {NoAnswer} \cup SUBSET ExtensionKeys]
    /\ reading \in [Organisations -> {NoReading} \cup [map : SUBSET ExtensionKeys, crossed : BOOLEAN]]
    /\ chosen \in Organisations
    /\ \/ toggle = NoToggle
       \/ toggle \in [org : Organisations, key : Available, on : BOOLEAN, stage : {"sent", "done"}]
    /\ restless \subseteq Organisations /\ unheard \subseteq Organisations
    /\ menu = NoAnswer \/ menu \subseteq ExtensionKeys
    /\ manages \in BOOLEAN /\ toggles \in 0..MaxToggles

-----------------------------------------------------------------------------
(* The administrator *)

memberVars == <<menu, manages>>

Choose(o) ==
    /\ chosen # o
    /\ chosen' = o
    /\ UNCHANGED <<enabled, flags, reading, toggle, restless, unheard, memberVars, toggles>>

\* The map is fetched when an organisation is selected or the window gets the focus, at
\* most once at a time, and arrives in its own place.
ReadFlags ==
    /\ reading[chosen] = NoReading
    /\ reading' = [reading EXCEPT ![chosen] =
                      [map |-> ExtensionsOf(enabled[chosen]), crossed |-> FALSE]]
    /\ UNCHANGED <<enabled, flags, chosen, toggle, restless, unheard, memberVars, toggles>>

FlagsArrive(o) ==
    /\ reading[o] # NoReading
    /\ flags' = [flags EXCEPT ![o] = reading[o].map]
    /\ restless' = IF reading[o].crossed THEN restless \cup {o} ELSE restless \ {o}
    /\ unheard' = IF reading[o].crossed THEN unheard ELSE unheard \ {o}
    /\ reading' = [reading EXCEPT ![o] = NoReading]
    /\ UNCHANGED <<enabled, chosen, toggle, memberVars, toggles>>

Switch(key) ==
    /\ toggles < MaxToggles
    /\ toggle = NoToggle
    /\ flags[chosen] # NoAnswer
    /\ toggle' = [org |-> chosen, key |-> key, on |-> key \notin flags[chosen], stage |-> "sent"]
    /\ toggles' = toggles + 1
    /\ UNCHANGED <<enabled, flags, reading, chosen, restless, unheard, memberVars>>

StoreSwitch ==
    /\ toggle.stage = "sent"
    /\ enabled' = [enabled EXCEPT ![toggle.org] =
                      IF toggle.on THEN @ \cup {FeatureKey(toggle.key)}
                      ELSE @ \ {FeatureKey(toggle.key)}]
    /\ reading' = [reading EXCEPT ![toggle.org] =
                      IF @ = NoReading THEN @ ELSE [@ EXCEPT !.crossed = TRUE]]
    /\ toggle' = [toggle EXCEPT !.stage = "done"]
    /\ UNCHANGED <<flags, chosen, restless, unheard, memberVars, toggles>>

\* Mutant: the answer holds the extension that was switched and no other.
OnlySwitched == IF toggle.on THEN {toggle.key} ELSE {}

\* The answer is the map of the organisation that was switched.
AnswerMap == ExtensionsOf(enabled[toggle.org])

\* It is stored as that of the organisation selected by now.
SwitchAnswered ==
    /\ toggle.stage = "done"
    /\ flags' = [flags EXCEPT ![chosen] = AnswerMap]
    /\ restless' = IF chosen = toggle.org THEN restless ELSE restless \cup {chosen, toggle.org}
    /\ toggle' = NoToggle
    /\ UNCHANGED <<enabled, reading, chosen, unheard, memberVars, toggles>>

SwitchFailed ==
    /\ toggle # NoToggle
    /\ toggle' = NoToggle
    /\ unheard' = unheard \cup {toggle.org}
    /\ UNCHANGED <<enabled, flags, reading, chosen, restless, memberVars, toggles>>

-----------------------------------------------------------------------------
(* The member *)

\* Once resolved, and again when the answer is older than 30 s.
FetchMenu ==
    /\ menu' = ExtensionsOf(enabled[Ours])
    /\ UNCHANGED <<enabled, flags, reading, chosen, toggle, restless, unheard, manages, toggles>>

CanUse(key) == menu # NoAnswer /\ key \in menu

Link(href, ext) == [href |-> href, ext |-> ext, adminOnly |-> FALSE]
SettingsLink(href) == [href |-> href, ext |-> "base", adminOnly |-> TRUE]

navGroups ==
    {Link("dashboard", "base"), Link("planner-smart", "ai_assistant"), Link("calendar", "base"),
     Link("clients", "contracts_pro"), Link("ticketing", "ticketing_pro"),
     Link("chat", "internal_chat"), Link("contracts/templates", "contracts_pro"),
     Link("contracts/invites", "contracts_pro"), Link("contracts/submissions", "contracts_pro"),
     Link("notebook", "base"), Link("documents", "base"), Link("hr", "hr_pro"),
     Link("legislation", "legislation_monitor"), Link("reports", "base"), Link("settings", "base"),
     SettingsLink("settings/users-roles"), SettingsLink("settings/automations"),
     SettingsLink("settings/activity-log")}

\* Mutant: the items of the managers are listed for everybody.
EveryItem == navGroups

ListedItems == {i \in navGroups : i.adminOnly => manages}

\* The palette and the two-key shortcuts list paths without a look at the extensions.
COMMANDS ==
    {Link(href, "base") : href \in
        {"dashboard", "planner-smart", "calendar", "clients", "ticketing", "chat",
         "contracts/templates", "contracts/invites", "contracts/submissions", "notebook", "hr",
         "legislation", "settings"}} \cup {SettingsLink("settings/users-roles")}

VisibleCommands == {c.href : c \in {d \in COMMANDS : d.adminOnly => manages}}

ShortcutPages ==
    {"dashboard", "clients", "ticketing", "calendar", "reports", "notebook", "hr", "settings",
     "legislation", "documents"} \cup IF manages THEN {"settings/activity-log"} ELSE {}

\* An item is locked once the browser knows that the extension is off.
Locked(i) == i.ext # "base" /\ menu # NoAnswer /\ ~CanUse(i.ext)

\* The extension the route of a page is gated by.
Gates(path) ==
    CASE path \in {"clients", "clients/:id", "contracts/templates", "contracts/templates/new",
                   "contracts/templates/:id/edit", "contracts/invites", "contracts/submissions",
                   "contracts/submissions/:id"} -> {"contracts_pro"}
      [] path = "ticketing" -> {"ticketing_pro"}
      [] path = "chat" -> {"internal_chat"}
      [] path = "hr" -> {"hr_pro"}
      [] path = "planner-smart" -> {"ai_assistant"}
      [] path = "legislation" -> {"legislation_monitor"}
      [] OTHER -> {}

ForSettings(path) ==
    path \in {"settings/users-roles", "settings/users/:id", "settings/activity-log", "settings/automations"}

\* The features without which the server refuses what a gated page shows.  Documents, and
\* the document tab of a client, stand outside: no extension stands for their feature.
Needs(path) ==
    CASE path \in {"clients", "clients/:id", "contracts/templates", "contracts/templates/new",
                   "contracts/templates/:id/edit", "contracts/invites", "contracts/submissions",
                   "contracts/submissions/:id"} -> {"contracts"}
      [] path = "ticketing" -> {"ticketing"}
      [] path = "chat" -> {"internal_chat"}
      [] path = "hr" -> {"hr"}
      [] OTHER -> {}

Paths == {i.href : i \in navGroups} \cup {"clients/:id", "contracts/templates/new",
             "contracts/templates/:id/edit", "contracts/submissions/:id", "settings/users/:id"}

Shows(path) ==
    /\ \A key \in Gates(path) : CanUse(key)
    /\ ForSettings(path) => manages

-----------------------------------------------------------------------------

ExtensionsInit ==
    /\ \E features \in Bought :
          enabled = [o \in Organisations |-> IF o = Ours THEN features ELSE {}]
    /\ flags = [o \in Organisations |-> NoAnswer] /\ chosen = Ours
    /\ reading = [o \in Organisations |-> NoReading]
    /\ toggle = NoToggle /\ restless = {} /\ unheard = {}
    /\ menu = NoAnswer /\ manages \in BOOLEAN /\ toggles = 0

ExtensionsNext ==
    \/ \E o \in Organisations : Choose(o) \/ FlagsArrive(o)
    \/ \E key \in Switchable : Switch(key)
    \/ ReadFlags \/ StoreSwitch \/ SwitchAnswered \/ SwitchFailed
    \/ FetchMenu

ExtensionsSpec == ExtensionsInit /\ [][ExtensionsNext]_extensionVars

-----------------------------------------------------------------------------
\* While the browser's map is what the server holds, no item that looks open leads to the
\* card of a locked extension or back to the settings, a page behind an open gate is not
\* refused by the guards of the server's routes, and the palette and the shortcuts lead to
\* pages of the router that only an extension may lock: six tables of paths and keys agree.
OpenPagesServed ==
    /\ menu # NoAnswer => \A i \in ListedItems : ~Locked(i) => Shows(i.href)
    /\ menu = ExtensionsOf(enabled[Ours]) =>
          \A path \in Paths : Gates(path) # {} /\ Shows(path) => Needs(path) \subseteq enabled[Ours]
    /\ \A path \in VisibleCommands \cup ShortcutPages :
          path \in Paths /\ (ForSettings(path) => manages)

\* An administrator who neither moves the selection nor fetches during a switch, and
\* missed no answer, sees what is stored, also of the extensions she did not touch.
AdminSeesStored ==
    \A o \in Organisations \ (restless \cup unheard) :
        flags[o] # NoAnswer /\ (toggle = NoToggle \/ toggle.org # o)
            => flags[o] = ExtensionsOf(enabled[o])

\* A switch changes the feature its extension is shown by: two tables of the server are
\* inverse to each other.
SwitchTakesEffect ==
    toggle.stage = "done" => (toggle.key \in ExtensionsOf(enabled[toggle.org])) = toggle.on
=============================================================================
