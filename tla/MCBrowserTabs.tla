----------------------------- MODULE MCBrowserTabs ----------------------------
(* Instances of BrowserTabs for TLC. *)
EXTENDS BrowserTabs

CONSTANTS alice, root, acme, bistro, r1, r2, p1, p2

MCNameOrder == [o \in Orgs |-> IF o = acme THEN 0 ELSE 1]

UserPages == [p \in Pages |-> "user"]
AdminToo == [p \in Pages |-> IF p = p1 THEN "user" ELSE "admin"]

\* A slot for each page, or both for the only one.
SlotPages == [r \in Requests |-> IF r = r2 /\ p2 \in Pages THEN p2 ELSE p1]
=============================================================================
