---------------------------- MODULE MCAuthSessions ----------------------------
(* Instances of AuthSessions for TLC. *)
EXTENDS AuthSessions, TLC

CONSTANTS alice, root, acme, bistro, r1, r2

\* "Acme" sorts before "Bistro".
MCNameOrder == [o \in Orgs |-> IF o = acme THEN 0 ELSE 1]

Symmetry == Permutations({r1, r2})

=============================================================================
