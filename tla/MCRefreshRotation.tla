------------------------- MODULE MCRefreshRotation --------------------------
(***************************************************************************)
(* Small instances of RefreshRotation for TLC: one with racing requests    *)
(* and a restart, one with longer chains of narrowing refreshes by         *)
(* different clients.                                                      *)
(***************************************************************************)
EXTENDS RefreshRotation, TLC

CONSTANTS c1, u1

\* A code, password or device grant of client c1.
BoundGrants == {[client |-> c1, user |-> u1, scope |-> Scopes]}

\* The same, and the user-token API, which knows no client.
AllGrants ==
    {[client |-> c, user |-> u1, scope |-> Scopes] : c \in {c1, None}}

Symmetry == Permutations(Jti) \cup Permutations(Threads)
=============================================================================
