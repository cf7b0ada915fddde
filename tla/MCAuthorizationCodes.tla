------------------------ MODULE MCAuthorizationCodes ------------------------
(***************************************************************************)
(* Small instance of AuthorizationCodes for TLC.                           *)
(***************************************************************************)
EXTENDS AuthorizationCodes, TLC

Symmetry ==
    Permutations(Codes) \cup Permutations(Clients) \cup Permutations(Verifiers)
      \cup Permutations(Redirects) \cup Permutations(Users)
      \cup Permutations(Threads)
=============================================================================
