--------------------------- MODULE MCConfigStore ---------------------------
(***************************************************************************)
(* Small instance of ConfigStore for TLC: two web threads and the MCP      *)
(* process.  The threads are interchangeable.                              *)
(***************************************************************************)
EXTENDS ConfigStore, TLC

\* A deployment: bucket, files, --profile, --readonly, and its bounds.
Deployed(s3, files, profile, readonly, n, overlap) ==
    [s3 |-> s3, files |-> files, profile |-> profile, readonly |-> readonly,
     ops |-> n, overlap |-> overlap]

MCDeployments ==
    {Deployed(FALSE, TRUE, FALSE, FALSE, 2, TRUE),
     Deployed(FALSE, FALSE, TRUE, TRUE, 2, TRUE),
     Deployed(TRUE, TRUE, FALSE, FALSE, 2, TRUE),
     Deployed(FALSE, TRUE, TRUE, FALSE, 3, FALSE),
     Deployed(FALSE, FALSE, FALSE, FALSE, 3, FALSE),
     Deployed(TRUE, FALSE, FALSE, FALSE, 3, FALSE)}

Interchangeable == Permutations(WebThreads)
=============================================================================
