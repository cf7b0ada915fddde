--------------------------- MODULE MCDeviceCodes ---------------------------
(***************************************************************************)
(* Small instance of DeviceCodes for TLC: two devices that may draw the    *)
(* same user code, two clients and two users.  No symmetry, since the run  *)
(* checks a liveness property.                                             *)
(***************************************************************************)
EXTENDS DeviceCodes
=============================================================================
