--------------------------- MODULE MCModelControl ---------------------------
(***************************************************************************)
(* Two hosts, pieces of one of them, a user who acts once, and a request   *)
(* that fails.                                                             *)
(***************************************************************************)
EXTENDS ModelControl
=============================================================================
