---------------------------- MODULE MCModelSlot ----------------------------
(***************************************************************************)
(* The slot with its history, on the requests that the configurations      *)
(* name: a run of all of them at once, and one of two loads and an unload. *)
(***************************************************************************)
EXTENDS SlotHistory
=============================================================================
