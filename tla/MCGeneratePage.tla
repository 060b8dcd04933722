--------------------------- MODULE MCGeneratePage ---------------------------
(***************************************************************************)
(* Any number of runs over a GPU host and a provider, of which two are     *)
(* remembered at a time; the runs are interchangeable.                     *)
(***************************************************************************)
EXTENDS GeneratePage, TLC

MCSymmetry == Permutations(Runs)
=============================================================================
