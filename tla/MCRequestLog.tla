---------------------------- MODULE MCRequestLog ----------------------------
(***************************************************************************)
(* Four calls, a queue that three of them fill, and batches of two.        *)
(***************************************************************************)
EXTENDS RequestLog
=============================================================================
