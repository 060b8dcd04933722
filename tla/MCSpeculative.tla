---------------------------- MODULE MCSpeculative ----------------------------
(***************************************************************************)
(* Two tokens, and a target whose choice depends on the length of the      *)
(* context, its first and its last token.                                  *)
(***************************************************************************)
EXTENDS Speculative

MCGreedy(ctx) ==
    IF ctx = <<>> THEN 0 ELSE (Len(ctx) \div 2 + ctx[1] + ctx[Len(ctx)]) % 2

\* A context, an extension of it, an unrelated one, and one that is too long.
MCRequests == {<<0>>, <<0, 1>>, <<1, 0, 1>>, <<0, 0, 1, 1, 0>>}
=============================================================================
