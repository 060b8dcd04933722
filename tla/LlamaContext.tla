---------------------------- MODULE LlamaContext ----------------------------
(***************************************************************************)
(* The evaluated context of an embedded llama.cpp model                    *)
(* (LlamaCppPyBackend._logsoftmax_all, dsbx/backends/llamacpp_py.py): the  *)
(* backend keeps the ids of the last context it evaluated and evaluates    *)
(* only what a new context adds to it.                                     *)
(*                                                                         *)
(* The library below is external: it appends to its own context in batches *)
(* of NBatch tokens, holds NCtx of them at most, and can raise between two *)
(* batches; its score rows stay as they are until they are overwritten.  A *)
(* row is represented by the context it was computed from.                 *)
(***************************************************************************)
EXTENDS Integers, SequencesExt

CONSTANTS
    Tokens,     \* the vocabulary
    NCtx,       \* n_ctx
    NBatch,     \* the library's batch size
    MaxIds,     \* bound: tokens a request's context may have
    Requests    \* bound: the contexts other requests ask about

ASSUME ContextAssumption ==
    /\ NCtx \in Nat
    /\ NBatch \in Nat \ {0}
    /\ MaxIds \in Nat
    /\ Requests \subseteq BoundedSeq(Tokens, MaxIds) \ {<<>>}

VARIABLES
    cached,     \* self._cached_ids
    kv,         \* the library's own context, input_ids[:n_tokens]
    rows,       \* self._llama.scores
    broken      \* an evaluation failed and no reset has followed

contextVars == <<cached, kv, rows, broken>>

Contexts == BoundedSeq(Tokens, MaxIds)

ContextInit ==
    /\ cached = <<>>
    /\ kv = <<>>
    /\ rows = [i \in 1 .. NCtx |-> <<>>]
    /\ broken = FALSE

-----------------------------------------------------------------------------
(***************************************************************************)
(* One forward pass over the context ids.                                  *)
(***************************************************************************)
Extends(ids) == IsPrefix(cached, ids)

\* A defect: the library's context is never reset.
BaseKept(ids) == kv

\* What the library holds when eval is called: reset, unless ids extend cached.
Base(ids) == IF Extends(ids) THEN kv ELSE <<>>

NewTokens(ids) ==
    IF Extends(ids) THEN SubSeq(ids, Len(cached) + 1, Len(ids)) ELSE ids

\* The library has evaluated the first n of the new tokens.
Evaluated(ids, n) ==
    /\ kv' = Base(ids) \o SubSeq(NewTokens(ids), 1, n)
    /\ rows' = [i \in 1 .. NCtx |->
                   IF Len(Base(ids)) < i /\ i <= Len(kv') THEN SubSeq(kv', 1, i) ELSE rows[i]]

\* The pass succeeds.
Forward(ids) ==
    /\ Len(Base(ids)) + Len(NewTokens(ids)) <= NCtx
    /\ Evaluated(ids, Len(NewTokens(ids)))
    /\ cached' = ids
    /\ broken' = (broken /\ Extends(ids))

\* eval raises: the context is full, or the device fails.  The batches before
\* stay evaluated, and cached still names the context of the last success.
ForwardFails(ids) ==
    /\ \E n \in 0 .. Len(NewTokens(ids)) - 1 :
          /\ n % NBatch = 0
          /\ Len(Base(ids)) + n <= NCtx
          /\ Evaluated(ids, n)
    /\ broken' = TRUE
    /\ UNCHANGED cached

\* The rows a pass hands out exist: there is one for each of the ids.
HasRows(ids) == Len(ids) <= NCtx

\* next_distribution, score_prompt: they read the rows of the pass, or raise.
Call == \E ids \in Requests : Forward(ids) \/ ForwardFails(ids)

-----------------------------------------------------------------------------
\* Each variable keeps its type; the library's context never outgrows its rows.
ContextTypeOK ==
    /\ cached \in Contexts
    /\ kv \in BoundedSeq(Tokens, NCtx)
    /\ rows \in [1 .. NCtx -> BoundedSeq(Tokens, NCtx)]
    /\ broken \in BOOLEAN

\* As long as no pass has failed since the last reset, the ids the backend
\* remembers are the library's context, and each row it hands out was computed
\* from the prefix it stands for: reuse never changes an answer.
ReuseIsExact ==
    ~broken =>
        /\ cached = kv
        /\ \A i \in 1 .. Len(cached) : rows[i] = SubSeq(cached, 1, i)
=============================================================================
