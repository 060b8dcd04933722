----------------------------- MODULE Speculative -----------------------------
(***************************************************************************)
(* Speculative decoding (speculative_generate in dsbx/core/speculative.py, *)
(* stream_spec in dsbx/web/streaming.py) with an embedded llama.cpp model  *)
(* as the target (verify_greedy in dsbx/backends/llamacpp_py.py).          *)
(*                                                                         *)
(* The draft may be any backend: its proposals are arbitrary.  The target  *)
(* may sit behind a dsbx server, which serves other requests between two   *)
(* rounds (Call).  Greedy(ctx) is the target's most likely token after     *)
(* ctx.                                                                    *)
(***************************************************************************)
EXTENDS LlamaContext

CONSTANTS
    MaxTokens,  \* max_tokens
    Gamma,      \* gamma
    MaxPrompt,  \* bound: tokens in a prompt
    Greedy(_)

ASSUME SpeculativeAssumption ==
    /\ MaxTokens \in Nat
    /\ Gamma \in Nat
    /\ MaxPrompt \in Nat
    /\ MaxPrompt + MaxTokens + Gamma <= MaxIds + 1
    /\ \A ctx \in BoundedSeq(Tokens, NCtx) : Greedy(ctx) \in Tokens

VARIABLES
    phase,
    tokens,     \* the prompt and what was emitted
    prompt,     \* the number of tokens of the prompt
    drafts,     \* this round's draft_ids
    totals,     \* the counters of the closing frame
    spoiled     \* a round was verified on a broken context

specVars == <<phase, tokens, prompt, drafts, totals, spoiled>>
vars == <<contextVars, specVars>>

Produced == Len(tokens) - prompt

Init ==
    /\ ContextInit
    /\ phase = "idle"
    /\ tokens = <<>>
    /\ prompt = 0
    /\ drafts = <<>>
    /\ totals = [proposed |-> 0, accepted |-> 0, emitted |-> 0, rounds |-> 0]
    /\ spoiled = FALSE

NextRound(n) == IF n < MaxTokens THEN "propose" ELSE "done"

-----------------------------------------------------------------------------
Start ==
    /\ phase = "idle"
    /\ tokens' \in BoundedSeq(Tokens, MaxPrompt) \ {<<>>}
    /\ prompt' = Len(tokens')
    /\ phase' = NextRound(0)
    /\ UNCHANGED <<contextVars, drafts, totals, spoiled>>

\* The draft's greedy continuation, cut short where it has no candidates.
Propose ==
    /\ phase = "propose"
    /\ drafts' \in BoundedSeq(Tokens, Gamma)
    /\ phase' = "verify"
    /\ UNCHANGED <<contextVars, tokens, prompt, totals, spoiled>>

-----------------------------------------------------------------------------
(***************************************************************************)
(* One forward pass of the target over the tokens and the drafts.          *)
(***************************************************************************)
\* The target's choice after the first n tokens, as the rows of the pass say.
Choice(n) == Greedy(rows'[n])

Agrees(i) == Choice(Len(tokens) + i - 1) = drafts[i]

\* A defect: all drafts that agree are counted, not the leading ones.
AcceptsAny(n) == n = Cardinality({i \in 1 .. Len(drafts) : Agrees(i)})

\* The target agrees with the first n drafts, and with no more.
Accepts(n) ==
    /\ \A i \in 1 .. n : Agrees(i)
    /\ n < Len(drafts) => ~Agrees(n + 1)

\* The accepted drafts and the target's own choice: a correction or a bonus.
Verified(n) == Append(SubSeq(drafts, 1, n), Choice(Len(tokens) + n))

\* A defect: the last round is not cut to the tokens that remain.
EmittedUncut(n) == Verified(n)

Emitted(n) ==
    IF n + 1 > MaxTokens - Produced
    THEN SubSeq(Verified(n), 1, MaxTokens - Produced)
    ELSE Verified(n)

Verify ==
    /\ phase = "verify"
    /\ HasRows(tokens \o drafts)
    /\ Forward(tokens \o drafts)
    /\ \E n \in 0 .. Len(drafts) :
          /\ Accepts(n)
          /\ tokens' = tokens \o Emitted(n)
          /\ totals' = [proposed |-> totals.proposed + Len(drafts),
                        accepted |-> totals.accepted + n,
                        emitted |-> totals.emitted + Len(Emitted(n)),
                        rounds |-> totals.rounds + 1]
    /\ phase' = NextRound(Len(tokens') - prompt)
    /\ spoiled' = (spoiled \/ broken')
    /\ UNCHANGED <<prompt, drafts>>

\* The closing frame carries the error and the totals so far.
VerifyFails ==
    /\ phase = "verify"
    /\ \/ ForwardFails(tokens \o drafts)
       \/ ~HasRows(tokens \o drafts) /\ Forward(tokens \o drafts)
    /\ phase' = "failed"
    /\ UNCHANGED <<tokens, prompt, drafts, totals, spoiled>>

ProposeFails ==
    /\ phase = "propose"
    /\ phase' = "failed"
    /\ UNCHANGED <<contextVars, tokens, prompt, drafts, totals, spoiled>>

\* The client is gone when a round is handed to it.
Leave ==
    /\ phase = "propose"
    /\ totals.rounds > 0
    /\ phase' = "left"
    /\ UNCHANGED <<contextVars, tokens, prompt, drafts, totals, spoiled>>

Other == Call /\ UNCHANGED specVars

Next ==
    \/ Start \/ Propose \/ ProposeFails \/ Verify \/ VerifyFails \/ Leave
    \/ Other

Spec == Init /\ [][Next]_vars

-----------------------------------------------------------------------------
(***************************************************************************)
(* Properties.                                                             *)
(***************************************************************************)
\* Each variable keeps its type.
TypeOK ==
    /\ ContextTypeOK
    /\ phase \in {"idle", "propose", "verify", "done", "failed", "left"}
    /\ tokens \in BoundedSeq(Tokens, MaxPrompt + MaxTokens)
    /\ prompt \in 0 .. Len(tokens)
    /\ drafts \in BoundedSeq(Tokens, Gamma)
    /\ totals \in [proposed : Nat, accepted : Nat, emitted : Nat, rounds : Nat]
    /\ spoiled \in BOOLEAN

\* What was emitted is what the target alone decodes greedily.
SameAsGreedy ==
    \A i \in prompt + 1 .. Len(tokens) : tokens[i] = Greedy(SubSeq(tokens, 1, i - 1))

\* Whatever the draft proposes and whatever the target is asked in between, the
\* output is the target's greedy one, unless a round ran on a broken context
\* (speculative.py 1-6).
OutputIsGreedy == spoiled \/ SameAsGreedy

\* The counters of the closing frame tell the same story: every round emits
\* what it accepted and one token of the target's, but for the cut at
\* max_tokens, so no round is idle.
TotalsAgree ==
    LET full == totals.accepted + totals.rounds
    IN  /\ totals.emitted = Produced
        /\ totals.emitted = IF full <= MaxTokens THEN full ELSE MaxTokens
        /\ totals.rounds <= totals.emitted
        /\ totals.accepted <= totals.proposed
        /\ phase = "done" => Produced = MaxTokens
=============================================================================
