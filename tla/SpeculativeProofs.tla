-------------------------- MODULE SpeculativeProofs --------------------------
(***************************************************************************)
(* What holds of speculative decoding on a reused context for every        *)
(* vocabulary, target, draft, bound and sequence of other requests.        *)
(***************************************************************************)
EXTENDS Speculative, SequenceTheorems, TLAPS

-----------------------------------------------------------------------------
(***************************************************************************)
(* Sequences.                                                              *)
(***************************************************************************)
LEMMA BoundedSeqDef ==
    ASSUME NEW S, NEW n \in Nat, NEW s
    PROVE  s \in BoundedSeq(S, n) <=> s \in Seq(S) /\ Len(s) <= n
<1>1. ASSUME s \in BoundedSeq(S, n)
      PROVE  s \in Seq(S) /\ Len(s) <= n
  <2>1. PICK m \in 0 .. n : s \in [1 .. m -> S]
    BY <1>1 DEF BoundedSeq, SeqOf
  <2> QED BY <2>1
<1>2. ASSUME s \in Seq(S), Len(s) <= n
      PROVE  s \in BoundedSeq(S, n)
  <2>1. Len(s) \in 0 .. n /\ s \in [1 .. Len(s) -> S]
    BY <1>2
  <2> QED BY <2>1 DEF BoundedSeq, SeqOf
<1> QED BY <1>1, <1>2

\* A prefix of a sequence is a prefix of every concatenation that begins with it.
LEMMA PrefixOfConcat ==
    ASSUME NEW S, NEW s \in Seq(S), NEW t \in Seq(S), NEW i \in 0 .. Len(s)
    PROVE  SubSeq(s \o t, 1, i) = SubSeq(s, 1, i)
<1>1. CASE i = 0
  BY <1>1
<1>2. CASE i > 0
  BY <1>2, SubSeqOfConcat1
<1> QED BY <1>1, <1>2

LEMMA PrefixAndRest ==
    ASSUME NEW S, NEW s \in Seq(S), NEW t \in Seq(S), IsPrefix(s, t)
    PROVE  /\ s \o SubSeq(t, Len(s) + 1, Len(t)) = t
           /\ Len(s) <= Len(t)
           /\ \A i \in 0 .. Len(s) : SubSeq(s, 1, i) = SubSeq(t, 1, i)
<1>1. Len(s) <= Len(t) /\ SubSeq(t, 1, Len(s)) = s
  BY SubSeqFull DEF IsPrefix
<1>2. SubSeq(t, 1, Len(s)) \o SubSeq(t, Len(s) + 1, Len(t)) = SubSeq(t, 1, Len(t))
  <2>1. /\ 1 \in 1 .. Len(t) + 1
        /\ Len(s) \in 1 - 1 .. Len(t)
        /\ Len(t) \in Len(s) .. Len(t)
    BY <1>1
  <2> QED BY <2>1, ConcatAdjacentSubSeq, Zenon
<1>3. s \o SubSeq(t, Len(s) + 1, Len(t)) = t
  BY <1>1, <1>2, SubSeqFull
<1>4. SubSeq(t, Len(s) + 1, Len(t)) \in Seq(S)
  OBVIOUS
<1>5. ASSUME NEW i \in 0 .. Len(s)
      PROVE  SubSeq(s, 1, i) = SubSeq(t, 1, i)
  BY <1>3, <1>4, PrefixOfConcat
<1> QED BY <1>1, <1>3, <1>5

-----------------------------------------------------------------------------
(***************************************************************************)
(* The forward pass.                                                       *)
(***************************************************************************)
LEMMA ContextTypes ==
    ContextTypeOK =>
        /\ cached \in Seq(Tokens) /\ Len(cached) <= MaxIds
        /\ kv \in Seq(Tokens) /\ Len(kv) <= NCtx
        /\ rows \in [1 .. NCtx -> BoundedSeq(Tokens, NCtx)]
        /\ broken \in BOOLEAN
BY ContextAssumption, BoundedSeqDef DEF ContextTypeOK, Contexts

LEMMA BaseTypes ==
    ASSUME ContextTypeOK, NEW ids \in Seq(Tokens)
    PROVE  /\ Base(ids) \in Seq(Tokens) /\ Len(Base(ids)) <= NCtx
           /\ NewTokens(ids) \in Seq(Tokens)
<1> USE ContextTypes
<1>1. Base(ids) \in Seq(Tokens) /\ Len(Base(ids)) <= NCtx
  BY ContextAssumption DEF Base
<1>2. NewTokens(ids) \in Seq(Tokens)
  BY DEF NewTokens
<1> QED BY <1>1, <1>2

LEMMA EvaluatedTypes ==
    ASSUME ContextTypeOK, NEW ids \in Seq(Tokens),
           NEW n \in 0 .. Len(NewTokens(ids)), Len(Base(ids)) + n <= NCtx,
           Evaluated(ids, n)
    PROVE  /\ kv' \in Seq(Tokens) /\ Len(kv') = Len(Base(ids)) + n
           /\ rows' \in [1 .. NCtx -> BoundedSeq(Tokens, NCtx)]
<1>1. Base(ids) \in Seq(Tokens) /\ NewTokens(ids) \in Seq(Tokens)
  BY BaseTypes
<1>2. SubSeq(NewTokens(ids), 1, n) \in Seq(Tokens) /\ Len(SubSeq(NewTokens(ids), 1, n)) = n
  BY <1>1
<1>3. kv' \in Seq(Tokens) /\ Len(kv') = Len(Base(ids)) + n
  <2>1. kv' = Base(ids) \o SubSeq(NewTokens(ids), 1, n)
    BY DEF Evaluated
  <2> QED BY <1>1, <1>2, <2>1, ConcatProperties
<1>4. ASSUME NEW i \in 1 .. NCtx, i <= Len(kv')
      PROVE  SubSeq(kv', 1, i) \in BoundedSeq(Tokens, NCtx)
  <2>1. SubSeq(kv', 1, i) \in Seq(Tokens) /\ Len(SubSeq(kv', 1, i)) = i
    BY <1>3, <1>4
  <2>2. i <= NCtx /\ NCtx \in Nat
    BY ContextAssumption
  <2> QED BY <2>1, <2>2, BoundedSeqDef
<1>5. rows' \in [1 .. NCtx -> BoundedSeq(Tokens, NCtx)]
  BY <1>4, ContextTypes DEF Evaluated
<1> QED BY <1>3, <1>5

\* Unless it is broken afterwards, a pass leaves exactly its context evaluated.
LEMMA ForwardExact ==
    ASSUME ContextTypeOK, ReuseIsExact, NEW ids \in Seq(Tokens),
           Forward(ids), ~broken'
    PROVE  /\ kv' = ids /\ Len(ids) <= NCtx
           /\ \A i \in 1 .. Len(ids) : rows'[i] = SubSeq(ids, 1, i)
<1> DEFINE new == NewTokens(ids)
<1>1. /\ Base(ids) \in Seq(Tokens) /\ new \in Seq(Tokens)
      /\ cached \in Seq(Tokens)
  BY BaseTypes, ContextTypes
<1>2. kv' = Base(ids) \o new
  BY <1>1, SubSeqFull DEF Forward, Evaluated
<1>3. /\ kv' = ids
      /\ \A i \in 1 .. Len(Base(ids)) : rows[i] = SubSeq(ids, 1, i)
  <2>1. CASE Extends(ids)
    <3>1. ~broken
      BY <2>1, ContextTypes DEF Forward
    <3>2. Base(ids) = cached /\ new = SubSeq(ids, Len(cached) + 1, Len(ids))
      BY <2>1, <3>1 DEF ReuseIsExact, Base, NewTokens
    <3>3. /\ cached \o SubSeq(ids, Len(cached) + 1, Len(ids)) = ids
          /\ \A i \in 0 .. Len(cached) : SubSeq(cached, 1, i) = SubSeq(ids, 1, i)
      BY <2>1, <1>1, PrefixAndRest DEF Extends
    <3> QED BY <1>1, <1>2, <3>1, <3>2, <3>3 DEF ReuseIsExact
  <2>2. CASE ~Extends(ids)
    <3>1. Base(ids) = <<>> /\ new = ids
      BY <2>2 DEF Base, NewTokens
    <3> QED BY <1>2, <3>1, ConcatEmptySeq
  <2> QED BY <2>1, <2>2
<1>4. Len(ids) = Len(Base(ids)) + Len(new) /\ Len(ids) <= NCtx
  <2>1. Len(Base(ids)) + Len(new) <= NCtx
    BY DEF Forward
  <2> QED BY <1>1, <1>2, <1>3, <2>1, ConcatProperties
<1>5. ASSUME NEW i \in 1 .. Len(ids)
      PROVE  rows'[i] = SubSeq(ids, 1, i)
  <2>1. i \in 1 .. NCtx
    BY <1>4, ContextAssumption
  <2>2. rows'[i] = IF Len(Base(ids)) < i /\ i <= Len(kv') THEN SubSeq(kv', 1, i) ELSE rows[i]
    BY <2>1 DEF Forward, Evaluated
  <2> QED BY <1>1, <1>3, <1>4, <2>2
<1> QED BY <1>3, <1>4, <1>5

LEMMA ForwardKeeps ==
    ASSUME ContextTypeOK, ReuseIsExact, NEW ids \in Contexts, Forward(ids)
    PROVE  ContextTypeOK' /\ ReuseIsExact'
<1>1. ids \in Seq(Tokens)
  BY BoundedSeqDef, ContextAssumption DEF Contexts
<1>2. Len(NewTokens(ids)) \in 0 .. Len(NewTokens(ids))
  BY <1>1, BaseTypes
<1>3. /\ kv' \in Seq(Tokens) /\ Len(kv') <= NCtx
      /\ rows' \in [1 .. NCtx -> BoundedSeq(Tokens, NCtx)]
  BY <1>1, <1>2, EvaluatedTypes DEF Forward
<1>4. ContextTypeOK'
  <2>1. kv' \in BoundedSeq(Tokens, NCtx)
    BY <1>3, BoundedSeqDef, ContextAssumption
  <2>2. cached' \in Contexts /\ broken' \in BOOLEAN
    BY ContextTypes DEF Forward
  <2> QED BY <1>3, <2>1, <2>2 DEF ContextTypeOK, Contexts
<1>5. ReuseIsExact'
  BY <1>1, ForwardExact DEF ReuseIsExact, Forward
<1> QED BY <1>4, <1>5

LEMMA ForwardFailsKeeps ==
    ASSUME ContextTypeOK, ReuseIsExact, NEW ids \in Contexts, ForwardFails(ids)
    PROVE  ContextTypeOK' /\ ReuseIsExact'
<1>1. ids \in Seq(Tokens)
  BY BoundedSeqDef, ContextAssumption DEF Contexts
<1>2. PICK n \in 0 .. Len(NewTokens(ids)) - 1 :
          Len(Base(ids)) + n <= NCtx /\ Evaluated(ids, n)
  BY DEF ForwardFails
<1>3. n \in 0 .. Len(NewTokens(ids))
  BY <1>1, BaseTypes
<1>4. /\ kv' \in Seq(Tokens) /\ Len(kv') <= NCtx
      /\ rows' \in [1 .. NCtx -> BoundedSeq(Tokens, NCtx)]
  BY <1>1, <1>2, <1>3, EvaluatedTypes
<1>5. kv' \in BoundedSeq(Tokens, NCtx)
  BY <1>4, BoundedSeqDef, ContextAssumption
<1>6. cached' = cached /\ broken' = TRUE
  BY DEF ForwardFails
<1>7. ContextTypeOK'
  BY <1>4, <1>5, <1>6 DEF ContextTypeOK, Contexts
<1> QED BY <1>6, <1>7 DEF ReuseIsExact

LEMMA CallKeeps ==
    ASSUME ContextTypeOK, ReuseIsExact, Call
    PROVE  ContextTypeOK' /\ ReuseIsExact'
<1>1. PICK ids \in Requests : Forward(ids) \/ ForwardFails(ids)
  BY DEF Call
<1>2. ids \in Contexts
  BY ContextAssumption DEF Contexts
<1> QED BY <1>1, <1>2, ForwardKeeps, ForwardFailsKeeps

-----------------------------------------------------------------------------
(***************************************************************************)
(* A round of the target.                                                  *)
(***************************************************************************)
LEMMA SamePrefix ==
    ASSUME NEW S, NEW s \in Seq(S), NEW t \in Seq(S), NEW i \in Nat,
           i <= Len(s), i <= Len(t), \A k \in 1 .. i : s[k] = t[k]
    PROVE  SubSeq(s, 1, i) = SubSeq(t, 1, i)
<1>1. /\ SubSeq(s, 1, i) \in Seq(S) /\ Len(SubSeq(s, 1, i)) = i
      /\ SubSeq(t, 1, i) \in Seq(S) /\ Len(SubSeq(t, 1, i)) = i
  OBVIOUS
<1>2. \A k \in 1 .. i : SubSeq(s, 1, i)[k] = SubSeq(t, 1, i)[k]
  OBVIOUS
<1> QED BY <1>1, <1>2, SeqEqual

\* The bounds a round lives in: there is something to continue, and room for it.
RoundBounds ==
    /\ prompt <= MaxPrompt
    /\ Produced <= MaxTokens
    /\ phase = "idle" => Produced = 0
    /\ phase \in {"propose", "verify"} => prompt >= 1 /\ Produced < MaxTokens

LEMMA SpecTypes ==
    TypeOK =>
        /\ tokens \in Seq(Tokens) /\ Len(tokens) \in Nat
        /\ drafts \in Seq(Tokens) /\ Len(drafts) \in Nat /\ Len(drafts) <= Gamma
        /\ prompt \in Nat /\ prompt <= Len(tokens)
        /\ Produced \in Nat
        /\ totals \in [proposed : Nat, accepted : Nat, emitted : Nat, rounds : Nat]
        /\ spoiled \in BOOLEAN
<1> SUFFICES ASSUME TypeOK
             PROVE  /\ tokens \in Seq(Tokens) /\ Len(tokens) \in Nat
                    /\ drafts \in Seq(Tokens) /\ Len(drafts) \in Nat /\ Len(drafts) <= Gamma
                    /\ prompt \in Nat /\ prompt <= Len(tokens)
                    /\ Produced \in Nat
                    /\ totals \in [proposed : Nat, accepted : Nat, emitted : Nat, rounds : Nat]
                    /\ spoiled \in BOOLEAN
  OBVIOUS
<1>1. MaxPrompt + MaxTokens \in Nat /\ Gamma \in Nat
  BY SpeculativeAssumption
<1>2. tokens \in Seq(Tokens) /\ Len(tokens) \in Nat
  BY <1>1, BoundedSeqDef DEF TypeOK
<1>3. drafts \in Seq(Tokens) /\ Len(drafts) \in Nat /\ Len(drafts) <= Gamma
  BY <1>1, BoundedSeqDef DEF TypeOK
<1>4. prompt \in Nat /\ prompt <= Len(tokens)
  BY <1>2 DEF TypeOK
<1> QED BY <1>2, <1>3, <1>4 DEF TypeOK, Produced

\* The context a round asks about fits the bound on contexts.
LEMMA RoundContext ==
    ASSUME TypeOK, RoundBounds, phase \in {"propose", "verify"}
    PROVE  /\ tokens \o drafts \in Seq(Tokens)
           /\ tokens \o drafts \in Contexts
           /\ Len(tokens \o drafts) = Len(tokens) + Len(drafts)
           /\ Len(tokens) \in Nat \ {0}
<1>1. /\ tokens \o drafts \in Seq(Tokens)
      /\ Len(tokens \o drafts) = Len(tokens) + Len(drafts)
  BY SpecTypes, ConcatProperties
<1>2. Len(tokens) + Len(drafts) <= MaxIds
  BY SpecTypes, SpeculativeAssumption, ContextAssumption DEF RoundBounds, Produced
<1>3. tokens \o drafts \in Contexts
  BY <1>1, <1>2, ContextAssumption, BoundedSeqDef DEF Contexts
<1> QED BY <1>1, <1>3, SpecTypes DEF RoundBounds

LEMMA EmittedTypes ==
    ASSUME TypeOK, RoundBounds, phase = "verify", HasRows(tokens \o drafts),
           rows' \in [1 .. NCtx -> BoundedSeq(Tokens, NCtx)],
           NEW n \in 0 .. Len(drafts)
    PROVE  /\ Verified(n) \in Seq(Tokens) /\ Len(Verified(n)) = n + 1
           /\ Emitted(n) \in Seq(Tokens)
           /\ Len(Emitted(n)) = IF n + 1 <= MaxTokens - Produced
                                THEN n + 1 ELSE MaxTokens - Produced
           /\ \A j \in 1 .. Len(Emitted(n)) : Emitted(n)[j] = Verified(n)[j]
<1>1. Len(tokens) + n \in 1 .. NCtx
  BY RoundContext, SpecTypes, ContextAssumption DEF HasRows
<1>2. Choice(Len(tokens) + n) \in Tokens
  BY <1>1, SpeculativeAssumption DEF Choice
<1>3. SubSeq(drafts, 1, n) \in Seq(Tokens) /\ Len(SubSeq(drafts, 1, n)) = n
  BY SpecTypes
<1>4. Verified(n) \in Seq(Tokens) /\ Len(Verified(n)) = n + 1
  BY <1>2, <1>3, AppendProperties DEF Verified
<1>5. MaxTokens - Produced \in Nat \ {0}
  BY SpecTypes, SpeculativeAssumption DEF RoundBounds
<1>6. CASE n + 1 > MaxTokens - Produced
  <2>1. Emitted(n) = SubSeq(Verified(n), 1, MaxTokens - Produced)
    BY <1>6 DEF Emitted
  <2> QED BY <1>4, <1>5, <1>6, <2>1
<1>7. CASE ~(n + 1 > MaxTokens - Produced)
  <2>1. Emitted(n) = Verified(n)
    BY <1>7 DEF Emitted
  <2> QED BY <1>4, <1>5, <1>7, <2>1
<1> QED BY <1>4, <1>6, <1>7

\* On exact rows each emitted token is the target's choice after all before it.
LEMMA RoundIsGreedy ==
    ASSUME TypeOK, RoundBounds, phase = "verify", HasRows(tokens \o drafts),
           rows' \in [1 .. NCtx -> BoundedSeq(Tokens, NCtx)],
           \A i \in 1 .. Len(tokens \o drafts) : rows'[i] = SubSeq(tokens \o drafts, 1, i),
           NEW n \in 0 .. Len(drafts), Accepts(n),
           tokens' = tokens \o Emitted(n),
           NEW j \in 1 .. Len(Emitted(n))
    PROVE  tokens'[Len(tokens) + j] = Greedy(SubSeq(tokens', 1, Len(tokens) + j - 1))
<1> DEFINE ids == tokens \o drafts
           L == Len(tokens)
           e == Emitted(n)
<1>1. /\ ids \in Seq(Tokens) /\ Len(ids) = L + Len(drafts) /\ L \in Nat \ {0}
      /\ tokens \in Seq(Tokens) /\ drafts \in Seq(Tokens) /\ Len(drafts) \in Nat
  BY RoundContext, SpecTypes
<1>2. /\ e \in Seq(Tokens) /\ Len(e) \in Nat /\ Len(e) <= n + 1
      /\ \A k \in 1 .. Len(e) : e[k] = Verified(n)[k]
  <2>1. /\ e \in Seq(Tokens) /\ \A k \in 1 .. Len(e) : e[k] = Verified(n)[k]
        /\ Len(e) = IF n + 1 <= MaxTokens - Produced THEN n + 1 ELSE MaxTokens - Produced
    BY EmittedTypes, Zenon
  <2>2. MaxTokens - Produced \in Int /\ n + 1 \in Int
    BY SpecTypes, SpeculativeAssumption
  <2>3. Len(e) \in Nat
    BY <2>1
  <2> QED BY <2>1, <2>2, <2>3
<1>3. \A k \in 1 .. n : Verified(n)[k] = drafts[k]
  BY <1>1, AppendProperties DEF Verified
<1>4. Verified(n)[n + 1] = Choice(L + n)
  BY <1>1, AppendProperties DEF Verified
<1>5. Verified(n)[j] = Choice(L + j - 1)
  <2>1. CASE j <= n
    <3>1. Agrees(j)
      BY <2>1 DEF Accepts
    <3> QED BY <1>3, <2>1, <3>1 DEF Agrees
  <2>2. CASE j = n + 1
    BY <1>1, <1>4, <2>2
  <2> QED BY <1>2, <2>1, <2>2
<1>6. Choice(L + j - 1) = Greedy(SubSeq(ids, 1, L + j - 1))
  <2>1. L + j - 1 \in 1 .. Len(ids)
    BY <1>1, <1>2
  <2> QED BY <2>1 DEF Choice
<1>7. /\ tokens' \in Seq(Tokens) /\ Len(tokens') = L + Len(e)
      /\ \A k \in 1 .. L : tokens'[k] = tokens[k]
      /\ \A k \in L + 1 .. L + Len(e) : tokens'[k] = e[k - L]
  BY <1>1, <1>2, ConcatProperties
<1>8. SubSeq(tokens', 1, L + j - 1) = SubSeq(ids, 1, L + j - 1)
  <2>1. ASSUME NEW k \in 1 .. L + j - 1
        PROVE  tokens'[k] = ids[k]
    <3>1. CASE k <= L
      BY <1>1, <1>7, <3>1, ConcatProperties
    <3>2. CASE k > L
      <4>1. /\ k - L \in 1 .. n /\ k - L \in 1 .. Len(e) /\ k - L \in 1 .. Len(drafts)
            /\ k \in L + 1 .. L + Len(e) /\ k \in L + 1 .. L + Len(drafts)
        BY <1>1, <1>2, <3>2
      <4>2. ids[k] = drafts[k - L]
        BY <1>1, <4>1, ConcatProperties
      <4>3. tokens'[k] = drafts[k - L]
        BY <1>2, <1>3, <1>7, <4>1
      <4> QED BY <4>2, <4>3
    <3>3. k \in Int /\ L \in Int
      BY <1>1, <1>2
    <3>4. k <= L \/ k > L
      BY <3>3
    <3> QED BY <3>1, <3>2, <3>4
  <2>2. L + j - 1 \in Nat /\ L + j - 1 <= Len(tokens') /\ L + j - 1 <= Len(ids)
    BY <1>1, <1>2, <1>7
  <2> QED BY <1>1, <1>7, <2>1, <2>2, SamePrefix
<1>9. tokens'[L + j] = e[j]
  BY <1>1, <1>2, <1>7
<1> QED BY <1>2, <1>5, <1>6, <1>8, <1>9

-----------------------------------------------------------------------------
(***************************************************************************)
(* The inductive invariant.                                                *)
(***************************************************************************)
SInv == TypeOK /\ ReuseIsExact /\ OutputIsGreedy /\ TotalsAgree /\ RoundBounds

\* What a step that touches neither the text nor its counters has to keep.
LEMMA TextKept ==
    ASSUME SInv, ContextTypeOK', ReuseIsExact', UNCHANGED <<tokens, prompt, totals, spoiled>>,
           phase' \in {"propose", "verify", "failed", "left"},
           phase \in {"propose", "verify"}, drafts' \in BoundedSeq(Tokens, Gamma)
    PROVE  SInv'
<1>1. TypeOK'
  BY DEF SInv, TypeOK
<1>2. OutputIsGreedy'
  BY DEF SInv, OutputIsGreedy, SameAsGreedy
<1>3. TotalsAgree' /\ RoundBounds'
  BY DEF SInv, TotalsAgree, RoundBounds, Produced
<1> QED BY <1>1, <1>2, <1>3 DEF SInv

LEMMA SInvInit == Init => SInv
<1> SUFFICES ASSUME Init PROVE SInv
  OBVIOUS
<1> USE ContextAssumption, SpeculativeAssumption
<1>1. ASSUME NEW n \in Nat
      PROVE  <<>> \in BoundedSeq(Tokens, n)
  <2>1. <<>> \in Seq(Tokens) /\ Len(<<>>) <= n
    OBVIOUS
  <2> DEFINE none == <<>>
  <2>2. none \in Seq(Tokens) /\ Len(none) <= n
    BY <2>1
  <2> HIDE DEF none
  <2>3. none \in BoundedSeq(Tokens, n)
    BY <2>2, BoundedSeqDef
  <2> QED BY <2>3 DEF none
<1>2. ContextTypeOK
  BY <1>1 DEF Init, ContextInit, ContextTypeOK, Contexts
<1>3. <<>> \in BoundedSeq(Tokens, MaxPrompt + MaxTokens) /\ <<>> \in BoundedSeq(Tokens, Gamma)
  BY <1>1
<1>4. TypeOK
  <2>1. /\ tokens = <<>> /\ Len(tokens) = 0 /\ prompt = 0 /\ drafts = <<>>
        /\ phase = "idle" /\ spoiled = FALSE
        /\ totals \in [proposed : Nat, accepted : Nat, emitted : Nat, rounds : Nat]
    BY DEF Init
  <2>2. prompt \in 0 .. Len(tokens)
    BY <2>1
  <2> QED BY <1>2, <1>3, <2>1, <2>2 DEF TypeOK
<1>5. ReuseIsExact
  BY DEF Init, ContextInit, ReuseIsExact
<1>6. OutputIsGreedy /\ TotalsAgree /\ RoundBounds
  BY DEF Init, OutputIsGreedy, SameAsGreedy, TotalsAgree, RoundBounds, Produced
<1> QED BY <1>4, <1>5, <1>6 DEF SInv

LEMMA StartKeeps ==
    ASSUME SInv, Start
    PROVE  SInv'
<1> USE SpeculativeAssumption
<1>1. /\ tokens' \in Seq(Tokens) /\ Len(tokens') \in Nat \ {0} /\ Len(tokens') <= MaxPrompt
      /\ prompt' = Len(tokens') /\ Produced' = 0
  <2>1. tokens' \in BoundedSeq(Tokens, MaxPrompt) /\ tokens' # <<>>
    BY DEF Start
  <2>2. tokens' \in Seq(Tokens) /\ Len(tokens') <= MaxPrompt
    BY <2>1, BoundedSeqDef
  <2> QED BY <2>1, <2>2 DEF Start, Produced
<1>2. tokens' \in BoundedSeq(Tokens, MaxPrompt + MaxTokens)
  BY <1>1, BoundedSeqDef
<1>3. phase' = IF 0 < MaxTokens THEN "propose" ELSE "done"
  BY DEF Start, NextRound
<1>4. ContextTypeOK' /\ ReuseIsExact'
  BY DEF Start, contextVars, SInv, TypeOK, ContextTypeOK, ReuseIsExact
<1>5. TypeOK'
  BY <1>1, <1>2, <1>3, <1>4 DEF Start, SInv, TypeOK
<1>6. OutputIsGreedy'
  BY <1>1 DEF OutputIsGreedy, SameAsGreedy
<1>7. TotalsAgree' /\ RoundBounds'
  BY <1>1, <1>3 DEF Start, SInv, TotalsAgree, RoundBounds
<1> QED BY <1>4, <1>5, <1>6, <1>7 DEF SInv

\* What a round adds to the text and to the counters.
LEMMA VerifyCounts ==
    ASSUME SInv, Verify, rows' \in [1 .. NCtx -> BoundedSeq(Tokens, NCtx)]
    PROVE  /\ tokens' \in Seq(Tokens) /\ Len(tokens') \in Nat
           /\ Len(tokens') <= MaxPrompt + MaxTokens
           /\ Produced' <= MaxTokens /\ prompt' <= Len(tokens')
           /\ totals' \in [proposed : Nat, accepted : Nat, emitted : Nat, rounds : Nat]
           /\ TotalsAgree' /\ RoundBounds'
<1>1. PICK n \in 0 .. Len(drafts) :
          /\ tokens' = tokens \o Emitted(n)
          /\ totals' = [proposed |-> totals.proposed + Len(drafts),
                        accepted |-> totals.accepted + n,
                        emitted |-> totals.emitted + Len(Emitted(n)),
                        rounds |-> totals.rounds + 1]
  BY DEF Verify
<1> DEFINE e == Len(Emitted(n))
           full == totals.accepted + n + (totals.rounds + 1)
<1>2. /\ phase = "verify" /\ HasRows(tokens \o drafts) /\ prompt' = prompt
      /\ phase' = IF Len(tokens') - prompt < MaxTokens THEN "propose" ELSE "done"
  BY DEF Verify, NextRound
<1>3. TypeOK /\ RoundBounds /\ TotalsAgree
  BY DEF SInv
<1>4. /\ tokens \in Seq(Tokens) /\ Len(tokens) \in Nat /\ Len(drafts) \in Nat
      /\ prompt \in Nat /\ prompt <= Len(tokens) /\ prompt <= MaxPrompt /\ prompt >= 1
      /\ Produced \in Nat /\ Produced = Len(tokens) - prompt /\ Produced < MaxTokens
      /\ MaxTokens \in Nat /\ MaxPrompt \in Nat
  BY <1>2, <1>3, SpecTypes, SpeculativeAssumption DEF RoundBounds, Produced
<1>5. /\ totals.proposed \in Nat /\ totals.accepted \in Nat
      /\ totals.emitted \in Nat /\ totals.rounds \in Nat
  BY <1>3, SpecTypes
<1>6. /\ totals.emitted = Produced
      /\ totals.accepted + totals.rounds = Produced
      /\ totals.accepted <= totals.proposed
  BY <1>3, <1>4, <1>5 DEF TotalsAgree
<1>7. /\ Emitted(n) \in Seq(Tokens)
      /\ e = IF n + 1 <= MaxTokens - Produced THEN n + 1 ELSE MaxTokens - Produced
  BY <1>2, <1>3, EmittedTypes
<1> HIDE DEF e
<1>8. /\ e \in Nat /\ e >= 1 /\ e <= MaxTokens - Produced
      /\ Produced + e \in Nat /\ Produced + e <= MaxTokens
      /\ totals.proposed + Len(drafts) \in Nat /\ totals.accepted + n \in Nat
      /\ totals.rounds + 1 \in Nat
      /\ totals.rounds + 1 <= Produced + e
      /\ totals.accepted + n <= totals.proposed + Len(drafts)
      /\ Produced + e = IF full <= MaxTokens THEN full ELSE MaxTokens
  <2> DEFINE d == Len(drafts)
             p == totals.proposed
             a == totals.accepted
             r == totals.rounds
             q == Produced
  <2>1. /\ d \in Nat /\ n \in 0 .. d
        /\ p \in Nat /\ a \in Nat /\ r \in Nat
        /\ a + r = q /\ a <= p
        /\ q \in Nat /\ q < MaxTokens /\ MaxTokens \in Nat
        /\ e = IF n + 1 <= MaxTokens - q THEN n + 1 ELSE MaxTokens - q
    BY <1>4, <1>5, <1>6, <1>7
  <2> HIDE DEF d, p, a, r, q
  <2>2. /\ e \in Nat /\ e >= 1 /\ e <= MaxTokens - q /\ q + e \in Nat /\ q + e <= MaxTokens
        /\ p + d \in Nat /\ a + n \in Nat /\ r + 1 \in Nat
        /\ r + 1 <= q + e /\ a + n <= p + d
        /\ q + e = IF a + n + (r + 1) <= MaxTokens THEN a + n + (r + 1) ELSE MaxTokens
    BY <2>1
  <2> QED BY <2>2 DEF d, p, a, r, q
<1>9. /\ tokens' \in Seq(Tokens) /\ Len(tokens') \in Nat
      /\ Len(tokens') = Len(tokens) + e
  <2>1. tokens \o Emitted(n) \in Seq(Tokens)
        /\ Len(tokens \o Emitted(n)) = Len(tokens) + e
    BY <1>4, <1>7, ConcatProperties DEF e
  <2> QED BY <1>1, <1>4, <1>8, <2>1
<1>10. Produced' = Produced + e /\ Produced' = Len(tokens') - prompt
  BY <1>2, <1>4, <1>8, <1>9 DEF Produced
<1>11. Len(tokens') <= MaxPrompt + MaxTokens /\ prompt' <= Len(tokens')
  BY <1>2, <1>4, <1>8, <1>9
<1>12. /\ totals'.proposed = totals.proposed + Len(drafts)
       /\ totals'.accepted = totals.accepted + n
       /\ totals'.emitted = Produced + e
       /\ totals'.rounds = totals.rounds + 1
       /\ totals' \in [proposed : Nat, accepted : Nat, emitted : Nat, rounds : Nat]
  BY <1>1, <1>6, <1>8 DEF e
<1>13. phase' = "done" => Produced' = MaxTokens
  BY <1>2, <1>4, <1>8, <1>10
<1>14. TotalsAgree'
  BY <1>8, <1>10, <1>12, <1>13 DEF TotalsAgree
<1>15. RoundBounds'
  BY <1>2, <1>4, <1>8, <1>10 DEF RoundBounds
<1> QED BY <1>8, <1>9, <1>10, <1>11, <1>12, <1>14, <1>15

LEMMA VerifyIsGreedy ==
    ASSUME SInv, Verify, rows' \in [1 .. NCtx -> BoundedSeq(Tokens, NCtx)]
    PROVE  OutputIsGreedy'
<1> SUFFICES ASSUME ~spoiled', NEW i \in prompt' + 1 .. Len(tokens')
             PROVE  tokens'[i] = Greedy(SubSeq(tokens', 1, i - 1))
  BY DEF OutputIsGreedy, SameAsGreedy
<1> DEFINE ids == tokens \o drafts
           L == Len(tokens)
<1>1. /\ TypeOK /\ RoundBounds /\ phase = "verify" /\ HasRows(ids)
      /\ ContextTypeOK /\ ReuseIsExact
      /\ Forward(ids) /\ prompt' = prompt /\ ~spoiled /\ ~broken'
  BY DEF SInv, TypeOK, Verify
<1>2. /\ ids \in Seq(Tokens) /\ tokens \in Seq(Tokens) /\ L \in Nat \ {0}
      /\ prompt \in Nat /\ Len(drafts) \in Nat
  BY <1>1, RoundContext, SpecTypes
<1>3. \A k \in 1 .. Len(ids) : rows'[k] = SubSeq(ids, 1, k)
  BY <1>1, <1>2, ForwardExact
<1>4. PICK n \in 0 .. Len(drafts) : Accepts(n) /\ tokens' = tokens \o Emitted(n)
  BY DEF Verify
<1>5. Emitted(n) \in Seq(Tokens)
  BY <1>1, EmittedTypes
<1>6. /\ tokens' \in Seq(Tokens) /\ Len(tokens') = L + Len(Emitted(n))
      /\ Len(Emitted(n)) \in Nat
      /\ \A k \in 1 .. L : tokens'[k] = tokens[k]
  BY <1>2, <1>4, <1>5, ConcatProperties
<1>7. CASE i <= L
  <2>1. i \in prompt + 1 .. Len(tokens) /\ i \in 1 .. L
    BY <1>1, <1>2, <1>7
  <2>2. tokens[i] = Greedy(SubSeq(tokens, 1, i - 1))
    BY <1>1, <2>1 DEF SInv, OutputIsGreedy, SameAsGreedy
  <2>3. SubSeq(tokens', 1, i - 1) = SubSeq(tokens, 1, i - 1)
    <3>1. i - 1 \in 0 .. Len(tokens)
      BY <1>2, <2>1
    <3> QED BY <1>2, <1>4, <1>5, <3>1, PrefixOfConcat
  <2> QED BY <1>6, <2>1, <2>2, <2>3
<1>8. CASE i > L
  <2>1. i - L \in 1 .. Len(Emitted(n)) /\ L + (i - L) = i /\ L + (i - L) - 1 = i - 1
    BY <1>1, <1>2, <1>6, <1>8
  <2>2. tokens'[L + (i - L)] = Greedy(SubSeq(tokens', 1, L + (i - L) - 1))
    BY <1>1, <1>3, <1>4, <2>1, RoundIsGreedy
  <2> QED BY <2>1, <2>2
<1>9. i <= L \/ i > L
  BY <1>1, <1>2, <1>6
<1> QED BY <1>7, <1>8, <1>9

LEMMA VerifyKeeps ==
    ASSUME SInv, Verify
    PROVE  SInv'
<1>1. /\ ContextTypeOK /\ ReuseIsExact /\ Forward(tokens \o drafts)
      /\ tokens \o drafts \in Contexts
  BY RoundContext DEF SInv, TypeOK, Verify
<1>2. ContextTypeOK' /\ ReuseIsExact'
  BY <1>1, ForwardKeeps
<1>3. rows' \in [1 .. NCtx -> BoundedSeq(Tokens, NCtx)]
  BY <1>2 DEF ContextTypeOK
<1>4. OutputIsGreedy' /\ TotalsAgree' /\ RoundBounds'
  BY <1>3, VerifyIsGreedy, VerifyCounts
<1>5. tokens' \in BoundedSeq(Tokens, MaxPrompt + MaxTokens)
  BY <1>3, VerifyCounts, BoundedSeqDef, SpeculativeAssumption
<1>6. prompt' \in 0 .. Len(tokens')
  BY <1>3, VerifyCounts, SpecTypes DEF SInv, Verify
<1>7. totals' \in [proposed : Nat, accepted : Nat, emitted : Nat, rounds : Nat]
  BY <1>3, VerifyCounts
<1>8. /\ phase' \in {"propose", "done"} /\ drafts' \in BoundedSeq(Tokens, Gamma)
      /\ spoiled' \in BOOLEAN
  BY DEF Verify, NextRound, SInv, TypeOK
<1>9. TypeOK'
  BY <1>2, <1>5, <1>6, <1>7, <1>8 DEF TypeOK
<1> QED BY <1>2, <1>4, <1>9 DEF SInv

LEMMA SInvNext == SInv /\ [Next]_vars => SInv'
<1> SUFFICES ASSUME SInv, [Next]_vars
             PROVE  SInv'
  OBVIOUS
<1>1. ContextTypeOK /\ ReuseIsExact /\ drafts \in BoundedSeq(Tokens, Gamma)
  BY DEF SInv, TypeOK
<1>2. ASSUME UNCHANGED contextVars
      PROVE  ContextTypeOK' /\ ReuseIsExact'
  BY <1>1, <1>2 DEF contextVars, ContextTypeOK, ReuseIsExact
<1>3. CASE Start
  BY <1>3, StartKeeps
<1>4. CASE Propose
  BY <1>2, <1>4, TextKept DEF Propose
<1>5. CASE ProposeFails
  BY <1>1, <1>2, <1>5, TextKept DEF ProposeFails
<1>6. CASE Verify
  BY <1>6, VerifyKeeps
<1>7. CASE VerifyFails
  <2>1. tokens \o drafts \in Contexts
    BY <1>7, RoundContext DEF SInv, VerifyFails
  <2>2. ContextTypeOK' /\ ReuseIsExact'
    BY <1>1, <1>7, <2>1, ForwardKeeps, ForwardFailsKeeps DEF VerifyFails
  <2> QED BY <1>1, <1>7, <2>2, TextKept DEF VerifyFails
<1>8. CASE Leave
  BY <1>1, <1>2, <1>8, TextKept DEF Leave
<1>9. CASE Other
  <2>1. ContextTypeOK' /\ ReuseIsExact'
    BY <1>1, <1>9, CallKeeps DEF Other
  <2>2. UNCHANGED specVars
    BY <1>9 DEF Other
  <2> QED BY <2>1, <2>2 DEF specVars, SInv, TypeOK, OutputIsGreedy, SameAsGreedy,
                           TotalsAgree, RoundBounds, Produced
<1>10. CASE UNCHANGED vars
  BY <1>2, <1>10 DEF vars, specVars, SInv, TypeOK, OutputIsGreedy, SameAsGreedy,
                     TotalsAgree, RoundBounds, Produced
<1> QED BY <1>3, <1>4, <1>5, <1>6, <1>7, <1>8, <1>9, <1>10 DEF Next

LEMMA SInvAlways == Spec => []SInv
BY SInvInit, SInvNext, PTL DEF Spec

-----------------------------------------------------------------------------
\* Every variable keeps its type; in particular the text never outgrows
\* max_tokens and the library's context never outgrows n_ctx.
THEOREM TypeCorrect == Spec => []TypeOK
<1>1. SInv => TypeOK
  BY DEF SInv
<1> QED BY <1>1, SInvAlways, PTL

\* Reuse of the evaluated context never changes an answer, whatever contexts
\* follow each other and wherever a pass fails (llamacpp_py.py 320-362).
THEOREM ReuseExact == Spec => []ReuseIsExact
<1>1. SInv => ReuseIsExact
  BY DEF SInv
<1> QED BY <1>1, SInvAlways, PTL

\* Speculative decoding emits the target's greedy output, for every vocabulary,
\* target, draft, gamma and max_tokens, while other requests use the same
\* context, unless a round ran on a broken context (speculative.py 1-6).
THEOREM GreedyOutput == Spec => []OutputIsGreedy
<1>1. SInv => OutputIsGreedy
  BY DEF SInv
<1> QED BY <1>1, SInvAlways, PTL

\* The counters of the closing frame add up after every round, and a finished
\* generation has exactly max_tokens tokens.
THEOREM TotalsAlwaysAgree == Spec => []TotalsAgree
<1>1. SInv => TotalsAgree
  BY DEF SInv
<1> QED BY <1>1, SInvAlways, PTL
=============================================================================
