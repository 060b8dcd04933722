----------------------------- MODULE ProviderCall -----------------------------
(***************************************************************************)
(* What dsbx asks of an OpenAI-compatible provider                         *)
(* (dsbx/backends/openai_compat): the flags of a provider and a model, the *)
(* ids and texts an instance of the backend knows, the way a generation    *)
(* takes, and the bodies of its HTTP requests.                             *)
(*                                                                         *)
(* A text is a sequence of pieces, the tokens of the model, and the real   *)
(* id of a piece is the piece itself; ids from InternBase on are the       *)
(* synthetic ones of an instance that has no tokenizer.  Of the optional   *)
(* fields of a body only the names are kept, and a field has the name of   *)
(* the flag that allows it.                                                *)
(***************************************************************************)
EXTENDS Integers, SequencesExt

CONSTANTS
    Specials,    \* BOS and EOS: pieces whose text a provider leaves blank
    Vocabulary,  \* the pieces a model generates and lists as candidates, in order
    InternBase,  \* _INTERN_ID_BASE
    None

ASSUME CallAssumption ==
    /\ Specials \subseteq 0 .. InternBase - 1
    /\ Vocabulary \in Seq(0 .. InternBase - 1) /\ Vocabulary # <<>>
    /\ ToSet(Vocabulary) \cap Specials = {}
    /\ InternBase \in Nat /\ None \notin Nat

\* The text of some pieces, as a provider sends it.
Text(pieces) ==
    FlattenSeq([k \in DOMAIN pieces |-> IF pieces[k] \in Specials THEN <<>> ELSE <<pieces[k]>>])

-----------------------------------------------------------------------------
(***************************************************************************)
(* A provider and one of its models: the flags of the provider, what       *)
(* model_overrides says of the model, what the model really takes, the     *)
(* largest top_logprobs, whether there is a /completions endpoint, and     *)
(* whether `tokenizers' maps the model to a repository; and the frames of  *)
(* a stream that may report its usage: one with a position ("more"), the   *)
(* one with the reason ("finished"), one of its own after that             *)
(* ("counted").  A GPU host is one with `host' set.                        *)
(***************************************************************************)
Flags ==
    {"prompt_logprobs", "ignore_eos", "perf_metrics", "raw_output",
     "sampling_mask", "echo_last", "mirostat", "typical_p_native",
     "repetition_penalty", "prompt_cache_key", "service_tier",
     "session_affinity", "new_logprobs", "logit_bias", "combined_echo_stream"}

Fireworks ==
    [flags |-> Flags, overrides |-> <<>>, takes |-> Flags, top |-> 5,
     completions |-> TRUE, repo |-> TRUE, host |-> FALSE, reports |-> {"counted"}]

\* gpt-oss-20b answers 400 to a sampling_mask.
SmallModel == [Fireworks EXCEPT !.overrides = [f \in {"sampling_mask"} |-> FALSE],
                                !.takes = Flags \ {"sampling_mask"}]

\* The kimi and qwen models: no tokenizer.json.
Unmapped == [Fireworks EXCEPT !.repo = FALSE]

LmStudio ==
    [flags |-> {}, overrides |-> <<>>, takes |-> {}, top |-> 10,
     completions |-> TRUE, repo |-> FALSE, host |-> FALSE, reports |-> {"counted"}]

\* One that a user's configuration adds, with no more than echo to score by.
Configured == [LmStudio EXCEPT !.flags = {"prompt_logprobs"}, !.takes = {"prompt_logprobs"},
                               !.top = 5]

\* One with a tokenizer besides, for a model whose responses have no ids.
Mapped == [Configured EXCEPT !.repo = TRUE]

\* NIM and OpenRouter.
ChatOnly == [LmStudio EXCEPT !.top = 20, !.completions = FALSE]

GpuHost == [LmStudio EXCEPT !.repo = TRUE, !.host = TRUE]

FlagForModel(p, flag) ==
    IF flag \in DOMAIN p.overrides THEN p.overrides[flag] ELSE flag \in p.flags

-----------------------------------------------------------------------------
(***************************************************************************)
(* An instance of the backend: whether its tokenizer was tried and is      *)
(* there, the texts it has interned, and the real ids whose text it has    *)
(* seen.                                                                   *)
(***************************************************************************)
NewInstance == [tokenizer |-> "untried", interned |-> <<>>, known |-> {}]

Ready(i) == i.tokenizer = "ready"

\* The first caller loads the tokenizer, or finds that it cannot; nobody
\* tries again.  A GPU host has its own.
EnsureTokenizer(p, i) ==
    IF p.host THEN {[i EXCEPT !.tokenizer = "ready"]}
    ELSE IF i.tokenizer # "untried" THEN {i}
    ELSE {[i EXCEPT !.tokenizer = t] : t \in {"absent"} \cup IF p.repo THEN {"ready"} ELSE {}}

\* A text gets the next id the first time it is met.
Intern(i, texts) ==
    [i EXCEPT !.interned = @ \o FlattenSeq(
        [k \in DOMAIN texts |->
            IF Contains(i.interned, texts[k]) \/ \E j \in 1 .. k - 1 : texts[j] = texts[k]
            THEN <<>> ELSE <<texts[k]>>])]

InternedId(i, text) ==
    InternBase + (CHOOSE k \in DOMAIN i.interned : i.interned[k] = text) - 1

IdToText(i, id) ==
    IF id < InternBase
    THEN IF id \in i.known THEN <<id>> ELSE <<>>
    ELSE IF id - InternBase < Len(i.interned) THEN i.interned[id - InternBase + 1] ELSE <<>>

\* tokenize: without a tokenizer the whole text becomes one synthetic id.
Tokenized(i, text) == IF Ready(i) THEN i ELSE Intern(i, <<text>>)
Tokenize(i, text) == IF Ready(i) THEN text ELSE <<InternedId(i, text)>>

\* detokenize; the tokenizer knows no synthetic id.
TextOfId(i, id) ==
    IF ~Ready(i) THEN IdToText(i, id) ELSE IF id < InternBase THEN <<id>> ELSE <<>>

Detokenize(i, ids) == FlattenSeq([k \in DOMAIN ids |-> TextOfId(i, ids[k])])

\* What an instance learns of the positions of a response: the candidates of
\* each, and its token.  Real ids come with the text they stand for.
LearnAll(i, recs) ==
    LET texts(rec) == IF rec.id = None THEN rec.cands \o <<Text(<<rec.piece>>)>> ELSE <<>>
        ids(rec) == IF rec.id = None THEN {}
                    ELSE (UNION {ToSet(c) : c \in ToSet(rec.cands)}) \cup ToSet(Text(<<rec.piece>>))
    IN  [Intern(i, FlattenSeq([k \in DOMAIN recs |-> texts(recs[k])]))
            EXCEPT !.known = @ \cup UNION {ids(rec) : rec \in ToSet(recs)}]

Learn(i, rec) == LearnAll(i, <<rec>>)

\* The id of the token at a position, for an instance that has learned of it.
IdOf(i, rec) == IF rec.id = None THEN InternedId(i, Text(<<rec.piece>>)) ELSE rec.id

-----------------------------------------------------------------------------
(***************************************************************************)
(* Capabilities, and the way a generation takes.  A request q has a        *)
(* prompt, the prepend_token_ids, the prefix_token_ids that were picked by *)
(* hand, a sampler and penalties, the optional features it asks for, and   *)
(* the numbers max_tokens, top_k and echo_last.                            *)
(***************************************************************************)
Capabilities(p, i) ==
    [generation_disabled |-> ~p.completions,
     prompt_logprobs |-> FlagForModel(p, "prompt_logprobs"),
     combined |-> FlagForModel(p, "combined_echo_stream"),
     prepend |-> Ready(i) /\ p.completions]

NativeSamplers == {"greedy", "temperature", "top_k", "top_p", "min_p"}

SupportsNative(p, sampler) ==
    /\ p.completions
    /\ \/ sampler \in NativeSamplers
       \/ sampler = "typical" /\ FlagForModel(p, "typical_p_native")
       \/ sampler = "mirostat" /\ FlagForModel(p, "mirostat")

Way(p, q) ==
    IF p.host THEN "remote"
    ELSE IF ~SupportsNative(p, q.sampler) THEN "steps"
    ELSE IF q.include /\ FlagForModel(p, "combined_echo_stream") THEN "combined" ELSE "native"

\* The prompt's ids are prepended to, or not, by what the backend can do.
Admitted(p, i, q) == IF Capabilities(p, i).prepend THEN q ELSE [q EXCEPT !.prepend = <<>>]

-----------------------------------------------------------------------------
(***************************************************************************)
(* The bodies of the requests.                                             *)
(***************************************************************************)
\* A defect: top_k goes out as it was asked for.
LogprobsUncut(p, q) ==
    [new |-> FlagForModel(p, "new_logprobs"), top |-> q.top,
     mask |-> FlagForModel(p, "new_logprobs") /\ FlagForModel(p, "sampling_mask")]

\* _attach_logprobs_request; top_k is cut to what the provider gives.
Logprobs(p, q) ==
    [new |-> FlagForModel(p, "new_logprobs"),
     top |-> IF q.top < 1 THEN 1 ELSE IF q.top > p.top THEN p.top ELSE q.top,
     mask |-> FlagForModel(p, "new_logprobs") /\ FlagForModel(p, "sampling_mask")]

\* _sampler_to_api_params: the knobs of the sampler, and penalties that are
\* not at their default.
SamplerFields(p, q) ==
    (CASE q.sampler = "typical" -> {"typical_p_native"}
       [] q.sampler = "mirostat" -> {"mirostat"}
       [] OTHER -> {})
        \cup {f \in q.penalties : f = "repetition_penalty" => FlagForModel(p, f)}

\* What _post adds to every body.
PostFields(p) == {f \in {"perf_metrics", "raw_output"} : FlagForModel(p, f)}

StreamFields(p, q) ==
    {f \in q.extras \cup (IF q.respectEos THEN {} ELSE {"ignore_eos"}) : FlagForModel(p, f)}
        \cup PostFields(p) \cup SamplerFields(p, q)

\* The prompt as the client counts it: picks are part of its text, unless it
\* is sent as ids.
ClientPrompt(i, q) ==
    IF q.prepend = <<>> THEN q.prompt \o Detokenize(i, q.picks) ELSE q.prompt

Payload(i, q) ==
    IF q.prepend = <<>>
    THEN [array |-> FALSE, tokens |-> ClientPrompt(i, q)]
    ELSE [array |-> TRUE, tokens |-> q.prepend \o q.prompt \o q.picks]

NativeBody(p, i, q) ==
    [prompt |-> Payload(i, q), want |-> q.want, stream |-> TRUE, echo |-> FALSE,
     last |-> None, logprobs |-> Logprobs(p, q), fields |-> StreamFields(p, q)]

CombinedBody(p, i, q) ==
    [NativeBody(p, i, q) EXCEPT
        !.echo = TRUE,
        !.last = IF FlagForModel(p, "echo_last") THEN q.echoLast ELSE None]

\* _emit_prompt_score and score_prompt: picks are text here.
ScoreBody(p, i, q) ==
    [prompt |-> [array |-> q.prepend # <<>>,
                 tokens |-> q.prepend \o q.prompt \o Detokenize(i, q.picks)],
     want |-> 1, stream |-> FALSE, echo |-> TRUE, last |-> None,
     logprobs |-> Logprobs(p, q), fields |-> PostFields(p)]

\* next_distribution, which is given ids and sends their text.
NextBody(p, i, q, ids) ==
    [prompt |-> [array |-> FALSE, tokens |-> Detokenize(i, ids)],
     want |-> 1, stream |-> FALSE, echo |-> FALSE, last |-> None,
     logprobs |-> Logprobs(p, q), fields |-> PostFields(p)]

\* RemoteBackend.stream_generate.
HostBody(q) ==
    [prompt |-> [array |-> FALSE, tokens |-> q.prompt \o q.picks],
     want |-> q.want, stream |-> TRUE, echo |-> FALSE, last |-> None,
     logprobs |-> [new |-> FALSE, top |-> q.top, mask |-> FALSE], fields |-> {}]

\* What a strict provider takes: fields, a shape and a number of logprobs
\* that the model has, an echo that it has, and ids that are its own.
Accepts(p, body) ==
    \/ p.host
    \/ /\ p.completions
       /\ body.fields \subseteq p.takes
       /\ body.logprobs.new => "new_logprobs" \in p.takes
       /\ body.logprobs.mask => "sampling_mask" \in p.takes
       /\ body.logprobs.top \in 1 .. p.top
       /\ body.echo => (IF body.stream THEN "combined_echo_stream" ELSE "prompt_logprobs") \in p.takes
       /\ \A id \in ToSet(body.prompt.tokens) : id < InternBase
=============================================================================
