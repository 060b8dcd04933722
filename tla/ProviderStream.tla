---------------------------- MODULE ProviderStream ----------------------------
(***************************************************************************)
(* One backend of the web middleware while it generates: stream_generate   *)
(* (dsbx/web/streaming.py) drives OpenAICompatBackend                      *)
(* (dsbx/backends/openai_compat), or RemoteBackend for a GPU host, over a  *)
(* client whose transport logs every request.                              *)
(*                                                                         *)
(* Requests follow one another, each with an ask and with a pick, an id    *)
(* that the browser has been shown; in between the middleware can restart. *)
(* The upstream is external: it may be busy, refuse, be out of reach, or   *)
(* send positions, a reason, its usage, frames that are junk or an error,  *)
(* and [DONE], several frames in a chunk, and break off anywhere.  The     *)
(* calls of a backend hold its name's lock, so there is one at a time.     *)
(***************************************************************************)
EXTENDS StreamLog

CONSTANTS
    Provider,    \* providers and models of ProviderCall
    Asks,        \* what the browser asks for, its picks left open
    MaxRetries,  \* _MAX_RETRIES
    MaxCalls,    \* bound: the requests of a behaviour
    MaxRestarts, \* bound: restarts of the middleware
    MaxNoise     \* bound: junk and error frames of a behaviour

ASSUME StreamAssumption ==
    /\ MaxRetries \in Nat /\ MaxCalls \in Nat /\ MaxRestarts \in Nat /\ MaxNoise \in Nat

\* What the flags say of a provider and a model is true.
ASSUME ProviderAssumption ==
    \A x \in Provider :
        /\ x.completions \in BOOLEAN /\ x.repo \in BOOLEAN /\ x.host \in BOOLEAN
        /\ x.top \in Nat \ {0} /\ x.reports \subseteq {"more", "finished", "counted"}
        /\ \A f \in Flags : /\ FlagForModel(x, f) \in BOOLEAN
                           /\ FlagForModel(x, f) => f \in x.takes

\* Text is made of the model's tokens, and there is something to generate.
ASSUME AsksAssumption ==
    \A ask \in Asks :
        /\ ask.prompt \in Seq(0 .. InternBase - 1) /\ ask.prepend \in Seq(0 .. InternBase - 1)
        /\ ask.include \in BOOLEAN /\ ask.respectEos \in BOOLEAN
        /\ ask.want \in Nat \ {0} /\ ask.top \in Int /\ ask.echoLast \in (Nat \ {0}) \cup {None}
        /\ ask.extras \subseteq Flags /\ ask.penalties \subseteq {"repetition_penalty"}

VARIABLES
    p,       \* which of the providers it is
    inst,    \* the instance of the backend
    shown,   \* ids the browser was shown: [id, piece, old], old of an earlier instance
    left,    \* requests and restarts that are still to come
    q,       \* the request under way
    at,      \* where its generator is
    paused,  \* it is suspended at the yield of a frame
    http,    \* its HTTP request: [body, tries]
    up,      \* the response of the upstream: [sent, phase, style, noise, reason]
    wire,    \* the frames captured from it
    rd,      \* the loop that reads them
    rows,    \* the rows of the prompt_score frame: [pos, k]
    steps,   \* the steps yielded: [pos, id, piece, k, reason]
    sink,    \* the usage dict
    entries, \* the log entries of the call
    outcome  \* how the call ended: "ok", "error" or "left"

vars == <<p, inst, shown, left, q, at, paused, http, up, wire, rd, rows, steps,
          sink, entries, outcome>>

NoCall == [way |-> "none"]
NoBody == [stream |-> FALSE]
NoHttp == [body |-> NoBody, tries |-> 0]
NoUp == [sent |-> 0, phase |-> "closed", style |-> "offset", noise |-> 0, reason |-> None]
NoSink == [requests |-> 0, prompt |-> None, completion |-> None, noted |-> FALSE]

\* The frames pulled and not read; the positions of the frame being read;
\* prev_record; in_emit; running_text_len; last_finish_reason; prompt_steps; the
\* lengths of tokens_before and of the prompt, as they were before the request.
NewReader == [buf |-> <<>>, recs |-> <<>>, held |-> <<>>, emitting |-> FALSE, running |-> 0,
              finish |-> None, echoed |-> <<>>, before |-> 0, promptLen |-> 0]

Init ==
    /\ p \in Provider
    /\ inst = NewInstance /\ shown = {}
    /\ left = [calls |-> MaxCalls, restarts |-> MaxRestarts]
    /\ q = NoCall /\ at = "idle" /\ paused = FALSE /\ http = NoHttp
    /\ up = NoUp /\ wire = <<>> /\ rd = NewReader
    /\ rows = <<>> /\ steps = <<>> /\ sink = NoSink /\ entries = <<>> /\ outcome = "ok"

-----------------------------------------------------------------------------
(***************************************************************************)
(* What the upstream says of a prompt.                                     *)
(***************************************************************************)
Pieces == http.body.prompt.tokens

\* The length of a text, of which blank pieces are no part.
Shown(pieces) == Len(Text(pieces))

\* The position k of a response, the prompt's own come first.
Position(k) ==
    LET n == Len(Pieces)
        piece == IF k <= n THEN Pieces[k]
                 ELSE Vocabulary[((k - n - 1) % Len(Vocabulary)) + 1]
        listed == IF http.body.logprobs.top >= Len(Vocabulary) THEN Vocabulary
                  ELSE SubSeq(Vocabulary, 1, http.body.logprobs.top)
    IN  [k |-> k, piece |-> piece,
         id |-> IF http.body.logprobs.new \/ p.host THEN piece ELSE None,
         cands |-> IF k = 1 THEN <<>> ELSE [j \in DOMAIN listed |-> <<listed[j]>>],
         off |-> IF up.style # "offset" THEN None
                 ELSE IF k > n THEN Shown(Pieces) + k - n - 1
                 ELSE Shown(SubSeq(Pieces, 1, k - 1)),
         signal |-> up.style = "signal" /\ k > n]

\* The first position it sends: of an echo the whole prompt, or its last ones.
FirstSent ==
    LET n == Len(Pieces)
        last == http.body.last
    IN  IF ~http.body.echo THEN n + 1
        ELSE IF last = None \/ last >= n THEN 1 ELSE n - last + 1

LastSent == Len(Pieces) + http.body.want

Usage(completion) == [prompt |-> Len(Pieces), completion |-> completion]

\* The positions it has sent beyond those of the prompt.
Generated(u) ==
    LET echo == Len(Pieces) + 1 - FirstSent
    IN  IF u.sent > echo THEN u.sent - echo ELSE 0

\* The usage so far, where the provider reports it, or no report.
Reports(u) == {None} \cup (IF u.phase \in p.reports THEN {Usage(Generated(u))} ELSE {})

\* The chunks that can come next, each with the state it leaves the upstream in.
Chunks(u) ==
    LET k == FirstSent + u.sent
        data == [Blank EXCEPT !.choices = TRUE]
        with == [data EXCEPT !.recs = <<Position(k)>>]
        more == [u EXCEPT !.sent = @ + 1]
        ended(why) == [u EXCEPT !.phase = "finished", !.reason = why]
    IN  (IF k > LastSent THEN {<<[data EXCEPT !.finish = "length"], ended("length")>>}
         ELSE {<<with, more>>}
              \cup (IF k = LastSent
                    THEN {<<[with EXCEPT !.finish = "length"],
                            [ended("length") EXCEPT !.sent = @ + 1]>>} ELSE {}))
        \cup (IF k > Len(Pieces) THEN {<<[data EXCEPT !.finish = "stop"], ended("stop")>>} ELSE {})

DataFrames(u) ==
    UNION {{<<[c[1] EXCEPT !.usage = report], c[2]>> : report \in Reports(c[2])} : c \in Chunks(u)}

HostFrames(u) ==
    LET k == FirstSent + u.sent
        step(why) == [Blank EXCEPT !.event = "step", !.recs = <<Position(k)>>, !.finish = why]
    IN  {<<step(why), [u EXCEPT !.sent = @ + 1, !.reason = why,
                                !.phase = IF why = None THEN "more" ELSE "finished"]>> :
            why \in IF k = LastSent THEN {"max_tokens"} ELSE {None, "eos"}}

Closing(u) ==
    LET counted == [u EXCEPT !.phase = "counted"]
        done == [Blank EXCEPT !.kind = "done"]
        hostDone(error) == [Blank EXCEPT !.event = "done", !.finish = u.reason, !.error = error]
        over == [u EXCEPT !.phase = "ended"]
    IN  IF p.host
        THEN {<<hostDone(error), over>> : error \in {TRUE} \cup (IF u.phase = "finished" THEN {FALSE} ELSE {})}
        ELSE (IF u.phase = "finished"
              THEN {<<[Blank EXCEPT !.usage = report], counted>> :
                       report \in Reports(counted) \ {None}} ELSE {})
             \cup (IF u.phase \in {"finished", "counted"} THEN {<<done, over>>} ELSE {})

Noise(u) ==
    IF u.noise = MaxNoise THEN {}
    ELSE {<<frame, [u EXCEPT !.noise = @ + 1]>> :
            frame \in {[Blank EXCEPT !.kind = "junk"], [Blank EXCEPT !.error = TRUE]}}

NextFrames(u) ==
    IF u.phase = "ended" THEN {}
    ELSE Noise(u) \cup Closing(u)
         \cup (IF u.phase # "more" THEN {} ELSE IF p.host THEN HostFrames(u) ELSE DataFrames(u))

-----------------------------------------------------------------------------
(***************************************************************************)
(* The usage dict, and the stages of a call.                               *)
(***************************************************************************)
\* record_request: every attempt counts.  A GPU host writes no usage.
RecordRequest(s) == IF p.host THEN s ELSE [s EXCEPT !.requests = @ + 1]

\* A defect: the last report replaces the others.
ReplaceTokens(s, usage) ==
    IF p.host \/ usage = None THEN s
    ELSE [s EXCEPT !.prompt = usage.prompt, !.completion = usage.completion]

\* record_tokens: a slot is None until the first report, and adds up.
RecordTokens(s, usage) ==
    LET plus(slot, n) == IF slot = None THEN n ELSE slot + n
    IN  IF p.host \/ usage = None THEN s
        ELSE [s EXCEPT !.prompt = plus(@, usage.prompt),
                       !.completion = plus(@, usage.completion)]

Emitted == [k \in DOMAIN steps |-> steps[k].id]

\* A defect: the picks are forgotten by the decoding loop.
LoopIdsUnpicked(i, ask, emitted) == Tokenize(i, ask.prompt) \o emitted

\* The context the decoding loop keeps, as ids; it is given no prepend.
LoopIds(i, ask, emitted) == Tokenize(i, ask.prompt) \o ask.picks \o emitted

BodyAt(stage, i, ask, emitted) ==
    IF stage = "score" THEN ScoreBody(p, i, ask)
    ELSE IF stage = "step" THEN NextBody(p, i, ask, LoopIds(i, ask, emitted))
    ELSE CASE ask.way = "native" -> NativeBody(p, i, ask)
           [] ask.way = "combined" -> CombinedBody(p, i, ask)
           [] ask.way = "remote" -> HostBody(ask)

\* The stage at which the tokens come, and a note where an ask for no EOS cannot
\* be passed on.  The loop tokenizes its context before it asks; a stream is
\* asked for with a text that is tokenized afterwards, for tokens_before.
Decoding(ask) == IF ask.way = "steps" THEN "step" ELSE "open"

EnterDecoding(i, ask, s) ==
    LET known == IF ask.way = "remote" THEN i
                 ELSE Tokenized(i, IF ask.way = "steps" THEN ask.prompt ELSE ClientPrompt(i, ask))
        asking == IF ask.way = "steps" THEN known ELSE i
    IN  /\ at' = Decoding(ask)
        /\ inst' = known
        /\ http' = [body |-> BodyAt(Decoding(ask), asking, ask, <<>>), tries |-> 0]
        /\ sink' = [s EXCEPT !.noted = ask.way \in {"native", "combined"} /\ ~ask.respectEos
                                       /\ ~FlagForModel(p, "ignore_eos")]

\* Only a backend with prompt logprobs scores; elsewhere the frame has a note.
Scores(ask) ==
    ask.include /\ ask.way # "combined" /\ (p.host \/ FlagForModel(p, "prompt_logprobs"))

Ask ==
    /\ at = "idle" /\ left.calls > 0 /\ ~Capabilities(p, inst).generation_disabled
    /\ \E ask \in Asks, i \in EnsureTokenizer(p, inst),
          picked \in {<<>>} \cup {<<s>> : s \in shown} :
          LET full == [prompt |-> ask.prompt, prepend |-> ask.prepend,
                       picks |-> [j \in DOMAIN picked |-> picked[j].id],
                       picked |-> picked, sampler |-> ask.sampler, include |-> ask.include,
                       respectEos |-> ask.respectEos, want |-> ask.want, top |-> ask.top,
                       echoLast |-> ask.echoLast, extras |-> ask.extras,
                       penalties |-> ask.penalties, way |-> Way(p, ask)]
              call == Admitted(p, i, full)
          IN  /\ q' = call
              /\ IF Scores(call)
                 THEN /\ at' = "score" /\ inst' = i /\ sink' = NoSink
                      /\ http' = [body |-> BodyAt("score", i, call, <<>>), tries |-> 0]
                 ELSE EnterDecoding(i, call, NoSink)
    /\ left' = [left EXCEPT !.calls = @ - 1]
    /\ UNCHANGED <<p, shown, paused, up, wire, rd, rows, steps, entries, outcome>>

\* generate_stream answers 400 for a chat-only provider.
Refuse ==
    /\ at = "idle" /\ left.calls > 0 /\ Capabilities(p, inst).generation_disabled
    /\ left' = [left EXCEPT !.calls = @ - 1]
    /\ UNCHANGED <<p, inst, shown, q, at, paused, http, up, wire, rd, rows, steps,
                   sink, entries, outcome>>

-----------------------------------------------------------------------------
(***************************************************************************)
(* The HTTP requests: an attempt is counted before it is made, and logged. *)
(***************************************************************************)
Asking == at \in {"score", "step", "open"}

\* A defect: one retry too many.
BusyOnceMore ==
    /\ Asking /\ ~p.host /\ http.tries <= MaxRetries
    /\ http' = [http EXCEPT !.tries = @ + 1]
    /\ sink' = RecordRequest(sink)
    /\ entries' = Append(entries, PlainEntry(None, TRUE))
    /\ paused' = FALSE
    /\ UNCHANGED <<p, inst, shown, left, q, at, up, wire, rd, rows, steps, outcome>>

\* 429, 502, 503 or 504, which only a provider's client tries again.
Busy ==
    /\ Asking /\ ~p.host /\ http.tries < MaxRetries
    /\ http' = [http EXCEPT !.tries = @ + 1]
    /\ sink' = RecordRequest(sink)
    /\ entries' = Append(entries, PlainEntry(None, TRUE))
    /\ paused' = FALSE
    /\ UNCHANGED <<p, inst, shown, left, q, at, up, wire, rd, rows, steps, outcome>>

\* Another status, no response, or the last retry: scoring leaves a note and
\* the call goes on, anything else ends it.
Fail ==
    /\ Asking
    /\ entries' = Append(entries, PlainEntry(None, TRUE))
    /\ IF at = "score"
       THEN EnterDecoding(inst, q, RecordRequest(sink)) /\ paused' = TRUE /\ UNCHANGED outcome
       ELSE /\ at' = "over" /\ outcome' = "error" /\ paused' = FALSE
            /\ sink' = RecordRequest(sink) /\ UNCHANGED <<inst, http>>
    /\ UNCHANGED <<p, shown, left, q, up, wire, rd, rows, steps>>

\* score_prompt: N rows of a prompt of N tokens, the last one predicts what
\* comes next and has no token of its own.
Scored ==
    /\ at = "score"
    /\ LET n == Len(Pieces)
           counted == RecordTokens(RecordRequest(sink), Usage(1))
           seen == LearnAll(inst, [k \in 1 .. n |-> Position(k + 1)])
       IN  /\ rows' = [k \in 1 .. n |-> [pos |-> k, k |-> IF k < n THEN k + 1 ELSE None]]
           /\ entries' = Append(entries, PlainEntry(Usage(1), FALSE))
           /\ EnterDecoding(IF p.host THEN inst ELSE seen, q, counted)
    /\ paused' = TRUE
    /\ UNCHANGED <<p, shown, left, q, up, wire, rd, steps, outcome>>

\* A step of the decoding loop: the sampler takes one of the candidates.
NextToken ==
    /\ at = "step"
    /\ LET rec == Position(Len(Pieces) + 1)
           before == LoopIds(inst, q, Emitted)
       IN  \E piece \in UNION {ToSet(c) : c \in ToSet(rec.cands)},
              why \in IF Len(steps) + 1 = q.want THEN {"user_stop", "max_tokens"}
                      ELSE {None, "user_stop"} :
              LET chosen == [rec EXCEPT !.piece = piece,
                                        !.id = IF rec.id = None THEN None ELSE piece]
                  i == Learn(inst, chosen)
                  id == IdOf(i, chosen)
              IN  /\ inst' = i
                  /\ steps' = Append(steps, [pos |-> Len(before), id |-> id, piece |-> piece,
                                             k |-> rec.k, reason |-> why])
                  /\ at' = IF why = None THEN "step" ELSE "over"
                  /\ http' = IF why = None
                             THEN [body |-> BodyAt("step", i, q, Append(Emitted, id)),
                                   tries |-> 0]
                             ELSE http
    /\ sink' = RecordTokens(RecordRequest(sink), Usage(1))
    /\ entries' = Append(entries, PlainEntry(Usage(1), FALSE))
    /\ paused' = TRUE
    /\ UNCHANGED <<p, shown, left, q, up, wire, rd, rows, outcome>>

\* A response without candidates ends the loop.
NoCandidates ==
    /\ at = "step"
    /\ at' = "over" /\ paused' = FALSE
    /\ sink' = RecordTokens(RecordRequest(sink), Usage(0))
    /\ entries' = Append(entries, PlainEntry(Usage(0), FALSE))
    /\ UNCHANGED <<p, inst, shown, left, q, http, up, wire, rd, rows, steps, outcome>>

\* The stream is open.  A provider may give offsets, or the sampling keys of
\* the positions it generated, or neither.
Opened ==
    /\ at = "open"
    /\ at' = "read" /\ paused' = FALSE
    /\ \E style \in IF http.body.echo THEN {"offset", "signal", "bare"} ELSE {"offset"} :
          up' = [NoUp EXCEPT !.phase = "more", !.style = style, !.noise = up.noise]
    /\ sink' = RecordRequest(sink)
    /\ LET prompt == IF http.body.prompt.array THEN q.prompt ELSE Pieces
       IN  rd' = [NewReader EXCEPT
                     !.before = IF p.host THEN Len(Pieces) ELSE Len(Tokenize(inst, prompt)),
                     !.promptLen = Len(prompt)]
    /\ UNCHANGED <<p, inst, shown, left, q, http, wire, rows, steps, entries, outcome>>

-----------------------------------------------------------------------------
(***************************************************************************)
(* The loop that reads the stream.                                         *)
(***************************************************************************)
Reading == at = "read" /\ rd.recs = <<>>

Pull ==
    /\ Reading /\ rd.buf = <<>>
    /\ \E first \in NextFrames(up) :
          \/ /\ up' = first[2]
             /\ wire' = Append(wire, first[1]) /\ rd' = [rd EXCEPT !.buf = <<first[1]>>]
          \/ \E second \in NextFrames(first[2]) :
                /\ up' = second[2]
                /\ wire' = wire \o <<first[1], second[1]>>
                /\ rd' = [rd EXCEPT !.buf = <<first[1], second[1]>>]
    /\ paused' = FALSE
    /\ UNCHANGED <<p, inst, shown, left, q, at, http, rows, steps, sink, entries, outcome>>

\* The stream is logged when it ends, however it does.
Logged(broken) == entries' = Append(entries, StreamedEntry(wire, broken))

\* The body ends without a [DONE].
EndOfBody ==
    /\ Reading /\ rd.buf = <<>> /\ up.phase \in {"finished", "counted"} /\ ~p.host
    /\ Logged(FALSE)
    /\ at' = "flush" /\ paused' = FALSE
    /\ UNCHANGED <<p, inst, shown, left, q, http, up, wire, rd, rows, steps, sink, outcome>>

\* It breaks off, or nothing comes for longer than the read timeout.
Cut ==
    /\ Reading /\ rd.buf = <<>>
    /\ Logged(TRUE)
    /\ at' = "over" /\ outcome' = "error" /\ paused' = FALSE
    /\ UNCHANGED <<p, inst, shown, left, q, http, up, wire, rd, rows, steps, sink>>

Rest == [rd EXCEPT !.buf = Tail(@)]

\* A frame that does not parse is dropped, and one without choices has at most
\* its usage read.
ReadFrame ==
    /\ Reading /\ rd.buf # <<>>
    /\ LET f == Head(rd.buf)
       IN  f.kind # "done" /\ f.event # "done"
           /\ rd' = [Rest EXCEPT !.recs = f.recs,
                                 !.finish = IF f.finish = None /\ ~p.host THEN @ ELSE f.finish]
           /\ sink' = RecordTokens(sink, f.usage)
    /\ paused' = FALSE
    /\ UNCHANGED <<p, inst, shown, left, q, at, http, up, wire, rows, steps, entries, outcome>>

\* [DONE], or the done event of a GPU host, which may tell of an error.
ReadDone ==
    /\ Reading /\ rd.buf # <<>>
    /\ LET f == Head(rd.buf)
       IN  /\ f.kind = "done" \/ f.event = "done"
           /\ at' = IF p.host THEN "over" ELSE "flush"
           /\ outcome' = IF f.error THEN "error" ELSE "ok"
    /\ rd' = Rest
    /\ Logged(FALSE)
    /\ paused' = FALSE
    /\ UNCHANGED <<p, inst, shown, left, q, http, up, wire, rows, steps, sink>>

\* A step leaves the generator; the first one sends the prompt's rows ahead.
Yield(rec, why) ==
    LET i == IF p.host THEN inst ELSE Learn(inst, rec)
    IN  /\ inst' = i
        /\ steps' = Append(steps, [pos |-> rd.before + Len(steps), id |-> IdOf(i, rec),
                                   piece |-> rec.piece, k |-> rec.k, reason |-> why])
        /\ rows' = IF q.way = "combined" THEN rd.echoed ELSE rows
        /\ paused' = TRUE

\* The echo of the prompt is over: by the offset of a position, by its
\* sampling keys, or by the length of the text so far.
RunningLen(rec) ==
    IF rec.off = None /\ ~rec.signal THEN rd.running + Shown(<<rec.piece>>) ELSE rd.running

\* A defect: off by one, the first token generated counts as echo.
IsEmitBeyond(rec) ==
    IF rec.off # None THEN rec.off > rd.promptLen
    ELSE rec.signal \/ RunningLen(rec) > rd.promptLen

IsEmit(rec) ==
    IF rec.off # None THEN rec.off >= rd.promptLen
    ELSE rec.signal \/ RunningLen(rec) > rd.promptLen

Echoing == q.way = "combined" /\ ~rd.emitting

\* A row of the prompt, numbered as it comes.
EchoRow(rec, echoed) == [pos |-> Len(echoed), k |-> rec.k]

ReadEcho ==
    /\ at = "read" /\ rd.recs # <<>> /\ Echoing
    /\ LET rec == Head(rd.recs)
       IN  /\ ~IsEmit(rec)
           /\ rd' = [rd EXCEPT !.recs = Tail(@), !.running = RunningLen(rec),
                               !.echoed = Append(@, EchoRow(rec, @))]
           /\ inst' = Learn(inst, rec)
    /\ paused' = FALSE
    /\ UNCHANGED <<p, shown, left, q, at, http, up, wire, rows, steps, sink, entries, outcome>>

\* One position is held back, for the reason comes with the last one.
ReadToken ==
    /\ at = "read" /\ rd.recs # <<>>
    /\ LET rec == Head(rd.recs)
       IN  /\ Echoing => IsEmit(rec)
           /\ rd' = [rd EXCEPT !.recs = Tail(@), !.emitting = TRUE,
                               !.running = IF Echoing THEN RunningLen(rec) ELSE @,
                               !.held = IF p.host THEN <<>> ELSE <<rec>>]
           /\ IF p.host THEN Yield(rec, rd.finish)
              ELSE IF rd.held # <<>> THEN Yield(rd.held[1], None)
              ELSE paused' = FALSE /\ UNCHANGED <<inst, steps, rows>>
    /\ UNCHANGED <<p, shown, left, q, at, http, up, wire, sink, entries, outcome>>

FinishReasonToStop(reason) ==
    CASE reason = "length" -> "max_tokens" [] reason = "stop" -> "user_stop" [] OTHER -> None

Flush ==
    /\ at = "flush"
    /\ IF rd.held # <<>> THEN Yield(rd.held[1], FinishReasonToStop(rd.finish))
       ELSE /\ rows' = IF q.way = "combined" THEN rd.echoed ELSE rows
            /\ paused' = FALSE /\ UNCHANGED <<inst, steps>>
    /\ at' = "over"
    /\ UNCHANGED <<p, shown, left, q, http, up, wire, rd, sink, entries, outcome>>

\* The browser is gone: the generator is closed at a yield, and with it the
\* response it reads.
Leave ==
    /\ paused /\ at \in {"open", "step", "read"}
    /\ IF at = "read" THEN Logged(FALSE) ELSE UNCHANGED entries
    /\ at' = "over" /\ outcome' = "left" /\ paused' = FALSE
    /\ UNCHANGED <<p, inst, shown, left, q, http, up, wire, rd, rows, steps, sink>>

-----------------------------------------------------------------------------
\* The browser keeps the ids it was shown.
Forget ==
    /\ at = "over"
    /\ shown' = shown \cup {[id |-> steps[k].id, piece |-> steps[k].piece, old |-> FALSE] :
                              k \in DOMAIN steps}
    /\ q' = NoCall /\ at' = "idle" /\ paused' = FALSE /\ http' = NoHttp
    /\ up' = [NoUp EXCEPT !.noise = up.noise] /\ wire' = <<>> /\ rd' = NewReader
    /\ rows' = <<>> /\ steps' = <<>> /\ sink' = NoSink /\ entries' = <<>> /\ outcome' = "ok"
    /\ UNCHANGED <<p, inst, left>>

\* The middleware starts anew; the page in the browser stays.
Restart ==
    /\ at = "idle" /\ left.restarts > 0
    /\ left' = [left EXCEPT !.restarts = @ - 1]
    /\ inst' = NewInstance
    /\ shown' = {[s EXCEPT !.old = TRUE] : s \in shown}
    /\ UNCHANGED <<p, q, at, paused, http, up, wire, rd, rows, steps, sink, entries, outcome>>

Next ==
    \/ Ask \/ Refuse \/ Busy \/ Fail \/ Scored \/ NextToken \/ NoCandidates \/ Opened
    \/ Pull \/ EndOfBody \/ Cut \/ ReadFrame \/ ReadDone \/ ReadEcho \/ ReadToken
    \/ Flush \/ Leave \/ Forget \/ Restart

Spec == Init /\ [][Next]_vars

-----------------------------------------------------------------------------
(***************************************************************************)
(* Properties.                                                             *)
(***************************************************************************)
\* The types of the variables.
TypeOK ==
    /\ inst.tokenizer \in {"untried", "ready", "absent"}
    /\ at \in {"idle", "score", "step", "open", "read", "flush", "over"}
    /\ http.tries \in 0 .. MaxRetries
    /\ up.phase \in {"closed", "more", "finished", "counted", "ended"}
    /\ Len(rd.held) <= 1 /\ Len(rd.buf) <= 2
    /\ outcome \in {"ok", "error", "left"}
    /\ at = "idle" => http = NoHttp /\ entries = <<>> /\ ~paused

\* A pick whose id an earlier instance gave out, and this one cannot tell.
StalePick ==
    \E s \in ToSet(q.picked) : s.old /\ ~(Ready(inst) /\ s.id < InternBase)

PicksSeen == [j \in DOMAIN q.picked |-> q.picked[j].piece]

\* Whatever way a call takes, and whether its text or its ids are sent, the
\* upstream is asked about the prompt, then the tokens that the user picked and
\* then those of the steps so far, as they were shown; with the prepended ids
\* in front where the way has a place for them.
ContextIsAlwaysSent ==
    at \in {"score", "step", "open", "read"} /\ ~StalePick =>
        Pieces = (IF at = "score" \/ q.way \in {"native", "combined"} THEN q.prepend ELSE <<>>)
                 \o q.prompt \o PicksSeen
                 \o (IF at = "step" THEN [k \in DOMAIN steps |-> steps[k].piece] ELSE <<>>)

\* It is so if an instance with a tokenizer gets real ids: a tokenizer knows
\* none of the ids made up for the texts of responses that have no ids.
IdsAreReal == Ready(inst) => p.host \/ FlagForModel(p, "new_logprobs")

ContextIsSent == IdsAreReal => ContextIsAlwaysSent

\* No provider is sent a field, a number of logprobs, an echo or an id that it
\* does not have; and a request to go on after EOS is passed on, or the user
\* is told that it is not.
NeverRefused ==
    /\ Asking /\ ~StalePick /\ IdsAreReal => Accepts(p, http.body)
    /\ at = "open" /\ ~p.host /\ ~q.respectEos => "ignore_eos" \in http.body.fields \/ sink.noted

Streamed == up.phase # "closed"

\* Where an echo ends can be told, but not in a text with pieces that come back
\* blank, from an array of ids whose text the client does not count, or from a
\* part of the echo without offsets.
EchoEndTells ==
    /\ \A k \in DOMAIN Pieces : Pieces[k] \in Specials <=> k <= Len(q.prepend)
    /\ http.body.prompt.array => q.picks = <<>> /\ q.prompt # <<>>
    /\ up.style = "bare" => http.body.last = None

\* An echo becomes rows, all that was sent of it before the first step, and
\* every token generated becomes one step, in the order and at the positions of
\* the context, of which only the last has a reason, the upstream's own.
StreamIsInOrder ==
    Streamed /\ (http.body.echo => EchoEndTells) =>
        LET n == Len(Pieces)
            tells(reason) == IF p.host THEN reason ELSE FinishReasonToStop(reason)
        IN  /\ \A j \in DOMAIN rd.echoed : rd.echoed[j].k = FirstSent + j - 1
            /\ http.body.echo /\ (steps # <<>> \/ (at = "over" /\ outcome = "ok")) =>
                    Len(rows) = n - FirstSent + 1
            /\ \A j \in DOMAIN steps :
                    /\ steps[j].k = n + j
                    /\ Ready(inst) /\ q.prepend = <<>> => steps[j].pos = n + j - 1
                    /\ j < Len(steps) => steps[j].reason = None
            /\ at = "over" /\ outcome = "ok" =>
                    /\ Len(steps) = up.sent - (n + 1 - FirstSent)
                    /\ steps # <<>> => Last(steps).reason = tells(up.reason)

\* The text of everything the call made of a stream.
Delivered ==
    Text([j \in DOMAIN rd.echoed |-> Position(rd.echoed[j].k).piece])
        \o Text([j \in DOMAIN steps |-> steps[j].piece])

\* The log entry of a stream, folded from its frames, tells what the browser
\* got of it: all of its text and the reason if it ended well, at least that
\* text if it did not, and an error just if there was one.
LogHoldsTheStream ==
    Streamed /\ at = "over" =>
        LET entry == Last(entries)
        IN  /\ IsPrefix(Delivered, entry.text)
            /\ outcome = "error" => entry.error
            /\ outcome = "ok" =>
                  /\ entry.text = Delivered /\ entry.finish = up.reason /\ ~entry.error
                  /\ entry.positions = Len(rd.echoed) + Len(steps)

\* What some log entries and frames say of their usage adds up to this, or None.
Total(counts) ==
    LET sum[k \in 0 .. Len(counts)] == IF k = 0 THEN 0 ELSE sum[k - 1] + counts[k]
    IN  sum[Len(counts)]

Charged(slot, tellers) ==
    LET counts == FlattenSeq([k \in DOMAIN tellers |->
                      IF tellers[k].usage = None THEN <<>> ELSE <<tellers[k].usage[slot]>>])
    IN  IF counts = <<>> THEN None ELSE Total(counts)

\* Who told of the usage of a call: the responses of its requests, and of the
\* one that was streamed, which is the last, each of its frames.
Tellers == IF Streamed THEN Front(entries) \o wire ELSE entries

\* The usage of a call counts every attempt that reached the log, and of a call
\* that ended well it adds up all that its responses reported, the request that
\* scored and every frame of the stream included; and as the log keeps the last
\* report of a stream only, the two agree if the stream reported once
\* (record_tokens, usage.py 102-126; _merge_openai_stream 196, 238-240).
UsageIsCharged ==
    at = "over" /\ ~p.host =>
        /\ sink.requests = Len(entries)
        /\ outcome = "ok" =>
              \A slot \in {"prompt", "completion"} :
                  /\ sink[slot] = Charged(slot, Tellers)
                  /\ Len(Given([k \in DOMAIN wire |-> wire[k].usage])) <= 1 =>
                        sink[slot] = Charged(slot, entries)
=============================================================================
