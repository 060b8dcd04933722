-------------------------- MODULE GenerationStream --------------------------
(***************************************************************************)
(* One streamed generation in the web middleware: the generate_stream      *)
(* route (dsbx/web/app.py), stream_generate (dsbx/web/streaming.py) and    *)
(* the clients it drives, RemoteBackend.stream_generate for a GPU host     *)
(* (dsbx/backends/remote.py), stream_native, stream_native_with_echo and   *)
(* the retrying _request for a provider (dsbx/backends/openai_compat), and *)
(* the decoding loop for everything else (dsbx/core/engine.py).            *)
(*                                                                         *)
(* There are four ways to generate: "remote" forwards a host's stream,     *)
(* "native" and "combined" read one provider stream, the second with the   *)
(* prompt's rows in it, and "steps" asks for one distribution per token;   *)
(* all but "combined" ask for the prompt's rows in a request before.       *)
(* A generator is suspended at the yield of a frame, and only there can it *)
(* learn that its browser is gone.                                         *)
(*                                                                         *)
(* The frames of a run are kept as they were sent until neither side has   *)
(* them any more; a token is represented by its position.  perf and        *)
(* raw_output frames, texts, distributions and token counts are data and   *)
(* left out, and of the stop reasons "stop" stands for eos too.            *)
(***************************************************************************)
EXTENDS Integers, SequencesExt

CONSTANTS
    Runs,       \* the generate requests that are not forgotten yet
    Hosts,      \* backends that are GPU hosts
    Providers,  \* OpenAI-compatible providers, the only UsageAware backends
    Engines,    \* in-process backends
    Ids,        \* token ids that can be picked
    MaxTokens,  \* bound: max_tokens of a request
    MaxRetries, \* max_retries of a provider
    None

Backends == Hosts \cup Providers \cup Engines

ASSUME StreamAssumption ==
    /\ MaxTokens \in Nat \ {0}
    /\ MaxRetries \in Nat
    /\ Hosts \cap Providers = {}
    /\ Engines \cap (Hosts \cup Providers) = {}
    /\ None \notin Runs /\ None \notin Backends

VARIABLES
    req,        \* what each run asked for: its backend and the way to generate,
                \* include_prompt, max_tokens, whether it carries the session_id
                \* of manual decoding, and its prefix_token_ids
    at,         \* where its handler and its generator are
    paused,     \* its generator is suspended at a yield
    gone,       \* its browser has dropped the connection
    lock,       \* entry.lock of each backend's name
    sink,       \* the run whose usage dict is backend._active_usage
    tries,      \* retries of the HTTP request under way
    requests,   \* the runs whose HTTP attempts usage["requests"] counts
    uncounted,  \* an attempt for the run was not counted in its own usage
    got,        \* tokens the upstream has sent for the run
    finish,     \* how the upstream said the run ended
    failed,     \* the local `error' is set
    frames      \* the frames yielded

callVars == <<lock, sink, tries, requests, uncounted>>
runVars == <<got, finish, failed>>
streamVars == <<req, at, paused, gone, callVars, runVars, frames>>

\* stop_reason of a step: none but on the last.
Reasons == {"none", "stop", "max_tokens"}

Score(rows) == [event |-> "prompt_score", rows |-> rows]
Step(n, reason) == [event |-> "step", n |-> n, reason |-> reason]
Usage(owners) == [event |-> "usage", requests |-> owners]
Done(reason, error) == [event |-> "done", reason |-> reason, error |-> error]

\* last_reason: the stop_reason of the last step that was yielded, which is the
\* last frame until the closing ones.
LastReason(r) ==
    IF frames[r] # <<>> /\ Last(frames[r]).event = "step"
    THEN Last(frames[r]).reason ELSE "none"

\* The generator is exhausted, or was never made.
Ended == {"refused", "over"}
Open(r) == at[r] \notin Ended \cup {"none"}

Host(r) == req[r].backend \in Hosts
Provider(r) == req[r].backend \in Providers
Lock(r) == lock[req[r].backend]

Blank(b, ids) == [backend |-> b, way |-> "none", include |-> FALSE, want |-> 0,
                  manual |-> FALSE, prefix |-> ids]
NoRequest == Blank(None, <<>>)

StreamInit ==
    /\ req = [r \in Runs |-> NoRequest]
    /\ at = [r \in Runs |-> "none"]
    /\ paused = [r \in Runs |-> FALSE]
    /\ gone = [r \in Runs |-> FALSE]
    /\ lock = [b \in Backends |-> None]
    /\ sink = [b \in Backends |-> None]
    /\ tries = [r \in Runs |-> 0]
    /\ requests = [r \in Runs |-> {}]
    /\ uncounted = [r \in Runs |-> FALSE]
    /\ got = [r \in Runs |-> 0]
    /\ finish = [r \in Runs |-> "none"]
    /\ failed = [r \in Runs |-> FALSE]
    /\ frames = [r \in Runs |-> <<>>]

-----------------------------------------------------------------------------
(***************************************************************************)
(* What the generators share.                                              *)
(***************************************************************************)
Goto(r, where) == at' = [at EXCEPT ![r] = where]

\* Once neither side has the run any more, all that is left of it is which
\* backend and prefix the output shown is from.
Remains(r) == Blank(req[r].backend, req[r].prefix)

Gone(r, where, left) ==
    /\ at' = [at EXCEPT ![r] = where]
    /\ gone' = [gone EXCEPT ![r] = left]
    /\ req' = IF where = "none" THEN [req EXCEPT ![r] = Remains(r)] ELSE req
    /\ frames' = IF where = "none" THEN [frames EXCEPT ![r] = <<>>] ELSE frames

\* The middleware has finished with the run, and its browser.
End(r, where) == Gone(r, IF gone[r] THEN "none" ELSE where, FALSE)
Leave(r) == Gone(r, IF at[r] \in Ended THEN "none" ELSE at[r], at[r] \notin Ended)

\* The generator runs from one yield to the next: it yields the frames fs, or
\* goes on without yielding.
Yield(r, fs) ==
    /\ frames' = [frames EXCEPT ![r] = @ \o fs]
    /\ paused' = [paused EXCEPT ![r] = TRUE]

Silent(r) ==
    /\ paused' = [paused EXCEPT ![r] = FALSE]
    /\ UNCHANGED frames

\* An HTTP attempt of a provider is counted in the sink that is bound now.
Counted(r) ==
    LET owner == sink[req[r].backend]
    IN  IF Provider(r)
        THEN /\ requests' = IF owner = None THEN requests
                            ELSE [requests EXCEPT ![owner] = @ \cup {r}]
             /\ uncounted' = [uncounted EXCEPT ![r] = @ \/ owner # r]
        ELSE UNCHANGED <<requests, uncounted>>

\* What a provider does for a request: "none" if it cannot run the sampler,
\* otherwise "native", or "combined" if the capability flag of its model says
\* that it streams the prompt's rows too.
Supported == {"none", "native", "combined"}

\* use_combined and the branches after it, for a request with or without the
\* prompt's rows.
Way(b, include, support) ==
    CASE b \in Hosts -> "remote"
      [] b \in Providers /\ support = "combined" /\ include -> "combined"
      [] b \in Providers /\ support # "none" -> "native"
      [] OTHER -> "steps"

\* The run is about to make an HTTP request or a forward pass, and waits for it.
Asking(r) ==
    \/ at[r] \in {"score", "open"}
    \/ at[r] = "stream" /\ req[r].way = "steps" /\ LastReason(r) = "none"

-----------------------------------------------------------------------------
(***************************************************************************)
(* The route.                                                              *)
(***************************************************************************)
\* POST /api/v1/generate/stream.
Post(r, q) ==
    /\ req' = [req EXCEPT ![r] = q]
    /\ Goto(r, "check")

\* Stop texts are resolved under the name's lock, which is let go again; a
\* chat-only backend, a bad sampler or an upstream error answers the request.
Check(r) ==
    /\ at[r] = "check"
    /\ Lock(r) = None
    /\ \/ Goto(r, "queued") /\ UNCHANGED <<req, gone, frames>>
       \/ End(r, "refused")
    /\ UNCHANGED <<paused, callVars, runVars>>

\* A defect: the body does not take the name's lock again.
AcquireUnlocked(r) ==
    /\ at[r] = "queued"
    /\ lock' = [lock EXCEPT ![req[r].backend] = r]
    /\ sink' = IF Provider(r) THEN [sink EXCEPT ![req[r].backend] = r] ELSE sink
    /\ Goto(r, IF req[r].way = "combined" THEN "open"
               ELSE IF req[r].include THEN "score"
               ELSE IF req[r].way = "native" THEN "open" ELSE "stream")
    /\ Silent(r)
    /\ UNCHANGED <<req, gone, tries, requests, uncounted, runVars>>

\* The body takes the lock for all of its stream, and binds its usage dict.
Acquire(r) ==
    /\ at[r] = "queued"
    /\ Lock(r) = None
    /\ lock' = [lock EXCEPT ![req[r].backend] = r]
    /\ sink' = IF Provider(r) THEN [sink EXCEPT ![req[r].backend] = r] ELSE sink
    /\ Goto(r, IF req[r].way = "combined" THEN "open"
               ELSE IF req[r].include THEN "score"
               ELSE IF req[r].way = "native" THEN "open" ELSE "stream")
    /\ Silent(r)
    /\ UNCHANGED <<req, gone, tries, requests, uncounted, runVars>>

-----------------------------------------------------------------------------
(***************************************************************************)
(* HTTP requests to a provider, and the prompt's rows.                     *)
(***************************************************************************)
\* A defect: one retry too many.
RetryOnceMore(r) ==
    /\ Asking(r) /\ Provider(r)
    /\ tries' = [tries EXCEPT ![r] = @ + 1]
    /\ tries[r] <= MaxRetries
    /\ Counted(r)
    /\ Silent(r)
    /\ UNCHANGED <<req, at, gone, lock, sink, runVars>>

\* 429, 502, 503 or 504, and another attempt after a pause.
Retry(r) ==
    /\ Asking(r) /\ Provider(r)
    /\ tries[r] < MaxRetries
    /\ tries' = [tries EXCEPT ![r] = @ + 1]
    /\ Counted(r)
    /\ Silent(r)
    /\ UNCHANGED <<req, at, gone, lock, sink, runVars>>

\* _emit_prompt_score: the frame is yielded, with the rows or with a note.
ScorePrompt(r) ==
    /\ at[r] = "score"
    /\ \E rows \in BOOLEAN : Yield(r, <<Score(rows)>>)
    /\ Counted(r)
    /\ tries' = [tries EXCEPT ![r] = 0]
    /\ Goto(r, IF req[r].way = "native" THEN "open" ELSE "stream")
    /\ UNCHANGED <<req, gone, lock, sink, runVars>>

\* The provider accepts the stream request.
OpenStream(r) ==
    /\ at[r] = "open"
    /\ Counted(r)
    /\ tries' = [tries EXCEPT ![r] = 0]
    /\ Goto(r, "stream")
    /\ Silent(r)
    /\ UNCHANGED <<req, gone, lock, sink, runVars>>

\* The request fails for good, the connection breaks, a stream falls silent
\* until its read timeout, or the host ends it with an error.
Break(r) ==
    /\ at[r] \in {"open", "stream"}
    /\ IF Asking(r) THEN Counted(r) ELSE UNCHANGED <<requests, uncounted>>
    /\ tries' = [tries EXCEPT ![r] = 0]
    /\ failed' = [failed EXCEPT ![r] = TRUE]
    /\ Goto(r, "close")
    /\ Silent(r)
    /\ UNCHANGED <<req, gone, lock, sink, got, finish>>

-----------------------------------------------------------------------------
(***************************************************************************)
(* "steps" and "remote": the decoding loop runs here or on the host, and   *)
(* each of its steps is a frame at once.                                   *)
(***************************************************************************)
\* generate in core/engine.py: one distribution, one decision, one step.
Decode(r) ==
    /\ at[r] = "stream" /\ req[r].way \in {"remote", "steps"}
    /\ LastReason(r) = "none"
    /\ got[r] < req[r].want
    /\ IF Asking(r) THEN Counted(r) ELSE UNCHANGED <<requests, uncounted>>
    /\ tries' = [tries EXCEPT ![r] = 0]
    /\ got' = [got EXCEPT ![r] = @ + 1]
    /\ \E reason \in Reasons :
          /\ reason = "none" => got'[r] < req[r].want
          /\ reason = "max_tokens" => got'[r] = req[r].want
          /\ finish' = [finish EXCEPT ![r] = reason]
          /\ Yield(r, <<Step(got'[r], reason)>>)
          /\ Goto(r, IF req[r].way = "steps" /\ reason # "none" THEN "close" ELSE "stream")
    /\ UNCHANGED <<req, gone, lock, sink, failed>>

\* The host's done event, or a distribution without candidates.
DecodeEnds(r) ==
    /\ at[r] = "stream" /\ req[r].way \in {"remote", "steps"}
    /\ IF Asking(r) THEN Counted(r) ELSE UNCHANGED <<requests, uncounted>>
    /\ tries' = [tries EXCEPT ![r] = 0]
    /\ Goto(r, "close")
    /\ Silent(r)
    /\ UNCHANGED <<req, gone, lock, sink, runVars>>

-----------------------------------------------------------------------------
(***************************************************************************)
(* "native" and "combined": one token is held back, because only the end   *)
(* of the stream tells how the last one finished.  "combined" yields the   *)
(* prompt's rows before the first step.                                    *)
(***************************************************************************)
\* The rows, if they have not been sent, and the step of the held token.
Held(r, reason) ==
    (IF req[r].way = "combined" /\ frames[r] = <<>> THEN <<Score(TRUE)>> ELSE <<>>)
        \o (IF got[r] > 0 THEN <<Step(got[r], reason)>> ELSE <<>>)

Token(r) ==
    /\ at[r] = "stream" /\ req[r].way \in {"native", "combined"}
    /\ got[r] < req[r].want
    /\ got' = [got EXCEPT ![r] = @ + 1]
    /\ IF got[r] = 0 THEN Silent(r) ELSE Yield(r, Held(r, "none"))
    /\ UNCHANGED <<req, at, gone, callVars, finish, failed>>

\* A defect: the end of the stream drops the token that is held back.
StreamEndsUnflushed(r) ==
    /\ at[r] = "stream" /\ req[r].way \in {"native", "combined"}
    /\ \E reason \in {"none", "stop", "max_tokens"} :
          /\ reason = "max_tokens" => got[r] = req[r].want
          /\ finish' = [finish EXCEPT ![r] = reason]
    /\ Silent(r)
    /\ Goto(r, "close")
    /\ UNCHANGED <<req, gone, callVars, got, failed>>

\* [DONE]: finish_reason was "length", "stop", or missing.
StreamEnds(r) ==
    /\ at[r] = "stream" /\ req[r].way \in {"native", "combined"}
    /\ \E reason \in {"none", "stop", "max_tokens"} :
          /\ reason = "max_tokens" => got[r] = req[r].want
          /\ finish' = [finish EXCEPT ![r] = reason]
          /\ IF Held(r, reason) = <<>> THEN Silent(r) ELSE Yield(r, Held(r, reason))
    /\ Goto(r, "close")
    /\ UNCHANGED <<req, gone, callVars, got, failed>>

-----------------------------------------------------------------------------
(***************************************************************************)
(* The closing frames, and a browser that is gone.                         *)
(***************************************************************************)
\* The generator's locals go with it.
Forget(r) ==
    /\ tries' = [tries EXCEPT ![r] = 0]
    /\ requests' = [requests EXCEPT ![r] = {}]
    /\ uncounted' = [uncounted EXCEPT ![r] = FALSE]
    /\ got' = [got EXCEPT ![r] = 0]
    /\ finish' = [finish EXCEPT ![r] = "none"]
    /\ failed' = [failed EXCEPT ![r] = FALSE]
    /\ paused' = [paused EXCEPT ![r] = FALSE]

Unbind(r) ==
    sink' = IF Provider(r) THEN [sink EXCEPT ![req[r].backend] = None] ELSE sink

\* The finally clause, and the two closing frames with nothing between them.
Close(r) ==
    /\ at[r] = "close"
    /\ Unbind(r)
    /\ Yield(r, <<Usage(requests[r]), Done(LastReason(r), failed[r])>>)
    /\ Goto(r, "done")
    /\ UNCHANGED <<req, gone, lock, tries, requests, uncounted, runVars>>

Return(r) ==
    /\ at[r] = "done"
    /\ lock' = [lock EXCEPT ![req[r].backend] = None]
    /\ End(r, "over")
    /\ Forget(r)
    /\ UNCHANGED sink

\* GeneratorExit at a yield, or a body that never ran: the finally clause and
\* the with block are left, and the upstream connection with them.
Abandon(r) ==
    /\ gone[r]
    /\ at[r] = "queued" \/ paused[r]
    /\ lock' = IF at[r] = "queued" THEN lock ELSE [lock EXCEPT ![req[r].backend] = None]
    /\ IF at[r] \in {"queued", "done"} THEN UNCHANGED sink ELSE Unbind(r)
    /\ End(r, "over")
    /\ Forget(r)

\* Everything the middleware does for a run.
Serve(r) ==
    \/ Check(r) \/ Acquire(r) \/ Retry(r) \/ ScorePrompt(r) \/ OpenStream(r)
    \/ Break(r) \/ Decode(r) \/ DecodeEnds(r) \/ Token(r) \/ StreamEnds(r)
    \/ Close(r) \/ Return(r) \/ Abandon(r)

-----------------------------------------------------------------------------
(***************************************************************************)
(* Properties.                                                             *)
(***************************************************************************)
Frames ==
    [event : {"prompt_score"}, rows : BOOLEAN]
        \cup [event : {"step"}, n : 1 .. MaxTokens, reason : Reasons]
        \cup [event : {"usage"}, requests : SUBSET Runs]
        \cup [event : {"done"}, reason : Reasons, error : BOOLEAN]

Requests ==
    [backend : Backends, way : {"remote", "native", "combined", "steps"},
     include : BOOLEAN, want : 1 .. MaxTokens,
     manual : BOOLEAN, prefix : Seq(Ids)]

Remainders == {NoRequest} \cup
    [backend : Backends, way : {"none"}, include : {FALSE}, want : {0},
     manual : {FALSE}, prefix : Seq(Ids)]

StreamTypeOK ==
    /\ req \in [Runs -> Requests \cup Remainders]
    /\ at \in [Runs -> {"none", "check", "queued", "score", "open", "stream",
                        "close", "done"} \cup Ended]
    /\ paused \in [Runs -> BOOLEAN] /\ gone \in [Runs -> BOOLEAN]
    /\ lock \in [Backends -> Runs \cup {None}]
    /\ sink \in [Backends -> Runs \cup {None}]
    /\ tries \in [Runs -> 0 .. MaxRetries]
    /\ requests \in [Runs -> SUBSET Runs] /\ uncounted \in [Runs -> BOOLEAN]
    /\ got \in [Runs -> 0 .. MaxTokens]
    /\ finish \in [Runs -> Reasons]
    /\ failed \in [Runs -> BOOLEAN]
    /\ frames \in [Runs -> Seq(Frames)]

\* The steps among a run's frames lie between the prompt's rows and the two
\* closing frames.
Scored(r) == frames[r] # <<>> /\ frames[r][1].event = "prompt_score"
Closed(r) == frames[r] # <<>> /\ Last(frames[r]).event = "done"
Before(r) == IF Scored(r) THEN 1 ELSE 0
StepsOf(r) == Len(frames[r]) - Before(r) - (IF Closed(r) THEN 2 ELSE 0)
NthStep(r, i) == frames[r][Before(r) + i]

\* The frames of a run are prompt_score?, steps 1, 2, ..., usage, done, in every
\* way to generate (stream_generate 164-165): the prompt's rows come if they
\* were asked for, unless a combined stream broke before them; a run that was
\* not abandoned ends with done, which repeats the last step's reason; without
\* an error every token of the upstream is a step and that reason is the
\* upstream's, and an error costs the token held back at most.
Delivered ==
    \A r \in Runs :
        LET f == frames[r]
            n == StepsOf(r)
            last == IF n = 0 THEN "none" ELSE NthStep(r, n).reason
        IN  /\ n >= 0
            /\ \A i \in 1 .. n :
                  /\ NthStep(r, i).event = "step" /\ NthStep(r, i).n = i
                  /\ i < n => NthStep(r, i).reason = "none"
            /\ Closed(r) => f[Len(f) - 1].event = "usage"
            /\ Scored(r) => req[r].include
            /\ at[r] = "done" =>
                  /\ Last(f) = Done(last, failed[r])
                  /\ req[r].include =>
                        Scored(r) \/ (failed[r] /\ req[r].way = "combined")
                  /\ ~failed[r] => n = got[r] /\ (n > 0 => last = finish[r])
                  /\ got[r] - 1 <= n

\* Runs on one backend stay apart: only one at a time uses it, from before its
\* first request to its last frame, under the lock of the backend's name, and a
\* run that is over, closed, or never began has no lock (generate_stream's
\* body).  So the usage frame of a run counts all its own HTTP attempts and no
\* other's, whoever was closed in between, and no usage dict stays bound when
\* its run is over (core/usage.py 18-23, stream_generate 124-136).
RunsStayApart ==
    LET Using(r) == at[r] \in {"score", "open", "stream", "close", "done"}
    IN  /\ \A r \in Runs, b \in Backends :
              (Using(r) /\ req[r].backend = b) <=> lock[b] = r
        /\ \A r \in Runs : at[r] = "done" =>
              /\ frames[r][Len(frames[r]) - 1].requests \subseteq {r}
              /\ ~uncounted[r]
        /\ \A b \in Backends : sink[b] # None => lock[b] = sink[b]
=============================================================================
