------------------------------- MODULE StreamLog -------------------------------
(***************************************************************************)
(* The log entry of one upstream request: what LoggingTransport            *)
(* (dsbx/web/logging/transport.py) makes of a response, and for a streamed *)
(* one what aggregate_stream (dsbx/web/logging/aggregator.py) folds its    *)
(* captured frames into.                                                   *)
(*                                                                         *)
(* A frame is [kind, event, choices, recs, finish, usage, error].  kind is *)
(* "json", "junk" for a payload that does not parse, or "done" for [DONE]; *)
(* event is "none" in a frame of a provider, and choices says whether it   *)
(* has that key.  recs are its token positions, and of a chat's deltas,    *)
(* which no client of this repository asks for, nothing is kept.           *)
(***************************************************************************)
EXTENDS ProviderCall

Joined(recs) == Text([k \in DOMAIN recs |-> recs[k].piece])

\* The reasons a response ends for, and what a usage report has.
Reasons == {"length", "stop", "max_tokens", "eos"}
Usages == [prompt : Nat, completion : Nat]

ASSUME LogAssumption == None \notin Reasons \cup {"dsbx", "openai"} \cup Usages

Blank == [kind |-> "json", event |-> "none", choices |-> FALSE, recs |-> <<>>,
          finish |-> None, usage |-> None, error |-> FALSE]

\* A defect: a later frame overwrites with null too.
LastOf(values) == IF values = <<>> THEN None ELSE Last(values)

Given(values) == FlattenSeq([k \in DOMAIN values |-> IF values[k] = None THEN <<>> ELSE <<values[k]>>])

\* The last value that is not null: a later frame overwrites an earlier one.
LatestOf(values) == IF Given(values) = <<>> THEN None ELSE Last(Given(values))

ParseFrames(captured) ==
    FlattenSeq([k \in DOMAIN captured |-> IF captured[k].kind = "json" THEN <<captured[k]>> ELSE <<>>])

\* The first frame that has an event or choices tells the shape.
DetectShape(frames) ==
    LET shape(f) == IF f.event # "none" THEN "dsbx" ELSE IF f.choices THEN "openai" ELSE None
        told == Given([k \in DOMAIN frames |-> shape(frames[k])])
    IN  IF told = <<>> THEN "openai" ELSE Head(told)

\* One choice: texts are joined, the arrays of the logprobs extended, and the
\* last finish_reason and usage kept.  An error object is kept in the body only.
MergeOpenAI(frames) ==
    LET recs == FlattenSeq([k \in DOMAIN frames |-> frames[k].recs])
    IN  [text |-> Joined(recs),
         positions |-> Len(recs),
         finish |-> LatestOf([k \in DOMAIN frames |-> frames[k].finish]),
         usage |-> LatestOf([k \in DOMAIN frames |-> frames[k].usage]),
         error |-> FALSE]

\* Steps are joined, and the usage, stop_reason and error are those of the
\* events of that name.
MergeDsbx(frames) ==
    LET steps == FlattenSeq([k \in DOMAIN frames |->
                     IF frames[k].event = "step" THEN frames[k].recs ELSE <<>>])
    IN  [text |-> Joined(steps),
         positions |-> Len(steps),
         finish |-> LatestOf([k \in DOMAIN frames |->
                        IF frames[k].event = "done" THEN frames[k].finish ELSE None]),
         usage |-> LatestOf([k \in DOMAIN frames |->
                       IF frames[k].event = "usage" THEN frames[k].usage ELSE None]),
         error |-> \E k \in DOMAIN frames : frames[k].event = "done" /\ frames[k].error]

AggregateStream(captured) ==
    LET frames == ParseFrames(captured)
    IN  IF DetectShape(frames) = "dsbx" THEN MergeDsbx(frames) ELSE MergeOpenAI(frames)

-----------------------------------------------------------------------------
\* A streamed response, when its body ends, fails or is closed: an error is
\* one that the stream tells of, or an exception while it was read.
StreamedEntry(captured, broken) ==
    LET merged == AggregateStream(captured)
    IN  [merged EXCEPT !.error = @ \/ broken]

\* A response that is not streamed, with its usage if it was a success; or no
\* response.
PlainEntry(usage, error) ==
    [text |-> <<>>, positions |-> 0, finish |-> None, usage |-> usage, error |-> error]
=============================================================================
