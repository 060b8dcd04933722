-------------------------- MODULE ProviderStreamProofs --------------------------
(***************************************************************************)
(* The safety invariants of ProviderStream, for every provider, every set  *)
(* of asks and every bound.  They are built in layers:                     *)
(*   Shape      the types, and what goes with each stage of a call;        *)
(*   Ordering   every position sent is in one place, in its order;         *)
(*   Echoes     where the echo of a prompt ends;                           *)
(*   Knowing    each id names its piece, so the context is the one shown;  *)
(*   Polite     what is sent is what the provider takes;                   *)
(*   Charging   (Shape) the sink adds up what the responses report;        *)
(*   Streaming  (Echoes) how the stream ends, in the frames and the steps; *)
(*   Delivering and Logging carry the two results on when the reader is    *)
(*              gone.                                                      *)
(***************************************************************************)
EXTENDS ProviderStreamLemmas
-----------------------------------------------------------------------------
(***************************************************************************)
(* The invariant Shape, action by action.                                  *)
(***************************************************************************)
LEMMA BodyStays ==
    ASSUME Shape, p' = p, q' = q, http'.body = http.body, up' = up,
           at # "idle", at' # "idle", at' = "open" => at = "open"
    PROVE  BodyOK' /\ PromptSent'
<1>1. Pieces' = Pieces
    BY DEF Pieces
<1>2. FirstSent' = FirstSent
    BY <1>1 DEF FirstSent
<1>3. Streamed' <=> Streamed
    BY DEF Streamed
<1>4. BodyFits(http.body)' /\ (at = "open" \/ Streamed => StreamBodyFits(http.body, q)')
    BY DEF Shape, Control, BodyOK, BodyFits, StreamBodyFits
<1>5. BodyOK'
    BY <1>3, <1>4 DEF BodyOK
<1>6. PromptSent'
    BY <1>1, <1>2, <1>3 DEF Shape, Control, PromptSent
<1> QED
    BY <1>5, <1>6

\* A step that keeps the call, and makes the instance grow, keeps what is known
\* of the call.
LEMMA CallStays ==
    ASSUME Shape, p' = p, q' = q, shown' = shown, at # "idle", inst' \in Insts, Grows(inst, inst'),
           at' = "step" => at = "step"
    PROVE  CallOK'
<1>1. Ready(inst) <=> Ready(inst')
    BY DEF Grows, Ready
<1>2. Knows(inst, q.prompt) => Knows(inst', q.prompt)
    BY KnowsStays DEF Shape, Control, Types
<1>3. Asked(q)' <=> Asked(q)
    BY DEF Asked
<1> QED
    BY <1>1, <1>2, <1>3 DEF CallOK, Shape, Control

\* An instance that did not change did grow, in the sense of Grows.
LEMMA SameInst ==
    ASSUME Shape, inst' = inst
    PROVE  inst' \in Insts /\ Grows(inst, inst')
BY GrowsOrder DEF Shape, Control, Types

LEMMA ReaderStays ==
    ASSUME Shape, p' = p, rd' = rd, wire' = wire
    PROVE  FramesFit'
<1>1. \A f : FrameOK(f)' <=> FrameOK(f)
    BY DEF FrameOK
<1> QED
    BY <1>1 DEF Shape, FramesFit, FrameOK, HostFrame, ProviderFrame

\* Shape holds at the start; then each action keeps it, one lemma per action.
LEMMA ShapeInit == Init => Shape
<1> SUFFICES ASSUME Init PROVE Shape
    OBVIOUS
<1>1. Types
    <2>1. NewInstance \in Insts /\ NoUp \in Uppers /\ NewReader \in Readers /\ NoSink \in Sinks
          /\ Len(NewReader.held) = 0 /\ Len(NewReader.buf) = 0
        BY Usable
    <2>2. <<>> \in Seq(Frames) /\ <<>> \in Seq(Rows) /\ <<>> \in Seq(Steps) /\ <<>> \in Seq(Entries)
        OBVIOUS
    <2>3. http = [body |-> http.body, tries |-> http.tries] /\ http.tries = 0
        BY DEF Init, NoHttp
    <2>4. 0 \in 0 .. MaxRetries /\ 0 <= 1 /\ 0 <= 2
        BY StreamAssumption
    <2> QED
        BY <2>1, <2>2, <2>3, <2>4 DEF Init, Types
<1>2. up.phase = "closed" /\ at = "idle"
    BY DEF Init, NoUp
<1>3. Resting
    BY <1>2 DEF Init, Resting
<1>4. CallOK /\ BodyOK /\ PromptSent
    BY <1>2 DEF CallOK, BodyOK, PromptSent, Streamed
<1>5. FramesFit
    BY Usable DEF Init, FramesFit
<1> QED
    BY <1>1, <1>3, <1>4, <1>5 DEF Shape, Control

\* A call that goes on to its tokens is as it should be.
LEMMA EntersShape ==
    ASSUME p \in Provider, p' = p, NEW i \in Insts, Asked(q'), p.completions, q'.picked \in Seq(shown'),
           Len(q'.picked) <= 1, q'.picks = [j \in DOMAIN q'.picked |-> q'.picked[j].id],
           q'.prepend # <<>> => Ready(i), NEW s \in Sinks, EnterDecoding(i, q', s),
           up' = up, up.phase = "closed"
    PROVE  /\ at' \in {"step", "open"}
           /\ CallOK' /\ BodyOK' /\ PromptSent'
           /\ inst' \in Insts /\ Grows(i, inst')
           /\ sink' \in Sinks
           /\ http' = [body |-> http'.body, tries |-> http'.tries] /\ http'.tries \in 0 .. MaxRetries
<1>1. /\ at' \in {"step", "open"} /\ (at' = "step" <=> q'.way = "steps")
      /\ inst' \in Insts /\ Grows(i, inst')
      /\ at' = "step" => Knows(inst', q'.prompt)
      /\ sink' \in Sinks
      /\ http' = [body |-> http'.body, tries |-> http'.tries]
      /\ http'.tries = 0 /\ BodyFits(http'.body)
      /\ at' = "open" => StreamBodyFits(http'.body, q')
    BY Enters
<1>2. Ready(inst') <=> Ready(i)
    BY <1>1 DEF Grows, Ready
<1>3. Asked(q)'
    BY DEF Asked
<1>4. CallOK'
    BY <1>1, <1>2, <1>3 DEF CallOK
<1>5. ~Streamed'
    BY DEF Streamed
<1>6. BodyFits(http.body)' /\ (at' = "open" => StreamBodyFits(http.body, q)')
    BY <1>1 DEF BodyFits, StreamBodyFits
<1>7. BodyOK'
    BY <1>1, <1>5, <1>6 DEF BodyOK
<1>8. PromptSent'
    BY <1>5 DEF PromptSent
<1>9. 0 \in 0 .. MaxRetries
    BY StreamAssumption
<1> QED
    BY <1>1, <1>4, <1>7, <1>8, <1>9

\* The call of an ask, and the instance that it finds.
LEMMA AskCall ==
    ASSUME Shape, Ask
    PROVE  /\ p.completions
           /\ \E i \in EnsureTokenizer(p, inst) :
                 /\ i \in Insts /\ Asked(q')
                 /\ q'.picked \in Seq(shown) /\ Len(q'.picked) <= 1
                 /\ q'.picks = [j \in DOMAIN q'.picked |-> q'.picked[j].id]
                 /\ q'.prepend # <<>> => Ready(i)
                 /\ Scores(q') => /\ at' = "score" /\ inst' = i /\ sink' = NoSink
                                  /\ http' = [body |-> BodyAt("score", i, q', <<>>), tries |-> 0]
                 /\ ~Scores(q') => EnterDecoding(i, q', NoSink)
<1>0. /\ p \in Provider /\ p' = p /\ inst \in Insts /\ shown \subseteq Shows /\ up.phase = "closed" /\ up' = up
      /\ at = "idle" /\ shown' = shown
    BY DEF Shape, Control, Types, Resting, Ask
<1>1. PICK ask \in Asks, i \in EnsureTokenizer(p, inst), picked \in {<<>>} \cup {<<s>> : s \in shown} :
          LET full == [prompt |-> ask.prompt, prepend |-> ask.prepend,
                       picks |-> [j \in DOMAIN picked |-> picked[j].id],
                       picked |-> picked, sampler |-> ask.sampler, include |-> ask.include,
                       respectEos |-> ask.respectEos, want |-> ask.want, top |-> ask.top,
                       echoLast |-> ask.echoLast, extras |-> ask.extras,
                       penalties |-> ask.penalties, way |-> Way(p, ask)]
              call == Admitted(p, i, full)
          IN  /\ q' = call
              /\ IF Scores(call)
                 THEN /\ at' = "score" /\ inst' = i /\ sink' = NoSink
                      /\ http' = [body |-> BodyAt("score", i, call, <<>>), tries |-> 0]
                 ELSE EnterDecoding(i, call, NoSink)
    BY DEF Ask
<1> DEFINE full == [prompt |-> ask.prompt, prepend |-> ask.prepend,
                    picks |-> [j \in DOMAIN picked |-> picked[j].id],
                    picked |-> picked, sampler |-> ask.sampler, include |-> ask.include,
                    respectEos |-> ask.respectEos, want |-> ask.want, top |-> ask.top,
                    echoLast |-> ask.echoLast, extras |-> ask.extras,
                    penalties |-> ask.penalties, way |-> Way(p, ask)]
           call == Admitted(p, i, full)
<1>2. /\ full.prompt = ask.prompt /\ full.prepend = ask.prepend /\ full.picked = picked
      /\ full.picks = [j \in DOMAIN picked |-> picked[j].id] /\ full.sampler = ask.sampler
      /\ full.include = ask.include /\ full.respectEos = ask.respectEos /\ full.want = ask.want
      /\ full.top = ask.top /\ full.echoLast = ask.echoLast /\ full.extras = ask.extras
      /\ full.penalties = ask.penalties /\ full.way = Way(p, ask)
    OBVIOUS
<1>3. /\ q' = call
      /\ Scores(call) => /\ at' = "score" /\ inst' = i /\ sink' = NoSink
                         /\ http' = [body |-> BodyAt("score", i, call, <<>>), tries |-> 0]
      /\ ~Scores(call) => EnterDecoding(i, call, NoSink)
    BY <1>1
<1>4. call = full \/ (call = [full EXCEPT !.prepend = <<>>])
    BY DEF Admitted
<1>5. call.prepend # <<>> => Ready(i) /\ p.completions
    <2>1. [full EXCEPT !.prepend = <<>>].prepend = <<>>
        OBVIOUS
    <2> HIDE DEF full
    <2> QED
        BY <2>1 DEF Admitted, Capabilities
<1>6. /\ call.prompt = full.prompt /\ call.prepend \in {<<>>, full.prepend} /\ call.picked = full.picked
      /\ call.picks = full.picks /\ call.sampler = full.sampler
      /\ call.include = full.include /\ call.respectEos = full.respectEos /\ call.want = full.want
      /\ call.top = full.top /\ call.echoLast = full.echoLast /\ call.extras = full.extras
      /\ call.penalties = full.penalties /\ call.way = full.way
    BY <1>4
<1> HIDE DEF full, call
<1>7. i \in Insts
    <2>1. CASE p.host
        BY <1>0, <2>1 DEF EnsureTokenizer, Insts
    <2>2. CASE ~p.host /\ inst.tokenizer # "untried"
        BY <1>0, <2>2 DEF EnsureTokenizer
    <2>3. CASE ~p.host /\ inst.tokenizer = "untried"
        <3>1. PICK t \in {"absent", "ready"} : i = [inst EXCEPT !.tokenizer = t]
            BY <2>3 DEF EnsureTokenizer
        <3> QED
            BY <1>0, <3>1 DEF Insts
    <2> QED
        BY <2>1, <2>2, <2>3
<1>8. picked \in Seq(shown) /\ Len(picked) <= 1
    <2>1. CASE picked = <<>>
        BY <2>1
    <2>2. CASE picked # <<>>
        <3>1. PICK s \in shown : picked = <<s>>
            BY <2>2
        <3> QED
            BY <3>1
    <2> QED
        BY <2>1, <2>2
<1>9. call.picks \in Seq(Nat)
    <2>1. call.picks = [j \in DOMAIN picked |-> picked[j].id]
        BY <1>2, <1>6
    <2>2. DOMAIN picked = 1 .. Len(picked) /\ Len(picked) \in Nat
        BY <1>8
    <2>3. \A j \in DOMAIN picked : picked[j] \in shown
        BY <1>8
    <2>4. \A j \in DOMAIN picked : picked[j].id \in Nat
        BY <1>0, <2>3 DEF Shows
    <2> DEFINE s == [j \in DOMAIN picked |-> picked[j].id]
    <2>5. s \in [1 .. Len(picked) -> Nat]
        BY <2>2, <2>4
    <2> HIDE DEF s
    <2>6. s \in Seq(Nat)
        BY <2>2, <2>5
    <2> QED
        BY <2>1, <2>6 DEF s
<1>10. Way(p, call) = Way(p, ask)
    BY <1>2, <1>6 DEF Way, SupportsNative
<1>11. Asked(call)
    <2>1. /\ ask.prompt \in Seq(Tokens) /\ ask.prepend \in Seq(Tokens)
          /\ ask.include \in BOOLEAN /\ ask.respectEos \in BOOLEAN
          /\ ask.want \in Nat /\ ask.top \in Int /\ ask.echoLast \in (Nat \ {0}) \cup {None}
          /\ ask.extras \subseteq Flags /\ ask.penalties \subseteq {"repetition_penalty"}
        BY AsksAssumption DEF Tokens
    <2>2. <<>> \in Seq(Tokens)
        OBVIOUS
    <2> QED
        BY <1>2, <1>6, <1>9, <1>10, <2>1, <2>2 DEF Asked
<1>12. p.completions
    BY <1>0, ProviderAssumption DEF Ask, Capabilities
<1>13. /\ call.picked \in Seq(shown) /\ Len(call.picked) <= 1
       /\ call.picks = [j \in DOMAIN call.picked |-> call.picked[j].id]
    BY <1>2, <1>6, <1>8
<1> QED
    BY <1>3, <1>5, <1>7, <1>11, <1>12, <1>13

LEMMA AskShape == ASSUME Shape, Ask PROVE Shape'
<1>0. /\ p \in Provider /\ p' = p /\ inst \in Insts /\ shown \subseteq Shows /\ up.phase = "closed" /\ up' = up
      /\ at = "idle" /\ shown' = shown
    BY DEF Shape, Control, Types, Resting, Ask
<1>1. PICK i \in EnsureTokenizer(p, inst) :
                 /\ i \in Insts /\ Asked(q')
                 /\ q'.picked \in Seq(shown) /\ Len(q'.picked) <= 1
                 /\ q'.picks = [j \in DOMAIN q'.picked |-> q'.picked[j].id]
                 /\ q'.prepend # <<>> => Ready(i)
                 /\ Scores(q') => /\ at' = "score" /\ inst' = i /\ sink' = NoSink
                                  /\ http' = [body |-> BodyAt("score", i, q', <<>>), tries |-> 0]
                 /\ ~Scores(q') => EnterDecoding(i, q', NoSink)
    BY AskCall
<1> DEFINE call == q'
<1>3. /\ Scores(call) => /\ at' = "score" /\ inst' = i /\ sink' = NoSink
                         /\ http' = [body |-> BodyAt("score", i, call, <<>>), tries |-> 0]
      /\ ~Scores(call) => EnterDecoding(i, call, NoSink)
    BY <1>1
<1>5. call.prepend # <<>> => Ready(i)
    BY <1>1
<1>7. i \in Insts
    BY <1>1
<1>11. Asked(call) /\ call = q'
    BY <1>1
<1>12. p.completions
    BY AskCall
<1>13. /\ call.picked \in Seq(shown) /\ Len(call.picked) <= 1
       /\ call.picks = [j \in DOMAIN call.picked |-> call.picked[j].id]
    BY <1>1
<1> HIDE DEF call
<1>14. NoSink \in Sinks
    BY Usable
<1>15. /\ at' \in {"score", "step", "open"}
       /\ CallOK' /\ BodyOK' /\ PromptSent'
       /\ inst' \in Insts /\ sink' \in Sinks
       /\ http' = [body |-> http'.body, tries |-> http'.tries] /\ http'.tries \in 0 .. MaxRetries
    <2>1. CASE ~Scores(call)
        BY <1>0, <1>3, <1>5, <1>7, <1>11, <1>12, <1>13, <1>14, <2>1, EntersShape
    <2>2. CASE Scores(call)
        <3>1. at' = "score" /\ inst' = i /\ sink' = NoSink /\ ~Streamed' /\ q' = call
            BY <1>0, <1>3, <1>11, <2>2 DEF Streamed
        <3>2. http' = [body |-> BodyAt("score", i, call, <<>>), tries |-> 0]
            BY <1>3, <2>2
        <3> DEFINE b == BodyAt("score", i, call, <<>>)
        <3>3. BodyFits(b)
            <4>1. <<>> \in Seq(Nat)
                OBVIOUS
            <4> QED
                BY <1>0, <1>7, <1>11, <4>1, BodyOfCall
        <3> HIDE DEF b
        <3>4. http'.body = b /\ http'.tries = 0 /\ http' = [body |-> http'.body, tries |-> http'.tries]
            BY <3>2 DEF b
        <3>5. BodyFits(http.body)'
            BY <1>0, <3>3, <3>4 DEF BodyFits
        <3>6. BodyOK' /\ PromptSent'
            BY <3>1, <3>5 DEF BodyOK, PromptSent
        <3>7. Asked(q)'
            BY <1>0, <1>11, <3>1 DEF Asked
        <3>8. CallOK'
            BY <1>0, <1>5, <1>12, <1>13, <3>1, <3>7 DEF CallOK
        <3>9. 0 \in 0 .. MaxRetries
            BY StreamAssumption
        <3> QED
            BY <1>7, <1>14, <3>1, <3>4, <3>6, <3>8, <3>9
    <2> QED
        BY <2>1, <2>2
<1>16. UNCHANGED <<p, shown, paused, up, wire, rd, rows, steps, entries, outcome>>
    BY DEF Ask
<1>17. Types'
    BY <1>15, <1>16 DEF Types, Shape, Control
<1>18. Resting'
    BY <1>0, <1>15, <1>16 DEF Resting, Shape, Control
<1>19. FramesFit'
    BY <1>16, ReaderStays
<1> QED
    BY <1>15, <1>17, <1>18, <1>19 DEF Shape, Control

LEMMA RefuseShape == ASSUME Shape, Refuse PROVE Shape'
<1>1. /\ at = "idle" /\ up.phase = "closed"
      /\ UNCHANGED <<p, inst, shown, q, at, paused, http, up, wire, rd, rows, steps, sink, entries, outcome>>
    BY DEF Refuse, Shape, Control, Resting
<1>2. Types' /\ Resting'
    BY <1>1 DEF Types, Resting, Shape, Control
<1>3. CallOK' /\ BodyOK' /\ PromptSent'
    BY <1>1 DEF CallOK, BodyOK, PromptSent, Streamed
<1>4. FramesFit'
    BY <1>1, ReaderStays
<1> QED
    BY <1>2, <1>3, <1>4 DEF Shape, Control

\* A step of a call that leaves its instance, body and response alone.
LEMMA CallGoesOn ==
    ASSUME Shape, at # "idle", at' # "idle", at' = "open" => at = "open", at' = "step" => at = "step",
           http'.body = http.body, UNCHANGED <<p, inst, shown, q, up>>
    PROVE  CallOK' /\ BodyOK' /\ PromptSent'
<1>1. BodyOK' /\ PromptSent'
    BY BodyStays
<1>2. inst' \in Insts /\ Grows(inst, inst')
    BY SameInst
<1>3. CallOK'
    BY <1>2, CallStays
<1> QED
    BY <1>1, <1>3

LEMMA Attempt ==
    ASSUME Shape
    PROVE  /\ PlainEntry(None, TRUE) \in Entries
           /\ Append(entries, PlainEntry(None, TRUE)) \in Seq(Entries)
           /\ RecordRequest(sink) \in Sinks
<1>1. PlainEntry(None, TRUE) \in Entries
    BY Usable
<1>2. sink \in Sinks /\ entries \in Seq(Entries)
    BY DEF Shape, Control, Types
<1>3. RecordRequest(sink) \in Sinks
    BY <1>2, Recorded
<1> QED
    BY <1>1, <1>2, <1>3, Appended

LEMMA BusyShape == ASSUME Shape, Busy PROVE Shape'
<1>1. /\ at \in {"score", "step", "open"} /\ paused' = FALSE
      /\ sink' = RecordRequest(sink) /\ entries' = Append(entries, PlainEntry(None, TRUE))
      /\ UNCHANGED <<p, inst, shown, left, q, at, up, wire, rd, rows, steps, outcome>>
    BY DEF Busy, Asking
<1>2. http' = [body |-> http'.body, tries |-> http'.tries] /\ http'.tries \in 0 .. MaxRetries
      /\ http'.body = http.body
    <2>1. /\ http = [body |-> http.body, tries |-> http.tries] /\ http.tries \in 0 .. MaxRetries
          /\ http.tries < MaxRetries /\ http' = [http EXCEPT !.tries = @ + 1]
        BY DEF Shape, Control, Types, Busy
    <2>2. http' = [body |-> http.body, tries |-> http.tries + 1]
        BY <2>1
    <2>3. http'.body = http.body /\ http'.tries = http.tries + 1
        BY <2>2
    <2> QED
        BY <2>1, <2>2, <2>3, StreamAssumption
<1>3. Types'
    BY <1>1, <1>2, Attempt DEF Types, Shape, Control
<1>4. Resting'
    BY <1>1 DEF Resting, Shape, Control
<1>5. CallOK' /\ BodyOK' /\ PromptSent'
    BY <1>1, <1>2, CallGoesOn
<1>6. FramesFit'
    BY <1>1, ReaderStays
<1> QED
    BY <1>3, <1>4, <1>5, <1>6 DEF Shape, Control

LEMMA FailShape == ASSUME Shape, Fail PROVE Shape'
<1>1. /\ at \in {"score", "step", "open"} /\ up.phase = "closed"
      /\ entries' = Append(entries, PlainEntry(None, TRUE))
      /\ UNCHANGED <<p, shown, left, q, up, wire, rd, rows, steps>>
    BY DEF Fail, Asking, Shape, Control, Resting
<1>2. FramesFit'
    BY <1>1, ReaderStays
<1>3. CASE at = "score"
    <2>1. EnterDecoding(inst, q, RecordRequest(sink)) /\ paused' = TRUE /\ outcome' = outcome
        BY <1>3 DEF Fail
    <2>2. /\ p \in Provider /\ Asked(q) /\ p.completions /\ q.picked \in Seq(shown) /\ Len(q.picked) <= 1
          /\ q.picks = [j \in DOMAIN q.picked |-> q.picked[j].id]
          /\ q.prepend # <<>> => Ready(inst)
          /\ inst \in Insts
        BY <1>3 DEF Shape, Control, Types, CallOK
    <2>3. RecordRequest(sink) \in Sinks
        BY Attempt
    <2>4. /\ at' \in {"step", "open"}
          /\ CallOK' /\ BodyOK' /\ PromptSent'
          /\ inst' \in Insts /\ Grows(inst, inst')
          /\ sink' \in Sinks
          /\ http' = [body |-> http'.body, tries |-> http'.tries] /\ http'.tries \in 0 .. MaxRetries
        BY <1>1, <2>1, <2>2, <2>3, EntersShape
    <2>5. Types'
        BY <1>1, <2>1, <2>4, Attempt DEF Types, Shape, Control
    <2>6. Resting'
        BY <1>1, <1>3, <2>1, <2>4 DEF Resting, Shape, Control
    <2> QED
        BY <1>2, <2>4, <2>5, <2>6 DEF Shape, Control
<1>4. CASE at # "score"
    <2>1. /\ at' = "over" /\ outcome' = "error" /\ paused' = FALSE
          /\ sink' = RecordRequest(sink) /\ UNCHANGED <<inst, http>>
        BY <1>4 DEF Fail
    <2>2. Types'
        BY <1>1, <2>1, Attempt DEF Types, Shape, Control
    <2>3. Resting'
        BY <1>1, <2>1 DEF Resting, Shape, Control
    <2>4. CallOK' /\ BodyOK' /\ PromptSent'
        BY <1>1, <2>1, CallGoesOn
    <2> QED
        BY <1>2, <2>2, <2>3, <2>4 DEF Shape, Control
<1> QED
    BY <1>3, <1>4

\* A step that only goes on, or ends the call.
LEMMA LeaveShape == ASSUME Shape, Leave PROVE Shape'
<1>1. /\ at \in {"open", "step", "read"} /\ at' = "over" /\ outcome' = "left" /\ paused' = FALSE
      /\ UNCHANGED <<p, inst, shown, left, q, http, up, wire, rd, rows, steps, sink>>
    BY DEF Leave
<1>2. entries' \in Seq(Entries)
    <2>1. wire \in Seq(Frames) /\ entries \in Seq(Entries)
        BY DEF Shape, Control, Types
    <2>2. StreamedEntry(wire, FALSE) \in Entries
        BY <2>1, AggregateType
    <2> QED
        BY <2>1, <2>2, Appended DEF Leave, Logged
<1>3. Types'
    BY <1>1, <1>2 DEF Types, Shape, Control
<1>4. Resting'
    BY <1>1 DEF Resting, Shape, Control
<1>5. CallOK' /\ BodyOK' /\ PromptSent'
    BY <1>1, CallGoesOn
<1>6. FramesFit'
    BY <1>1, ReaderStays
<1> QED
    BY <1>3, <1>4, <1>5, <1>6 DEF Shape, Control

LEMMA EndOfBodyShape == ASSUME Shape, EndOfBody PROVE Shape'
<1>1. /\ at = "read" /\ at' = "flush" /\ paused' = FALSE /\ ~p.host
      /\ UNCHANGED <<p, inst, shown, left, q, http, up, wire, rd, rows, steps, sink, outcome>>
    BY DEF EndOfBody, Reading
<1>2. entries' \in Seq(Entries)
    <2>1. wire \in Seq(Frames) /\ entries \in Seq(Entries)
        BY DEF Shape, Control, Types
    <2>2. StreamedEntry(wire, FALSE) \in Entries
        BY <2>1, AggregateType
    <2> QED
        BY <2>1, <2>2, Appended DEF EndOfBody, Logged
<1>3. Types'
    BY <1>1, <1>2 DEF Types, Shape, Control
<1>4. Resting'
    BY <1>1 DEF Resting, Shape, Control
<1>5. CallOK' /\ BodyOK' /\ PromptSent'
    BY <1>1, CallGoesOn
<1>6. FramesFit'
    BY <1>1, ReaderStays
<1> QED
    BY <1>3, <1>4, <1>5, <1>6 DEF Shape, Control

LEMMA CutShape == ASSUME Shape, Cut PROVE Shape'
<1>1. /\ at = "read" /\ at' = "over" /\ outcome' = "error" /\ paused' = FALSE
      /\ UNCHANGED <<p, inst, shown, left, q, http, up, wire, rd, rows, steps, sink>>
    BY DEF Cut, Reading
<1>2. entries' \in Seq(Entries)
    <2>1. wire \in Seq(Frames) /\ entries \in Seq(Entries)
        BY DEF Shape, Control, Types
    <2>2. StreamedEntry(wire, TRUE) \in Entries
        BY <2>1, AggregateType
    <2> QED
        BY <2>1, <2>2, Appended DEF Cut, Logged
<1>3. Types'
    BY <1>1, <1>2 DEF Types, Shape, Control
<1>4. Resting'
    BY <1>1 DEF Resting, Shape, Control
<1>5. CallOK' /\ BodyOK' /\ PromptSent'
    BY <1>1, CallGoesOn
<1>6. FramesFit'
    BY <1>1, ReaderStays
<1> QED
    BY <1>3, <1>4, <1>5, <1>6 DEF Shape, Control

\* The report of a response that is not a stream.
LEMMA Answered ==
    ASSUME Shape, NEW m \in Nat, Pieces \in Seq(Nat)
    PROVE  /\ Usage(m) \in Usages /\ PlainEntry(Usage(m), FALSE).usage = Usage(m)
           /\ Append(entries, PlainEntry(Usage(m), FALSE)) \in Seq(Entries)
           /\ RecordRequest(sink) \in Sinks
           /\ RecordTokens(RecordRequest(sink), Usage(m)) \in Sinks
<1>1. Usage(m) \in Usages
    BY UsageType
<1>2. sink \in Sinks /\ entries \in Seq(Entries)
    BY DEF Shape, Control, Types
<1>3. PlainEntry(Usage(m), FALSE) \in Entries /\ PlainEntry(Usage(m), FALSE).usage = Usage(m)
    BY <1>1, Usable
<1>4. RecordRequest(sink) \in Sinks
    BY <1>2, Recorded
<1>5. RecordTokens(RecordRequest(sink), Usage(m)) \in Sinks
    BY <1>1, <1>4, Recorded
<1> QED
    BY <1>1, <1>2, <1>3, <1>4, <1>5, Appended

LEMMA NoCandidatesShape == ASSUME Shape, NoCandidates PROVE Shape'
<1>1. /\ at = "step" /\ at' = "over" /\ paused' = FALSE
      /\ sink' = RecordTokens(RecordRequest(sink), Usage(0))
      /\ entries' = Append(entries, PlainEntry(Usage(0), FALSE))
      /\ UNCHANGED <<p, inst, shown, left, q, http, up, wire, rd, rows, steps, outcome>>
    BY DEF NoCandidates
<1>2. Pieces \in Seq(Nat)
    BY <1>1 DEF Shape, Control, BodyOK, BodyFits, Pieces
<1>3. entries' \in Seq(Entries) /\ sink' \in Sinks
    BY <1>1, <1>2, Answered
<1>4. Types'
    BY <1>1, <1>3 DEF Types, Shape, Control
<1>5. Resting'
    BY <1>1 DEF Resting, Shape, Control
<1>6. CallOK' /\ BodyOK' /\ PromptSent'
    BY <1>1, CallGoesOn
<1>7. FramesFit'
    BY <1>1, ReaderStays
<1> QED
    BY <1>4, <1>5, <1>6, <1>7 DEF Shape, Control

LEMMA ForgetShape == ASSUME Shape, Forget PROVE Shape'
<1>1. /\ at = "over" /\ at' = "idle" /\ q' = NoCall /\ paused' = FALSE /\ http' = NoHttp
      /\ up' = [NoUp EXCEPT !.noise = up.noise] /\ wire' = <<>> /\ rd' = NewReader
      /\ rows' = <<>> /\ steps' = <<>> /\ sink' = NoSink /\ entries' = <<>> /\ outcome' = "ok"
      /\ UNCHANGED <<p, inst, left>>
    BY DEF Forget
<1>2. /\ NoUp \in Uppers /\ NewReader \in Readers /\ NoSink \in Sinks
      /\ Len(NewReader.held) = 0 /\ Len(NewReader.buf) = 0
    BY Usable
<1>3. up' \in Uppers /\ up'.phase = "closed"
    <2>1. up.noise \in Nat
        BY DEF Shape, Control, Types, Uppers
    <2> QED
        BY <1>1, <1>2, <2>1 DEF NoUp, Uppers
<1>4. http' = [body |-> http'.body, tries |-> http'.tries] /\ http'.tries \in 0 .. MaxRetries
    BY <1>1, StreamAssumption DEF NoHttp
<1>5. shown' \subseteq Shows
    <2>1. ASSUME NEW k \in DOMAIN steps
          PROVE  [id |-> steps[k].id, piece |-> steps[k].piece, old |-> FALSE] \in Shows
        <3>1. steps[k] \in Steps
            BY DEF Shape, Control, Types
        <3> QED
            BY <3>1 DEF Steps, Shows
    <2>2. shown \subseteq Shows
        BY DEF Shape, Control, Types
    <2> QED
        BY <2>1, <2>2 DEF Forget
<1>6. <<>> \in Seq(Frames) /\ <<>> \in Seq(Rows) /\ <<>> \in Seq(Steps) /\ <<>> \in Seq(Entries) /\ 0 <= 1 /\ 0 <= 2
    OBVIOUS
<1>7. Types'
    BY <1>1, <1>2, <1>3, <1>4, <1>5, <1>6 DEF Types, Shape, Control
<1>8. Resting'
    BY <1>1, <1>3 DEF Resting
<1>9. CallOK' /\ BodyOK' /\ PromptSent'
    BY <1>1, <1>3 DEF CallOK, BodyOK, PromptSent, Streamed
<1>10. FramesFit'
    BY <1>1, Usable DEF FramesFit
<1> QED
    BY <1>7, <1>8, <1>9, <1>10 DEF Shape, Control

LEMMA RestartShape == ASSUME Shape, Restart PROVE Shape'
<1>1. /\ at = "idle" /\ inst' = NewInstance /\ shown' = {[s EXCEPT !.old = TRUE] : s \in shown}
      /\ up.phase = "closed"
      /\ UNCHANGED <<p, q, at, paused, http, up, wire, rd, rows, steps, sink, entries, outcome>>
    BY DEF Restart, Shape, Control, Resting
<1>2. shown' \subseteq Shows
    <2>1. ASSUME NEW s \in shown PROVE [s EXCEPT !.old = TRUE] \in Shows
        BY DEF Shape, Control, Types, Shows
    <2> QED
        BY <1>1, <2>1
<1>3. Types'
    BY <1>1, <1>2, Usable DEF Types, Shape, Control
<1>4. Resting'
    BY <1>1 DEF Resting, Shape, Control
<1>5. CallOK' /\ BodyOK' /\ PromptSent'
    BY <1>1 DEF CallOK, BodyOK, PromptSent, Streamed
<1>6. FramesFit'
    BY <1>1, ReaderStays
<1> QED
    BY <1>3, <1>4, <1>5, <1>6 DEF Shape, Control

LEMMA ScoredShape == ASSUME Shape, Scored PROVE Shape'
<1> DEFINE n == Len(Pieces)
           recs == [k \in 1 .. n |-> Position(k + 1)]
           seen == LearnAll(inst, recs)
           i == IF p.host THEN inst ELSE seen
           counted == RecordTokens(RecordRequest(sink), Usage(1))
<1>1. /\ at = "score" /\ up.phase = "closed" /\ paused' = TRUE
      /\ rows' = [k \in 1 .. n |-> [pos |-> k, k |-> IF k < n THEN k + 1 ELSE None]]
      /\ entries' = Append(entries, PlainEntry(Usage(1), FALSE))
      /\ EnterDecoding(i, q, counted)
      /\ UNCHANGED <<p, shown, left, q, up, wire, rd, steps, outcome>>
    BY DEF Scored, Shape, Control, Resting
<1>2. Pieces \in Seq(Nat) /\ http.body.logprobs.top \in Int /\ n \in Nat
    BY <1>1 DEF Shape, Control, BodyOK, BodyFits, Pieces
<1>3. entries' \in Seq(Entries) /\ counted \in Sinks
    BY <1>1, <1>2, Answered
<1>4. rows' \in Seq(Rows)
    <2>1. ASSUME NEW k \in 1 .. n PROVE [pos |-> k, k |-> IF k < n THEN k + 1 ELSE None] \in Rows
        BY <1>2 DEF Rows
    <2> DEFINE r == [k \in 1 .. n |-> [pos |-> k, k |-> IF k < n THEN k + 1 ELSE None]]
    <2>2. r \in [1 .. n -> Rows]
        BY <2>1
    <2> HIDE DEF r, n
    <2>3. r \in Seq(Rows)
        BY <1>2, <2>2
    <2> QED
        BY <1>1, <2>3 DEF r, n
<1>5. inst \in Insts
    BY DEF Shape, Control, Types
<1>6. recs \in Seq(Positions(Nat))
    <2>1. ASSUME NEW k \in 1 .. n PROVE Position(k + 1) \in Positions(Nat)
        BY <1>2, PositionType
    <2>2. recs \in [1 .. n -> Positions(Nat)]
        BY <2>1
    <2> HIDE DEF recs, n
    <2> QED
        BY <1>2, <2>2
<1>7. seen \in Insts /\ Grows(inst, seen)
    BY <1>5, <1>6, LearnAllGrows
<1>8. i \in Insts /\ (Ready(i) <=> Ready(inst))
    BY <1>5, <1>7 DEF Grows, Ready
<1> HIDE DEF i, counted, seen, recs, n
<1>9. /\ p \in Provider /\ Asked(q) /\ p.completions /\ q.picked \in Seq(shown) /\ Len(q.picked) <= 1
      /\ q.picks = [j \in DOMAIN q.picked |-> q.picked[j].id]
      /\ q.prepend # <<>> => Ready(inst)
    BY <1>1 DEF Shape, Control, Types, CallOK
<1>10. /\ at' \in {"step", "open"}
       /\ CallOK' /\ BodyOK' /\ PromptSent'
       /\ inst' \in Insts /\ sink' \in Sinks
       /\ http' = [body |-> http'.body, tries |-> http'.tries] /\ http'.tries \in 0 .. MaxRetries
    BY <1>1, <1>3, <1>8, <1>9, EntersShape
<1>11. Types'
    BY <1>1, <1>3, <1>4, <1>10 DEF Types, Shape, Control
<1>12. Resting'
    BY <1>1, <1>10 DEF Resting, Shape, Control
<1>13. FramesFit'
    BY <1>1, ReaderStays
<1> QED
    BY <1>10, <1>11, <1>12, <1>13 DEF Shape, Control

\* What a step of the decoding loop makes of the candidate that was taken.
LEMMA Chosen ==
    ASSUME Shape, at = "step", NextToken
    PROVE  \E piece \in Tokens \ Specials, why \in {None, "user_stop", "max_tokens"}, id \in Nat,
              chosen \in Positions(Nat) :
              /\ chosen.piece = piece /\ chosen.k = Len(Pieces) + 1
              /\ chosen.id = (IF RealIds THEN piece ELSE None)
              /\ inst' = Learn(inst, chosen) /\ id = IdOf(inst', chosen)
              /\ inst' \in Insts /\ Grows(inst, inst')
              /\ steps' = Append(steps, [pos |-> Len(LoopIds(inst, q, Emitted)), id |-> id, piece |-> piece,
                                         k |-> Len(Pieces) + 1, reason |-> why])
              /\ at' = IF why = None THEN "step" ELSE "over"
              /\ http' = IF why = None
                         THEN [body |-> BodyAt("step", inst', q, Append(Emitted, id)), tries |-> 0]
                         ELSE http
<1> DEFINE rec == Position(Len(Pieces) + 1)
<1>1. PICK piece \in UNION {ToSet(c) : c \in ToSet(rec.cands)},
           why \in IF Len(steps) + 1 = q.want THEN {"user_stop", "max_tokens"} ELSE {None, "user_stop"} :
              LET chosen == [rec EXCEPT !.piece = piece,
                                        !.id = IF rec.id = None THEN None ELSE piece]
                  i == Learn(inst, chosen)
                  id == IdOf(i, chosen)
              IN  /\ inst' = i
                  /\ steps' = Append(steps, [pos |-> Len(LoopIds(inst, q, Emitted)), id |-> id, piece |-> piece,
                                             k |-> rec.k, reason |-> why])
                  /\ at' = IF why = None THEN "step" ELSE "over"
                  /\ http' = IF why = None
                             THEN [body |-> BodyAt("step", i, q, Append(Emitted, id)),
                                   tries |-> 0]
                             ELSE http
    BY DEF NextToken
<1> DEFINE chosen == [rec EXCEPT !.piece = piece, !.id = IF rec.id = None THEN None ELSE piece]
           id == IdOf(inst', chosen)
<1>2. /\ inst' = Learn(inst, chosen)
      /\ steps' = Append(steps, [pos |-> Len(LoopIds(inst, q, Emitted)), id |-> id, piece |-> piece,
                                 k |-> rec.k, reason |-> why])
      /\ at' = IF why = None THEN "step" ELSE "over"
      /\ http' = IF why = None THEN [body |-> BodyAt("step", inst', q, Append(Emitted, id)), tries |-> 0]
                 ELSE http
    BY <1>1
<1>3. Pieces \in Seq(Nat) /\ http.body.logprobs.top \in Int /\ Len(Pieces) + 1 \in Nat \ {0}
    BY DEF Shape, Control, BodyOK, BodyFits, Pieces
<1>4. rec \in Positions(Nat) /\ rec.k = Len(Pieces) + 1 /\ rec.id = (IF RealIds THEN PieceAt(Len(Pieces) + 1) ELSE None)
      /\ rec.cands = CandsAt(Len(Pieces) + 1) /\ PieceAt(Len(Pieces) + 1) \in Nat
    BY <1>3, PositionType, PositionFields, PieceAtType
<1> HIDE DEF rec
<1>5. piece \in Tokens \ Specials /\ piece \in Nat
    BY <1>3, <1>4, CandsAtType, ConcatTypes
<1>6. PieceAt(Len(Pieces) + 1) # None /\ inst \in Insts
    BY <1>4, NoneIsNone DEF Shape, Control, Types
<1>7. /\ chosen \in Positions(Nat) /\ chosen.piece = piece /\ chosen.k = Len(Pieces) + 1
      /\ chosen.id = IF RealIds THEN piece ELSE None
    <2> DEFINE x == IF rec.id = None THEN None ELSE piece
    <2>1. x \in Nat \cup {None} /\ x = IF RealIds THEN piece ELSE None
        BY <1>4, <1>5, <1>6
    <2>2. chosen = [rec EXCEPT !.piece = piece, !.id = x]
        OBVIOUS
    <2> HIDE DEF x
    <2>3. /\ chosen \in Positions(Nat) /\ chosen.piece = piece /\ chosen.k = Len(Pieces) + 1
          /\ chosen.id = x
        BY <1>4, <1>5, <2>1, <2>2 DEF Positions
    <2> QED
        BY <2>1, <2>3
<1> HIDE DEF chosen
<1>8. /\ inst' \in Insts /\ Grows(inst, inst')
      /\ chosen.id = None => Text(<<chosen.piece>>) \in ToSet(inst'.interned)
    BY <1>2, <1>6, <1>7, LearnGrows
<1>9. id \in Nat
    BY <1>7, <1>8, IdOfNames
<1>10. why \in {None, "user_stop", "max_tokens"}
    BY <1>1
<1> DEFINE i1 == id
<1>11. i1 \in Nat /\ i1 = IdOf(inst', chosen)
    BY <1>9
<1>12. /\ inst' = Learn(inst, chosen)
       /\ steps' = Append(steps, [pos |-> Len(LoopIds(inst, q, Emitted)), id |-> i1, piece |-> piece,
                                  k |-> Len(Pieces) + 1, reason |-> why])
       /\ at' = IF why = None THEN "step" ELSE "over"
       /\ http' = IF why = None THEN [body |-> BodyAt("step", inst', q, Append(Emitted, i1)), tries |-> 0]
                  ELSE http
    BY <1>2, <1>4
<1> HIDE DEF i1, id
<1> QED
    BY <1>5, <1>7, <1>8, <1>10, <1>11, <1>12

\* The ids of the steps so far.
LEMMA EmittedType == ASSUME Shape PROVE Emitted \in Seq(Nat) /\ Len(Emitted) = Len(steps)
<1>1. steps \in Seq(Steps)
    BY DEF Shape, Control, Types
<1>2. \A k \in DOMAIN steps : steps[k].id \in Nat
    <2>1. \A k \in DOMAIN steps : steps[k] \in Steps
        BY <1>1
    <2> QED
        BY <2>1 DEF Steps
<1>3. Emitted \in [1 .. Len(steps) -> Nat] /\ Len(steps) \in Nat
    BY <1>1, <1>2 DEF Emitted
<1> QED
    BY <1>3

LEMMA NextTokenShape == ASSUME Shape, NextToken PROVE Shape'
<1>1. /\ at = "step" /\ up.phase = "closed" /\ paused' = TRUE
      /\ sink' = RecordTokens(RecordRequest(sink), Usage(1))
      /\ entries' = Append(entries, PlainEntry(Usage(1), FALSE))
      /\ UNCHANGED <<p, shown, left, q, up, wire, rd, rows, outcome>>
    BY DEF NextToken, Shape, Control, Resting
<1>2. PICK piece \in Tokens \ Specials, why \in {None, "user_stop", "max_tokens"}, id \in Nat,
           chosen \in Positions(Nat) :
              /\ inst' \in Insts /\ Grows(inst, inst')
              /\ steps' = Append(steps, [pos |-> Len(LoopIds(inst, q, Emitted)), id |-> id, piece |-> piece,
                                         k |-> Len(Pieces) + 1, reason |-> why])
              /\ at' = IF why = None THEN "step" ELSE "over"
              /\ http' = IF why = None
                         THEN [body |-> BodyAt("step", inst', q, Append(Emitted, id)), tries |-> 0]
                         ELSE http
    BY <1>1, Chosen
<1>3. Pieces \in Seq(Nat)
    BY <1>1 DEF Shape, Control, BodyOK, BodyFits, Pieces
<1>4. entries' \in Seq(Entries) /\ sink' \in Sinks
    BY <1>1, <1>3, Answered
<1>5. Asked(q) /\ Knows(inst, q.prompt) /\ inst \in Insts /\ p \in Provider
    BY <1>1 DEF Shape, Control, CallOK, Types
<1>6. steps' \in Seq(Steps)
    <2> DEFINE x == Len(LoopIds(inst, q, Emitted))
    <2>1. x \in Nat
        <3>1. Tokenize(inst, q.prompt) \in Seq(Nat)
            BY <1>5, ConcatTypes, TokenizeInverse DEF Asked
        <3>2. LoopIds(inst, q, Emitted) \in Seq(Nat)
            BY <1>5, <3>1, EmittedType, ConcatTypes DEF LoopIds, Asked
        <3> QED
            BY <3>2
    <2> HIDE DEF x
    <2>2. [pos |-> x, id |-> id, piece |-> piece, k |-> Len(Pieces) + 1, reason |-> why] \in Steps
        BY <1>3, <2>1, ConcatTypes DEF Steps, Reported, Reasons
    <2>3. steps \in Seq(Steps)
        BY DEF Shape, Control, Types
    <2> QED
        BY <1>2, <2>2, <2>3, Appended DEF x
<1>7. CallOK'
    BY <1>1, <1>2, CallStays
<1>8. /\ http' = [body |-> http'.body, tries |-> http'.tries] /\ http'.tries \in 0 .. MaxRetries
      /\ BodyOK' /\ PromptSent'
    <2>1. CASE why = None
        <3>1. Knows(inst', q.prompt)
            BY <1>2, <1>5, KnowsStays
        <3>2. Append(Emitted, id) \in Seq(Nat)
            BY EmittedType
        <3> DEFINE b == BodyAt("step", inst', q, Append(Emitted, id))
        <3>3. BodyFits(b)
            BY <1>2, <1>5, <3>1, <3>2, BodyOfCall
        <3> HIDE DEF b
        <3>4. http' = [body |-> b, tries |-> 0]
            BY <1>2, <2>1 DEF b
        <3>5. http'.body = b /\ http'.tries = 0 /\ at' = "step" /\ 0 \in 0 .. MaxRetries
            BY <1>2, <2>1, <3>4, StreamAssumption
        <3>6. BodyFits(http.body)'
            BY <1>1, <3>3, <3>5 DEF BodyFits
        <3>7. BodyOK' /\ PromptSent'
            BY <1>1, <3>5, <3>6 DEF BodyOK, PromptSent, Streamed
        <3> QED
            BY <3>4, <3>5, <3>7
    <2>2. CASE why # None
        <3>1. http' = http /\ at' = "over"
            BY <1>2, <2>2
        <3>2. BodyOK' /\ PromptSent'
            BY <1>1, <3>1, BodyStays
        <3> QED
            BY <3>1, <3>2 DEF Shape, Control, Types
    <2> QED
        BY <2>1, <2>2
<1>9. at' \in {"step", "over"}
    BY <1>2
<1>10. Types'
    BY <1>1, <1>2, <1>4, <1>6, <1>8, <1>9 DEF Types, Shape, Control
<1>11. Resting'
    BY <1>1, <1>9 DEF Resting, Shape, Control
<1>12. FramesFit'
    BY <1>1, ReaderStays
<1> QED
    BY <1>7, <1>8, <1>10, <1>11, <1>12 DEF Shape, Control

LEMMA OpenedShape == ASSUME Shape, Opened PROVE Shape'
<1> DEFINE prompt == IF http.body.prompt.array THEN q.prompt ELSE Pieces
           before == IF p.host THEN Len(Pieces) ELSE Len(Tokenize(inst, prompt))
<1>1. /\ at = "open" /\ at' = "read" /\ paused' = FALSE
      /\ sink' = RecordRequest(sink)
      /\ rd' = [NewReader EXCEPT !.before = before, !.promptLen = Len(prompt)]
      /\ UNCHANGED <<p, inst, shown, left, q, http, wire, rows, steps, entries, outcome>>
    BY DEF Opened
<1>2. PICK style \in {"offset", "signal", "bare"} :
          up' = [NoUp EXCEPT !.phase = "more", !.style = style, !.noise = up.noise]
    BY DEF Opened
<1>3. Pieces \in Seq(Nat) /\ q.prompt \in Seq(Nat) /\ inst \in Insts
    BY <1>1, ConcatTypes DEF Shape, Control, BodyOK, BodyFits, Pieces, CallOK, Asked, Types
<1>4. prompt \in Seq(Nat)
    BY <1>3
<1> HIDE DEF prompt
<1>5. before \in Nat /\ Len(prompt) \in Nat
    BY <1>3, <1>4 DEF Tokenize
<1> HIDE DEF before
<1>6. /\ rd' \in Readers /\ rd'.recs = <<>> /\ rd'.buf = <<>> /\ rd'.held = <<>>
    <2> DEFINE n == Len(prompt)
    <2>1. n \in Nat /\ rd' = [NewReader EXCEPT !.before = before, !.promptLen = n]
        BY <1>1, <1>5
    <2> HIDE DEF n
    <2>2. NewReader \in Readers /\ NewReader.buf = <<>> /\ NewReader.recs = <<>> /\ NewReader.held = <<>>
        BY Usable
    <2> HIDE DEF NewReader
    <2> QED
        BY <1>5, <2>1, <2>2 DEF Readers
<1>7. up' \in Uppers /\ up'.phase = "more"
    <2>1. up.noise \in Nat
        BY DEF Shape, Control, Types, Uppers
    <2> QED
        BY <1>2, <2>1 DEF NoUp, Uppers
<1>8. sink' \in Sinks
    BY <1>1, Attempt
<1>9. Types'
    <2>1. Len(rd'.held) <= 1 /\ Len(rd'.buf) <= 2
        BY <1>6
    <2> QED
        BY <1>1, <1>6, <1>7, <1>8, <2>1 DEF Types, Shape, Control
<1>10. Resting'
    BY <1>1, <1>7 DEF Resting, Shape, Control
<1>11. CallOK'
    BY <1>1, SameInst, CallStays
<1>12. BodyOK'
    <2>1. BodyFits(http.body) /\ StreamBodyFits(http.body, q)
        BY <1>1 DEF Shape, Control, BodyOK
    <2>2. BodyFits(http.body)' /\ StreamBodyFits(http.body, q)'
        BY <1>1, <2>1 DEF BodyFits, StreamBodyFits
    <2> QED
        BY <1>1, <2>2 DEF BodyOK
<1>13. PromptSent'
    BY <1>7 DEF PromptSent
<1>14. FramesFit'
    BY <1>1, <1>6 DEF Shape, FramesFit, FrameOK
<1> QED
    BY <1>9, <1>10, <1>11, <1>12, <1>13, <1>14 DEF Shape, Control

\* What comes next keeps the response one that NextFramesEmit speaks of.
LEMMA EmitsKeeps ==
    ASSUME NEW u \in Uppers, NEW f, NEW v, Emits(u, f, v), FirstSent \in Nat,
           ~p.host /\ u.phase # "more" /\ u.phase # "closed" => FirstSent + u.sent > Len(Pieces)
    PROVE  ~p.host /\ v.phase # "more" /\ v.phase # "closed" => FirstSent + v.sent > Len(Pieces)
BY DEF Emits, ProviderEmits, Uppers

\* The frames of a chunk.
LEMMA Pulled ==
    ASSUME Shape, Pull
    PROVE  \/ \E f \in Frames : Emits(up, f, up') /\ wire' = Append(wire, f) /\ rd' = [rd EXCEPT !.buf = <<f>>]
           \/ \E f, g \in Frames, u \in Uppers :
                 /\ Emits(up, f, u) /\ Emits(u, g, up')
                 /\ wire' = wire \o <<f, g>> /\ rd' = [rd EXCEPT !.buf = <<f, g>>]
<1>1. /\ Pieces \in Seq(Nat) /\ http.body.want \in Nat /\ http.body.logprobs.top \in Int
      /\ http.body.last \in (Nat \ {0}) \cup {None} /\ up \in Uppers
      /\ ~p.host /\ up.phase # "more" /\ up.phase # "closed" => FirstSent + up.sent > Len(Pieces)
    BY DEF Shape, Control, Types, BodyOK, BodyFits, StreamBodyFits, Pieces, PromptSent, Pull, Reading, Resting, Streamed
<1>2. FirstSent \in Nat
    BY <1>1, FirstSentType
<1>3. \A fr \in NextFrames(up) : Emits(up, fr[1], fr[2])
    BY <1>1, NextFramesEmit
<1>4. ASSUME NEW first \in NextFrames(up)
      PROVE  /\ first[1] \in Frames /\ first[2] \in Uppers
             /\ \A fr \in NextFrames(first[2]) : Emits(first[2], fr[1], fr[2]) /\ fr[1] \in Frames
    <2>1. Emits(up, first[1], first[2])
        BY <1>3
    <2>2. first[1] \in Frames /\ first[2] \in Uppers
        BY <2>1 DEF Emits
    <2>3. ~p.host /\ first[2].phase # "more" /\ first[2].phase # "closed" =>
              FirstSent + first[2].sent > Len(Pieces)
        BY <1>1, <1>2, <2>1, EmitsKeeps
    <2>4. \A fr \in NextFrames(first[2]) : Emits(first[2], fr[1], fr[2])
        BY <1>1, <2>2, <2>3, NextFramesEmit
    <2> QED
        BY <2>2, <2>4 DEF Emits
<1>5. PICK first \in NextFrames(up) :
          \/ /\ up' = first[2]
             /\ wire' = Append(wire, first[1]) /\ rd' = [rd EXCEPT !.buf = <<first[1]>>]
          \/ \E second \in NextFrames(first[2]) :
                /\ up' = second[2]
                /\ wire' = wire \o <<first[1], second[1]>>
                /\ rd' = [rd EXCEPT !.buf = <<first[1], second[1]>>]
    BY DEF Pull
<1>6. Emits(up, first[1], first[2])
    BY <1>3
<1> QED
    BY <1>4, <1>5, <1>6

LEMMA PullShape == ASSUME Shape, Pull PROVE Shape'
<1>1. /\ at = "read" /\ at' = "read" /\ rd.recs = <<>> /\ rd.buf = <<>> /\ paused' = FALSE /\ up.phase # "closed"
      /\ UNCHANGED <<p, inst, shown, left, q, at, http, rows, steps, sink, entries, outcome>>
    BY DEF Pull, Reading, Shape, Control, Resting
<1>2. /\ Pieces \in Seq(Nat) /\ http.body.logprobs.top \in Int
      /\ http.body.last \in (Nat \ {0}) \cup {None} /\ up \in Uppers /\ wire \in Seq(Frames) /\ rd \in Readers
      /\ StreamBodyFits(http.body, q) /\ BodyFits(http.body)
    BY <1>1 DEF Shape, Control, Types, BodyOK, BodyFits, StreamBodyFits, Pieces, Streamed
<1>3. FirstSent \in Nat
    BY <1>2, FirstSentType
<1>4. up.phase # "more" /\ ~p.host => FirstSent + up.sent > Len(Pieces)
    BY <1>1 DEF Shape, Control, PromptSent, Streamed
<1>5. /\ up' \in Uppers /\ up'.phase # "closed" /\ up'.style = up.style
      /\ up'.phase # "more" /\ ~p.host => FirstSent + up'.sent > Len(Pieces)
    <2>1. CASE \E f \in Frames : Emits(up, f, up')
        <3>1. PICK f \in Frames : Emits(up, f, up')
            BY <2>1
        <3> QED
            BY <1>1, <1>2, <1>3, <1>4, <3>1, EmitsKeeps DEF Emits
    <2>2. CASE \E f, g \in Frames, u \in Uppers : Emits(up, f, u) /\ Emits(u, g, up')
        <3>1. PICK f \in Frames, g \in Frames, u \in Uppers : Emits(up, f, u) /\ Emits(u, g, up')
            BY <2>2
        <3>2. /\ u.phase # "closed" /\ u.style = up.style
              /\ up' \in Uppers /\ up'.phase # "closed" /\ up'.style = u.style
            BY <1>1, <3>1 DEF Emits
        <3>3. ~p.host /\ u.phase # "more" /\ u.phase # "closed" => FirstSent + u.sent > Len(Pieces)
            BY <1>2, <1>3, <1>4, <3>1, EmitsKeeps
        <3>4. ~p.host /\ up'.phase # "more" /\ up'.phase # "closed" => FirstSent + up'.sent > Len(Pieces)
            BY <1>3, <3>1, <3>3, EmitsKeeps
        <3> QED
            BY <3>2, <3>4
    <2> QED
        BY <2>1, <2>2, Pulled
<1>6. ASSUME NEW u \in Uppers, NEW f, NEW v, Emits(u, f, v), u.style = up.style
      PROVE  FrameOK(f) /\ (p.host => \A m \in DOMAIN f.recs : f.recs[m].id # None)
    <2>0. FrameOK(f)
        BY <1>6 DEF Emits
    <2>1. CASE f.recs = <<>>
        BY <2>1, <2>0
    <2>2. CASE f.recs = <<Position(FirstSent + u.sent)>>
        <3> DEFINE k == FirstSent + u.sent
        <3>1. k \in Nat \ {0}
            BY <1>2, FirstSentType DEF Uppers
        <3>2. PieceAt(k) \in Nat
            BY <1>2, <3>1, PieceAtType
        <3>3. p.host => Position(k).id # None
            BY <3>2, PositionFields, NoneIsNone DEF RealIds
        <3> QED
            BY <2>2, <2>0, <3>3
    <2> QED
        BY <1>6, <2>1, <2>2, <2>0 DEF Emits
<1>7. /\ wire' \in Seq(Frames) /\ rd' \in Readers /\ Len(rd'.held) <= 1 /\ Len(rd'.buf) <= 2
      /\ FramesFit'
    <2>1. ASSUME NEW f \in Frames, NEW g \in Frames
          PROVE  /\ <<f>> \in Seq(Frames) /\ <<f, g>> \in Seq(Frames) /\ Len(<<f>>) = 1 /\ Len(<<f, g>>) = 2
                 /\ Append(wire, f) \in Seq(Frames) /\ wire \o <<f, g>> \in Seq(Frames)
        BY <1>2
    <2>2. ASSUME NEW b \in Seq(Frames), rd' = [rd EXCEPT !.buf = b], Len(b) <= 2,
                 \A j \in DOMAIN b : FrameOK(b[j]), \A j \in DOMAIN wire' : FrameOK(wire'[j]),
                 p.host => \A j \in DOMAIN b : \A m \in DOMAIN b[j].recs : b[j].recs[m].id # None
          PROVE  rd' \in Readers /\ Len(rd'.held) <= 1 /\ Len(rd'.buf) <= 2 /\ FramesFit'
        <3>1. rd' \in Readers /\ rd'.buf = b /\ rd'.recs = rd.recs /\ rd'.held = rd.held
            BY <1>2, <2>2 DEF Readers
        <3>2. Len(rd.held) <= 1
            BY DEF Shape, Control, Types
        <3>3. \A f : FrameOK(f)' <=> FrameOK(f)
            BY <1>1 DEF FrameOK
        <3>4. (\A j \in DOMAIN rd.buf : FrameOK(rd.buf[j]))' /\ (\A j \in DOMAIN wire : FrameOK(wire[j]))'
            BY <1>1, <2>2, <3>1 DEF FrameOK
        <3> QED
            BY <1>1, <2>2, <3>1, <3>2, <3>4 DEF FramesFit
    <2>3. CASE \E f \in Frames : Emits(up, f, up') /\ wire' = Append(wire, f) /\ rd' = [rd EXCEPT !.buf = <<f>>]
        <3>1. PICK f \in Frames : Emits(up, f, up') /\ wire' = Append(wire, f) /\ rd' = [rd EXCEPT !.buf = <<f>>]
            BY <2>3
        <3>2. FrameOK(f) /\ (p.host => \A m \in DOMAIN f.recs : f.recs[m].id # None)
            BY <1>2, <1>6, <3>1
        <3> DEFINE b == <<f>>
        <3>3. /\ \A j \in DOMAIN b : FrameOK(b[j])
              /\ p.host => \A j \in DOMAIN b : \A m \in DOMAIN b[j].recs : b[j].recs[m].id # None
            BY <3>2
        <3>5. \A j \in DOMAIN wire' : FrameOK(wire'[j])
            BY <1>2, <3>1, <3>2 DEF Shape, FramesFit
        <3>4. b \in Seq(Frames) /\ Len(b) <= 2 /\ rd' = [rd EXCEPT !.buf = b]
            BY <3>1
        <3> HIDE DEF b
        <3> QED
            BY <2>1, <2>2, <3>1, <3>3, <3>4, <3>5
    <2>4. CASE \E f, g \in Frames, u \in Uppers :
                 /\ Emits(up, f, u) /\ Emits(u, g, up')
                 /\ wire' = wire \o <<f, g>> /\ rd' = [rd EXCEPT !.buf = <<f, g>>]
        <3>1. PICK f \in Frames, g \in Frames, u \in Uppers :
                 /\ Emits(up, f, u) /\ Emits(u, g, up')
                 /\ wire' = wire \o <<f, g>> /\ rd' = [rd EXCEPT !.buf = <<f, g>>]
            BY <2>4
        <3>2. u.style = up.style
            BY <3>1 DEF Emits
        <3>3. /\ FrameOK(f) /\ FrameOK(g)
              /\ p.host => (\A m \in DOMAIN f.recs : f.recs[m].id # None) /\ (\A m \in DOMAIN g.recs : g.recs[m].id # None)
            BY <1>2, <1>6, <3>1, <3>2
        <3> DEFINE b == <<f, g>>
        <3>4. /\ \A j \in DOMAIN b : FrameOK(b[j])
              /\ p.host => \A j \in DOMAIN b : \A m \in DOMAIN b[j].recs : b[j].recs[m].id # None
            BY <3>3
        <3>6. \A j \in DOMAIN wire' : FrameOK(wire'[j])
            BY <1>2, <3>1, <3>3 DEF Shape, FramesFit
        <3>5. b \in Seq(Frames) /\ Len(b) <= 2 /\ rd' = [rd EXCEPT !.buf = b]
            BY <3>1
        <3> HIDE DEF b
        <3> QED
            BY <2>1, <2>2, <3>1, <3>4, <3>5, <3>6
    <2> QED
        BY <2>3, <2>4, Pulled
<1>8. Types'
    BY <1>1, <1>5, <1>7 DEF Types, Shape, Control
<1>9. Resting'
    BY <1>1, <1>5 DEF Resting, Shape, Control
<1>10. CallOK'
    BY <1>1, SameInst, CallStays
<1>11. Pieces' = Pieces
    BY <1>1 DEF Pieces
<1>12. FirstSent' = FirstSent
    BY <1>1, <1>11 DEF FirstSent
<1>13. BodyOK'
    <2>1. BodyFits(http.body)' /\ StreamBodyFits(http.body, q)'
        BY <1>1, <1>2 DEF BodyFits, StreamBodyFits
    <2> QED
        BY <1>1, <2>1 DEF BodyOK
<1>14. PromptSent'
    BY <1>1, <1>5, <1>11, <1>12 DEF PromptSent
<1> QED
    BY <1>7, <1>8, <1>9, <1>10, <1>13, <1>14 DEF Shape, Control

\* What is left of a sequence whose head was taken.
LEMMA TakenOff ==
    ASSUME NEW T, NEW s \in Seq(T), s # <<>>
    PROVE  /\ Head(s) \in T /\ Head(s) = s[1] /\ 1 \in DOMAIN s
           /\ Tail(s) \in Seq(T) /\ Len(Tail(s)) = Len(s) - 1 /\ Len(s) \in Nat
           /\ \A j \in DOMAIN Tail(s) : j + 1 \in DOMAIN s /\ Tail(s)[j] = s[j + 1]
OBVIOUS

\* Reading a frame takes it from the buffer.
LEMMA Resumed ==
    ASSUME Shape, rd.buf # <<>>
    PROVE  /\ Head(rd.buf) \in Frames /\ Rest \in Readers
           /\ Rest.buf = Tail(rd.buf) /\ Rest.recs = rd.recs /\ Rest.held = rd.held
           /\ Rest.finish = rd.finish /\ Rest.echoed = rd.echoed /\ Rest.emitting = rd.emitting
           /\ Rest.running = rd.running /\ Rest.before = rd.before /\ Rest.promptLen = rd.promptLen
           /\ Len(Tail(rd.buf)) <= 1
           /\ FrameOK(Head(rd.buf)) /\ \A j \in DOMAIN Tail(rd.buf) : FrameOK(Tail(rd.buf)[j])
           /\ p.host => /\ \A m \in DOMAIN Head(rd.buf).recs : Head(rd.buf).recs[m].id # None
                        /\ \A j \in DOMAIN Tail(rd.buf) : \A m \in DOMAIN Tail(rd.buf)[j].recs :
                              Tail(rd.buf)[j].recs[m].id # None
<1>1. rd \in Readers /\ Len(rd.buf) <= 2
    BY DEF Shape, Control, Types
<1>2. rd.buf \in Seq(Frames)
    BY <1>1 DEF Readers
<1>3. /\ Head(rd.buf) \in Frames /\ Head(rd.buf) = rd.buf[1] /\ 1 \in DOMAIN rd.buf
      /\ Tail(rd.buf) \in Seq(Frames) /\ Len(Tail(rd.buf)) = Len(rd.buf) - 1 /\ Len(rd.buf) \in Nat
      /\ \A j \in DOMAIN Tail(rd.buf) : j + 1 \in DOMAIN rd.buf /\ Tail(rd.buf)[j] = rd.buf[j + 1]
    BY <1>2, TakenOff
<1> DEFINE t == Tail(rd.buf)
<1>4. t \in Seq(Frames) /\ Rest = [rd EXCEPT !.buf = t]
    BY <1>3 DEF Rest
<1> HIDE DEF t
<1>5. /\ Rest \in Readers
      /\ Rest.buf = t /\ Rest.recs = rd.recs /\ Rest.held = rd.held
      /\ Rest.finish = rd.finish /\ Rest.echoed = rd.echoed /\ Rest.emitting = rd.emitting
      /\ Rest.running = rd.running /\ Rest.before = rd.before /\ Rest.promptLen = rd.promptLen
    BY <1>1, <1>4 DEF Readers
<1>6. ASSUME p.host
      PROVE  /\ \A m \in DOMAIN Head(rd.buf).recs : Head(rd.buf).recs[m].id # None
             /\ \A j \in DOMAIN Tail(rd.buf) : \A m \in DOMAIN Tail(rd.buf)[j].recs :
                   Tail(rd.buf)[j].recs[m].id # None
    <2>1. \A j \in DOMAIN rd.buf : \A m \in DOMAIN rd.buf[j].recs : rd.buf[j].recs[m].id # None
        BY <1>6 DEF Shape, FramesFit
    <2> QED
        BY <1>3, <2>1
<1>7. Len(Tail(rd.buf)) <= 1
    BY <1>1, <1>3
<1>8. FrameOK(Head(rd.buf)) /\ \A j \in DOMAIN Tail(rd.buf) : FrameOK(Tail(rd.buf)[j])
    BY <1>3 DEF Shape, FramesFit
<1> QED
    BY <1>3, <1>5, <1>6, <1>7, <1>8 DEF t

LEMMA ReadFrameShape == ASSUME Shape, ReadFrame PROVE Shape'
<1> DEFINE f == Head(rd.buf)
           why == IF f.finish = None /\ ~p.host THEN rd.finish ELSE f.finish
<1>1. /\ at = "read" /\ at' = "read" /\ rd.recs = <<>> /\ rd.buf # <<>> /\ paused' = FALSE /\ up.phase # "closed"
      /\ sink' = RecordTokens(sink, f.usage)
      /\ UNCHANGED <<p, inst, shown, left, q, at, http, up, wire, rows, steps, entries, outcome>>
    BY DEF ReadFrame, Reading, Shape, Control, Resting
<1>2. Rest.finish = rd.finish /\ f \in Frames
    BY <1>1, Resumed
<1>3. rd' = [Rest EXCEPT !.recs = f.recs, !.finish = why]
    BY <1>2 DEF ReadFrame
<1>4. /\ f.recs \in Seq(Positions(Nat)) /\ f.finish \in Reasons \cup {None} /\ f.usage \in Usages \cup {None}
    BY <1>2 DEF Frames
<1>5. rd.finish \in Reasons \cup {None} /\ Len(rd.held) <= 1 /\ sink \in Sinks
    BY DEF Shape, Control, Types, Readers
<1>6. why \in Reasons \cup {None}
    BY <1>4, <1>5
<1>7. sink' \in Sinks
    BY <1>1, <1>4, <1>5, Recorded
<1>8. /\ rd' \in Readers /\ rd'.recs = f.recs /\ rd'.buf = Tail(rd.buf) /\ rd'.held = rd.held
    <2> DEFINE x == f.recs
    <2>1. x \in Seq(Positions(Nat)) /\ rd' = [Rest EXCEPT !.recs = x, !.finish = why]
        BY <1>3, <1>4
    <2>2. Rest \in Readers /\ Rest.buf = Tail(rd.buf) /\ Rest.held = rd.held
        BY <1>1, Resumed
    <2> HIDE DEF why, x
    <2>3. rd' \in Readers /\ rd'.recs = x /\ rd'.buf = Rest.buf /\ rd'.held = Rest.held
        BY <1>6, <2>1, <2>2 DEF Readers
    <2> QED
        BY <2>2, <2>3 DEF x
<1> HIDE DEF why
<1>9. FramesFit'
    <2>1. p.host => /\ \A m \in DOMAIN f.recs : f.recs[m].id # None
                    /\ \A j \in DOMAIN Tail(rd.buf) : \A m \in DOMAIN Tail(rd.buf)[j].recs :
                          Tail(rd.buf)[j].recs[m].id # None
        BY <1>1, Resumed
    <2>2. /\ \A j \in DOMAIN Tail(rd.buf) : FrameOK(Tail(rd.buf)[j])
          /\ \A j \in DOMAIN wire : FrameOK(wire[j])
        BY <1>1, Resumed DEF Shape, FramesFit
    <2> HIDE DEF f
    <2> QED
        BY <1>1, <1>8, <2>1, <2>2 DEF FramesFit, FrameOK, f
<1>10. Types'
    <2>1. Len(rd'.held) <= 1 /\ Len(rd'.buf) <= 2
        BY <1>1, <1>5, <1>8, Resumed
    <2> QED
        BY <1>1, <1>7, <1>8, <2>1 DEF Types, Shape, Control
<1>11. Resting'
    BY <1>1 DEF Resting, Shape, Control
<1>12. CallOK' /\ BodyOK' /\ PromptSent'
    BY <1>1, CallGoesOn
<1> QED
    BY <1>9, <1>10, <1>11, <1>12 DEF Shape, Control

LEMMA ReadDoneShape == ASSUME Shape, ReadDone PROVE Shape'
<1>1. /\ at = "read" /\ at' \in {"over", "flush"} /\ rd.buf # <<>> /\ paused' = FALSE /\ up.phase # "closed"
      /\ outcome' \in {"error", "ok"} /\ (at' = "flush" => ~p.host) /\ (at' = "over" => p.host) /\ rd' = Rest
      /\ UNCHANGED <<p, inst, shown, left, q, http, up, wire, rows, steps, sink>>
    BY DEF ReadDone, Reading, Shape, Control, Resting
<1>2. entries' \in Seq(Entries)
    <2>1. wire \in Seq(Frames) /\ entries \in Seq(Entries)
        BY DEF Shape, Control, Types
    <2>2. StreamedEntry(wire, FALSE) \in Entries
        BY <2>1, AggregateType
    <2> QED
        BY <2>1, <2>2, Appended DEF ReadDone, Logged
<1>3. /\ rd' \in Readers /\ rd'.buf = Tail(rd.buf) /\ rd'.recs = rd.recs /\ rd'.held = rd.held
      /\ Len(Tail(rd.buf)) <= 1
    BY <1>1, Resumed
<1>4. FramesFit'
    <2>1. p.host => /\ \A j \in DOMAIN rd.recs : rd.recs[j].id # None
                    /\ \A j \in DOMAIN Tail(rd.buf) : \A m \in DOMAIN Tail(rd.buf)[j].recs :
                          Tail(rd.buf)[j].recs[m].id # None
        BY <1>1, Resumed DEF Shape, FramesFit
    <2>2. /\ \A j \in DOMAIN Tail(rd.buf) : FrameOK(Tail(rd.buf)[j])
          /\ \A j \in DOMAIN wire : FrameOK(wire[j])
        BY <1>1, Resumed DEF Shape, FramesFit
    <2> QED
        BY <1>1, <1>3, <2>1, <2>2 DEF FramesFit, FrameOK
<1>5. Types'
    <2>1. Len(rd'.held) <= 1 /\ Len(rd'.buf) <= 2
        <3>1. rd'.buf \in Seq(Frames) /\ Len(rd.held) <= 1
            BY <1>3 DEF Shape, Control, Types, Readers
        <3> QED
            BY <1>3, <3>1
    <2> QED
        BY <1>1, <1>2, <1>3, <2>1 DEF Types, Shape, Control
<1>6. Resting'
    <2>1. outcome' = "ok" \/ at' = "over"
        BY <1>1, Resumed DEF ReadDone, FrameOK, ProviderFrame
    <2> QED
        BY <1>1, <2>1 DEF Resting, Shape, Control
<1>7. CallOK' /\ BodyOK' /\ PromptSent'
    BY <1>1, CallGoesOn
<1> QED
    BY <1>4, <1>5, <1>6, <1>7 DEF Shape, Control

\* The next position of a frame.
LEMMA NextPosition ==
    ASSUME Shape, rd.recs # <<>>
    PROVE  /\ Head(rd.recs) \in Positions(Nat) /\ Tail(rd.recs) \in Seq(Positions(Nat))
           /\ Len(Tail(rd.recs)) = Len(rd.recs) - 1 /\ Len(rd.recs) \in Nat
           /\ p.host => Head(rd.recs).id # None /\ \A j \in DOMAIN Tail(rd.recs) : Tail(rd.recs)[j].id # None
           /\ Head(rd.recs).k \in Nat /\ RunningLen(Head(rd.recs)) \in Nat
<1>1. rd.recs \in Seq(Positions(Nat)) /\ rd.running \in Nat
    BY DEF Shape, Control, Types, Readers
<1>2. /\ Head(rd.recs) \in Positions(Nat) /\ Head(rd.recs) = rd.recs[1] /\ 1 \in DOMAIN rd.recs
      /\ Tail(rd.recs) \in Seq(Positions(Nat))
      /\ Len(Tail(rd.recs)) = Len(rd.recs) - 1 /\ Len(rd.recs) \in Nat
      /\ \A j \in DOMAIN Tail(rd.recs) : j + 1 \in DOMAIN rd.recs /\ Tail(rd.recs)[j] = rd.recs[j + 1]
    BY <1>1, TakenOff
<1>3. p.host => Head(rd.recs).id # None /\ \A j \in DOMAIN Tail(rd.recs) : Tail(rd.recs)[j].id # None
    BY <1>2 DEF Shape, FramesFit
<1>4. Head(rd.recs).k \in Nat /\ Head(rd.recs).piece \in Nat
    BY <1>2 DEF Positions
<1>5. Shown(<<Head(rd.recs).piece>>) \in Nat
    <2>1. <<Head(rd.recs).piece>> \in Seq(Nat)
        BY <1>4
    <2> QED
        BY <2>1, ShownType
<1>6. RunningLen(Head(rd.recs)) \in Nat
    BY <1>1, <1>5 DEF RunningLen
<1> QED
    BY <1>2, <1>3, <1>4, <1>6

LEMMA ReadEchoShape == ASSUME Shape, ReadEcho PROVE Shape'
<1> DEFINE rec == Head(rd.recs)
           row == EchoRow(rec, rd.echoed)
           tail == Tail(rd.recs)
           length == RunningLen(rec)
           rows2 == Append(rd.echoed, row)
<1>1. /\ at = "read" /\ rd.recs # <<>> /\ paused' = FALSE /\ inst' = Learn(inst, rec)
      /\ UNCHANGED <<p, shown, left, q, at, http, up, wire, rows, steps, sink, entries, outcome>>
    BY DEF ReadEcho
<1>2. rd' = [rd EXCEPT !.recs = tail, !.running = length, !.echoed = rows2]
    BY DEF ReadEcho, Shape, Control, Types, Readers
<1>3. /\ rd \in Readers /\ rd.echoed \in Seq([pos : Nat, k : Nat]) /\ Len(rd.held) <= 1 /\ Len(rd.buf) <= 2
      /\ inst \in Insts
    BY DEF Shape, Control, Types, Readers
<1>4. /\ rec \in Positions(Nat) /\ tail \in Seq(Positions(Nat)) /\ length \in Nat /\ rec.k \in Nat
      /\ p.host => \A j \in DOMAIN tail : tail[j].id # None
    BY <1>1, NextPosition
<1>5. rows2 \in Seq([pos : Nat, k : Nat])
    <2>1. row \in [pos : Nat, k : Nat]
        BY <1>3, <1>4 DEF EchoRow
    <2> QED
        BY <1>3, <2>1
<1>6. /\ rd' \in Readers /\ rd'.recs = tail /\ rd'.buf = rd.buf /\ rd'.held = rd.held
    <2> HIDE DEF tail, length, rows2
    <2> QED
        BY <1>2, <1>3, <1>4, <1>5 DEF Readers
<1>7. inst' \in Insts /\ Grows(inst, inst')
    BY <1>1, <1>3, <1>4, LearnGrows
<1> HIDE DEF tail, rec, length, rows2
<1>8. Types'
    BY <1>1, <1>3, <1>6, <1>7 DEF Types, Shape, Control
<1>9. Resting'
    BY <1>1 DEF Resting, Shape, Control
<1>10. CallOK'
    BY <1>1, <1>7, CallStays
<1>11. BodyOK' /\ PromptSent'
    BY <1>1, BodyStays
<1>12. FramesFit'
    BY <1>1, <1>4, <1>6 DEF Shape, FramesFit, FrameOK
<1> QED
    BY <1>8, <1>9, <1>10, <1>11, <1>12 DEF Shape, Control

\* A step leaves the generator.
LEMMA YieldTypes ==
    ASSUME Shape, at \in {"read", "flush"}, NEW rec \in Positions(Nat), p.host => rec.id # None,
           NEW why \in Reported, Yield(rec, why)
    PROVE  /\ inst' \in Insts /\ Grows(inst, inst') /\ paused' = TRUE
           /\ rec.id = None => Text(<<rec.piece>>) \in ToSet(inst'.interned)
           /\ IdOf(inst', rec) \in Nat
           /\ steps' = Append(steps, [pos |-> rd.before + Len(steps), id |-> IdOf(inst', rec),
                                      piece |-> rec.piece, k |-> rec.k, reason |-> why])
           /\ steps' \in Seq(Steps) /\ Len(steps') = Len(steps) + 1
           /\ rows' \in Seq(Rows)
           /\ rows' = IF q.way = "combined" THEN rd.echoed ELSE rows
<1>1. /\ inst' = (IF p.host THEN inst ELSE Learn(inst, rec)) /\ paused' = TRUE
      /\ steps' = Append(steps, [pos |-> rd.before + Len(steps), id |-> IdOf(inst', rec),
                                 piece |-> rec.piece, k |-> rec.k, reason |-> why])
      /\ rows' = IF q.way = "combined" THEN rd.echoed ELSE rows
    BY DEF Yield
<1>2. /\ inst \in Insts /\ steps \in Seq(Steps) /\ rows \in Seq(Rows) /\ rd.before \in Nat
      /\ rd.echoed \in Seq([pos : Nat, k : Nat])
    BY DEF Shape, Control, Types, Readers
<1>3. /\ inst' \in Insts /\ Grows(inst, inst')
      /\ rec.id = None => Text(<<rec.piece>>) \in ToSet(inst'.interned)
    <2>1. CASE p.host
        BY <1>1, <1>2, <2>1, GrowsOrder
    <2>2. CASE ~p.host
        BY <1>1, <1>2, <2>2, LearnGrows
    <2> QED
        BY <2>1, <2>2
<1> DEFINE id == IdOf(inst', rec)
           n == rd.before + Len(steps)
           s == [pos |-> n, id |-> id, piece |-> rec.piece, k |-> rec.k, reason |-> why]
<1>4. id \in Nat
    BY <1>3, IdOfNames
<1>5. s \in Steps
    <2>1. n \in Nat /\ rec.piece \in Nat /\ rec.k \in Nat
        BY <1>2 DEF Positions
    <2> HIDE DEF id, n
    <2> QED
        BY <1>4, <2>1 DEF Steps
<1>6. steps' = Append(steps, s)
    BY <1>1
<1> HIDE DEF s, id
<1>7. steps' \in Seq(Steps) /\ Len(steps') = Len(steps) + 1
    BY <1>2, <1>5, <1>6
<1>8. rows' \in Seq(Rows)
    <2>1. [pos : Nat, k : Nat] \subseteq Rows
        BY DEF Rows
    <2>2. rd.echoed \in Seq(Rows)
        BY <1>2, <2>1, SeqMonotonic
    <2> QED
        BY <1>1, <1>2, <2>2
<1> QED
    BY <1>1, <1>3, <1>4, <1>7, <1>8 DEF id

LEMMA ReadTokenShape == ASSUME Shape, ReadToken PROVE Shape'
<1> DEFINE rec == Head(rd.recs)
           tail == Tail(rd.recs)
           length == IF Echoing THEN RunningLen(rec) ELSE rd.running
           hold == IF p.host THEN <<>> ELSE <<rec>>
<1>1. /\ at = "read" /\ rd.recs # <<>>
      /\ IF p.host THEN Yield(rec, rd.finish)
         ELSE IF rd.held # <<>> THEN Yield(rd.held[1], None)
         ELSE paused' = FALSE /\ UNCHANGED <<inst, steps, rows>>
      /\ UNCHANGED <<p, shown, left, q, at, http, up, wire, sink, entries, outcome>>
    BY DEF ReadToken
<1>2. rd' = [rd EXCEPT !.recs = tail, !.emitting = TRUE, !.running = length, !.held = hold]
    BY DEF ReadToken, Shape, Control, Types, Readers
<1>3. /\ rd \in Readers /\ rd.held \in Seq(Positions(Nat)) /\ Len(rd.held) <= 1 /\ Len(rd.buf) <= 2
      /\ inst \in Insts /\ rd.running \in Nat /\ rd.finish \in Reported /\ None \in Reported
    BY DEF Shape, Control, Types, Readers, Reported
<1>4. /\ rec \in Positions(Nat) /\ tail \in Seq(Positions(Nat)) /\ length \in Nat
      /\ p.host => rec.id # None /\ \A j \in DOMAIN tail : tail[j].id # None
    BY <1>1, <1>3, NextPosition
<1>5. hold \in Seq(Positions(Nat)) /\ Len(hold) <= 1
    BY <1>4
<1>6. /\ rd' \in Readers /\ rd'.recs = tail /\ rd'.buf = rd.buf /\ rd'.held = hold
    <2> HIDE DEF tail, length, hold
    <2> QED
        BY <1>2, <1>3, <1>4, <1>5 DEF Readers
<1> HIDE DEF tail, rec, length, hold
<1>7. /\ inst' \in Insts /\ Grows(inst, inst') /\ paused' \in BOOLEAN
      /\ steps' \in Seq(Steps) /\ rows' \in Seq(Rows)
    <2>1. CASE p.host
        BY <1>1, <1>3, <1>4, <2>1, YieldTypes
    <2>2. CASE ~p.host /\ rd.held # <<>>
        <3>1. rd.held[1] \in Positions(Nat)
            BY <1>3, <2>2
        <3> QED
            BY <1>1, <1>3, <2>2, <3>1, YieldTypes
    <2>3. CASE ~p.host /\ rd.held = <<>>
        BY <1>1, <2>3, SameInst DEF Shape, Control, Types
    <2> QED
        BY <2>1, <2>2, <2>3
<1>8. Types'
    BY <1>1, <1>3, <1>5, <1>6, <1>7 DEF Types, Shape, Control
<1>9. Resting'
    BY <1>1 DEF Resting, Shape, Control
<1>10. CallOK'
    BY <1>1, <1>7, CallStays
<1>11. BodyOK' /\ PromptSent'
    BY <1>1, BodyStays
<1>12. FramesFit'
    BY <1>1, <1>4, <1>6 DEF Shape, FramesFit, FrameOK
<1> QED
    BY <1>8, <1>9, <1>10, <1>11, <1>12 DEF Shape, Control

LEMMA FlushShape == ASSUME Shape, Flush PROVE Shape'
<1>1. /\ at = "flush" /\ at' = "over" /\ ~p.host
      /\ IF rd.held # <<>> THEN Yield(rd.held[1], FinishReasonToStop(rd.finish))
         ELSE /\ rows' = IF q.way = "combined" THEN rd.echoed ELSE rows
              /\ paused' = FALSE /\ UNCHANGED <<inst, steps>>
      /\ UNCHANGED <<p, shown, left, q, http, up, wire, rd, sink, entries, outcome>>
    BY DEF Flush, Shape, Control, Resting
<1>2. /\ rd.held \in Seq(Positions(Nat)) /\ rd.finish \in Reasons \cup {None}
      /\ rd.echoed \in Seq([pos : Nat, k : Nat]) /\ rows \in Seq(Rows) /\ steps \in Seq(Steps)
    BY DEF Shape, Control, Types, Readers
<1>3. FinishReasonToStop(rd.finish) \in Reported
    BY DEF FinishReasonToStop, Reported, Reasons
<1>4. /\ inst' \in Insts /\ Grows(inst, inst') /\ paused' \in BOOLEAN
      /\ steps' \in Seq(Steps) /\ rows' \in Seq(Rows)
    <2>1. CASE rd.held # <<>>
        <3>1. rd.held[1] \in Positions(Nat)
            BY <1>2, <2>1
        <3> QED
            BY <1>1, <1>3, <2>1, <3>1, YieldTypes
    <2>2. CASE rd.held = <<>>
        <3>1. [pos : Nat, k : Nat] \subseteq Rows
            BY DEF Rows
        <3>2. rd.echoed \in Seq(Rows)
            BY <1>2, <3>1, SeqMonotonic
        <3> QED
            BY <1>1, <1>2, <2>2, <3>2, SameInst
    <2> QED
        BY <2>1, <2>2
<1>5. Types'
    BY <1>1, <1>4 DEF Types, Shape, Control
<1>6. Resting'
    BY <1>1 DEF Resting, Shape, Control
<1>7. CallOK'
    BY <1>1, <1>4, CallStays
<1>8. BodyOK' /\ PromptSent'
    BY <1>1, BodyStays
<1>9. FramesFit'
    BY <1>1, ReaderStays
<1> QED
    BY <1>5, <1>6, <1>7, <1>8, <1>9 DEF Shape, Control

\* Every step keeps Shape.
LEMMA ShapeNext == ASSUME Shape, [Next]_vars PROVE Shape'
<1>1. CASE Ask
    BY <1>1, AskShape
<1>2. CASE Refuse
    BY <1>2, RefuseShape
<1>3. CASE Busy
    BY <1>3, BusyShape
<1>4. CASE Fail
    BY <1>4, FailShape
<1>5. CASE Scored
    BY <1>5, ScoredShape
<1>6. CASE NextToken
    BY <1>6, NextTokenShape
<1>7. CASE NoCandidates
    BY <1>7, NoCandidatesShape
<1>8. CASE Opened
    BY <1>8, OpenedShape
<1>9. CASE Pull
    BY <1>9, PullShape
<1>10. CASE EndOfBody
    BY <1>10, EndOfBodyShape
<1>11. CASE Cut
    BY <1>11, CutShape
<1>12. CASE ReadFrame
    BY <1>12, ReadFrameShape
<1>13. CASE ReadDone
    BY <1>13, ReadDoneShape
<1>14. CASE ReadEcho
    BY <1>14, ReadEchoShape
<1>15. CASE ReadToken
    BY <1>15, ReadTokenShape
<1>16. CASE Flush
    BY <1>16, FlushShape
<1>17. CASE Leave
    BY <1>17, LeaveShape
<1>18. CASE Forget
    BY <1>18, ForgetShape
<1>19. CASE Restart
    BY <1>19, RestartShape
<1>20. CASE UNCHANGED vars
    <2>1. UNCHANGED <<p, inst, shown, left, q, at, paused, http, up, wire, rd, rows, steps, sink, entries, outcome>>
        BY <1>20 DEF vars
    <2>2. Types' /\ Resting'
        BY <2>1 DEF Types, Resting, Shape, Control
    <2>3. CallOK' /\ PromptSent' /\ BodyOK'
        <3>1. CASE at = "idle"
            BY <2>1, <3>1 DEF CallOK, BodyOK, PromptSent, Streamed, Shape, Control, Resting
        <3>2. CASE at # "idle"
            BY <2>1, <3>2, CallGoesOn
        <3> QED
            BY <3>1, <3>2
    <2>4. FramesFit'
        BY <2>1, ReaderStays
    <2> QED
        BY <2>2, <2>3, <2>4 DEF Shape, Control
<1> QED
    BY <1>1, <1>2, <1>3, <1>4, <1>5, <1>6, <1>7, <1>8, <1>9, <1>10, <1>11, <1>12, <1>13, <1>14,
       <1>15, <1>16, <1>17, <1>18, <1>19, <1>20 DEF Next

\* Whatever the providers, the asks and the bounds, a call is in one of its stages,
\* its retries end, one token at most is held back, and an idle backend has no
\* request left over.
THEOREM TypeCorrect == Spec => []TypeOK
<1>1. Init => Shape
    BY ShapeInit
<1>2. Shape /\ [Next]_vars => Shape'
    BY ShapeNext
<1>3. Shape => TypeOK
    BY DEF Shape, Control, Types, Resting, TypeOK, Insts, Uppers
<1> QED
    BY <1>1, <1>2, <1>3, PTL DEF Spec

-----------------------------------------------------------------------------
(***************************************************************************)
(* The usage: the dict adds up every report, and the log of a stream keeps *)
(* the last.                                                               *)
(***************************************************************************)
\* The reports among some frames.
Report(w) == Join(UsageOf, w)

\* The frames that end a stream.
IsDone(f) == f.kind = "done" \/ f.event = "done"

\* What ends a stream is the last of the frames, and no reason is there while
\* there is more.
Closes(u, b) ==
    /\ \A j \in DOMAIN b : IsDone(b[j]) => j = Len(b) /\ u.phase = "ended"
    /\ u.phase = "more" => u.reason = None

\* What the usage dict has, and what the frames that are not read yet report,
\* are what the entries es and the frames w report.
Owed(s, b, es, w) ==
    \A slot \in Slots : PlusOf(s[slot], Bill(slot, b)) = PlusOf(Bill(slot, es), Bill(slot, w))

\* While a stream is read it has no entry; its entry has its last report.
Billed ==
    IF at = "read" THEN Owed(sink, rd.buf, entries, wire)
    ELSE IF Streamed
    THEN /\ entries # <<>> /\ Last(entries).usage = Latest(Report(wire))
         /\ Owed(sink, <<>>, Front(entries), wire)
    ELSE Owed(sink, <<>>, entries, <<>>)

\* The sink has counted a request per entry, and what they and the frames report.
BillOK ==
    at # "idle" /\ ~p.host =>
        /\ sink.requests = Len(entries) + (IF at = "read" THEN 1 ELSE 0)
        /\ outcome = "ok" => Billed

\* While a stream is read.
CloseOK == at = "read" => Closes(up, rd.buf)

\* The invariant of UsageIsCharged.
Charging == Shape /\ CloseOK /\ BillOK

\* How the reports change with the frames.
LEMMA ReportOf ==
    /\ Report(<<>>) = <<>>
    /\ \A w \in Seq(Frames) : Report(w) \in Seq(Usages)
    /\ \A w \in Seq(Frames), f \in Frames : Report(Append(w, f)) =
          IF f.usage = None THEN Report(w) ELSE Append(Report(w), f.usage)
<1>0. Maps(UsageOf, Frames, Usages)
    BY FrameMaps
<1>1. Report(<<>>) = <<>>
    BY JoinEmpty DEF Report
<1>2. ASSUME NEW w \in Seq(Frames)
      PROVE  Report(w) \in Seq(Usages)
    BY FrameMaps, JoinType DEF Report
<1>3. ASSUME NEW w \in Seq(Frames), NEW f \in Frames
      PROVE  Report(Append(w, f)) = IF f.usage = None THEN Report(w) ELSE Append(Report(w), f.usage)
    <2>1. Report(Append(w, f)) = Report(w) \o UsageOf[f]
        <3>1. Join(UsageOf, Append(w, f)) = Join(UsageOf, w) \o UsageOf[f]
            BY <1>0, JoinAppend
        <3> QED
            BY <3>1 DEF Report
    <2>2. UsageOf[f] = IF f.usage = None THEN <<>> ELSE <<f.usage>>
        BY DEF UsageOf
    <2>3. Report(w) \in Seq(Usages) /\ (f.usage # None => f.usage \in Usages)
        BY <1>2 DEF Frames
    <2> QED
        BY <2>1, <2>2, <2>3
<1> QED
    BY <1>1, <1>2, <1>3

\* Of a stream that reports once, the sum is the last report.
LEMMA BillOnce ==
    ASSUME NEW slot \in Slots, NEW w \in Seq(Frames), Len(Report(w)) <= 1
    PROVE  Bill(slot, w) = Slot(Latest(Report(w)), slot)
<1> DEFINE P == {v \in Seq(Frames) : Len(Report(v)) <= 1 => Bill(slot, v) = Slot(Latest(Report(v)), slot)}
<1>0. Bill(slot, <<>>) = None
    BY JoinEmpty DEF Bill
<1>1. <<>> \in P
    <2>1. <<>> \in Seq(Frames)
        OBVIOUS
    <2>2. Slot(Latest(Report(<<>>)), slot) = None
        BY ReportOf DEF Latest, Slot
    <2> QED
        BY <1>0, <2>1, <2>2
<1>2. ASSUME NEW v \in Seq(Frames), NEW f \in Frames, v \in P PROVE Append(v, f) \in P
    <2> DEFINE r == Report(v)
               g == Append(v, f)
    <2>1. g \in Seq(Frames) /\ v \in Seq(Sources) /\ f \in Sources /\ f.usage \in Usages \cup {None}
        BY SourceTypes DEF Sources
    <2>2. Bill(slot, g) = PlusOf(Bill(slot, v), Slot(f.usage, slot))
        BY <2>1, BillOne
    <2>3. r \in Seq(Usages) /\ Report(g) = IF f.usage = None THEN r ELSE Append(r, f.usage)
        BY ReportOf
    <2>4. Len(r) <= 1 => Bill(slot, v) = Slot(Latest(r), slot)
        BY <1>2
    <2> HIDE DEF r, g
    <2>5. CASE f.usage = None
        <3>1. Bill(slot, g) = Bill(slot, v)
            BY <2>2, <2>5 DEF PlusOf, Slot
        <3> QED
            BY <2>1, <2>3, <2>4, <2>5, <3>1 DEF g
    <2>6. CASE f.usage # None
        <3> SUFFICES ASSUME Len(Report(g)) <= 1 PROVE Bill(slot, g) = Slot(Latest(Report(g)), slot)
            BY <2>1 DEF g
        <3>1. r = <<>> /\ Len(r) = 0
            BY <2>1, <2>3, <2>6
        <3>2. Bill(slot, v) = None
            BY <2>4, <3>1 DEF Latest, Slot
        <3>3. Slot(f.usage, slot) \in Nat \cup {None}
            BY <2>1, SourceTypes
        <3>4. Bill(slot, g) = Slot(f.usage, slot)
            BY <2>2, <3>2, <3>3, PlusLaws
        <3>5. Latest(Report(g)) = f.usage
            BY <2>1, <2>3, <2>6, <3>1 DEF Latest, Last
        <3> QED
            BY <3>4, <3>5
    <2> QED
        BY <2>5, <2>6
<1>3. Seq(Frames) \subseteq P
    <2> HIDE DEF P
    <2> QED
        BY <1>1, <1>2, SeqInduction
<1> QED
    BY <1>3

\* Where no frame is left to be read.
LEMMA NothingOwed ==
    ASSUME NEW s, NEW es, NEW w
    PROVE  /\ Owed(s, <<>>, es, w) <=>
                 \A slot \in Slots : s[slot] = PlusOf(Bill(slot, es), Bill(slot, w))
           /\ Owed(s, <<>>, es, <<>>) <=> \A slot \in Slots : s[slot] = Bill(slot, es)
<1>1. \A slot : Bill(slot, <<>>) = None
    BY JoinEmpty DEF Bill
<1>2. \A x : PlusOf(x, None) = x
    BY DEF PlusOf
<1> QED
    BY <1>1, <1>2 DEF Owed

\* An entry with the usage that was recorded.
LEMMA OwedEntry ==
    ASSUME NEW s, NEW r, NEW es \in Seq(Entries), NEW e \in Entries, Owed(r, <<>>, es, <<>>),
           \A slot \in Slots : s[slot] = PlusOf(r[slot], Slot(e.usage, slot))
    PROVE  Owed(s, <<>>, Append(es, e), <<>>)
<1>1. es \in Seq(Sources) /\ e \in Sources
    BY SourceTypes DEF Sources
<1>2. ASSUME NEW slot \in Slots PROVE s[slot] = Bill(slot, Append(es, e))
    <2>1. Bill(slot, Append(es, e)) = PlusOf(Bill(slot, es), Slot(e.usage, slot))
        BY <1>1, BillOne
    <2>2. r[slot] = Bill(slot, es)
        BY NothingOwed
    <2> QED
        BY <2>1, <2>2
<1> QED
    BY <1>2, NothingOwed

\* Frames that are pulled are owed.
LEMMA OwedPull ==
    ASSUME NEW s, NEW es \in Seq(Entries), NEW w \in Seq(Frames), NEW b \in Seq(Frames),
           Owed(s, <<>>, es, w)
    PROVE  Owed(s, b, es, w \o b)
<1>1. es \in Seq(Sources) /\ w \in Seq(Sources) /\ b \in Seq(Sources)
    BY SourceTypes
<1>2. ASSUME NEW slot \in Slots
      PROVE  PlusOf(s[slot], Bill(slot, b)) = PlusOf(Bill(slot, es), Bill(slot, w \o b))
    <2>1. /\ Bill(slot, es) \in Nat \cup {None} /\ Bill(slot, w) \in Nat \cup {None}
          /\ Bill(slot, b) \in Nat \cup {None} /\ Bill(slot, w \o b) = PlusOf(Bill(slot, w), Bill(slot, b))
        BY <1>1, BillConcat
    <2>2. s[slot] = PlusOf(Bill(slot, es), Bill(slot, w))
        BY NothingOwed
    <2> DEFINE x == Bill(slot, es)
               y == Bill(slot, w)
               z == Bill(slot, b)
    <2>3. x \in Nat \cup {None} /\ y \in Nat \cup {None} /\ z \in Nat \cup {None}
        BY <2>1
    <2> HIDE DEF x, y, z
    <2>4. PlusOf(PlusOf(x, y), z) = PlusOf(x, PlusOf(y, z))
        BY <2>3, PlusLaws
    <2> QED
        BY <2>1, <2>2, <2>4 DEF x, y, z
<1> QED
    BY <1>2 DEF Owed

\* A frame that is read is recorded.
LEMMA OwedRead ==
    ASSUME NEW s, NEW r \in Sinks, NEW es, NEW w, NEW b \in Seq(Frames), b # <<>>, Owed(r, b, es, w),
           \A slot \in Slots : s[slot] = PlusOf(r[slot], Slot(Head(b).usage, slot))
    PROVE  Owed(s, Tail(b), es, w)
<1> DEFINE f == Head(b)
           t == Tail(b)
           h == <<f>>
<1>1. f \in Frames /\ t \in Seq(Frames) /\ h \in Seq(Frames) /\ b = h \o t
    OBVIOUS
<1> HIDE DEF f, t, h
<1>2. f \in Sources /\ t \in Seq(Sources) /\ h \in Seq(Sources)
    BY <1>1, SourceTypes DEF Sources
<1>3. ASSUME NEW slot \in Slots
      PROVE  PlusOf(s[slot], Bill(slot, t)) = PlusOf(Bill(slot, es), Bill(slot, w))
    <2>1. Bill(slot, h) = Slot(f.usage, slot)
        BY <1>2, BillOne DEF h
    <2>2. Bill(slot, b) = PlusOf(Slot(f.usage, slot), Bill(slot, t)) /\ Bill(slot, t) \in Nat \cup {None}
        BY <1>1, <1>2, <2>1, BillConcat
    <2>3. Slot(f.usage, slot) \in Nat \cup {None} /\ r[slot] \in Nat \cup {None}
        BY <1>2, SourceTypes DEF Sinks, Slots
    <2>4. PlusOf(r[slot], Bill(slot, b)) = PlusOf(Bill(slot, es), Bill(slot, w))
        BY DEF Owed
    <2>5. s[slot] = PlusOf(r[slot], Slot(f.usage, slot))
        BY DEF f
    <2> DEFINE x == r[slot]
               y == Slot(f.usage, slot)
               z == Bill(slot, t)
    <2>6. x \in Nat \cup {None} /\ y \in Nat \cup {None} /\ z \in Nat \cup {None}
        BY <2>2, <2>3
    <2> HIDE DEF x, y, z
    <2>7. PlusOf(PlusOf(x, y), z) = PlusOf(x, PlusOf(y, z))
        BY <2>6, PlusLaws
    <2> QED
        BY <2>2, <2>4, <2>5, <2>7 DEF x, y, z
<1> QED
    BY <1>3 DEF Owed, t

\* The entries before the last.
LEMMA FrontOf ==
    ASSUME NEW T, NEW s \in Seq(T)
    PROVE  s # <<>> => Front(s) \in Seq(T) /\ Last(s) \in T /\ s = Append(Front(s), Last(s))
BY DEF Front, Last

LEMMA FrontOfAppend ==
    ASSUME NEW T, NEW s \in Seq(T), NEW e \in T
    PROVE  Append(s, e) # <<>> /\ Front(Append(s, e)) = s /\ Last(Append(s, e)) = e
BY DEF Front, Last

\* What record_request and record_tokens do to the sink.
LEMMA SinkGrows ==
    ASSUME NEW s \in Sinks, NEW usage \in Usages \cup {None}, ~p.host
    PROVE  /\ RecordRequest(s) \in Sinks /\ RecordRequest(s).requests = s.requests + 1
           /\ \A slot \in Slots : RecordRequest(s)[slot] = s[slot]
           /\ RecordTokens(s, usage) \in Sinks /\ RecordTokens(s, usage).requests = s.requests
           /\ \A slot \in Slots : RecordTokens(s, usage)[slot] = PlusOf(s[slot], Slot(usage, slot))
<1>1. ASSUME NEW slot \in Slots
      PROVE  /\ RecordRequest(s)[slot] = s[slot]
             /\ RecordTokens(s, usage)[slot] = PlusOf(s[slot], Slot(usage, slot))
    <2>1. CASE slot = "prompt"
        BY <2>1, Recorded DEF Slot
    <2>2. CASE slot = "completion"
        BY <2>2, Recorded DEF Slot
    <2> QED
        BY <2>1, <2>2 DEF Slots
<1> QED
    BY <1>1, Recorded

LEMMA EnterSink ==
    ASSUME NEW i, NEW call, NEW s \in Sinks, EnterDecoding(i, call, s)
    PROVE  /\ sink'.requests = s.requests /\ \A slot \in Slots : sink'[slot] = s[slot]
           /\ at' \in {"step", "open"}
BY DEF EnterDecoding, Decoding, Sinks, Slots

\* The entry of a stream has its last report.
LEMMA LoggedUsage ==
    ASSUME NEW w \in Seq(Frames), \A j \in DOMAIN w : ProviderFrame(w[j]), NEW broken \in BOOLEAN
    PROVE  StreamedEntry(w, broken).usage = Latest(Report(w)) /\ StreamedEntry(w, broken) \in Entries
<1>1. AggregateStream(w) = [text |-> Joined(Join(RecsOf, w)), positions |-> Len(Join(RecsOf, w)),
                            finish |-> Latest(Join(FinishOf, w)), usage |-> Latest(Join(UsageOf, w)),
                            error |-> FALSE]
    BY AggregateOfProvider
<1>2. StreamedEntry(w, broken).usage = Latest(Report(w))
    <2> DEFINE a == AggregateStream(w)
               t == Joined(Join(RecsOf, w))
               n == Len(Join(RecsOf, w))
               g == Latest(Join(FinishOf, w))
               u == Latest(Join(UsageOf, w))
    <2>1. a = [text |-> t, positions |-> n, finish |-> g, usage |-> u, error |-> FALSE]
        BY <1>1
    <2>2. StreamedEntry(w, broken) = [a EXCEPT !.error = @ \/ broken]
        BY DEF StreamedEntry
    <2> HIDE DEF a, t, n, g, u
    <2> QED
        BY <2>1, <2>2 DEF u, Report
<1> QED
    BY <1>2, AggregateType

\* What UsageIsCharged counts are the reports.
LEMMA ReportIsGiven ==
    ASSUME NEW w \in Seq(Frames)
    PROVE  Given([k \in DOMAIN w |-> w[k].usage]) = Report(w)
<1> DEFINE values == [k \in DOMAIN w |-> w[k].usage]
<1>1. /\ DOMAIN values = DOMAIN w
      /\ \A k \in DOMAIN w : UsageOf[w[k]] = IF values[k] = None THEN <<>> ELSE <<values[k]>>
    BY DEF UsageOf
<1> HIDE DEF values
<1>2. Given(values) = Join(UsageOf, w)
    BY <1>1, GivenIsJoin
<1> QED
    BY <1>2 DEF Report, values

\* The stream closes with a frame that is done, and has a reason when it has
\* no more to send.
LEMMA ClosesMore ==
    ASSUME NEW u \in Uppers, NEW b \in Seq(Frames), Closes(u, b), NEW f, NEW v, Emits(u, f, v)
    PROVE  Closes(v, Append(b, f))
<1> DEFINE b1 == Append(b, f)
<1>1. /\ f \in Frames /\ v \in Uppers /\ u.phase # "ended" /\ FrameOK(f)
      /\ IF p.host THEN HostEmits(u, f, v) ELSE ProviderEmits(u, f, v)
    BY DEF Emits
<1>2. \A j \in DOMAIN b : ~IsDone(b[j])
    BY <1>1 DEF Closes
<1>3. IsDone(f) => v.phase = "ended"
    <2>1. CASE p.host
        BY <1>1, <2>1 DEF IsDone, HostEmits, FrameOK, HostFrame
    <2>2. CASE ~p.host
        BY <1>1, <2>2 DEF IsDone, ProviderEmits, FrameOK, ProviderFrame
    <2> QED
        BY <2>1, <2>2
<1>4. v.phase = "more" => v.reason = None
    <2>1. CASE p.host
        BY <1>1, <2>1 DEF HostEmits, Closes
    <2>2. CASE ~p.host
        BY <1>1, <2>2 DEF ProviderEmits, Closes
    <2> QED
        BY <2>1, <2>2
<1>5. /\ Len(b1) = Len(b) + 1 /\ DOMAIN b1 = 1 .. Len(b) + 1 /\ b1[Len(b) + 1] = f
      /\ \A j \in 1 .. Len(b) : b1[j] = b[j]
      /\ DOMAIN b = 1 .. Len(b) /\ Len(b) \in Nat
    BY <1>1
<1> HIDE DEF b1
<1>6. \A j \in DOMAIN b1 : IsDone(b1[j]) => j = Len(b1) /\ v.phase = "ended"
    BY <1>2, <1>3, <1>5
<1> QED
    BY <1>4, <1>6 DEF Closes, b1

\* A frame that is read leaves the rest as it was.
LEMMA TailOf ==
    ASSUME NEW b \in Seq(Frames), b # <<>>
    PROVE  /\ Head(b) \in Frames /\ Head(b) = b[1] /\ 1 \in DOMAIN b /\ Tail(b) \in Seq(Frames)
           /\ \A j \in DOMAIN Tail(b) : j + 1 \in DOMAIN b /\ Tail(b)[j] = b[j + 1] /\ j \in Nat
           /\ Len(Tail(b)) = Len(b) - 1 /\ Len(b) \in Nat \ {0}
           /\ \A u : Closes(u, b) => Closes(u, Tail(b))
<1>1. /\ Head(b) \in Frames /\ Head(b) = b[1] /\ 1 \in DOMAIN b /\ Tail(b) \in Seq(Frames)
      /\ \A j \in DOMAIN Tail(b) : j + 1 \in DOMAIN b /\ Tail(b)[j] = b[j + 1] /\ j \in Nat
      /\ Len(Tail(b)) = Len(b) - 1 /\ Len(b) \in Nat \ {0}
    OBVIOUS
<1>2. ASSUME NEW u, Closes(u, b) PROVE Closes(u, Tail(b))
    <2> DEFINE t == Tail(b)
    <2>1. /\ \A j \in DOMAIN t : j + 1 \in DOMAIN b /\ t[j] = b[j + 1] /\ j \in Nat
          /\ Len(t) = Len(b) - 1 /\ Len(b) \in Nat
        BY <1>1
    <2> HIDE DEF t
    <2>2. ASSUME NEW j \in DOMAIN t, IsDone(t[j]) PROVE j = Len(t) /\ u.phase = "ended"
        <3>1. j + 1 = Len(b) /\ u.phase = "ended"
            BY <1>2, <2>1, <2>2 DEF Closes
        <3> QED
            BY <2>1, <3>1
    <2>3. u.phase = "more" => u.reason = None
        BY <1>2 DEF Closes
    <2> QED
        BY <2>2, <2>3 DEF Closes, t
<1> QED
    BY <1>1, <1>2

\* What is last when it is first is alone.
LEMMA DoneIsLast ==
    ASSUME NEW b \in Seq(Frames), b # <<>>, NEW u, Closes(u, b), IsDone(Head(b))
    PROVE  Tail(b) = <<>> /\ u.phase = "ended" /\ b = <<Head(b)>>
<1>1. Head(b) = b[1] /\ 1 \in DOMAIN b
    BY TailOf
<1>2. Len(b) = 1 /\ u.phase = "ended"
    BY <1>1 DEF Closes
<1>3. Tail(b) = <<>>
    <2> DEFINE t == Tail(b)
    <2>1. t \in Seq(Frames) /\ Len(t) = 0
        BY <1>2, TailOf
    <2> HIDE DEF t
    <2>2. t = <<>>
        BY <2>1
    <2> QED
        BY <2>2 DEF t
<1>4. b = <<Head(b)>>
    <2> DEFINE x == Head(b)
    <2>1. b[1] = x /\ Len(b) = 1 /\ b \in Seq(Frames) /\ <<x>> \in Seq({x}) /\ Len(<<x>>) = 1 /\ <<x>>[1] = x
        BY <1>1, <1>2
    <2> HIDE DEF x
    <2>2. b = [j \in 1 .. 1 |-> b[j]]
        BY <2>1
    <2>3. \A j \in 1 .. 1 : b[j] = x
        BY <2>1
    <2> QED
        BY <2>2, <2>3 DEF x
<1> QED
    BY <1>2, <1>3, <1>4

\* Outside of a stream it is enough that the sink counts the entries.
LEMMA Settled ==
    ASSUME at' # "read",
           at' # "idle" /\ ~p'.host =>
              /\ sink'.requests = Len(entries') /\ sink'.requests \in Nat
              /\ outcome' = "ok" => Billed'
    PROVE  CloseOK' /\ BillOK'
<1>1. CloseOK'
    BY DEF CloseOK
<1>2. (IF at' = "read" THEN 1 ELSE 0) = 0
    OBVIOUS
<1>3. ASSUME at' # "idle", ~p'.host
      PROVE  /\ sink'.requests = Len(entries') + (IF at' = "read" THEN 1 ELSE 0)
             /\ outcome' = "ok" => Billed'
    <2>1. sink'.requests = Len(entries') + 0
        BY <1>3
    <2> QED
        BY <1>2, <1>3, <2>1, Zenon
<1> QED
    BY <1>1, <1>3, Zenon DEF BillOK

\* Without a stream the entries alone report.
LEMMA Plain ==
    ASSUME at' # "read", ~Streamed', Owed(sink', <<>>, entries', <<>>)
    PROVE  Billed'
BY DEF Billed

\* What is known before a stream.
LEMMA Unstreamed ==
    ASSUME Charging, at \in {"score", "step", "open"}
    PROVE  /\ up' = up => ~Streamed'
           /\ sink \in Sinks /\ sink.requests \in Nat /\ entries \in Seq(Entries) /\ wire = <<>>
           /\ ~p.host => sink.requests = Len(entries) /\ Owed(sink, <<>>, entries, <<>>)
<1>1. ~Streamed /\ sink \in Sinks /\ entries \in Seq(Entries) /\ outcome = "ok" /\ wire = <<>>
    BY DEF Charging, Shape, Control, Types, Resting, Streamed
<1>2. sink.requests \in Nat
    BY <1>1 DEF Sinks
<1>3. ASSUME ~p.host PROVE sink.requests = Len(entries) /\ Owed(sink, <<>>, entries, <<>>)
    <2>1. sink.requests = Len(entries) + 0 /\ Billed
        <3>1. (IF at = "read" THEN 1 ELSE 0) = 0 /\ at # "idle"
            OBVIOUS
        <3> QED
            BY <1>1, <1>3, <3>1, Zenon DEF Charging, BillOK
    <2>2. Owed(sink, <<>>, entries, <<>>)
        BY <1>1, <2>1 DEF Billed
    <2> QED
        BY <1>1, <2>1, <2>2
<1>4. up' = up => ~Streamed'
    BY <1>1 DEF Streamed
<1> QED
    BY <1>1, <1>2, <1>3, <1>4, Zenon

\* Charging holds at the start, and each action keeps what it adds to Shape.
LEMMA UsageInit == Init => Charging
BY ShapeInit DEF Init, Charging, CloseOK, BillOK

LEMMA AskCharged == ASSUME Charging, Ask PROVE CloseOK' /\ BillOK'
<1>1. /\ at = "idle" /\ entries = <<>> /\ entries' = entries /\ up' = up /\ up.phase = "closed"
    BY DEF Ask, Charging, Shape, Control, Resting, Types
<1>2. NoSink \in Sinks
    BY Usable
<1>3. /\ sink'.requests = 0 /\ at' \in {"score", "step", "open"}
      /\ \A slot \in Slots : sink'[slot] = None
    <2>0. NoSink.requests = 0 /\ \A slot \in Slots : NoSink[slot] = None
        BY DEF NoSink, Slots
    <2>1. (sink' = NoSink /\ at' = "score") \/ \E i, call : EnterDecoding(i, call, NoSink)
        BY DEF Ask
    <2>2. CASE \E i, call : EnterDecoding(i, call, NoSink)
        <3>1. PICK i, call : EnterDecoding(i, call, NoSink)
            BY <2>2
        <3> QED
            BY <1>2, <2>0, <3>1, EnterSink
    <2> QED
        BY <2>0, <2>1, <2>2
<1>4. Billed'
    <2>1. \A slot : Bill(slot, <<>>) = None
        BY JoinEmpty DEF Bill
    <2>2. Owed(sink', <<>>, entries', <<>>)
        BY <1>1, <1>3, <2>1, NothingOwed
    <2>3. ~Streamed'
        BY <1>1 DEF Streamed
    <2> QED
        BY <1>3, <2>2, <2>3, Plain
<1>5. sink'.requests = Len(entries') /\ sink'.requests \in Nat
    BY <1>1, <1>3
<1> QED
    BY <1>3, <1>4, <1>5, Settled

\* A request whose answer is no stream, with or without a usage.
LEMMA OnceMore ==
    ASSUME Charging, at \in {"score", "step", "open"}, ~p.host, p' = p, up' = up, at' # "read",
           NEW e \in Entries, entries' = Append(entries, e), sink'.requests = sink.requests + 1,
           \A slot \in Slots : sink'[slot] = PlusOf(sink[slot], Slot(e.usage, slot))
    PROVE  CloseOK' /\ BillOK'
<1>1. /\ ~Streamed' /\ sink.requests \in Nat /\ entries \in Seq(Entries)
      /\ sink.requests = Len(entries) /\ Owed(sink, <<>>, entries, <<>>)
    BY Unstreamed
<1>2. sink'.requests = Len(entries') /\ sink'.requests \in Nat
    BY <1>1
<1>3. Owed(sink', <<>>, entries', <<>>)
    BY <1>1, OwedEntry
<1> QED
    BY <1>1, <1>2, <1>3, Plain, Settled

\* An attempt that fails.
LEMMA AttemptCharged ==
    ASSUME Charging, at \in {"score", "step", "open"}, ~p.host, p' = p, up' = up, at' # "read",
           entries' = Append(entries, PlainEntry(None, TRUE)), sink'.requests = sink.requests + 1,
           \A slot \in Slots : sink'[slot] = sink[slot]
    PROVE  CloseOK' /\ BillOK'
<1> DEFINE e == PlainEntry(None, TRUE)
<1>1. e \in Entries /\ e.usage = None /\ entries' = Append(entries, e)
    BY Usable
<1> HIDE DEF e
<1>2. \A x, slot : PlusOf(x, Slot(None, slot)) = x
    BY DEF PlusOf, Slot
<1>3. \A slot \in Slots : sink'[slot] = PlusOf(sink[slot], Slot(e.usage, slot))
    BY <1>1, <1>2
<1> QED
    BY <1>1, <1>3, OnceMore

LEMMA BusyCharged == ASSUME Charging, Busy PROVE CloseOK' /\ BillOK'
<1>1. /\ at \in {"score", "step", "open"} /\ ~p.host /\ at' = at /\ p' = p /\ up' = up
      /\ sink' = RecordRequest(sink) /\ entries' = Append(entries, PlainEntry(None, TRUE))
    BY DEF Busy, Asking
<1>2. sink \in Sinks
    BY DEF Charging, Shape, Control, Types
<1>3. sink'.requests = sink.requests + 1 /\ \A slot \in Slots : sink'[slot] = sink[slot]
    BY <1>1, <1>2, SinkGrows
<1> QED
    BY <1>1, <1>3, AttemptCharged

LEMMA FailCharged == ASSUME Charging, Fail PROVE CloseOK' /\ BillOK'
<1>1. /\ at \in {"score", "step", "open"} /\ entries' = Append(entries, PlainEntry(None, TRUE))
      /\ p' = p /\ up' = up
    BY DEF Fail, Asking
<1>2. sink \in Sinks /\ RecordRequest(sink) \in Sinks
    BY Recorded DEF Charging, Shape, Control, Types
<1>3. CASE p.host
    <2>1. at' # "read"
        BY <1>2, EnterSink DEF Fail
    <2> QED
        BY <1>1, <1>3, <2>1, Settled
<1>4. CASE ~p.host
    <2>1. /\ RecordRequest(sink).requests = sink.requests + 1
          /\ \A slot \in Slots : RecordRequest(sink)[slot] = sink[slot]
        BY <1>2, <1>4, SinkGrows
    <2>2. /\ sink'.requests = sink.requests + 1 /\ at' # "read"
          /\ \A slot \in Slots : sink'[slot] = sink[slot]
        <3>1. CASE at = "score"
            BY <1>2, <2>1, <3>1, EnterSink DEF Fail
        <3>2. CASE at # "score"
            BY <2>1, <3>2 DEF Fail
        <3> QED
            BY <3>1, <3>2
    <2> QED
        BY <1>1, <1>4, <2>2, AttemptCharged
<1> QED
    BY <1>3, <1>4

\* A response that is not a stream.
LEMMA AnswerCharged ==
    ASSUME Charging, at \in {"score", "step"}, p' = p, up' = up, at' # "read",
           NEW m \in Nat, Pieces \in Seq(Nat), entries' = Append(entries, PlainEntry(Usage(m), FALSE)),
           sink'.requests = RecordTokens(RecordRequest(sink), Usage(m)).requests,
           \A slot \in Slots : sink'[slot] = RecordTokens(RecordRequest(sink), Usage(m))[slot]
    PROVE  CloseOK' /\ BillOK'
<1>1. CASE p.host
    BY <1>1, Settled
<1>2. CASE ~p.host
    <2> DEFINE r == RecordRequest(sink)
               e == PlainEntry(Usage(m), FALSE)
    <2>1. sink \in Sinks /\ Usage(m) \in Usages
        BY UsageType DEF Charging, Shape, Control, Types
    <2>2. e \in Entries /\ e.usage = Usage(m)
        BY <2>1, Usable
    <2>3. r \in Sinks /\ r.requests = sink.requests + 1 /\ \A slot \in Slots : r[slot] = sink[slot]
        BY <1>2, <2>1, SinkGrows
    <2>4. /\ sink'.requests = r.requests
          /\ \A slot \in Slots : sink'[slot] = PlusOf(r[slot], Slot(Usage(m), slot))
        BY <1>2, <2>1, <2>3, SinkGrows
    <2> HIDE DEF r, e
    <2>5. entries' = Append(entries, e) /\ sink'.requests = sink.requests + 1
          /\ \A slot \in Slots : sink'[slot] = PlusOf(sink[slot], Slot(e.usage, slot))
        BY <2>2, <2>3, <2>4 DEF e
    <2> QED
        BY <1>2, <2>2, <2>5, OnceMore
<1> QED
    BY <1>1, <1>2

LEMMA ScoredCharged == ASSUME Charging, Scored PROVE CloseOK' /\ BillOK'
<1> DEFINE counted == RecordTokens(RecordRequest(sink), Usage(1))
<1>1. /\ at = "score" /\ p' = p /\ up' = up
      /\ entries' = Append(entries, PlainEntry(Usage(1), FALSE))
      /\ \E i : EnterDecoding(i, q, counted)
    BY DEF Scored
<1>2. Pieces \in Seq(Nat) /\ Shape
    BY <1>1 DEF Charging, Shape, Control, BodyOK, BodyFits, Pieces
<1>3. counted \in Sinks
    BY <1>2, Answered
<1>4. /\ sink'.requests = counted.requests /\ at' \in {"step", "open"}
      /\ \A slot \in Slots : sink'[slot] = counted[slot]
    BY <1>1, <1>3, EnterSink
<1> QED
    BY <1>1, <1>2, <1>4, AnswerCharged

LEMMA StepCharged == ASSUME Charging, NextToken \/ NoCandidates PROVE CloseOK' /\ BillOK'
<1>1. PICK m \in Nat : /\ sink' = RecordTokens(RecordRequest(sink), Usage(m))
                       /\ entries' = Append(entries, PlainEntry(Usage(m), FALSE))
    BY DEF NextToken, NoCandidates
<1>2. at = "step" /\ at' \in {"step", "over"} /\ p' = p /\ up' = up
    BY DEF NextToken, NoCandidates
<1>3. Pieces \in Seq(Nat) /\ Shape
    BY <1>2 DEF Charging, Shape, Control, BodyOK, BodyFits, Pieces
<1> QED
    BY <1>1, <1>2, <1>3, AnswerCharged

\* While a stream is read the request is counted and its entry is still to be
\* written.
LEMMA Running ==
    ASSUME at' = "read", Closes(up', rd'.buf),
           ~p'.host => /\ sink'.requests = Len(entries') + 1
                       /\ Owed(sink', rd'.buf, entries', wire')
    PROVE  CloseOK' /\ BillOK'
<1>1. CloseOK'
    BY DEF CloseOK
<1>2. (IF at' = "read" THEN 1 ELSE 0) = 1
    OBVIOUS
<1>3. ASSUME at' # "idle", ~p'.host
      PROVE  /\ sink'.requests = Len(entries') + (IF at' = "read" THEN 1 ELSE 0)
             /\ outcome' = "ok" => Billed'
    <2>1. Billed'
        BY <1>3 DEF Billed
    <2> QED
        BY <1>2, <1>3, <2>1
<1> QED
    BY <1>1, <1>3, Zenon DEF BillOK

\* What is known of a stream that is read.
LEMMA ReadBill ==
    ASSUME Charging, at = "read"
    PROVE  /\ Closes(up, rd.buf) /\ Streamed
           /\ sink \in Sinks /\ entries \in Seq(Entries) /\ wire \in Seq(Frames) /\ rd.buf \in Seq(Frames)
           /\ up \in Uppers /\ rd \in Readers
           /\ ~p.host => /\ sink.requests = Len(entries) + 1 /\ Owed(sink, rd.buf, entries, wire)
                         /\ \A j \in DOMAIN wire : ProviderFrame(wire[j])
                         /\ \A j \in DOMAIN rd.buf : ProviderFrame(rd.buf[j])
<1>1. /\ Closes(up, rd.buf) /\ outcome = "ok" /\ Streamed
      /\ sink \in Sinks /\ entries \in Seq(Entries) /\ wire \in Seq(Frames) /\ rd.buf \in Seq(Frames)
      /\ up \in Uppers /\ rd \in Readers
    BY DEF Charging, CloseOK, Shape, Control, Types, Resting, Readers, Streamed
<1>2. ASSUME ~p.host PROVE sink.requests = Len(entries) + 1 /\ Owed(sink, rd.buf, entries, wire)
    <2>1. (IF at = "read" THEN 1 ELSE 0) = 1 /\ at # "idle"
        OBVIOUS
    <2>2. sink.requests = Len(entries) + 1 /\ Billed
        BY <1>1, <1>2, <2>1, Zenon DEF Charging, BillOK
    <2> QED
        BY <2>2 DEF Billed
<1>3. ~p.host => /\ \A j \in DOMAIN wire : ProviderFrame(wire[j])
                 /\ \A j \in DOMAIN rd.buf : ProviderFrame(rd.buf[j])
    BY DEF Charging, Shape, FramesFit, FrameOK
<1> QED
    BY <1>1, <1>2, <1>3, Zenon

LEMMA OpenedCharged == ASSUME Charging, Opened PROVE CloseOK' /\ BillOK'
<1>1. /\ at = "open" /\ at' = "read" /\ p' = p /\ sink' = RecordRequest(sink) /\ entries' = entries
      /\ wire' = wire /\ wire = <<>>
    BY DEF Opened, Charging, Shape, Control, Resting
<1>2. rd'.buf = <<>> /\ up'.reason = None
    BY DEF Opened, NewReader, NoUp
<1>3. Closes(up', rd'.buf)
    BY <1>2 DEF Closes
<1>4. ASSUME ~p.host
      PROVE  sink'.requests = Len(entries') + 1 /\ Owed(sink', rd'.buf, entries', wire')
    <2>1. sink \in Sinks /\ sink.requests = Len(entries) /\ Owed(sink, <<>>, entries, <<>>)
        BY <1>1, <1>4, Unstreamed
    <2>2. sink'.requests = sink.requests + 1 /\ \A slot \in Slots : sink'[slot] = sink[slot]
        BY <1>1, <1>4, <2>1, SinkGrows
    <2>3. Owed(sink', <<>>, entries, <<>>)
        BY <2>1, <2>2, NothingOwed
    <2> QED
        BY <1>1, <1>2, <2>1, <2>2, <2>3
<1> QED
    BY <1>1, <1>3, <1>4, Running

LEMMA TwoAppended ==
    ASSUME NEW T, NEW f \in T, NEW g \in T
    PROVE  Append(Append(<<>>, f), g) = <<f, g>> /\ <<f, g>> \in Seq(T)
<1> DEFINE s == Append(<<>>, f)
<1>1. s = <<f>> /\ Len(s) = 1 /\ s[1] = f /\ s \in Seq(T)
    OBVIOUS
<1> HIDE DEF s
<1> DEFINE a == Append(s, g)
           b == <<f, g>>
<1>2. a \in Seq(T) /\ Len(a) = 2 /\ a[1] = f /\ a[2] = g
    BY <1>1
<1>3. b \in Seq(T) /\ Len(b) = 2 /\ b[1] = f /\ b[2] = g
    OBVIOUS
<1> HIDE DEF a, b
<1>4. \A j \in 1 .. Len(a) : a[j] = b[j]
    BY <1>2, <1>3
<1>5. a = b
    BY <1>2, <1>3, <1>4, SeqEqual
<1> QED
    BY <1>3, <1>5 DEF a, b, s

\* Pulling frames.
LEMMA PullAppends ==
    ASSUME Charging, Pull
    PROVE  /\ rd'.buf \in Seq(Frames) /\ wire' = wire \o rd'.buf /\ rd.buf = <<>>
           /\ Closes(up', rd'.buf)
<1>1. /\ Closes(up, <<>>) /\ rd.buf = <<>> /\ up \in Uppers /\ wire \in Seq(Frames) /\ rd \in Readers
    BY ReadBill DEF Pull, Reading
<1>2. \A b : [rd EXCEPT !.buf = b].buf = b
    BY <1>1 DEF Readers
<1>3. <<>> \in Seq(Frames)
    OBVIOUS
<1>4. CASE \E f \in Frames : Emits(up, f, up') /\ wire' = Append(wire, f) /\ rd' = [rd EXCEPT !.buf = <<f>>]
    <2>1. PICK f \in Frames : Emits(up, f, up') /\ wire' = Append(wire, f) /\ rd' = [rd EXCEPT !.buf = <<f>>]
        BY <1>4
    <2>2. Closes(up', Append(<<>>, f))
        BY <1>1, <1>3, <2>1, ClosesMore
    <2>3. Append(<<>>, f) = <<f>> /\ <<f>> \in Seq(Frames) /\ Append(wire, f) = wire \o <<f>>
        BY <1>1
    <2>4. rd'.buf = <<f>>
        BY <1>2, <2>1
    <2> QED
        BY <1>1, <2>1, <2>2, <2>3, <2>4
<1>5. CASE \E f, g \in Frames, u \in Uppers :
              /\ Emits(up, f, u) /\ Emits(u, g, up')
              /\ wire' = wire \o <<f, g>> /\ rd' = [rd EXCEPT !.buf = <<f, g>>]
    <2>1. PICK f \in Frames, g \in Frames, u \in Uppers :
              /\ Emits(up, f, u) /\ Emits(u, g, up')
              /\ wire' = wire \o <<f, g>> /\ rd' = [rd EXCEPT !.buf = <<f, g>>]
        BY <1>5
    <2> DEFINE b == Append(<<>>, f)
    <2>2. b \in Seq(Frames)
        BY <1>3
    <2>3. Append(b, g) = <<f, g>> /\ <<f, g>> \in Seq(Frames)
        BY TwoAppended
    <2>4. Closes(u, b)
        BY <1>1, <1>3, <2>1, ClosesMore
    <2> HIDE DEF b
    <2>5. Closes(up', Append(b, g))
        BY <2>1, <2>2, <2>4, ClosesMore
    <2>6. rd'.buf = <<f, g>>
        BY <1>2, <2>1
    <2> QED
        BY <1>1, <2>1, <2>3, <2>5, <2>6
<1> QED
    BY <1>4, <1>5, Pulled DEF Charging

LEMMA PullCharged == ASSUME Charging, Pull PROVE CloseOK' /\ BillOK'
<1>1. /\ at = "read" /\ at' = "read" /\ p' = p /\ sink' = sink /\ entries' = entries
    BY DEF Pull, Reading
<1>2. /\ rd'.buf \in Seq(Frames) /\ wire' = wire \o rd'.buf /\ rd.buf = <<>> /\ Closes(up', rd'.buf)
    BY PullAppends
<1>3. ASSUME ~p.host
      PROVE  sink'.requests = Len(entries') + 1 /\ Owed(sink', rd'.buf, entries', wire')
    <2>1. /\ sink.requests = Len(entries) + 1 /\ Owed(sink, <<>>, entries, wire)
          /\ entries \in Seq(Entries) /\ wire \in Seq(Frames)
        BY <1>1, <1>2, <1>3, ReadBill
    <2> DEFINE b == rd'.buf
    <2>2. b \in Seq(Frames) /\ wire' = wire \o b
        BY <1>2
    <2> HIDE DEF b
    <2>3. Owed(sink, b, entries, wire \o b)
        BY <2>1, <2>2, OwedPull
    <2> QED
        BY <1>1, <2>1, <2>2, <2>3 DEF b
<1> QED
    BY <1>1, <1>2, <1>3, Running

\* The stream is logged when no report is left to be read.
LEMMA LogCharged ==
    ASSUME Charging, at = "read", p' = p, sink' = sink, wire' = wire, up' = up, at' # "read",
           NEW broken \in BOOLEAN, Logged(broken),
           ~p.host /\ outcome' = "ok" => \A slot \in Slots : Bill(slot, rd.buf) = None
    PROVE  CloseOK' /\ BillOK'
<1> SUFFICES ASSUME ~p.host
             PROVE  /\ sink'.requests = Len(entries') /\ sink'.requests \in Nat
                    /\ outcome' = "ok" => Billed'
    BY Settled
<1> DEFINE e == StreamedEntry(wire, broken)
<1>1. /\ sink \in Sinks /\ entries \in Seq(Entries) /\ wire \in Seq(Frames) /\ Streamed
      /\ sink.requests = Len(entries) + 1 /\ Owed(sink, rd.buf, entries, wire)
      /\ \A j \in DOMAIN wire : ProviderFrame(wire[j])
    BY ReadBill
<1>2. e \in Entries /\ e.usage = Latest(Report(wire)) /\ entries' = Append(entries, e)
    BY <1>1, LoggedUsage DEF Logged
<1> HIDE DEF e
<1>3. /\ entries' # <<>> /\ Front(entries') = entries /\ Last(entries') = e
    <2> DEFINE es == Append(entries, e)
    <2>1. es # <<>> /\ Front(es) = entries /\ Last(es) = e
        BY <1>1, <1>2, FrontOfAppend
    <2>2. entries' = es
        BY <1>2
    <2> HIDE DEF es
    <2> QED
        BY <2>1, <2>2, Zenon
<1>4. sink'.requests = Len(entries') /\ sink'.requests \in Nat
    BY <1>1, <1>2 DEF Sinks
<1>5. ASSUME outcome' = "ok" PROVE Billed'
    <2>1. \A slot \in Slots : Bill(slot, rd.buf) = None
        BY <1>5
    <2>2. Owed(sink, <<>>, entries, wire)
        <3>1. \A slot : Bill(slot, <<>>) = None
            BY JoinEmpty DEF Bill
        <3> QED
            BY <1>1, <2>1, <3>1 DEF Owed
    <2>3. Streamed' /\ Report(wire)' = Report(wire)
        BY <1>1 DEF Streamed, Report
    <2> DEFINE last == Latest(Report(wire))
    <2>4. Last(entries').usage = last /\ last' = last
        BY <1>2, <1>3, <2>3 DEF Latest
    <2> HIDE DEF last
    <2>5. /\ entries' # <<>> /\ Last(entries').usage = last' /\ Owed(sink', <<>>, Front(entries'), wire')
        BY <1>3, <2>2, <2>4
    <2> QED
        BY <2>3, <2>5 DEF Billed, last
<1> QED
    BY <1>4, <1>5, Zenon

LEMMA EndOfBodyCharged == ASSUME Charging, EndOfBody PROVE CloseOK' /\ BillOK'
<1>1. /\ at = "read" /\ at' = "flush" /\ p' = p /\ sink' = sink /\ wire' = wire /\ up' = up
      /\ Logged(FALSE) /\ rd.buf = <<>>
    BY DEF EndOfBody, Reading
<1>2. \A slot : Bill(slot, <<>>) = None
    BY JoinEmpty DEF Bill
<1> QED
    BY <1>1, <1>2, LogCharged

LEMMA CutCharged == ASSUME Charging, Cut PROVE CloseOK' /\ BillOK'
<1>1. /\ at = "read" /\ at' = "over" /\ p' = p /\ sink' = sink /\ wire' = wire /\ up' = up
      /\ Logged(TRUE) /\ outcome' = "error"
    BY DEF Cut, Reading
<1> QED
    BY <1>1, LogCharged

LEMMA LeaveCharged == ASSUME Charging, Leave PROVE CloseOK' /\ BillOK'
<1>1. /\ at' = "over" /\ outcome' = "left" /\ p' = p /\ sink' = sink /\ wire' = wire /\ up' = up
      /\ at \in {"open", "step", "read"}
    BY DEF Leave
<1>2. CASE at = "read"
    <2>1. Logged(FALSE)
        BY <1>2 DEF Leave
    <2> QED
        BY <1>1, <1>2, <2>1, LogCharged
<1>3. CASE at # "read"
    <2>1. entries' = entries /\ at \in {"open", "step"}
        BY <1>1, <1>3 DEF Leave
    <2>2. ~p.host => sink'.requests = Len(entries') /\ sink'.requests \in Nat
        BY <1>1, <2>1, Unstreamed
    <2> QED
        BY <1>1, <2>2, Settled
<1> QED
    BY <1>2, <1>3

LEMMA ReadFrameCharged == ASSUME Charging, ReadFrame PROVE CloseOK' /\ BillOK'
<1> DEFINE f == Head(rd.buf)
           t == Tail(rd.buf)
<1>1. /\ at = "read" /\ at' = "read" /\ p' = p /\ entries' = entries /\ up' = up /\ wire' = wire
      /\ sink' = RecordTokens(sink, f.usage) /\ rd.buf # <<>> /\ Shape
    BY DEF ReadFrame, Reading, Charging
<1>2. rd'.buf = t
    <2>1. Rest.buf = t /\ Rest \in Readers
        BY <1>1, Resumed
    <2> QED
        BY <2>1 DEF ReadFrame, Readers
<1>3. /\ Closes(up, rd.buf) /\ rd.buf \in Seq(Frames) /\ sink \in Sinks
    BY <1>1, ReadBill
<1>4. f \in Frames /\ Closes(up, t)
    BY <1>1, <1>3, TailOf
<1>5. ASSUME ~p.host
      PROVE  sink'.requests = Len(entries') + 1 /\ Owed(sink', rd'.buf, entries', wire')
    <2>1. f.usage \in Usages \cup {None}
        BY <1>4 DEF Frames
    <2>2. /\ sink'.requests = sink.requests
          /\ \A slot \in Slots : sink'[slot] = PlusOf(sink[slot], Slot(f.usage, slot))
        BY <1>1, <1>3, <1>5, <2>1, SinkGrows
    <2>3. sink.requests = Len(entries) + 1 /\ Owed(sink, rd.buf, entries, wire)
        BY <1>1, <1>5, ReadBill
    <2> DEFINE b == rd.buf
               s == sink'
    <2>4. /\ b \in Seq(Frames) /\ b # <<>> /\ Owed(sink, b, entries, wire)
          /\ \A slot \in Slots : s[slot] = PlusOf(sink[slot], Slot(Head(b).usage, slot))
        BY <1>1, <1>3, <2>2, <2>3
    <2> HIDE DEF b, s, f, t
    <2>5. Owed(s, Tail(b), entries, wire)
        BY <1>3, <2>4, OwedRead
    <2> QED
        BY <1>1, <1>2, <2>2, <2>3, <2>5 DEF b, s, t
<1> QED
    BY <1>1, <1>2, <1>4, <1>5, Running

LEMMA ReadDoneCharged == ASSUME Charging, ReadDone PROVE CloseOK' /\ BillOK'
<1>1. /\ at = "read" /\ at' \in {"over", "flush"} /\ p' = p /\ sink' = sink /\ wire' = wire /\ up' = up
      /\ Logged(FALSE) /\ rd.buf # <<>> /\ IsDone(Head(rd.buf))
    BY DEF ReadDone, Reading, IsDone
<1>2. ASSUME ~p.host, NEW slot \in Slots PROVE Bill(slot, rd.buf) = None
    <2> DEFINE f == Head(rd.buf)
    <2>1. Closes(up, rd.buf) /\ rd.buf \in Seq(Frames) /\ \A j \in DOMAIN rd.buf : ProviderFrame(rd.buf[j])
        BY <1>1, <1>2, ReadBill
    <2>2. f = rd.buf[1] /\ 1 \in DOMAIN rd.buf /\ f \in Frames /\ rd.buf = <<f>>
        BY <1>1, <2>1, TailOf, DoneIsLast
    <2>3. f.usage = None /\ f \in Sources
        BY <1>1, <2>1, <2>2 DEF ProviderFrame, IsDone, Sources
    <2> HIDE DEF f
    <2>4. Bill(slot, <<f>>) = Slot(None, slot)
        BY <2>3, BillOne
    <2> QED
        BY <2>2, <2>4 DEF Slot
<1> QED
    BY <1>1, <1>2, LogCharged

LEMMA ReadRecCharged == ASSUME Charging, ReadEcho \/ ReadToken PROVE CloseOK' /\ BillOK'
<1>1. /\ at = "read" /\ at' = "read" /\ p' = p /\ sink' = sink /\ entries' = entries /\ up' = up /\ wire' = wire
    BY DEF ReadEcho, ReadToken
<1>2. rd'.buf = rd.buf
    <2>1. rd \in Readers
        BY <1>1, ReadBill
    <2> QED
        BY <2>1 DEF ReadEcho, ReadToken, Readers
<1>3. /\ Closes(up', rd'.buf)
      /\ ~p.host => sink'.requests = Len(entries') + 1 /\ Owed(sink', rd'.buf, entries', wire')
    BY <1>1, <1>2, ReadBill
<1> QED
    BY <1>1, <1>3, Running

LEMMA FlushCharged == ASSUME Charging, Flush PROVE CloseOK' /\ BillOK'
<1>1. /\ at = "flush" /\ at' = "over" /\ p' = p /\ sink' = sink /\ entries' = entries /\ outcome' = outcome
      /\ wire' = wire /\ up' = up /\ sink \in Sinks /\ entries \in Seq(Entries)
    BY DEF Flush, Charging, Shape, Control, Types
<1>2. ASSUME ~p.host
      PROVE  sink.requests = Len(entries) /\ (outcome = "ok" => Billed)
    <2>1. (IF at = "read" THEN 1 ELSE 0) = 0 /\ at # "idle"
        BY <1>1
    <2>2. sink.requests = Len(entries) + 0 /\ (outcome = "ok" => Billed)
        BY <1>2, <2>1, Zenon DEF Charging, BillOK
    <2>3. sink.requests = Len(entries)
        BY <1>1, <2>2
    <2> QED
        BY <2>2, <2>3
<1>3. Streamed' <=> Streamed
    BY <1>1 DEF Streamed
<1>4. Billed => Billed'
    <2>1. Report(wire)' = Report(wire)
        BY <1>1 DEF Report
    <2> QED
        BY <1>1, <1>3, <2>1 DEF Billed, Latest
<1>5. sink.requests \in Nat
    BY <1>1 DEF Sinks
<1> QED
    BY <1>1, <1>2, <1>4, <1>5, Settled

\* Every step keeps Charging.
LEMMA UsageNext == ASSUME Charging, [Next]_vars PROVE Charging'
<1>0. Shape'
    BY ShapeNext DEF Charging
<1>1. CloseOK' /\ BillOK'
    <2>1. CASE Ask
        BY <2>1, AskCharged
    <2>2. CASE Refuse \/ Restart \/ Forget
        <3>1. at' = "idle"
            BY <2>2 DEF Refuse, Restart, Forget
        <3> QED
            BY <3>1 DEF CloseOK, BillOK
    <2>3. CASE Busy
        BY <2>3, BusyCharged
    <2>4. CASE Fail
        BY <2>4, FailCharged
    <2>5. CASE Scored
        BY <2>5, ScoredCharged
    <2>6. CASE NextToken \/ NoCandidates
        BY <2>6, StepCharged
    <2>7. CASE Opened
        BY <2>7, OpenedCharged
    <2>8. CASE Pull
        BY <2>8, PullCharged
    <2>9. CASE EndOfBody
        BY <2>9, EndOfBodyCharged
    <2>10. CASE Cut
        BY <2>10, CutCharged
    <2>11. CASE ReadFrame
        BY <2>11, ReadFrameCharged
    <2>12. CASE ReadDone
        BY <2>12, ReadDoneCharged
    <2>13. CASE ReadEcho \/ ReadToken
        BY <2>13, ReadRecCharged
    <2>14. CASE Flush
        BY <2>14, FlushCharged
    <2>15. CASE Leave
        BY <2>15, LeaveCharged
    <2>16. CASE UNCHANGED vars
        BY <2>16 DEF vars, Charging, CloseOK, BillOK, Billed, Streamed
    <2> QED
        BY <2>1, <2>2, <2>3, <2>4, <2>5, <2>6, <2>7, <2>8, <2>9, <2>10, <2>11, <2>12, <2>13, <2>14, <2>15, <2>16
           DEF Next
<1> QED
    BY <1>0, <1>1 DEF Charging

\* The sink of a call has counted one request for each entry of the log, and when
\* the call ended well its tokens add up every report of its responses, wherever
\* in a stream and however often they come; of a stream that reports once this is
\* what the log adds up to, the retries, the request that scored and every step
\* included.
THEOREM UsageCharged == Spec => []UsageIsCharged
<1>1. Init => Charging
    BY UsageInit
<1>2. Charging /\ [Next]_vars => Charging'
    BY UsageNext
<1>3. Charging => UsageIsCharged
    <2> SUFFICES ASSUME Charging, at = "over", ~p.host
                 PROVE  /\ sink.requests = Len(entries)
                        /\ outcome = "ok" =>
                              \A slot \in Slots :
                                  /\ sink[slot] = Charged(slot, Tellers)
                                  /\ Len(Given([k \in DOMAIN wire |-> wire[k].usage])) <= 1 =>
                                        sink[slot] = Charged(slot, entries)
        BY DEF UsageIsCharged, Slots
    <2>1. entries \in Seq(Entries) /\ wire \in Seq(Frames) /\ entries \in Seq(Sources)
        BY SourceTypes DEF Charging, Shape, Control, Types
    <2>2. sink.requests = Len(entries) /\ (outcome = "ok" => Billed)
        <3>1. (IF at = "read" THEN 1 ELSE 0) = 0 /\ at # "idle"
            OBVIOUS
        <3>2. sink.requests = Len(entries) + 0 /\ (outcome = "ok" => Billed)
            BY <3>1, Zenon DEF Charging, BillOK
        <3>3. sink.requests = Len(entries)
            BY <2>1, <3>2
        <3> QED
            BY <3>2, <3>3
    <2>3. ASSUME outcome = "ok", NEW slot \in Slots
          PROVE  /\ sink[slot] = Charged(slot, Tellers)
                 /\ Len(Given([k \in DOMAIN wire |-> wire[k].usage])) <= 1 => sink[slot] = Charged(slot, entries)
        <3>1. Billed /\ at # "read"
            BY <2>2, <2>3
        <3>2. Charged(slot, entries) = Bill(slot, entries)
            BY <2>1, ChargedIsBill
        <3>3. CASE ~Streamed
            <4>1. sink[slot] = Bill(slot, entries)
                BY <3>1, <3>3, NothingOwed DEF Billed
            <4> QED
                BY <3>2, <3>3, <4>1 DEF Tellers
        <3>4. CASE Streamed
            <4> DEFINE es == Front(entries)
                       e == Last(entries)
            <4>1. entries # <<>> /\ e.usage = Latest(Report(wire)) /\ Owed(sink, <<>>, es, wire)
                BY <3>1, <3>4 DEF Billed
            <4>2. es \in Seq(Entries) /\ e \in Entries /\ entries = Append(es, e)
                BY <2>1, <4>1, FrontOf
            <4> HIDE DEF es, e
            <4>3. es \in Seq(Sources) /\ wire \in Seq(Sources) /\ e \in Sources
                BY <2>1, <4>2, SourceTypes DEF Sources
            <4>4. sink[slot] = PlusOf(Bill(slot, es), Bill(slot, wire))
                BY <4>1, NothingOwed
            <4>5. sink[slot] = Charged(slot, Tellers)
                <5>1. Tellers = es \o wire
                    BY <3>4 DEF Tellers, es
                <5>2. es \o wire \in Seq(Sources)
                    BY <4>3
                <5>3. Bill(slot, es \o wire) = PlusOf(Bill(slot, es), Bill(slot, wire))
                    BY <4>3, BillConcat
                <5>4. Charged(slot, es \o wire) = Bill(slot, es \o wire)
                    BY <5>2, ChargedIsBill
                <5> QED
                    BY <4>4, <5>1, <5>3, <5>4
            <4>6. ASSUME Len(Given([k \in DOMAIN wire |-> wire[k].usage])) <= 1
                  PROVE  sink[slot] = Charged(slot, entries)
                <5>1. Given([k \in DOMAIN wire |-> wire[k].usage]) = Report(wire)
                    BY <2>1, ReportIsGiven
                <5>2. Bill(slot, wire) = Slot(e.usage, slot)
                    BY <2>1, <4>1, <4>6, <5>1, BillOnce
                <5>3. Bill(slot, entries) = PlusOf(Bill(slot, es), Slot(e.usage, slot))
                    BY <4>2, <4>3, BillOne
                <5> QED
                    BY <3>2, <4>4, <5>2, <5>3
            <4> QED
                BY <4>5, <4>6
        <3> QED
            BY <3>3, <3>4
    <2> QED
        BY <2>2, <2>3
<1> QED
    BY <1>1, <1>2, <1>3, PTL DEF Spec

-----------------------------------------------------------------------------
(***************************************************************************)
(* The order of the positions.                                             *)
(***************************************************************************)
\* A sequence is that of some positions from one on.
FromTo(P, m, s) == \A j \in DOMAIN s : s[j] = P[m + j - 1]

\* Two runs of positions that follow one another are one run.
LEMMA FromToJoined ==
    ASSUME NEW T, NEW P, NEW m \in Int, NEW s \in Seq(T), NEW t \in Seq(T),
           FromTo(P, m, s), FromTo(P, m + Len(s), t)
    PROVE  FromTo(P, m, s \o t) /\ s \o t \in Seq(T) /\ Len(s \o t) = Len(s) + Len(t)
<1>1. s \o t \in Seq(T) /\ Len(s \o t) = Len(s) + Len(t)
    OBVIOUS
<1>2. ASSUME NEW j \in DOMAIN (s \o t)
      PROVE  (s \o t)[j] = P[m + j - 1]
    <2>1. CASE j \in DOMAIN s
        <3>1. (s \o t)[j] = s[j]
            BY <2>1
        <3> QED
            BY <2>1, <3>1 DEF FromTo
    <2>2. CASE j \notin DOMAIN s
        <3>1. j - Len(s) \in DOMAIN t /\ (s \o t)[j] = t[j - Len(s)]
            BY <2>2
        <3>2. t[j - Len(s)] = P[m + Len(s) + (j - Len(s)) - 1]
            BY <3>1 DEF FromTo
        <3>3. m + Len(s) + (j - Len(s)) - 1 = m + j - 1
            BY <3>1
        <3> QED
            BY <3>1, <3>2, <3>3
    <2> QED
        BY <2>1, <2>2
<1> QED
    BY <1>1, <1>2 DEF FromTo

\* A run whose head was taken starts one later.
LEMMA FromToTaken ==
    ASSUME NEW T, NEW P, NEW m \in Int, NEW s \in Seq(T), s # <<>>, FromTo(P, m, s)
    PROVE  Head(s) = P[m] /\ FromTo(P, m + 1, Tail(s))
<1>1. /\ Head(s) = s[1] /\ 1 \in DOMAIN s
      /\ \A j \in DOMAIN Tail(s) : j + 1 \in DOMAIN s /\ Tail(s)[j] = s[j + 1]
    BY TakenOff
<1>2. s[1] = P[m]
    <2>1. s[1] = P[m + 1 - 1] /\ m + 1 - 1 = m
        BY <1>1 DEF FromTo
    <2> QED
        BY <2>1
<1>3. ASSUME NEW j \in DOMAIN Tail(s)
      PROVE  Tail(s)[j] = P[m + 1 + j - 1]
    <2>1. j \in Int
        OBVIOUS
    <2>2. Tail(s)[j] = P[m + (j + 1) - 1]
        BY <1>1 DEF FromTo
    <2>3. m + (j + 1) - 1 = m + 1 + j - 1
        BY <2>1
    <2> QED
        BY <2>2, <2>3
<1> QED
    BY <1>1, <1>2, <1>3 DEF FromTo

LEMMA FromToOne ==
    ASSUME NEW P, NEW m \in Int
    PROVE  FromTo(P, m, <<>>) /\ FromTo(P, m, <<P[m]>>)
<1>1. FromTo(P, m, <<>>)
    BY DEF FromTo
<1>2. m + 1 - 1 = m
    OBVIOUS
<1> DEFINE s == <<P[m]>>
<1>3. DOMAIN s = {1} /\ s[1] = P[m]
    OBVIOUS
<1> HIDE DEF s
<1>4. FromTo(P, m, s)
    BY <1>2, <1>3 DEF FromTo
<1> QED
    BY <1>1, <1>4 DEF s

LEMMA JoinHead ==
    ASSUME NEW S, NEW T, NEW f, Maps(f, S, T), NEW s \in Seq(S), s # <<>>
    PROVE  Join(f, s) = f[Head(s)] \o Join(f, Tail(s))
<1> DEFINE h == Head(s)
           t == Tail(s)
           o == <<h>>
<1>1. h \in S /\ t \in Seq(S) /\ o \in Seq(S) /\ s = o \o t
    OBVIOUS
<1> HIDE DEF h, t
<1>2. Join(f, <<h>>) = f[h]
    BY <1>1, JoinOne
<1> HIDE DEF o
<1>3. Join(f, o \o t) = Join(f, o) \o Join(f, t)
    BY <1>1, JoinConcat
<1> QED
    BY <1>1, <1>2, <1>3 DEF h, t, o

\* The positions of some frames.
Fetched(w) == Join(RecsOf, w)

\* How the positions among the frames change with the frames.
LEMMA FetchedOf ==
    /\ Fetched(<<>>) = <<>>
    /\ \A w \in Seq(Frames) : Fetched(w) \in Seq(Positions(Nat))
    /\ \A w \in Seq(Frames), f \in Frames : Fetched(Append(w, f)) = Fetched(w) \o f.recs
    /\ \A w \in Seq(Frames) : w # <<>> => Fetched(w) = Head(w).recs \o Fetched(Tail(w))
<1>0. Maps(RecsOf, Frames, Positions(Nat))
    BY FrameMaps
<1>1. Fetched(<<>>) = <<>>
    BY JoinEmpty DEF Fetched
<1>2. \A w \in Seq(Frames) : Fetched(w) \in Seq(Positions(Nat))
    BY <1>0, JoinType DEF Fetched
<1>3. ASSUME NEW w \in Seq(Frames), NEW f \in Frames
      PROVE  Fetched(Append(w, f)) = Fetched(w) \o f.recs
    <2>1. Join(RecsOf, Append(w, f)) = Join(RecsOf, w) \o RecsOf[f]
        BY <1>0, JoinAppend
    <2>2. RecsOf[f] = f.recs
        BY DEF RecsOf
    <2> QED
        BY <2>1, <2>2 DEF Fetched
<1>4. ASSUME NEW w \in Seq(Frames), w # <<>>
      PROVE  Fetched(w) = Head(w).recs \o Fetched(Tail(w))
    <2>1. Join(RecsOf, w) = RecsOf[Head(w)] \o Join(RecsOf, Tail(w))
        BY <1>0, <1>4, JoinHead
    <2>2. Head(w) \in Frames
        BY <1>4
    <2>3. RecsOf[Head(w)] = Head(w).recs
        BY <2>2 DEF RecsOf
    <2> QED
        BY <2>1, <2>3 DEF Fetched
<1> QED
    BY <1>1, <1>2, <1>3, <1>4

\* The positions sent are those from the first one on, once and in order; what
\* is not taken yet are the last of them.
SentInOrder(P, f, sent, w, b, recs, taken) ==
    /\ Len(recs) <= 1
    /\ sent = taken + Len(recs) + Len(Fetched(b))
    /\ FromTo(P, f + taken, recs \o Fetched(b))
    /\ Len(Fetched(w)) = sent /\ FromTo(P, f, Fetched(w))

\* Those taken became rows, then steps, and one may be held back.
TakenInOrder(P, f, r, ss) ==
    /\ \A j \in DOMAIN r.echoed : r.echoed[j].k = f + j - 1
    /\ \A j \in DOMAIN ss :
          /\ ss[j].k = f + Len(r.echoed) + j - 1
          /\ ss[j].piece = P[ss[j].k].piece
          /\ ss[j].pos = r.before + j - 1
    /\ FromTo(P, f + Len(r.echoed) + Len(ss), r.held)
    /\ r.emitting <=> ss # <<>> \/ r.held # <<>>

\* How many positions the reader has taken.
Taken(r, ss) == Len(r.echoed) + Len(ss) + Len(r.held)
\* The positions of the answer, by their number.
Places == [k \in Nat |-> Position(k)]

\* The positions sent are, in their order, on the wire; those not yet read are
\* in the buffer and in recs, the taken ones in rows, steps and the held one.
Order ==
    at \in {"read", "flush"} =>
        /\ SentInOrder(Places, FirstSent, up.sent, wire, rd.buf, rd.recs, Taken(rd, steps))
        /\ TakenInOrder(Places, FirstSent, rd, steps)
        /\ p.host => rd.held = <<>>
        /\ ~http.body.echo => rd.echoed = <<>>

\* A frame that comes next.
LEMMA FrameInOrder ==
    ASSUME NEW P, NEW f \in Nat, NEW m \in Nat, NEW w \in Seq(Frames), NEW b \in Seq(Frames),
           NEW recs \in Seq(Positions(Nat)), NEW taken \in Nat, SentInOrder(P, f, m, w, b, recs, taken),
           NEW fr \in Frames, NEW n \in Nat,
           \/ fr.recs = <<>> /\ n = m
           \/ fr.recs = <<P[f + m]>> /\ n = m + 1
    PROVE  SentInOrder(P, f, n, Append(w, fr), Append(b, fr), recs, taken)
<1> DEFINE w1 == Append(w, fr)
           b1 == Append(b, fr)
           B == Fetched(b)
           W == Fetched(w)
           x == fr.recs
           s == recs \o B
           T == Positions(Nat)
<1>1. Fetched(w1) = W \o x /\ Fetched(b1) = B \o x /\ B \in Seq(T) /\ W \in Seq(T) /\ x \in Seq(T)
    BY FetchedOf DEF Frames
<1>2. /\ Len(recs) <= 1 /\ m = taken + Len(recs) + Len(B) /\ FromTo(P, f + taken, s)
      /\ Len(W) = m /\ FromTo(P, f, W)
    BY DEF SentInOrder
<1>3. /\ s \in Seq(T) /\ Len(s) = Len(recs) + Len(B) /\ Len(recs) \in Nat /\ Len(B) \in Nat
      /\ recs \o (B \o x) = s \o x
    <2>1. recs \in Seq(T)
        OBVIOUS
    <2> HIDE DEF B, x, T, W
    <2>2. recs \o (B \o x) = (recs \o B) \o x
        <3>1. recs \in Seq(T) /\ B \in Seq(T) /\ x \in Seq(T)
            BY <1>1, <2>1
        <3>2. Associative(T)
            BY ConcatIsAssociative, Zenon
        <3> QED
            BY <3>1, <3>2, Zenon DEF Associative
    <2> QED
        BY <1>1, <2>1, <2>2
<1>4. FromTo(P, f + m, x) /\ n = m + Len(x)
    <2>1. CASE x = <<>> /\ n = m
        <3>1. FromTo(P, f + m, <<>>)
            BY DEF FromTo
        <3> HIDE DEF x
        <3> QED
            BY <2>1, <3>1
    <2>2. CASE x = <<P[f + m]>> /\ n = m + 1
        <3>1. FromTo(P, f + m, <<P[f + m]>>)
            BY FromToOne
        <3>2. Len(<<P[f + m]>>) = 1
            OBVIOUS
        <3> QED
            BY <2>2, <3>1, <3>2
    <2> QED
        BY <2>1, <2>2
<1>5. f + m = f + taken + Len(s) /\ f + m = f + Len(W) /\ f + taken \in Int /\ f \in Int
    BY <1>2, <1>3
<1> HIDE DEF s, W, B, x, w1, b1, T
<1>6. FromTo(P, f + taken, s \o x) /\ Len(s \o x) = Len(s) + Len(x)
    <2> DEFINE z == f + taken
    <2>1. z \in Int /\ FromTo(P, z, s) /\ FromTo(P, z + Len(s), x) /\ s \in Seq(T) /\ x \in Seq(T)
        BY <1>1, <1>2, <1>3, <1>4, <1>5
    <2> HIDE DEF z
    <2>2. FromTo(P, z, s \o x) /\ Len(s \o x) = Len(s) + Len(x)
        BY <2>1, FromToJoined
    <2> QED
        BY <2>2 DEF z
<1>7. FromTo(P, f, W \o x) /\ Len(W \o x) = Len(W) + Len(x)
    BY <1>1, <1>2, <1>4, <1>5, FromToJoined
<1>8. Len(B \o x) = Len(B) + Len(x) /\ Len(x) \in Nat /\ Len(B) \in Nat /\ Len(recs) \in Nat
    BY <1>1
<1>9. n = taken + Len(recs) + Len(Fetched(b1))
    BY <1>1, <1>2, <1>4, <1>8
<1>10. FromTo(P, f + taken, recs \o Fetched(b1))
    BY <1>1, <1>3, <1>6
<1>11. Len(Fetched(w1)) = n /\ FromTo(P, f, Fetched(w1))
    BY <1>1, <1>2, <1>4, <1>7
<1>12. SentInOrder(P, f, n, w1, b1, recs, taken)
    BY <1>2, <1>9, <1>10, <1>11 DEF SentInOrder, B
<1> QED
    BY <1>12 DEF w1, b1

\* The next position is taken.
LEMMA TakeNext ==
    ASSUME NEW P, NEW f \in Nat, NEW sent \in Nat, NEW w, NEW b \in Seq(Frames),
           NEW recs \in Seq(Positions(Nat)), recs # <<>>, NEW taken \in Nat,
           SentInOrder(P, f, sent, w, b, recs, taken)
    PROVE  /\ Head(recs) = P[f + taken]
           /\ SentInOrder(P, f, sent, w, b, Tail(recs), taken + 1)
<1> DEFINE B == Fetched(b)
           s == recs \o B
           z == f + taken
           t == Tail(recs)
<1>1. B \in Seq(Positions(Nat))
    BY FetchedOf
<1>2. s \in Seq(Positions(Nat)) /\ s # <<>> /\ Head(s) = Head(recs) /\ Tail(s) = t \o B /\ Len(t) = Len(recs) - 1
      /\ Len(recs) \in Nat /\ Len(B) \in Nat
    BY <1>1
<1>3. FromTo(P, z, s) /\ z \in Int
    BY DEF SentInOrder
<1> HIDE DEF s, z, B, t
<1>4. Head(s) = P[z] /\ FromTo(P, z + 1, Tail(s))
    BY <1>2, <1>3, FromToTaken
<1>5. z + 1 = f + (taken + 1)
    BY DEF z
<1>6. sent = (taken + 1) + Len(t) + Len(B) /\ Len(t) <= 1
    BY <1>2 DEF SentInOrder, B
<1>7. SentInOrder(P, f, sent, w, b, t, taken + 1)
    BY <1>2, <1>4, <1>5, <1>6 DEF SentInOrder, B
<1> QED
    BY <1>2, <1>4, <1>7 DEF z, t

\* The next frame is read.
LEMMA TakeFrame ==
    ASSUME NEW P, NEW f \in Nat, NEW sent \in Nat, NEW w, NEW b \in Seq(Frames), b # <<>>, NEW taken \in Nat,
           SentInOrder(P, f, sent, w, b, <<>>, taken), Len(Head(b).recs) <= 1
    PROVE  SentInOrder(P, f, sent, w, Tail(b), Head(b).recs, taken)
<1> DEFINE t == Tail(b)
           x == Head(b).recs
           B == Fetched(b)
           R == Fetched(t)
<1>1. B = x \o R /\ x \in Seq(Positions(Nat)) /\ t \in Seq(Frames) /\ R \in Seq(Positions(Nat)) /\ B \in Seq(Positions(Nat))
    <2>1. Head(b) \in Frames /\ t \in Seq(Frames)
        BY TakenOff
    <2>2. x \in Seq(Positions(Nat))
        BY <2>1 DEF Frames
    <2> QED
        BY <2>1, <2>2, FetchedOf
<1> HIDE DEF t, x, R
<1>2. <<>> \o B = B /\ Len(B) = Len(x) + Len(R) /\ Len(x) \in Nat /\ Len(R) \in Nat
    BY <1>1
<1>3. /\ sent = taken + 0 + Len(B) /\ FromTo(P, f + taken, B)
      /\ Len(Fetched(w)) = sent /\ FromTo(P, f, Fetched(w))
    BY <1>2 DEF SentInOrder
<1>4. sent = taken + Len(x) + Len(R)
    BY <1>2, <1>3
<1>5. SentInOrder(P, f, sent, w, t, x, taken)
    BY <1>1, <1>3, <1>4 DEF SentInOrder, R, x
<1> QED
    BY <1>5 DEF t, x

-----------------------------------------------------------------------------
(***************************************************************************)
(* What the actions do to the reader.                                      *)
(***************************************************************************)
\* The fields of a reader that reading does not change.
Kept(r, s) ==
    /\ s.before = r.before /\ s.promptLen = r.promptLen

\* Those that only a position changes.
Untaken(r, s) ==
    /\ Kept(r, s)
    /\ s.held = r.held /\ s.echoed = r.echoed /\ s.emitting = r.emitting /\ s.running = r.running

\* What each action of the reader does to it.
LEMMA PullReader ==
    ASSUME Shape, Pull
    PROVE  Untaken(rd, rd') /\ rd'.recs = rd.recs /\ rd'.finish = rd.finish
<1>1. rd \in Readers
    BY DEF Shape, Control, Types
<1>2. \E b : rd' = [rd EXCEPT !.buf = b]
    BY Pulled
<1> QED
    BY <1>1, <1>2 DEF Readers, Untaken, Kept

LEMMA ReadFrameReader ==
    ASSUME Shape, ReadFrame
    PROVE  /\ Untaken(rd, rd') /\ rd.recs = <<>> /\ rd.buf # <<>>
           /\ rd'.buf = Tail(rd.buf) /\ rd'.recs = Head(rd.buf).recs
           /\ rd'.finish = IF Head(rd.buf).finish = None /\ ~p.host THEN rd.finish ELSE Head(rd.buf).finish
<1> DEFINE x == Head(rd.buf).recs
           why == IF Head(rd.buf).finish = None /\ ~p.host THEN rd.finish ELSE Head(rd.buf).finish
<1>1. rd.recs = <<>> /\ rd.buf # <<>>
    BY DEF ReadFrame, Reading
<1>2. /\ Rest \in Readers
      /\ Rest.buf = Tail(rd.buf) /\ Rest.held = rd.held
      /\ Rest.finish = rd.finish /\ Rest.echoed = rd.echoed /\ Rest.emitting = rd.emitting
      /\ Rest.running = rd.running /\ Rest.before = rd.before /\ Rest.promptLen = rd.promptLen
    BY <1>1, Resumed
<1>3. rd' = [Rest EXCEPT !.recs = x, !.finish = why]
    BY <1>2 DEF ReadFrame
<1> HIDE DEF x, why
<1>4. /\ rd'.recs = x /\ rd'.finish = why /\ rd'.buf = Rest.buf
      /\ rd'.held = Rest.held /\ rd'.echoed = Rest.echoed /\ rd'.emitting = Rest.emitting
      /\ rd'.running = Rest.running /\ rd'.before = Rest.before /\ rd'.promptLen = Rest.promptLen
    BY <1>2, <1>3 DEF Readers
<1>5. rd'.buf = Tail(rd.buf) /\ Untaken(rd, rd')
    BY <1>2, <1>4 DEF Untaken, Kept
<1> QED
    BY <1>1, <1>4, <1>5 DEF x, why

LEMMA ReadDoneReader ==
    ASSUME Shape, ReadDone
    PROVE  /\ Untaken(rd, rd') /\ rd.recs = <<>> /\ rd.buf # <<>> /\ IsDone(Head(rd.buf))
           /\ rd'.buf = Tail(rd.buf) /\ rd'.recs = <<>> /\ rd'.finish = rd.finish
<1>1. rd.recs = <<>> /\ rd.buf # <<>> /\ rd' = Rest /\ IsDone(Head(rd.buf))
    BY DEF ReadDone, Reading, IsDone
<1> QED
    BY <1>1, Resumed DEF Untaken, Kept

LEMMA ReadEchoReader ==
    ASSUME Shape, ReadEcho
    PROVE  /\ Kept(rd, rd') /\ rd.recs # <<>>
           /\ rd'.buf = rd.buf /\ rd'.recs = Tail(rd.recs) /\ rd'.finish = rd.finish
           /\ rd'.held = rd.held /\ rd'.emitting = rd.emitting
           /\ rd'.running = RunningLen(Head(rd.recs))
           /\ rd'.echoed = Append(rd.echoed, EchoRow(Head(rd.recs), rd.echoed))
<1> DEFINE row == EchoRow(Head(rd.recs), rd.echoed)
           tail == Tail(rd.recs)
           length == RunningLen(Head(rd.recs))
           rows2 == Append(rd.echoed, row)
<1>1. rd.recs # <<>> /\ rd \in Readers
    BY DEF ReadEcho, Shape, Control, Types
<1>2. rd' = [rd EXCEPT !.recs = tail, !.running = length, !.echoed = rows2]
    BY <1>1 DEF ReadEcho, Readers
<1> HIDE DEF tail, length, rows2
<1>3. /\ rd'.recs = tail /\ rd'.running = length /\ rd'.echoed = rows2
      /\ rd'.buf = rd.buf /\ rd'.finish = rd.finish /\ rd'.held = rd.held /\ rd'.emitting = rd.emitting
      /\ Kept(rd, rd')
    BY <1>1, <1>2 DEF Readers, Kept
<1> QED
    BY <1>1, <1>3 DEF tail, length, rows2

LEMMA ReadTokenReader ==
    ASSUME Shape, ReadToken
    PROVE  /\ Kept(rd, rd') /\ rd.recs # <<>>
           /\ rd'.buf = rd.buf /\ rd'.recs = Tail(rd.recs) /\ rd'.finish = rd.finish
           /\ rd'.held = (IF p.host THEN <<>> ELSE <<Head(rd.recs)>>)
           /\ rd'.emitting = TRUE /\ rd'.echoed = rd.echoed
<1> DEFINE tail == Tail(rd.recs)
           length == IF Echoing THEN RunningLen(Head(rd.recs)) ELSE rd.running
           hold == IF p.host THEN <<>> ELSE <<Head(rd.recs)>>
<1>1. rd.recs # <<>> /\ rd \in Readers
    BY DEF ReadToken, Shape, Control, Types
<1>2. rd' = [rd EXCEPT !.recs = tail, !.emitting = TRUE, !.running = length, !.held = hold]
    BY <1>1 DEF ReadToken, Readers
<1> HIDE DEF tail, length, hold
<1>3. /\ rd'.recs = tail /\ rd'.held = hold /\ rd'.emitting = TRUE
      /\ rd'.buf = rd.buf /\ rd'.finish = rd.finish /\ rd'.echoed = rd.echoed
      /\ Kept(rd, rd')
    BY <1>1, <1>2 DEF Readers, Kept
<1> QED
    BY <1>1, <1>3 DEF tail, hold

\* A step is one of a position, with a reason.
StepOf(rec, why) ==
    /\ inst' \in Insts /\ Grows(inst, inst')
    /\ rec.id = None => Text(<<rec.piece>>) \in ToSet(inst'.interned)
    /\ IdOf(inst', rec) \in Nat
    /\ ~p.host => inst' = Learn(inst, rec)
    /\ steps' = Append(steps, [pos |-> rd.before + Len(steps), id |-> IdOf(inst', rec),
                               piece |-> rec.piece, k |-> rec.k, reason |-> why])
    /\ steps' \in Seq(Steps) /\ Len(steps') = Len(steps) + 1
    /\ rows' = IF q.way = "combined" THEN rd.echoed ELSE rows

\* What a token that was read does to the steps: of a provider the one held
\* before it becomes a step.
LEMMA TokenSteps ==
    ASSUME Shape, ReadToken
    PROVE  /\ at = "read" /\ at' = "read" /\ Head(rd.recs) \in Positions(Nat)
           /\ UNCHANGED <<p, shown, q, http, up, wire, entries, outcome>>
           /\ p.host => StepOf(Head(rd.recs), rd.finish)
           /\ ~p.host /\ rd.held # <<>> => rd.held[1] \in Positions(Nat) /\ StepOf(rd.held[1], None)
           /\ ~p.host /\ rd.held = <<>> => UNCHANGED <<inst, steps, rows>>
<1>1. /\ at = "read" /\ rd.recs # <<>>
      /\ IF p.host THEN Yield(Head(rd.recs), rd.finish)
         ELSE IF rd.held # <<>> THEN Yield(rd.held[1], None)
         ELSE UNCHANGED <<inst, steps, rows>>
      /\ UNCHANGED <<p, shown, q, at, http, up, wire, entries, outcome>>
    BY DEF ReadToken
<1>2. /\ rd.held \in Seq(Positions(Nat)) /\ rd.finish \in Reported /\ None \in Reported
    BY DEF Shape, Control, Types, Readers, Reported
<1>3. Head(rd.recs) \in Positions(Nat) /\ (p.host => Head(rd.recs).id # None)
    BY <1>1, NextPosition
<1>4. ASSUME NEW rec, NEW why, Yield(rec, why)
      PROVE  ~p.host => inst' = Learn(inst, rec)
    BY <1>4 DEF Yield
<1>5. p.host => StepOf(Head(rd.recs), rd.finish)
    BY <1>1, <1>2, <1>3, <1>4, YieldTypes DEF StepOf
<1>6. ~p.host /\ rd.held # <<>> => rd.held[1] \in Positions(Nat) /\ StepOf(rd.held[1], None)
    <2> SUFFICES ASSUME ~p.host, rd.held # <<>> PROVE rd.held[1] \in Positions(Nat) /\ StepOf(rd.held[1], None)
        OBVIOUS
    <2>1. rd.held[1] \in Positions(Nat)
        BY <1>2
    <2>2. Yield(rd.held[1], None)
        BY <1>1
    <2> DEFINE h == rd.held[1]
    <2>3. h \in Positions(Nat) /\ Yield(h, None)
        BY <2>1, <2>2
    <2> HIDE DEF h
    <2>4. StepOf(h, None)
        BY <1>1, <1>2, <1>4, <2>3, YieldTypes DEF StepOf
    <2> QED
        BY <2>3, <2>4 DEF h
<1> QED
    BY <1>1, <1>3, <1>5, <1>6

\* The held token becomes the last step.
LEMMA FlushSteps ==
    ASSUME Shape, Flush
    PROVE  /\ at = "flush" /\ at' = "over" /\ ~p.host
           /\ UNCHANGED <<p, shown, q, http, up, wire, rd, entries, outcome>>
           /\ rows' = IF q.way = "combined" THEN rd.echoed ELSE rows
           /\ rd.held # <<>> => /\ rd.held[1] \in Positions(Nat)
                                /\ StepOf(rd.held[1], FinishReasonToStop(rd.finish))
           /\ rd.held = <<>> => UNCHANGED <<inst, steps>>
<1>1. /\ at = "flush" /\ at' = "over" /\ ~p.host
      /\ IF rd.held # <<>> THEN Yield(rd.held[1], FinishReasonToStop(rd.finish))
         ELSE /\ rows' = IF q.way = "combined" THEN rd.echoed ELSE rows
              /\ paused' = FALSE /\ UNCHANGED <<inst, steps>>
      /\ UNCHANGED <<p, shown, q, http, up, wire, rd, entries, outcome>>
    BY DEF Flush, Shape, Control, Resting
<1>2. rd.held \in Seq(Positions(Nat)) /\ FinishReasonToStop(rd.finish) \in Reported
    BY DEF Shape, Control, Types, Readers, FinishReasonToStop, Reported, Reasons
<1>3. rd.held # <<>> => /\ rd.held[1] \in Positions(Nat)
                        /\ StepOf(rd.held[1], FinishReasonToStop(rd.finish))
    <2> SUFFICES ASSUME rd.held # <<>>
                 PROVE  rd.held[1] \in Positions(Nat) /\ StepOf(rd.held[1], FinishReasonToStop(rd.finish))
        OBVIOUS
    <2> DEFINE h == rd.held[1]
               why == FinishReasonToStop(rd.finish)
    <2>1. h \in Positions(Nat) /\ why \in Reported
        BY <1>2
    <2>2. Yield(h, why)
        BY <1>1
    <2> HIDE DEF h, why
    <2>3. inst' = Learn(inst, h)
        BY <1>1, <2>2 DEF Yield
    <2>4. StepOf(h, why)
        BY <1>1, <2>1, <2>2, <2>3, YieldTypes DEF StepOf
    <2> QED
        BY <2>1, <2>4 DEF h, why
<1>4. rows' = IF q.way = "combined" THEN rd.echoed ELSE rows
    BY <1>1 DEF Yield
<1> QED
    BY <1>1, <1>3, <1>4

\* Shape and Order.
Ordering == Shape /\ Order

\* The positions depend on the request and the provider alone.
LEMMA PlacesStay ==
    ASSUME p' = p, http' = http, up'.style = up.style
    PROVE  Places' = Places /\ FirstSent' = FirstSent /\ Pieces' = Pieces
<1>1. FirstSent' = FirstSent /\ Pieces' = Pieces /\ \A k : Position(k)' = Position(k)
    BY PositionsStay
<1>2. Places' = [k \in Nat |-> Position(k)']
    BY DEF Places
<1> QED
    BY <1>1, <1>2 DEF Places

\* What is known of a stream that is read.
LEMMA StreamFacts ==
    ASSUME Shape, at \in {"read", "flush"}
    PROVE  /\ FirstSent \in Nat \ {0} /\ FirstSent <= Len(Pieces) + 1 /\ Pieces \in Seq(Nat) /\ Len(Pieces) \in Nat
           /\ up \in Uppers /\ up.sent \in Nat /\ wire \in Seq(Frames) /\ rd \in Readers
           /\ rd.buf \in Seq(Frames) /\ rd.recs \in Seq(Positions(Nat)) /\ rd.held \in Seq(Positions(Nat))
           /\ Len(rd.held) <= 1 /\ rd.echoed \in Seq([pos : Nat, k : Nat]) /\ Len(rd.echoed) \in Nat
           /\ steps \in Seq(Steps) /\ Len(steps) \in Nat
           /\ Taken(rd, steps) \in Nat /\ rd.before \in Nat /\ rd.promptLen \in Nat /\ rd.running \in Nat
           /\ StreamBodyFits(http.body, q) /\ BodyFits(http.body)
           /\ q.prompt \in Seq(Tokens) /\ q.prepend \in Seq(Tokens) /\ q.picks \in Seq(Nat) /\ p \in Provider
<1>1. StreamBodyFits(http.body, q) /\ BodyFits(http.body) /\ Asked(q)
    BY DEF Shape, Control, BodyOK, Resting, Streamed, CallOK
<1>2. /\ p \in Provider /\ up \in Uppers /\ wire \in Seq(Frames) /\ rd \in Readers /\ Len(rd.held) <= 1
      /\ steps \in Seq(Steps)
    BY DEF Shape, Control, Types
<1>3. Pieces \in Seq(Nat) /\ http.body.last \in (Nat \ {0}) \cup {None}
    BY <1>1 DEF BodyFits, StreamBodyFits, Pieces
<1>4. FirstSent \in Nat \ {0} /\ FirstSent <= Len(Pieces) + 1
    BY <1>3, FirstSentType
<1>5. /\ rd.buf \in Seq(Frames) /\ rd.recs \in Seq(Positions(Nat)) /\ rd.held \in Seq(Positions(Nat))
      /\ rd.echoed \in Seq([pos : Nat, k : Nat])
      /\ rd.before \in Nat /\ rd.promptLen \in Nat /\ rd.running \in Nat /\ up.sent \in Nat
    BY <1>2 DEF Readers, Uppers
<1>6. Len(rd.echoed) \in Nat /\ Len(steps) \in Nat /\ Len(rd.held) \in Nat /\ Len(Pieces) \in Nat
    <2>1. \A T : \A s \in Seq(T) : Len(s) \in Nat
        OBVIOUS
    <2> QED
        BY <1>2, <1>3, <1>5, <2>1
<1>7. Taken(rd, steps) \in Nat
    <2> DEFINE a == Len(rd.echoed)
               b == Len(steps)
               c == Len(rd.held)
    <2>1. a \in Nat /\ b \in Nat /\ c \in Nat /\ Taken(rd, steps) = a + b + c
        BY <1>6 DEF Taken
    <2> HIDE DEF a, b, c
    <2>2. a + b + c \in Nat
        BY <2>1
    <2> QED
        BY <2>1, <2>2
<1>8. q.prompt \in Seq(Tokens) /\ q.prepend \in Seq(Tokens) /\ q.picks \in Seq(Nat)
    BY <1>1 DEF Asked
<1> QED
    BY <1>1, <1>2, <1>3, <1>4, <1>5, <1>6, <1>7, <1>8

LEMMA PlaceFields ==
    ASSUME NEW k \in Nat
    PROVE  Places[k] = Position(k) /\ Places[k].k = k /\ Places[k].piece = PieceAt(k)
<1>1. Places[k] = Position(k)
    BY DEF Places
<1> QED
    BY <1>1, PositionFields

\* Each action that touches the stream keeps Order.
LEMMA OpenedOrder == ASSUME Ordering, Opened PROVE Order'
<1>1. /\ at = "open" /\ at' = "read" /\ wire' = wire /\ steps' = steps /\ p' = p /\ wire = <<>> /\ steps = <<>>
    BY DEF Opened, Ordering, Shape, Control, Resting
<1>2. /\ rd'.recs = <<>> /\ rd'.buf = <<>> /\ rd'.held = <<>> /\ rd'.echoed = <<>> /\ rd'.emitting = FALSE
    <2>1. PICK b, n : rd' = [NewReader EXCEPT !.before = b, !.promptLen = n]
        BY DEF Opened
    <2> QED
        BY <2>1 DEF NewReader
<1>3. up'.sent = 0
    BY DEF Opened, NoUp
<1>4. FirstSent' = FirstSent /\ FirstSent \in Nat \ {0}
    <2>1. http' = http
        BY DEF Opened
    <2>2. Pieces' = Pieces
        BY <2>1 DEF Pieces
    <2>3. Pieces \in Seq(Nat) /\ http.body.last \in (Nat \ {0}) \cup {None}
        BY <1>1 DEF Ordering, Shape, Control, BodyOK, BodyFits, StreamBodyFits, Pieces
    <2>4. FirstSent \in Nat \ {0}
        BY <2>3, FirstSentType
    <2> QED
        BY <2>1, <2>2, <2>4 DEF FirstSent
<1>5. Fetched(<<>>) = <<>> /\ Len(<<>>) = 0
    BY FetchedOf
<1>6. Taken(rd, steps)' = 0
    BY <1>1, <1>2, <1>5 DEF Taken
<1>7. SentInOrder(Places, FirstSent, up.sent, wire, rd.buf, rd.recs, Taken(rd, steps))'
    <2>1. <<>> \o <<>> = <<>>
        OBVIOUS
    <2>2. FromTo(Places', FirstSent + 0, <<>>) /\ FromTo(Places', FirstSent, <<>>)
        BY DEF FromTo
    <2> QED
        BY <1>1, <1>2, <1>3, <1>4, <1>5, <1>6, <2>1, <2>2 DEF SentInOrder
<1>8. TakenInOrder(Places, FirstSent, rd, steps)'
    BY <1>1, <1>2 DEF TakenInOrder, FromTo
<1> QED
    BY <1>1, <1>2, <1>7, <1>8 DEF Order

LEMMA PullOrder == ASSUME Ordering, Pull PROVE Order'
<1> DEFINE P == Places
           f == FirstSent
           b0 == rd.buf
           recs == rd.recs
           t == Taken(rd, steps)
<1>1. /\ at = "read" /\ at' = "read" /\ rd.buf = <<>> /\ Shape
      /\ UNCHANGED <<p, q, http, steps>>
    BY DEF Pull, Reading, Ordering
<1>2. /\ f \in Nat /\ up \in Uppers /\ wire \in Seq(Frames) /\ b0 \in Seq(Frames)
      /\ recs \in Seq(Positions(Nat)) /\ t \in Nat /\ rd \in Readers
    BY <1>1, StreamFacts
<1>3. SentInOrder(P, f, up.sent, wire, b0, recs, t) /\ TakenInOrder(P, f, rd, steps)
    BY <1>1 DEF Ordering, Order
<1>4. Untaken(rd, rd') /\ rd'.recs = recs
    BY <1>1, PullReader
<1>5. ASSUME NEW u \in Uppers, NEW w \in Seq(Frames), NEW b \in Seq(Frames), NEW fr, NEW v,
             SentInOrder(P, f, u.sent, w, b, recs, t), Emits(u, fr, v)
      PROVE  /\ SentInOrder(P, f, v.sent, Append(w, fr), Append(b, fr), recs, t)
             /\ fr \in Frames /\ v \in Uppers /\ v.style = u.style
             /\ Append(w, fr) \in Seq(Frames) /\ Append(b, fr) \in Seq(Frames)
    <2>1. /\ fr \in Frames /\ v \in Uppers /\ v.style = u.style
          /\ \/ fr.recs = <<>> /\ v.sent = u.sent
             \/ fr.recs = <<Position(FirstSent + u.sent)>> /\ v.sent = u.sent + 1
        BY <1>5 DEF Emits
    <2> DEFINE m == u.sent
               n == v.sent
    <2>2. m \in Nat /\ n \in Nat
        BY <2>1 DEF Uppers
    <2>3. P[f + m] = Position(FirstSent + u.sent)
        <3>1. f + m \in Nat
            BY <1>2, <2>2
        <3> QED
            BY <3>1 DEF Places
    <2>4. \/ fr.recs = <<>> /\ n = m
          \/ fr.recs = <<P[f + m]>> /\ n = m + 1
        BY <2>1, <2>3
    <2>5. SentInOrder(P, f, m, w, b, recs, t)
        BY <1>5
    <2> HIDE DEF P, f, t, recs, m, n
    <2>6. SentInOrder(P, f, n, Append(w, fr), Append(b, fr), recs, t)
        BY <1>2, <2>1, <2>2, <2>4, <2>5, FrameInOrder
    <2> QED
        BY <2>1, <2>6 DEF n
<1>6. SentInOrder(P, f, up'.sent, wire', rd'.buf, recs, t) /\ up'.style = up.style
    <2>1. CASE \E fr \in Frames : Emits(up, fr, up') /\ wire' = Append(wire, fr) /\ rd' = [rd EXCEPT !.buf = <<fr>>]
        <3>1. PICK fr \in Frames : Emits(up, fr, up') /\ wire' = Append(wire, fr) /\ rd' = [rd EXCEPT !.buf = <<fr>>]
            BY <2>1
        <3>2. rd'.buf = <<fr>> /\ <<fr>> = Append(b0, fr)
            <4>1. <<fr>> = Append(<<>>, fr)
                OBVIOUS
            <4>2. rd'.buf = <<fr>>
                BY <1>2, <3>1 DEF Readers
            <4> QED
                BY <1>1, <4>1, <4>2
        <3> HIDE DEF P, f, t, recs, b0
        <3>3. SentInOrder(P, f, up'.sent, Append(wire, fr), Append(b0, fr), recs, t) /\ up'.style = up.style
            BY <1>2, <1>3, <1>5, <3>1
        <3> QED
            BY <3>1, <3>2, <3>3
    <2>2. CASE \E fr, g \in Frames, u \in Uppers :
                 /\ Emits(up, fr, u) /\ Emits(u, g, up')
                 /\ wire' = wire \o <<fr, g>> /\ rd' = [rd EXCEPT !.buf = <<fr, g>>]
        <3>1. PICK fr \in Frames, g \in Frames, u \in Uppers :
                 /\ Emits(up, fr, u) /\ Emits(u, g, up')
                 /\ wire' = wire \o <<fr, g>> /\ rd' = [rd EXCEPT !.buf = <<fr, g>>]
            BY <2>2
        <3>2. rd'.buf = <<fr, g>> /\ <<fr, g>> = Append(Append(b0, fr), g)
            <4>1. <<fr, g>> = Append(Append(<<>>, fr), g)
                OBVIOUS
            <4>2. rd'.buf = <<fr, g>>
                BY <1>2, <3>1 DEF Readers
            <4> QED
                BY <1>1, <4>1, <4>2
        <3>3. wire' = Append(Append(wire, fr), g)
            BY <1>2, <3>1
        <3> HIDE DEF P, f, t, recs, b0
        <3>4. /\ SentInOrder(P, f, u.sent, Append(wire, fr), Append(b0, fr), recs, t) /\ u.style = up.style
              /\ Append(wire, fr) \in Seq(Frames) /\ Append(b0, fr) \in Seq(Frames)
            BY <1>2, <1>3, <1>5, <3>1
        <3>5. /\ SentInOrder(P, f, up'.sent, Append(Append(wire, fr), g), Append(Append(b0, fr), g), recs, t)
              /\ up'.style = u.style
            BY <1>5, <3>1, <3>4
        <3> QED
            BY <3>2, <3>3, <3>4, <3>5
    <2> QED
        BY <1>1, <2>1, <2>2, Pulled
<1>7. Places' = P /\ FirstSent' = f
    BY <1>1, <1>6, PlacesStay
<1>8. Taken(rd, steps)' = t
    BY <1>1, <1>4 DEF Taken, Untaken
<1>9. TakenInOrder(Places, FirstSent, rd, steps)'
    <2> HIDE DEF P, f
    <2> QED
        BY <1>1, <1>3, <1>4, <1>7 DEF TakenInOrder, Untaken, Kept
<1>10. SentInOrder(Places, FirstSent, up.sent, wire, rd.buf, rd.recs, Taken(rd, steps))'
    BY <1>4, <1>6, <1>7, <1>8
<1> QED
    BY <1>1, <1>4, <1>9, <1>10 DEF Order, Ordering, Untaken

LEMMA ReadFrameOrder == ASSUME Ordering, ReadFrame PROVE Order'
<1> DEFINE P == Places
           f == FirstSent
           b0 == rd.buf
           m == up.sent
           t == Taken(rd, steps)
<1>1. /\ at = "read" /\ at' = "read" /\ Shape
      /\ UNCHANGED <<p, q, http, steps, up, wire>>
    BY DEF ReadFrame, Reading, Ordering
<1>2. f \in Nat /\ m \in Nat /\ b0 \in Seq(Frames) /\ t \in Nat /\ b0 # <<>>
    BY <1>1, StreamFacts, ReadFrameReader
<1>3. /\ Untaken(rd, rd') /\ rd.recs = <<>>
      /\ rd'.buf = Tail(b0) /\ rd'.recs = Head(b0).recs
    BY <1>1, ReadFrameReader
<1>4. SentInOrder(P, f, m, wire, b0, <<>>, t) /\ TakenInOrder(P, f, rd, steps)
    BY <1>1, <1>3 DEF Ordering, Order
<1>5. Len(Head(b0).recs) <= 1
    BY <1>1, <1>2, Resumed DEF FrameOK
<1>6. Places' = P /\ FirstSent' = f
    BY <1>1, PlacesStay
<1>7. Taken(rd, steps)' = t
    BY <1>1, <1>3 DEF Taken, Untaken
<1>8. SentInOrder(P, f, m, wire, Tail(b0), Head(b0).recs, t)
    <2> HIDE DEF P, f, m, b0, t
    <2> QED
        BY <1>2, <1>4, <1>5, TakeFrame
<1>9. SentInOrder(Places, FirstSent, up.sent, wire, rd.buf, rd.recs, Taken(rd, steps))'
    BY <1>1, <1>3, <1>6, <1>7, <1>8
<1>10. TakenInOrder(Places, FirstSent, rd, steps)'
    <2> HIDE DEF P, f
    <2> QED
        BY <1>1, <1>3, <1>4, <1>6 DEF TakenInOrder, Untaken, Kept
<1> QED
    BY <1>1, <1>3, <1>9, <1>10 DEF Order, Ordering, Untaken

LEMMA ReadDoneOrder == ASSUME Ordering, ReadDone PROVE Order'
<1> DEFINE P == Places
           f == FirstSent
           b0 == rd.buf
           m == up.sent
           t == Taken(rd, steps)
<1>1. /\ at = "read" /\ Shape /\ (at' \in {"read", "flush"} => ~p.host)
      /\ UNCHANGED <<p, q, http, steps, up, wire>>
    BY DEF ReadDone, Reading, Ordering
<1>2. f \in Nat /\ m \in Nat /\ b0 \in Seq(Frames) /\ t \in Nat /\ b0 # <<>>
    BY <1>1, StreamFacts, ReadDoneReader
<1>3. Untaken(rd, rd') /\ rd.recs = <<>> /\ rd'.buf = Tail(b0) /\ rd'.recs = <<>> /\ IsDone(Head(b0))
    BY <1>1, ReadDoneReader
<1>4. SentInOrder(P, f, m, wire, b0, <<>>, t) /\ TakenInOrder(P, f, rd, steps)
    BY <1>1, <1>3 DEF Ordering, Order
<1>5. ASSUME ~p.host PROVE Head(b0).recs = <<>> /\ Len(Head(b0).recs) <= 1
    <2>1. Head(b0).recs = <<>>
        BY <1>1, <1>2, <1>3, <1>5, Resumed DEF FrameOK, ProviderFrame, IsDone
    <2> QED
        BY <2>1
<1>6. Places' = P /\ FirstSent' = f
    BY <1>1, PlacesStay
<1>7. Taken(rd, steps)' = t
    BY <1>1, <1>3 DEF Taken, Untaken
<1>8. ~p.host => SentInOrder(P, f, m, wire, Tail(b0), <<>>, t)
    <2> HIDE DEF P, f, m, b0, t
    <2> SUFFICES ASSUME ~p.host PROVE SentInOrder(P, f, m, wire, Tail(b0), <<>>, t)
        OBVIOUS
    <2>1. SentInOrder(P, f, m, wire, Tail(b0), Head(b0).recs, t)
        BY <1>2, <1>4, <1>5, TakeFrame
    <2> QED
        BY <1>5, <2>1
<1>9. ~p.host => SentInOrder(Places, FirstSent, up.sent, wire, rd.buf, rd.recs, Taken(rd, steps))'
    BY <1>1, <1>3, <1>6, <1>7, <1>8
<1>10. TakenInOrder(Places, FirstSent, rd, steps)'
    <2> HIDE DEF P, f
    <2> QED
        BY <1>1, <1>3, <1>4, <1>6 DEF TakenInOrder, Untaken, Kept
<1> QED
    BY <1>1, <1>3, <1>9, <1>10 DEF Order, Ordering, Untaken

\* A step of the position that is held back, or of the one read.
LEMMA StepInOrder ==
    ASSUME NEW P, NEW f \in Nat, NEW r, NEW ss \in Seq(Steps), TakenInOrder(P, f, r, ss),
           Len(r.echoed) \in Nat,
           NEW s \in Steps, s.pos = r.before + Len(ss), s.k = f + Len(r.echoed) + Len(ss),
           s.piece = P[s.k].piece,
           NEW r2, r2.echoed = r.echoed, r2.before = r.before, r2.emitting = TRUE,
           FromTo(P, s.k + 1, r2.held)
    PROVE  TakenInOrder(P, f, r2, Append(ss, s))
<1> DEFINE s2 == Append(ss, s)
           n == Len(ss)
           e == Len(r.echoed)
<1>1. /\ n \in Nat /\ e \in Nat /\ Len(s2) = n + 1 /\ DOMAIN s2 = 1 .. n + 1 /\ s2[n + 1] = s /\ s2 # <<>>
      /\ DOMAIN ss = 1 .. n /\ \A j \in 1 .. n : s2[j] = ss[j]
    OBVIOUS
<1>2. \A j \in DOMAIN r2.echoed : r2.echoed[j].k = f + j - 1
    BY DEF TakenInOrder
<1> HIDE DEF s2, n, e
<1>3. ASSUME NEW j \in DOMAIN s2
      PROVE  /\ s2[j].k = f + Len(r2.echoed) + j - 1
             /\ s2[j].piece = P[s2[j].k].piece
             /\ s2[j].pos = r2.before + j - 1
    <2>1. CASE j \in 1 .. n
        BY <1>1, <2>1 DEF TakenInOrder
    <2>2. CASE j = n + 1
        <3>1. s2[j] = s
            BY <1>1, <2>2
        <3>2. s.k = f + e + j - 1 /\ s.pos = r2.before + n
            BY <1>1, <2>2 DEF n, e
        <3>3. s.pos \in Nat
            BY DEF Steps
        <3>4. r2.before + n = r2.before + j - 1
            BY <1>1, <2>2, <3>2, <3>3
        <3> QED
            BY <3>1, <3>2, <3>4 DEF e
    <2> QED
        BY <1>1, <2>1, <2>2
<1>4. FromTo(P, f + Len(r2.echoed) + Len(s2), r2.held)
    <2>1. s.k + 1 = f + e + (n + 1)
        <3>1. s.k = f + e + n
            BY DEF n, e
        <3> QED
            BY <1>1, <3>1
    <2> QED
        BY <1>1, <2>1 DEF e
<1>5. TakenInOrder(P, f, r2, s2)
    BY <1>1, <1>2, <1>3, <1>4 DEF TakenInOrder
<1> QED
    BY <1>5 DEF s2

\* The position that comes next, and what is taken before it.
LEMMA NextInOrder ==
    ASSUME Ordering, at = "read", rd.recs # <<>>
    PROVE  /\ Head(rd.recs) = Position(FirstSent + Taken(rd, steps))
           /\ FirstSent + Taken(rd, steps) \in Nat
           /\ SentInOrder(Places, FirstSent, up.sent, wire, rd.buf, Tail(rd.recs), Taken(rd, steps) + 1)
           /\ TakenInOrder(Places, FirstSent, rd, steps)
<1> DEFINE P == Places
           f == FirstSent
           b == rd.buf
           recs == rd.recs
           m == up.sent
           t == Taken(rd, steps)
<1>1. /\ f \in Nat /\ m \in Nat /\ b \in Seq(Frames) /\ t \in Nat /\ recs \in Seq(Positions(Nat)) /\ recs # <<>>
      /\ SentInOrder(P, f, m, wire, b, recs, t) /\ TakenInOrder(P, f, rd, steps)
    BY StreamFacts DEF Ordering, Order
<1>2. f + t \in Nat /\ P[f + t] = Position(f + t)
    <2>1. f + t \in Nat
        BY <1>1
    <2> QED
        BY <2>1 DEF Places
<1>3. Head(recs) = P[f + t] /\ SentInOrder(P, f, m, wire, b, Tail(recs), t + 1)
    <2> HIDE DEF P, f, b, recs, m, t
    <2> QED
        BY <1>1, TakeNext
<1> QED
    BY <1>1, <1>2, <1>3

LEMMA ReadEchoOrder == ASSUME Ordering, ReadEcho PROVE Order'
<1> DEFINE rec == Head(rd.recs)
           row == EchoRow(rec, rd.echoed)
           e == Len(rd.echoed)
           f == FirstSent
           P == Places
<1>1. /\ at = "read" /\ at' = "read" /\ Shape /\ ~rd.emitting /\ q.way = "combined"
      /\ UNCHANGED <<p, q, http, steps, up, wire>>
    BY DEF ReadEcho, Echoing, Ordering
<1>2. /\ Kept(rd, rd') /\ rd.recs # <<>>
      /\ rd'.buf = rd.buf /\ rd'.recs = Tail(rd.recs)
      /\ rd'.held = rd.held /\ rd'.emitting = rd.emitting
      /\ rd'.echoed = Append(rd.echoed, row)
    BY <1>1, ReadEchoReader
<1>3. /\ rec = Position(f + Taken(rd, steps)) /\ f + Taken(rd, steps) \in Nat
      /\ SentInOrder(P, f, up.sent, wire, rd.buf, Tail(rd.recs), Taken(rd, steps) + 1)
      /\ TakenInOrder(P, f, rd, steps)
    BY <1>1, <1>2, NextInOrder
<1>4. steps = <<>> /\ rd.held = <<>>
    BY <1>1, <1>3 DEF TakenInOrder
<1>5. e \in Nat /\ f \in Nat /\ rd.echoed \in Seq([pos : Nat, k : Nat])
    BY <1>1, StreamFacts
<1>6. Taken(rd, steps) = e
    <2>1. Len(<<>>) = 0
        OBVIOUS
    <2> QED
        BY <1>4, <1>5, <2>1 DEF Taken
<1>7. row.k = f + e
    BY <1>3, <1>6, PositionFields DEF EchoRow
<1>8. row \in [pos : Nat, k : Nat]
    BY <1>5, <1>7 DEF EchoRow
<1>9. /\ Len(rd'.echoed) = e + 1 /\ rd'.echoed[e + 1] = row /\ DOMAIN rd'.echoed = 1 .. e + 1
      /\ DOMAIN rd.echoed = 1 .. e /\ \A j \in 1 .. e : rd'.echoed[j] = rd.echoed[j]
    <2> HIDE DEF row
    <2> QED
        BY <1>2, <1>5, <1>8
<1>10. Places' = P /\ FirstSent' = f
    BY <1>1, PlacesStay
<1>11. Taken(rd, steps)' = Taken(rd, steps) + 1
    <2>1. Len(<<>>) = 0
        OBVIOUS
    <2> QED
        BY <1>1, <1>2, <1>4, <1>5, <1>6, <1>9, <2>1 DEF Taken
<1>12. SentInOrder(Places, FirstSent, up.sent, wire, rd.buf, rd.recs, Taken(rd, steps))'
    BY <1>1, <1>2, <1>3, <1>10, <1>11
<1>13. TakenInOrder(P, f, rd', <<>>)
    <2> HIDE DEF row, e, f, P
    <2>1. \A j \in DOMAIN rd'.echoed : rd'.echoed[j].k = f + j - 1
        <3>1. \A j \in 1 .. e : rd'.echoed[j].k = f + j - 1
            BY <1>3, <1>9 DEF TakenInOrder
        <3>2. rd'.echoed[e + 1].k = f + (e + 1) - 1
            BY <1>5, <1>7, <1>9
        <3>3. 1 .. e + 1 = 1 .. e \cup {e + 1}
            BY <1>5
        <3> QED
            BY <1>9, <3>1, <3>2, <3>3
    <2> QED
        BY <1>1, <1>2, <1>4, <2>1 DEF TakenInOrder, FromTo
<1>14. TakenInOrder(Places, FirstSent, rd, steps)'
    BY <1>1, <1>4, <1>10, <1>13
<1>15. http.body.echo
    BY <1>1, StreamFacts DEF StreamBodyFits
<1> QED
    BY <1>1, <1>2, <1>4, <1>12, <1>14, <1>15 DEF Order

LEMMA ReadTokenOrder == ASSUME Ordering, ReadToken PROVE Order'
<1> DEFINE rec == Head(rd.recs)
           e == Len(rd.echoed)
           n == Len(steps)
           f == FirstSent
           P == Places
           t == Taken(rd, steps)
<1>1. /\ at = "read" /\ at' = "read" /\ Shape
      /\ UNCHANGED <<p, q, http, up, wire>>
      /\ p.host => StepOf(rec, rd.finish)
      /\ ~p.host /\ rd.held # <<>> => rd.held[1] \in Positions(Nat) /\ StepOf(rd.held[1], None)
      /\ ~p.host /\ rd.held = <<>> => UNCHANGED <<inst, steps, rows>>
      /\ rec \in Positions(Nat)
    BY TokenSteps DEF Ordering
<1>2. /\ Kept(rd, rd') /\ rd.recs # <<>>
      /\ rd'.buf = rd.buf /\ rd'.recs = Tail(rd.recs)
      /\ rd'.held = (IF p.host THEN <<>> ELSE <<rec>>)
      /\ rd'.emitting = TRUE /\ rd'.echoed = rd.echoed
    BY <1>1, ReadTokenReader
<1>3. /\ rec = Position(f + t) /\ f + t \in Nat
      /\ SentInOrder(P, f, up.sent, wire, rd.buf, Tail(rd.recs), t + 1)
      /\ TakenInOrder(P, f, rd, steps)
    BY <1>1, <1>2, NextInOrder DEF Ordering
<1>4. /\ e \in Nat /\ n \in Nat /\ f \in Nat /\ steps \in Seq(Steps) /\ t = e + n + Len(rd.held)
      /\ rd.held \in Seq(Positions(Nat)) /\ Len(rd.held) <= 1 /\ rd.before \in Nat
    BY <1>1, StreamFacts DEF Taken
<1>5. Places' = P /\ FirstSent' = f
    BY <1>1, PlacesStay
<1>6. p.host => rd.held = <<>>
    BY <1>1 DEF Ordering, Order
<1> HIDE DEF P, f, e, n, t, rec
<1>12. rd.held = <<>> => t = e + n
    <2> SUFFICES ASSUME rd.held = <<>> PROVE t = e + n
        OBVIOUS
    <2> DEFINE c == Len(rd.held)
    <2>1. Len(<<>>) = 0
        OBVIOUS
    <2>2. c = 0 /\ t = e + n + c /\ e \in Nat /\ n \in Nat
        BY <1>4, <2>1
    <2> HIDE DEF c
    <2> QED
        BY <2>2
<1>13. e \in Nat /\ n \in Nat /\ f \in Nat
    BY <1>4
\* A step of a position k, and what is held after it.
<1>7. ASSUME NEW r, NEW why, StepOf(r, why), r = Position(f + e + n), FromTo(P, f + e + n + 1, rd'.held)
      PROVE  TakenInOrder(P, f, rd', steps') /\ Len(steps') = n + 1
    <2> DEFINE s == [pos |-> rd.before + Len(steps), id |-> IdOf(inst', r), piece |-> r.piece, k |-> r.k,
                     reason |-> why]
    <2>1. steps' = Append(steps, s) /\ steps' \in Seq(Steps) /\ Len(steps') = n + 1
        BY <1>7 DEF StepOf, n
    <2>2. s \in Steps
        <3>1. n + 1 \in DOMAIN steps' /\ steps'[n + 1] = s
            BY <1>4, <2>1 DEF n
        <3> QED
            BY <2>1, <3>1
    <2>3. r.k = f + e + n /\ r.piece = P[f + e + n].piece
        <3>1. f + e + n \in Nat
            BY <1>4
        <3>2. r.k = f + e + n
            BY <1>7, PositionFields
        <3>3. P[f + e + n] = Position(f + e + n)
            BY <3>1, PlaceFields DEF P
        <3> QED
            BY <1>7, <3>2, <3>3
    <2>4. s.pos = rd.before + Len(steps) /\ s.k = f + Len(rd.echoed) + Len(steps) /\ s.piece = P[s.k].piece
        BY <2>3 DEF e, n
    <2>5. FromTo(P, s.k + 1, rd'.held)
        BY <1>7, <2>3
    <2>6. Len(rd.echoed) \in Nat /\ rd'.before = rd.before
        BY <1>2, <1>4 DEF e, Kept
    <2> HIDE DEF s
    <2>7. TakenInOrder(P, f, rd', Append(steps, s))
        BY <1>2, <1>3, <1>4, <2>2, <2>4, <2>5, <2>6, StepInOrder
    <2> QED
        BY <2>1, <2>7
<1>8. TakenInOrder(P, f, rd', steps') /\ Taken(rd', steps') = t + 1
    <2>0. Len(rd'.echoed) = e
        BY <1>2 DEF e
    <2>1. CASE p.host
        <3>1. rd.held = <<>> /\ rd'.held = <<>> /\ t = e + n
            BY <1>2, <1>6, <1>12, <2>1
        <3>2. rec = Position(f + e + n)
            BY <1>3, <1>4, <3>1
        <3>3. FromTo(P, f + e + n + 1, rd'.held)
            BY <3>1 DEF FromTo
        <3>4. TakenInOrder(P, f, rd', steps') /\ Len(steps') = n + 1
            BY <1>1, <1>7, <2>1, <3>2, <3>3
        <3> QED
            BY <1>4, <2>0, <3>1, <3>4 DEF Taken
    <2>2. CASE ~p.host /\ rd.held # <<>>
        <3>1. Len(rd.held) = 1 /\ t = e + n + 1 /\ rd'.held = <<rec>> /\ Len(rd'.held) = 1
            BY <1>2, <1>4, <2>2
        <3>2. rd.held[1] = Position(f + e + n)
            <4>1. rd.held[1] = P[f + e + n + 1 - 1] /\ f + e + n + 1 - 1 = f + e + n /\ f + e + n \in Nat
                BY <1>3, <1>4, <3>1 DEF TakenInOrder, FromTo, e, n
            <4> QED
                BY <4>1, PlaceFields DEF P
        <3>3. FromTo(P, f + e + n + 1, rd'.held)
            <4> DEFINE z == f + e + n + 1
            <4>1. z \in Nat /\ rec = Position(z)
                BY <1>3, <1>4, <3>1
            <4> HIDE DEF z
            <4>2. rec = P[z] /\ z \in Int
                BY <4>1, PlaceFields DEF P
            <4>3. FromTo(P, z, <<P[z]>>)
                BY <4>2, FromToOne
            <4> QED
                BY <3>1, <4>2, <4>3 DEF z
        <3>4. StepOf(rd.held[1], None)
            BY <1>1, <2>2
        <3>5. TakenInOrder(P, f, rd', steps') /\ Len(steps') = n + 1
            BY <1>7, <3>2, <3>3, <3>4
        <3> QED
            BY <1>4, <2>0, <3>1, <3>5 DEF Taken
    <2>3. CASE ~p.host /\ rd.held = <<>>
        <3>0. t = e + n
            BY <1>12, <2>3
        <3>1. steps' = steps /\ rd'.held = <<rec>> /\ t = e + n /\ Len(rd'.held) = 1
            BY <1>1, <1>2, <2>3, <3>0
        <3>2. FromTo(P, f + e + n, rd'.held)
            <4> DEFINE z == f + e + n
            <4>0. f + t = z /\ z \in Nat
                BY <1>13, <3>0
            <4>1. z \in Nat /\ rec = Position(z)
                BY <1>3, <4>0
            <4> HIDE DEF z
            <4>2. rec = P[z] /\ z \in Int
                BY <4>1, PlaceFields DEF P
            <4>3. FromTo(P, z, <<P[z]>>)
                BY <4>2, FromToOne
            <4> QED
                BY <3>1, <4>2, <4>3 DEF z
        <3>3. TakenInOrder(P, f, rd', steps')
            BY <1>2, <1>3, <3>1, <3>2 DEF TakenInOrder, Kept, e, n
        <3> QED
            BY <1>4, <2>0, <3>1, <3>3 DEF Taken, n
    <2> QED
        BY <2>1, <2>2, <2>3
<1>9. SentInOrder(Places, FirstSent, up.sent, wire, rd.buf, rd.recs, Taken(rd, steps))'
    BY <1>1, <1>2, <1>3, <1>5, <1>8
<1>10. TakenInOrder(Places, FirstSent, rd, steps)'
    BY <1>5, <1>8
<1>11. (p.host => rd'.held = <<>>) /\ (~http'.body.echo => rd'.echoed = <<>>)
    BY <1>1, <1>2 DEF Ordering, Order
<1> QED
    BY <1>1, <1>9, <1>10, <1>11 DEF Order

LEMMA EndOfBodyOrder == ASSUME Ordering, EndOfBody PROVE Order'
<1>1. at = "read" /\ UNCHANGED <<p, q, http, up, wire, rd, steps>>
    BY DEF EndOfBody, Reading
<1>2. Places' = Places /\ FirstSent' = FirstSent
    BY <1>1, PlacesStay
<1>3. Taken(rd, steps)' = Taken(rd, steps)
    BY <1>1 DEF Taken
<1>4. /\ SentInOrder(Places, FirstSent, up.sent, wire, rd.buf, rd.recs, Taken(rd, steps))'
      /\ TakenInOrder(Places, FirstSent, rd, steps)'
    BY <1>1, <1>2, <1>3 DEF Ordering, Order
<1> QED
    BY <1>1, <1>4 DEF Ordering, Order

\* The actions that do not lead to the reader.
LEMMA StaysOut ==
    ASSUME Ask \/ Refuse \/ Busy \/ Fail \/ Scored \/ NextToken \/ NoCandidates \/ Cut \/ Flush
           \/ Leave \/ Forget \/ Restart
    PROVE  at' \notin {"read", "flush"}
<1>1. CASE Refuse \/ Busy
    BY <1>1 DEF Refuse, Busy, Asking
<1>2. CASE NextToken \/ NoCandidates
    BY <1>2 DEF NextToken, NoCandidates
<1>3. \A i, ask, s : EnterDecoding(i, ask, s) => at' \in {"step", "open"}
    BY DEF EnterDecoding, Decoding
<1>4. CASE Fail \/ Scored
    BY <1>3, <1>4 DEF Fail, Scored
<1>5. CASE Ask
    <2>1. (\E i, ask, s : EnterDecoding(i, ask, s)) \/ at' = "score"
        BY <1>5 DEF Ask
    <2> QED
        BY <1>3, <2>1
<1>6. CASE Cut \/ Flush \/ Leave \/ Forget \/ Restart
    BY <1>6 DEF Cut, Flush, Leave, Forget, Restart
<1> QED
    BY <1>1, <1>2, <1>4, <1>5, <1>6

\* Every step keeps Ordering.
LEMMA OrderNext == ASSUME Ordering, [Next]_vars PROVE Ordering'
<1>0. Shape'
    BY ShapeNext DEF Ordering
<1>1. Order'
    <2>1. CASE at' \notin {"read", "flush"}
        BY <2>1 DEF Order
    <2>2. ASSUME at' \in {"read", "flush"}
          PROVE  ~(Ask \/ Refuse \/ Busy \/ Fail \/ Scored \/ NextToken \/ NoCandidates \/ Cut \/ Flush
                   \/ Leave \/ Forget \/ Restart)
        BY <2>2, StaysOut
    <2>3. CASE Opened
        BY <2>3, OpenedOrder
    <2>4. CASE Pull
        BY <2>4, PullOrder
    <2>5. CASE EndOfBody
        BY <2>5, EndOfBodyOrder
    <2>6. CASE ReadFrame
        BY <2>6, ReadFrameOrder
    <2>7. CASE ReadDone
        BY <2>7, ReadDoneOrder
    <2>8. CASE ReadEcho
        BY <2>8, ReadEchoOrder
    <2>9. CASE ReadToken
        BY <2>9, ReadTokenOrder
    <2>10. CASE UNCHANGED vars
        <3>1. UNCHANGED <<at, p, q, http, up, wire, rd, steps>>
            BY <2>10 DEF vars
        <3>2. Places' = Places /\ FirstSent' = FirstSent
            BY <3>1, PlacesStay
        <3>3. Taken(rd, steps)' = Taken(rd, steps)
            BY <3>1 DEF Taken
        <3> QED
            BY <3>1, <3>2, <3>3 DEF Ordering, Order
    <2> QED
        BY <2>1, <2>2, <2>3, <2>4, <2>5, <2>6, <2>7, <2>8, <2>9, <2>10 DEF Next
<1> QED
    BY <1>0, <1>1 DEF Ordering

-----------------------------------------------------------------------------
(***************************************************************************)
(* Where the echo of a prompt ends.                                        *)
(***************************************************************************)
\* The lengths of the reader are those of the prompt; the text of an echo that
\* is not over is no longer than it has positions; and unless the prompt was
\* sent as ids, the echo is over no earlier than the prompt.
EchoFits ==
    at \in {"read", "flush"} =>
        /\ rd.emitting \/ rd.running <= Len(rd.echoed)
        /\ rd.promptLen = IF http.body.prompt.array THEN Len(q.prompt) ELSE Len(Pieces)
        /\ http.body.echo /\ rd.emitting /\ ~http.body.prompt.array =>
              FirstSent + Len(rd.echoed) > Len(Pieces)
        /\ q.way = "combined" /\ steps # <<>> => Len(rows) = Len(rd.echoed)
        /\ Ready(inst) /\ q.prepend = <<>> => rd.before = Len(Pieces)

\* Ordering, and where the echo ends.
Echoes == Ordering /\ EchoFits

\* A part of a text shows at most as much as it has.
LEMMA SubTextShown ==
    ASSUME NEW s \in Seq(Nat), NEW k \in Nat \ {0}, k <= Len(s)
    PROVE  Shown(SubSeq(s, 1, k - 1)) \in Nat /\ Shown(SubSeq(s, 1, k - 1)) <= k - 1
<1> DEFINE t == SubSeq(s, 1, k - 1)
<1>1. t \in Seq(Nat) /\ Len(t) = k - 1
    OBVIOUS
<1> HIDE DEF t
<1>2. Shown(t) \in Nat /\ Shown(t) <= Len(t)
    BY <1>1, ShownType
<1> QED
    BY <1>1, <1>2 DEF t

LEMMA PieceShown ==
    ASSUME NEW x \in Nat
    PROVE  Shown(<<x>>) \in Nat /\ Shown(<<x>>) <= 1
<1> DEFINE t == <<x>>
<1>1. t \in Seq(Nat) /\ Len(t) = 1
    OBVIOUS
<1> HIDE DEF t
<1>2. Shown(t) \in Nat /\ Shown(t) <= Len(t)
    BY <1>1, ShownType
<1> QED
    BY <1>1, <1>2 DEF t

\* The running length of an echo.
LEMMA Running1 ==
    ASSUME NEW rec \in Positions(Nat), rd.running \in Nat
    PROVE  RunningLen(rec) \in Nat /\ RunningLen(rec) <= rd.running + 1
<1>1. rec.piece \in Nat
    BY DEF Positions
<1>2. Shown(<<rec.piece>>) \in Nat /\ Shown(<<rec.piece>>) <= 1
    BY <1>1, PieceShown
<1> QED
    BY <1>2 DEF RunningLen

\* A prompt that is sent as text is echoed to its end.
LEMMA EchoIsOver ==
    ASSUME Echoes, at = "read", rd.recs # <<>>, ~rd.emitting, IsEmit(Head(rd.recs)),
           ~http.body.prompt.array
    PROVE  FirstSent + Len(rd.echoed) > Len(Pieces)
<1> DEFINE rec == Head(rd.recs)
           e == Len(rd.echoed)
           f == FirstSent
           n == Len(Pieces)
           k == f + e
<1>1. /\ f \in Nat \ {0} /\ e \in Nat /\ n \in Nat /\ Pieces \in Seq(Nat) /\ rd.running \in Nat
      /\ rd.promptLen = n /\ rd.running <= e
    BY StreamFacts DEF Echoes, Ordering, EchoFits
<1>2. rec = Position(f + Taken(rd, steps)) /\ TakenInOrder(Places, f, rd, steps)
    BY NextInOrder DEF Echoes
<1>3. Taken(rd, steps) = e
    <2>1. steps = <<>> /\ rd.held = <<>>
        BY <1>2 DEF TakenInOrder
    <2>2. Len(<<>>) = 0
        OBVIOUS
    <2> QED
        BY <1>1, <2>1, <2>2 DEF Taken
<1>4. /\ rec = Position(k) /\ rec.off = OffAt(k) /\ rec.signal = (up.style = "signal" /\ k > n)
      /\ rec \in Positions(Nat) /\ k \in Nat \ {0}
    <2>1. rec \in Positions(Nat)
        BY NextPosition DEF Echoes, Ordering
    <2>2. rec = Position(k)
        BY <1>2, <1>3
    <2> QED
        BY <1>1, <2>1, <2>2, PositionFields
<1>5. CASE rec.off # None
    <2>1. rec.off >= n
        BY <1>1, <1>5 DEF IsEmit
    <2>2. ASSUME k <= n PROVE FALSE
        <3> DEFINE s == Shown(SubSeq(Pieces, 1, k - 1))
        <3>1. rec.off = s
            BY <1>1, <1>4, <1>5, <2>2 DEF OffAt
        <3>2. s \in Nat /\ s <= k - 1
            BY <1>1, <1>4, <2>2, SubTextShown
        <3> HIDE DEF s, k, n
        <3> QED
            BY <1>1, <1>4, <2>1, <2>2, <3>1, <3>2
    <2> QED
        BY <1>1, <2>2
<1>6. CASE rec.off = None /\ rec.signal
    BY <1>4, <1>6
<1>7. CASE rec.off = None /\ ~rec.signal
    <2>1. RunningLen(rec) > n /\ RunningLen(rec) \in Nat /\ RunningLen(rec) <= rd.running + 1
        BY <1>1, <1>4, <1>7, Running1 DEF IsEmit
    <2> DEFINE l == RunningLen(rec)
    <2>2. l > n /\ l \in Nat /\ l <= rd.running + 1
        BY <2>1
    <2> HIDE DEF l, e, f, n, rec
    <2>3. f + e > n
        BY <1>1, <2>2
    <2> QED
        BY <2>3 DEF f, e, n
<1> QED
    BY <1>5, <1>6, <1>7

\* Each action that touches the stream keeps EchoFits.
LEMMA OpenedEcho == ASSUME Echoes, Opened PROVE EchoFits'
<1> DEFINE prompt == IF http.body.prompt.array THEN q.prompt ELSE Pieces
           before == IF p.host THEN Len(Pieces) ELSE Len(Tokenize(inst, prompt))
<1>1. /\ at = "open" /\ at' = "read" /\ steps = <<>>
      /\ UNCHANGED <<p, inst, q, http, steps, rows>>
    BY DEF Opened, Echoes, Ordering, Shape, Control, Resting
<1>2. /\ rd'.before = before /\ rd'.promptLen = Len(prompt) /\ rd'.running = 0 /\ rd'.echoed = <<>>
      /\ rd'.emitting = FALSE
    <2>1. rd' = [NewReader EXCEPT !.before = before, !.promptLen = Len(prompt)]
        BY DEF Opened
    <2> QED
        BY <2>1 DEF NewReader
<1>3. Pieces' = Pieces
    BY <1>1 DEF Pieces
<1>4. StreamBodyFits(http.body, q)
    BY <1>1 DEF Echoes, Ordering, Shape, Control, BodyOK
<1>5. ASSUME Ready(inst), q.prepend = <<>>
      PROVE  before = Len(Pieces)
    BY <1>4, <1>5 DEF StreamBodyFits, Tokenize
<1>6. rd'.promptLen = IF http.body.prompt.array THEN Len(q.prompt) ELSE Len(Pieces)
    BY <1>2
<1>7. rd'.running <= Len(rd'.echoed)
    <2>1. Len(<<>>) = 0
        OBVIOUS
    <2> QED
        BY <1>2, <2>1
<1> QED
    BY <1>1, <1>2, <1>3, <1>5, <1>6, <1>7 DEF EchoFits

LEMMA UntakenEcho ==
    ASSUME Echoes, at = "read", at' \in {"read", "flush"}, UNCHANGED <<p, inst, q, http, steps, rows>>,
           up'.style = up.style, Untaken(rd, rd')
    PROVE  EchoFits'
<1>1. FirstSent' = FirstSent /\ Pieces' = Pieces
    BY PlacesStay
<1> QED
    BY <1>1 DEF Echoes, EchoFits, Untaken, Kept

LEMMA ReadEchoEcho == ASSUME Echoes, ReadEcho PROVE EchoFits'
<1> DEFINE rec == Head(rd.recs)
           row == EchoRow(rec, rd.echoed)
<1>1. /\ at = "read" /\ at' = "read" /\ Shape /\ Ordering /\ ~rd.emitting
      /\ UNCHANGED <<p, q, http, steps, up, rows>> /\ inst' = Learn(inst, rec)
    BY DEF ReadEcho, Echoing, Ordering, Echoes
<1>2. /\ Kept(rd, rd') /\ rd.recs # <<>> /\ rd'.emitting = rd.emitting
      /\ rd'.running = RunningLen(rec) /\ rd'.echoed = Append(rd.echoed, row)
    BY <1>1, ReadEchoReader
<1>3. rec \in Positions(Nat) /\ inst \in Insts
    BY <1>1, <1>2, NextPosition DEF Shape, Control, Types
<1>4. FirstSent' = FirstSent /\ Pieces' = Pieces
    BY <1>1, PlacesStay
<1>5. Ready(inst') <=> Ready(inst)
    BY <1>1, <1>3, LearnGrows DEF Grows, Ready
<1>6. rd.echoed \in Seq([pos : Nat, k : Nat]) /\ Len(rd.echoed) \in Nat /\ rd.running \in Nat
    BY <1>1, StreamFacts
<1>7. steps = <<>>
    BY <1>1 DEF Ordering, Order, TakenInOrder
<1>8. rd'.running <= Len(rd'.echoed)
    <2> DEFINE l == RunningLen(rec)
               e == Len(rd.echoed)
    <2>1. l \in Nat /\ l <= rd.running + 1 /\ rd.running <= e /\ e \in Nat
        BY <1>1, <1>3, <1>6, Running1 DEF Echoes, EchoFits
    <2>2. Len(rd'.echoed) = e + 1
        BY <1>2, <1>6
    <2> HIDE DEF l, e
    <2>3. l <= e + 1
        BY <1>6, <2>1
    <2> QED
        BY <1>2, <2>2, <2>3 DEF l
<1> QED
    BY <1>1, <1>2, <1>4, <1>5, <1>7, <1>8 DEF Echoes, EchoFits, Kept

LEMMA ReadTokenEcho == ASSUME Echoes, ReadToken PROVE EchoFits'
<1>1. /\ at = "read" /\ at' = "read" /\ Shape /\ Ordering
      /\ UNCHANGED <<p, q, http, up>>
      /\ UNCHANGED <<inst, steps, rows>> \/ \E rec, why : StepOf(rec, why)
    BY TokenSteps DEF Ordering, Echoes
<1>2. /\ Kept(rd, rd') /\ rd.recs # <<>> /\ rd'.emitting = TRUE /\ rd'.echoed = rd.echoed
    BY <1>1, ReadTokenReader
<1>3. FirstSent' = FirstSent /\ Pieces' = Pieces
    BY <1>1, PlacesStay
<1>4. Ready(inst') <=> Ready(inst)
    BY <1>1 DEF StepOf, Grows, Ready
<1>5. q.way = "combined" /\ steps' # <<>> => Len(rows') = Len(rd'.echoed)
    BY <1>1, <1>2 DEF StepOf, Echoes, EchoFits
<1>6. ASSUME http.body.echo, ~http.body.prompt.array
      PROVE  FirstSent + Len(rd.echoed) > Len(Pieces)
    <2>1. CASE rd.emitting
        BY <1>1, <1>6, <2>1 DEF Echoes, EchoFits
    <2>2. CASE ~rd.emitting
        <3>1. q.way = "combined"
            BY <1>1, <1>6, StreamFacts DEF StreamBodyFits
        <3>2. IsEmit(Head(rd.recs))
            BY <2>2, <3>1 DEF ReadToken, Echoing
        <3> QED
            BY <1>1, <1>2, <1>6, <2>2, <3>2, EchoIsOver
    <2> QED
        BY <2>1, <2>2
<1> QED
    BY <1>1, <1>2, <1>3, <1>4, <1>5, <1>6 DEF Echoes, EchoFits, Kept

\* Every step keeps Echoes.
LEMMA EchoNext == ASSUME Echoes, [Next]_vars PROVE Echoes'
<1>0. Ordering' /\ Shape
    BY OrderNext DEF Echoes, Ordering
<1>1. EchoFits'
    <2>1. CASE at' \notin {"read", "flush"}
        BY <2>1 DEF EchoFits
    <2>2. CASE at' \in {"read", "flush"} /\ Opened
        BY <2>2, OpenedEcho
    <2>3. CASE at' \in {"read", "flush"} /\ (ReadFrame \/ ReadDone)
        <3>1. /\ at = "read" /\ UNCHANGED <<p, inst, q, http, steps, rows, up>>
            BY <2>3 DEF ReadFrame, ReadDone, Reading
        <3>2. Untaken(rd, rd')
            BY <1>0, <2>3, ReadFrameReader, ReadDoneReader
        <3> QED
            BY <2>3, <3>1, <3>2, UntakenEcho
    <2>4. CASE at' \in {"read", "flush"} /\ Pull
        <3>1. at = "read" /\ UNCHANGED <<p, inst, q, http, steps, rows>> /\ Untaken(rd, rd')
            BY <1>0, <2>4, PullReader DEF Pull, Reading
        <3>2. up'.style = up.style
            BY <1>0, <2>4, Pulled DEF Emits
        <3> QED
            BY <2>4, <3>1, <3>2, UntakenEcho
    <2>5. CASE at' \in {"read", "flush"} /\ EndOfBody
        <3>1. at = "read" /\ UNCHANGED <<p, inst, q, http, steps, rows, up, rd>> /\ Untaken(rd, rd')
            BY <2>5 DEF EndOfBody, Reading, Untaken, Kept
        <3> QED
            BY <2>5, <3>1, UntakenEcho
    <2>6. CASE at' \in {"read", "flush"} /\ ReadEcho
        BY <2>6, ReadEchoEcho
    <2>7. CASE at' \in {"read", "flush"} /\ ReadToken
        BY <2>7, ReadTokenEcho
    <2>8. CASE UNCHANGED vars
        <3>1. UNCHANGED <<at, p, inst, q, http, up, rd, steps, rows>>
            BY <2>8 DEF vars
        <3>2. FirstSent' = FirstSent /\ Pieces' = Pieces
            BY <3>1, PlacesStay
        <3> QED
            BY <3>1, <3>2 DEF Echoes, EchoFits
    <2>9. ASSUME at' \in {"read", "flush"}
          PROVE  ~(Ask \/ Refuse \/ Busy \/ Fail \/ Scored \/ NextToken \/ NoCandidates \/ Cut \/ Flush
                   \/ Leave \/ Forget \/ Restart)
        BY <2>9, StaysOut
    <2> QED
        BY <2>1, <2>2, <2>3, <2>4, <2>5, <2>6, <2>7, <2>8, <2>9 DEF Next
<1> QED
    BY <1>0, <1>1 DEF Echoes

-----------------------------------------------------------------------------
(***************************************************************************)
(* The ids, and what they name.                                            *)
(***************************************************************************)
\* The responses of a provider come with real ids.
Real == p.host \/ FlagForModel(p, "new_logprobs")

\* An id is that of its token, or one made up, and an instance knows its text.
Named(x) == (x.id < InternBase => x.id = x.piece) /\ (Real => x.id < InternBase)
\* An id that stands for the piece of the step.
Spelt(i, x) == TextOfId(i, x.id) = <<x.piece>> /\ x.piece \in Tokens

\* With a real tokenizer a real id stands for its piece, and an interned one
\* for nothing.
LEMMA TextOfReal ==
    ASSUME NEW i, Ready(i), NEW id
    PROVE  TextOfId(i, id) = IF id < InternBase THEN <<id>> ELSE <<>>
BY DEF TextOfId

\* What was spelt stays spelt.
LEMMA SpeltStays ==
    ASSUME NEW i \in Insts, NEW j \in Insts, Grows(i, j), NEW x, x.id \in Nat, Spelt(i, x)
    PROVE  Spelt(j, x)
BY NamesStay DEF Spelt

\* What an instance has learned of the token at a position.
LEMMA NewName ==
    ASSUME NEW i \in Insts, NEW rec \in Positions(Nat),
           rec.id = (IF Real THEN rec.piece ELSE None),
           rec.id = None => Text(<<rec.piece>>) \in ToSet(i.interned),
           rec.id # None /\ ~Ready(i) => ToSet(Text(<<rec.piece>>)) \subseteq i.known,
           Real \/ ~Ready(i) => rec.piece \in Tokens,
           ~Ready(i) => rec.piece \notin Specials,
           NEW x, x.id = IdOf(i, rec), x.piece = rec.piece
    PROVE  Named(x) /\ (Real \/ ~Ready(i) => Spelt(i, x))
<1>1. /\ rec.piece \in Nat /\ None \notin Nat
    BY NoneIsNone DEF Positions
<1>2. /\ x.id \in Nat
      /\ rec.id # None => x.id = rec.id
      /\ rec.id = None => x.id >= InternBase
      /\ rec.id = None /\ ~Ready(i) => TextOfId(i, x.id) = Text(<<rec.piece>>)
    BY IdOfNames
<1>3. Named(x)
    <2>1. CASE Real
        <3>1. x.id = x.piece /\ x.piece \in Tokens
            BY <1>1, <1>2, <2>1
        <3> QED
            BY <3>1, CallAssumption DEF Named, Tokens
    <2>2. CASE ~Real
        <3>1. x.id >= InternBase /\ x.id \in Nat /\ InternBase \in Nat
            BY <1>1, <1>2, <2>2, CallAssumption
        <3>2. ~(x.id < InternBase)
            BY <3>1
        <3> QED
            BY <2>2, <3>2 DEF Named
    <2> QED
        BY <2>1, <2>2
<1>4. ASSUME Real \/ ~Ready(i) PROVE Spelt(i, x)
    <2>1. rec.piece \in Tokens
        BY <1>4
    <2>2. CASE Ready(i)
        <3>1. x.id = rec.piece /\ x.id < InternBase
            BY <1>1, <1>2, <1>4, <2>1, <2>2, CallAssumption DEF Tokens
        <3> QED
            BY <2>1, <2>2, <3>1, TextOfReal DEF Spelt
    <2>3. CASE ~Ready(i) /\ rec.id = None
        <3>1. Text(<<rec.piece>>) = <<rec.piece>>
            BY <1>1, <2>3, PieceTexts
        <3> QED
            BY <1>2, <2>1, <2>3, <3>1 DEF Spelt
    <2>4. CASE ~Ready(i) /\ rec.id # None
        <3>1. x.id = rec.piece /\ x.id < InternBase
            BY <1>1, <1>2, <2>1, <2>4, CallAssumption DEF Tokens
        <3>2. ToSet(Text(<<rec.piece>>)) = {rec.piece}
            BY <1>1, <2>4, PieceTexts
        <3>3. x.id \in i.known
            BY <2>4, <3>1, <3>2
        <3>4. TextOfId(i, x.id) = <<x.id>>
            BY <2>4, <3>1, <3>3 DEF TextOfId, IdToText
        <3> QED
            BY <2>1, <3>1, <3>4 DEF Spelt
    <2> QED
        BY <2>2, <2>3, <2>4
<1> QED
    BY <1>3, <1>4

\* A sequence of ids that an instance spells.
Spells(i, ids, pieces) ==
    /\ pieces \in Seq(Nat) /\ Len(pieces) = Len(ids)
    /\ \A k \in DOMAIN ids : TextOfId(i, ids[k]) = <<pieces[k]>>

\* Detokenizing the ids of steps that are spelt gives their pieces.
LEMMA IdsSpelt ==
    ASSUME NEW i \in Insts, NEW ids \in Seq(Nat), NEW pieces, Spells(i, ids, pieces)
    PROVE  /\ Detokenize(i, ids) = pieces
           /\ Ready(i) => ids = pieces
<1> USE DEF Spells
<1>1. Detokenize(i, ids) = pieces
    BY DetokenizeNames
<1>2. ASSUME Ready(i), NEW k \in DOMAIN ids
      PROVE  ids[k] = pieces[k]
    <2>1. TextOfId(i, ids[k]) = <<pieces[k]>>
        OBVIOUS
    <2>2. TextOfId(i, ids[k]) = IF ids[k] < InternBase THEN <<ids[k]>> ELSE <<>>
        BY <1>2, TextOfReal
    <2>3. \A x, y : (<<x>> = <<y>> => x = y) /\ <<y>> # <<>>
        OBVIOUS
    <2> DEFINE a == ids[k]
               b == pieces[k]
               t == TextOfId(i, a)
    <2>4. t = <<b>> /\ t = IF a < InternBase THEN <<a>> ELSE <<>>
        BY <2>1, <2>2
    <2> HIDE DEF a, b, t
    <2>5. a = b
        BY <2>3, <2>4
    <2> QED
        BY <2>5 DEF a, b
<1> QED
    BY <1>1, <1>2

\* The context, of the picks seen and of the steps said.
ContextOf(stage, call, seen, said) ==
    (IF stage = "score" \/ call.way \in {"native", "combined"} THEN call.prepend ELSE <<>>)
    \o call.prompt \o seen \o (IF stage = "step" THEN said ELSE <<>>)

\* The prompt of a request, where the ids of its picks and steps are spelt.
LEMMA BodyTells ==
    ASSUME p \in Provider, NEW i \in Insts, NEW call, Asked(call), NEW stage \in {"score", "step", "open"},
           NEW emitted \in Seq(Nat), NEW said, Spells(i, emitted, said), NEW seen, Spells(i, call.picks, seen),
           stage = "step" => Knows(i, call.prompt) /\ call.way = "steps",
           stage = "open" => call.way # "steps",
           p.host => Ready(i), call.prepend # <<>> => Ready(i)
    PROVE  BodyAt(stage, i, call, emitted).prompt.tokens = ContextOf(stage, call, seen, said)
<1> USE DEF ContextOf
<1>0. seen \in Seq(Nat) /\ said \in Seq(Nat)
    BY DEF Spells
<1>1. /\ call.prompt \in Seq(Nat) /\ call.prepend \in Seq(Nat) /\ call.picks \in Seq(Nat)
      /\ call.prompt \in Seq(Tokens) /\ call.way = Way(p, call)
    BY ConcatTypes DEF Asked
<1>2. Detokenize(i, call.picks) = seen /\ (Ready(i) => call.picks = seen)
    BY <1>1, IdsSpelt
<1>3. Detokenize(i, emitted) = said
    BY IdsSpelt
<1>4. CASE stage = "score"
    <2>1. BodyAt(stage, i, call, emitted).prompt.tokens = call.prepend \o call.prompt \o seen
        BY <1>2, <1>4, ScoreBodyFields DEF BodyAt
    <2> DEFINE s == call.prepend \o call.prompt \o seen
    <2>2. s \o <<>> = s
        BY <1>0, <1>1
    <2> HIDE DEF s
    <2> QED
        BY <1>4, <2>1, <2>2 DEF s
<1>5. CASE stage = "step"
    <2> DEFINE t == Tokenize(i, call.prompt)
    <2>1. t \in Seq(Nat) /\ Detokenize(i, t) = call.prompt
        BY <1>1, <1>5, TokenizeInverse
    <2>2. LoopIds(i, call, emitted) = t \o call.picks \o emitted
        BY DEF LoopIds
    <2> HIDE DEF t
    <2>3. Detokenize(i, t \o call.picks \o emitted) = call.prompt \o seen \o said
        <3>1. t \o call.picks \in Seq(Nat)
            BY <1>0, <1>1, <2>1, ConcatTypes
        <3>2. \A s, u \in Seq(Nat) : Detokenize(i, s \o u) = Detokenize(i, s) \o Detokenize(i, u)
            BY DetokenizeConcat
        <3>3. Detokenize(i, t \o call.picks) = call.prompt \o seen
            BY <1>1, <1>2, <2>1, <3>2
        <3>4. Detokenize(i, (t \o call.picks) \o emitted) = (call.prompt \o seen) \o said
            BY <1>3, <3>1, <3>2, <3>3
        <3> QED
            BY <3>4
    <2>4. BodyAt(stage, i, call, emitted).prompt.tokens = call.prompt \o seen \o said
        <3>1. BodyAt(stage, i, call, emitted) = NextBody(p, i, call, LoopIds(i, call, emitted))
            BY <1>5 DEF BodyAt
        <3>2. NextBody(p, i, call, LoopIds(i, call, emitted)).prompt.tokens = Detokenize(i, LoopIds(i, call, emitted))
            BY DEF NextBody
        <3> QED
            BY <2>2, <2>3, <3>1, <3>2
    <2>5. <<>> \o call.prompt = call.prompt
        BY <1>1
    <2>6. call.way = "steps"
        BY <1>5
    <2> QED
        BY <1>5, <2>4, <2>5, <2>6
<1>6. CASE stage = "open"
    <2>0. call.way \in {"remote", "native", "combined"} /\ (p.host <=> call.way = "remote")
        BY <1>1, <1>6, WayIs
    <2> DEFINE s == call.prepend \o call.prompt \o seen
               u == call.prompt \o seen
    <2>1. /\ s \o <<>> = s /\ u \o <<>> = u /\ (call.prepend = <<>> => s = u) /\ <<>> \o call.prompt = call.prompt
        <3>1. <<>> \o call.prompt = call.prompt
            BY <1>1
        <3>2. s \in Seq(Nat) /\ u \in Seq(Nat)
            BY <1>0, <1>1, ConcatTypes
        <3>3. \A x \in Seq(Nat) : x \o <<>> = x
            OBVIOUS
        <3>4. call.prepend = <<>> => s = u
            BY <3>1
        <3> HIDE DEF s, u
        <3> QED
            BY <3>1, <3>2, <3>3, <3>4
    <2>2. CASE call.way = "remote"
        <3>1. Ready(i)
            BY <2>0, <2>2
        <3>2. BodyAt(stage, i, call, emitted).prompt.tokens = call.prompt \o call.picks
            BY <1>6, <2>2, HostBodyFields DEF BodyAt
        <3>3. BodyAt(stage, i, call, emitted).prompt.tokens = u
            BY <1>2, <3>1, <3>2
        <3> HIDE DEF s
        <3>4. BodyAt(stage, i, call, emitted).prompt.tokens = u \o <<>>
            BY <2>1, <3>3
        <3> QED
            BY <1>6, <2>1, <2>2, <3>4
    <2>3. CASE call.way \in {"native", "combined"}
        <3>1. BodyAt(stage, i, call, emitted).prompt = Payload(i, call)
            BY <1>6, <2>3 DEF BodyAt, NativeBody, CombinedBody
        <3>2. Payload(i, call).tokens = s
            <4>1. CASE call.prepend = <<>>
                <5>1. Payload(i, call).tokens = u
                    BY <1>2, <4>1 DEF Payload, ClientPrompt
                <5> QED
                    BY <2>1, <4>1, <5>1
            <4>2. CASE call.prepend # <<>>
                <5>1. Payload(i, call).tokens = call.prepend \o call.prompt \o call.picks
                    BY <4>2 DEF Payload
                <5> QED
                    BY <1>2, <4>2, <5>1
            <4> QED
                BY <4>1, <4>2
        <3> HIDE DEF u
        <3>3. BodyAt(stage, i, call, emitted).prompt.tokens = s \o <<>>
            BY <2>1, <3>1, <3>2
        <3> QED
            BY <1>6, <2>3, <3>3
    <2> QED
        BY <2>0, <2>2, <2>3
<1> QED
    BY <1>4, <1>5, <1>6

\* An instance is only untried before the first call; and it knows the tokens
\* of its own steps, if its ids are real.
Naming ==
    /\ inst.tokenizer = "untried" => at = "idle" /\ \A s \in shown : s.old
    /\ p.host => inst.tokenizer # "absent"
    /\ \A s \in shown : Named(s) /\ (IdsAreReal /\ ~s.old => Spelt(inst, s))
    /\ \A j \in DOMAIN steps : Named(steps[j]) /\ (IdsAreReal => Spelt(inst, steps[j]))

\* Echoes, Naming, and the property itself.
Knowing == Echoes /\ Naming /\ ContextIsSent

\* The premise of the property in terms of the provider and the instance.
LEMMA RealIdsAre == IdsAreReal <=> (Real \/ ~Ready(inst))
BY DEF IdsAreReal, Real

\* The pieces and the ids of steps, or of picks.
LEMMA NamesOf ==
    ASSUME NEW S, NEW s \in Seq(S), \A x \in S : x.piece \in Nat /\ x.id \in Nat
    PROVE  /\ [k \in DOMAIN s |-> s[k].piece] \in Seq(Nat) /\ Len([k \in DOMAIN s |-> s[k].piece]) = Len(s)
           /\ [k \in DOMAIN s |-> s[k].id] \in Seq(Nat) /\ Len([k \in DOMAIN s |-> s[k].id]) = Len(s)
           /\ DOMAIN [k \in DOMAIN s |-> s[k].id] = DOMAIN s /\ DOMAIN s = 1 .. Len(s)
<1>1. \A k \in DOMAIN s : s[k].piece \in Nat /\ s[k].id \in Nat
    <2>1. \A k \in DOMAIN s : s[k] \in S
        OBVIOUS
    <2> QED
        BY <2>1
<1>2. DOMAIN s = 1 .. Len(s) /\ Len(s) \in Nat
    OBVIOUS
<1> DEFINE f == [k \in DOMAIN s |-> s[k].piece]
           g == [k \in DOMAIN s |-> s[k].id]
<1>3. f \in [1 .. Len(s) -> Nat] /\ g \in [1 .. Len(s) -> Nat]
    BY <1>1, <1>2
<1>4. DOMAIN g = DOMAIN s
    OBVIOUS
<1> HIDE DEF f, g
<1>5. \A h : h \in [1 .. Len(s) -> Nat] => h \in Seq(Nat) /\ Len(h) = Len(s)
    BY <1>2
<1>6. f \in Seq(Nat) /\ Len(f) = Len(s) /\ g \in Seq(Nat) /\ Len(g) = Len(s)
    BY <1>3, <1>5
<1> QED
    BY <1>2, <1>4, <1>6 DEF f, g

\* The request of a stage tells the context.
LEMMA BodyIsContext ==
    ASSUME p \in Provider, p' = p, NEW i \in Insts, Asked(q'), at' \in {"score", "step", "open"},
           Ready(inst') <=> Ready(i),
           steps' \in Seq(Steps), NEW emitted \in Seq(Nat), Len(emitted) = Len(steps'),
           \A j \in DOMAIN steps' : emitted[j] = steps'[j].id /\ (Real \/ ~Ready(i) => Spelt(i, steps'[j])),
           http'.body = BodyAt(at', i, q', emitted),
           at' = "step" => Knows(i, q'.prompt) /\ q'.way = "steps",
           at' = "open" => q'.way # "steps",
           p.host => Ready(i), q'.prepend # <<>> => Ready(i),
           q'.picks = [j \in DOMAIN q'.picked |-> q'.picked[j].id], q'.picked \in Seq(Shows),
           \A j \in DOMAIN q'.picked :
              Named(q'.picked[j]) /\ (Real \/ ~Ready(i) => q'.picked[j].old \/ Spelt(i, q'.picked[j]))
    PROVE  ContextIsSent'
<1> SUFFICES ASSUME IdsAreReal', ~StalePick'
             PROVE  Pieces' = (IF at' = "score" \/ q'.way \in {"native", "combined"} THEN q'.prepend ELSE <<>>)
                              \o q'.prompt \o PicksSeen'
                              \o (IF at' = "step" THEN [k \in DOMAIN steps' |-> steps'[k].piece] ELSE <<>>)
    BY DEF ContextIsSent, ContextIsAlwaysSent
<1>1. Real \/ ~Ready(i)
    BY DEF IdsAreReal, Real
<1> DEFINE seen == PicksSeen'
           said == [k \in DOMAIN steps' |-> steps'[k].piece]
<1>2. /\ said \in Seq(Nat) /\ Len(said) = Len(emitted)
      /\ \A j \in DOMAIN emitted : TextOfId(i, emitted[j]) = <<said[j]>>
    <2> DEFINE ss == steps'
    <2>0. ss \in Seq(Steps)
        OBVIOUS
    <2> HIDE DEF ss
    <2>1. /\ [k \in DOMAIN ss |-> ss[k].piece] \in Seq(Nat)
          /\ Len([k \in DOMAIN ss |-> ss[k].piece]) = Len(ss) /\ DOMAIN ss = 1 .. Len(ss)
        <3>1. \A x \in Steps : x.piece \in Nat /\ x.id \in Nat
            BY DEF Steps
        <3> QED
            BY <2>0, <3>1, NamesOf
    <2>3. said \in Seq(Nat) /\ Len(said) = Len(steps') /\ DOMAIN steps' = DOMAIN emitted
        BY <2>1 DEF ss
    <2>2. ASSUME NEW j \in DOMAIN emitted
          PROVE  TextOfId(i, emitted[j]) = <<said[j]>>
        <3>1. Spelt(i, steps'[j]) /\ emitted[j] = steps'[j].id /\ said[j] = steps'[j].piece
            BY <1>1, <2>3
        <3> QED
            BY <3>1 DEF Spelt
    <2> QED
        BY <2>2, <2>3
<1>3. /\ seen \in Seq(Nat) /\ Len(seen) = Len(q'.picks)
      /\ \A j \in DOMAIN q'.picks : TextOfId(i, q'.picks[j]) = <<seen[j]>>
    <2>1. seen = [j \in DOMAIN q'.picked |-> q'.picked[j].piece]
        BY DEF PicksSeen
    <2> DEFINE u == q'.picked
    <2>0. u \in Seq(Shows)
        OBVIOUS
    <2> HIDE DEF u
    <2>4. /\ [j \in DOMAIN u |-> u[j].piece] \in Seq(Nat) /\ Len([j \in DOMAIN u |-> u[j].piece]) = Len(u)
          /\ Len([j \in DOMAIN u |-> u[j].id]) = Len(u)
          /\ DOMAIN [j \in DOMAIN u |-> u[j].id] = DOMAIN u
        <3>1. \A x \in Shows : x.piece \in Nat /\ x.id \in Nat
            BY DEF Shows
        <3> QED
            BY <2>0, <3>1, NamesOf
    <2>2. seen \in Seq(Nat) /\ Len(seen) = Len(q'.picks) /\ DOMAIN q'.picks = DOMAIN q'.picked
        BY <2>1, <2>4 DEF u
    <2>3. ASSUME NEW j \in DOMAIN q'.picked
          PROVE  TextOfId(i, q'.picks[j]) = <<seen[j]>>
        <3> DEFINE x == q'.picked[j]
        <3>1. q'.picks[j] = x.id /\ seen[j] = x.piece /\ x \in Shows
            BY <2>1
        <3>2. Named(x) /\ (x.old \/ Spelt(i, x))
            BY <1>1
        <3>3. ~(x.old /\ ~(Ready(i) /\ x.id < InternBase))
            <4>1. ToSet(q'.picked) = {q'.picked[m] : m \in DOMAIN q'.picked}
                BY DEF ToSet
            <4>2. x \in ToSet(q'.picked)
                BY <4>1
            <4>3. ~(\E y \in ToSet(q'.picked) : y.old /\ ~(Ready(inst') /\ y.id < InternBase))
                BY DEF StalePick
            <4> QED
                BY <4>2, <4>3
        <3> HIDE DEF x
        <3>4. CASE x.old
            <4>1. Ready(i) /\ x.id < InternBase
                BY <3>3, <3>4
            <4>2. x.id = x.piece
                BY <3>2, <4>1 DEF Named
            <4>3. TextOfId(i, x.id) = <<x.piece>>
                BY <4>1, <4>2, TextOfReal
            <4> QED
                BY <3>1, <4>3
        <3>5. CASE ~x.old
            <4>1. TextOfId(i, x.id) = <<x.piece>>
                BY <3>2, <3>5 DEF Spelt
            <4> QED
                BY <3>1, <4>1
        <3> QED
            BY <3>4, <3>5
    <2> QED
        BY <2>2, <2>3
<1> DEFINE stage == at'
           call == q'
<1>4. /\ Asked(call) /\ stage \in {"score", "step", "open"}
      /\ stage = "step" => Knows(i, call.prompt) /\ call.way = "steps"
      /\ stage = "open" => call.way # "steps"
      /\ call.prepend # <<>> => Ready(i)
      /\ Len(seen) = Len(call.picks)
      /\ \A j \in DOMAIN call.picks : TextOfId(i, call.picks[j]) = <<seen[j]>>
    BY <1>3
<1>7. p \in Provider /\ emitted \in Seq(Nat) /\ i \in Insts /\ (p.host => Ready(i))
    OBVIOUS
<1>5. Pieces' = BodyAt(stage, i, call, emitted).prompt.tokens
    BY DEF Pieces
<1> HIDE DEF seen, said, stage, call
<1>6. BodyAt(stage, i, call, emitted).prompt.tokens = ContextOf(stage, call, seen, said)
    <2>1. Spells(i, emitted, said)
        BY <1>2 DEF Spells
    <2>2. Spells(i, call.picks, seen)
        BY <1>3, <1>4 DEF Spells
    <2> QED
        BY <1>4, <1>7, <2>1, <2>2, BodyTells
<1> QED
    BY <1>5, <1>6 DEF seen, said, stage, call, ContextOf

\* The picks of a call are tokens that were shown.
LEMMA PicksNamed ==
    ASSUME shown \subseteq Shows, NEW i,
           \A s \in shown : Named(s) /\ (Real \/ ~Ready(i) => s.old \/ Spelt(i, s)),
           NEW picked \in Seq(shown)
    PROVE  /\ picked \in Seq(Shows)
           /\ \A j \in DOMAIN picked :
                 Named(picked[j]) /\ (Real \/ ~Ready(i) => picked[j].old \/ Spelt(i, picked[j]))
<1>1. picked \in Seq(Shows)
    BY SeqMonotonic
<1>2. \A j \in DOMAIN picked : picked[j] \in shown
    OBVIOUS
<1> QED
    BY <1>1, <1>2

\* A step that changes neither the call nor what was shown, and adds one step
\* at most, keeps Naming.
LEMMA NamingStays ==
    ASSUME Shape, Naming, p' = p, shown' = shown, at # "idle", inst' \in Insts, Grows(inst, inst'),
           \/ steps' = steps
           \/ steps' = <<>>
           \/ \E x \in Steps : /\ steps' = Append(steps, x)
                               /\ Named(x) /\ (Real \/ ~Ready(inst) => Spelt(inst', x))
    PROVE  Naming'
<1>1. inst'.tokenizer = inst.tokenizer /\ inst \in Insts /\ (Ready(inst') <=> Ready(inst))
    BY DEF Grows, Shape, Control, Types, Ready
<1>2. (IdsAreReal' <=> Real \/ ~Ready(inst)) /\ (IdsAreReal <=> Real \/ ~Ready(inst))
    BY <1>1 DEF IdsAreReal, Real
<1>4. \A x : Spelt(inst, x) /\ x.id \in Nat => Spelt(inst', x)
    BY <1>1, SpeltStays
<1>5. shown \subseteq Shows /\ steps \in Seq(Steps)
    BY DEF Shape, Control, Types
<1>6. ASSUME NEW s \in shown'
      PROVE  Named(s) /\ (Real \/ ~Ready(inst) => s.old \/ Spelt(inst', s))
    <2>1. s.id \in Nat /\ s \in shown
        BY <1>5 DEF Shows
    <2> QED
        BY <1>2, <1>4, <2>1 DEF Naming
<1>7. ASSUME NEW j \in DOMAIN steps
      PROVE  Named(steps[j]) /\ (Real \/ ~Ready(inst) => Spelt(inst', steps[j]))
    <2> DEFINE x == steps[j]
    <2>1. x \in Steps
        BY <1>5
    <2>2. Named(x) /\ (IdsAreReal => Spelt(inst, x))
        BY DEF Naming
    <2> HIDE DEF x
    <2>3. x.id \in Nat
        BY <2>1 DEF Steps
    <2>4. Named(x) /\ (Real \/ ~Ready(inst) => Spelt(inst', x))
        BY <1>2, <1>4, <2>2, <2>3
    <2> QED
        BY <2>4 DEF x
<1> DEFINE told(x) == Named(x) /\ (Real \/ ~Ready(inst) => Spelt(inst', x))
<1>8. \A j \in DOMAIN steps' : told(steps'[j])
    <2>1. CASE steps' = steps
        BY <1>7, <2>1
    <2>2. CASE steps' = <<>>
        BY <2>2
    <2>3. ASSUME NEW x \in Steps, steps' = Append(steps, x),
                 Named(x) /\ (Real \/ ~Ready(inst) => Spelt(inst', x))
          PROVE  \A j \in DOMAIN steps' : told(steps'[j])
        <3>1. told(x) /\ \A j \in DOMAIN steps : told(steps[j])
            BY <1>7, <2>3
        <3>2. \A j \in DOMAIN steps' : (j \in DOMAIN steps /\ steps'[j] = steps[j]) \/ steps'[j] = x
            BY <1>5, <2>3
        <3> HIDE DEF told
        <3> QED
            BY <3>1, <3>2
    <2> QED
        BY <2>1, <2>2, <2>3
<1>9. (inst'.tokenizer = "untried" => FALSE) /\ (p'.host => inst'.tokenizer # "absent")
    BY <1>1 DEF Naming
<1> DEFINE ss == steps'
           xs == shown'
<1>10. /\ \A s \in xs : Named(s) /\ (Real \/ ~Ready(inst) => s.old \/ Spelt(inst', s))
       /\ \A j \in DOMAIN ss : Named(ss[j]) /\ (Real \/ ~Ready(inst) => Spelt(inst', ss[j]))
    BY <1>6, <1>8
<1> HIDE DEF told, ss, xs
<1> QED
    BY <1>2, <1>9, <1>10 DEF Naming, Named, Real, Spelt, ss, xs

\* A call finds an instance that has tried its tokenizer, and that still knows
\* what it has named.
LEMMA Ensured ==
    ASSUME Shape, Naming, NEW i \in EnsureTokenizer(p, inst)
    PROVE  /\ i \in Insts /\ i.tokenizer \in {"ready", "absent"} /\ (p.host => Ready(i))
           /\ \A s \in shown : Named(s) /\ (Real \/ ~Ready(i) => s.old \/ Spelt(i, s))
<1>0. inst \in Insts /\ inst.tokenizer \in {"untried", "ready", "absent"}
    BY DEF Shape, Control, Types, Insts
<1>1. \A s \in shown : Named(s) /\ (Real \/ ~Ready(inst) => s.old \/ Spelt(inst, s))
    BY RealIdsAre DEF Naming
<1>2. \/ i = inst /\ inst.tokenizer # "untried"
      \/ /\ inst.tokenizer = "untried" /\ \A s \in shown : s.old
         /\ i \in Insts /\ i.tokenizer \in {"ready", "absent"} /\ (p.host => Ready(i))
    <2>1. CASE p.host /\ inst.tokenizer = "ready"
        <3>1. i = [inst EXCEPT !.tokenizer = "ready"]
            BY <2>1 DEF EnsureTokenizer
        <3>2. [inst EXCEPT !.tokenizer = "ready"] = inst
            BY <1>0, <2>1 DEF Insts
        <3> QED
            BY <2>1, <3>1, <3>2
    <2>2. CASE p.host /\ inst.tokenizer # "ready"
        <3>1. inst.tokenizer = "untried" /\ \A s \in shown : s.old
            BY <1>0, <2>2 DEF Naming
        <3>2. i = [inst EXCEPT !.tokenizer = "ready"]
            BY <2>2 DEF EnsureTokenizer
        <3>3. i \in Insts /\ i.tokenizer = "ready"
            BY <1>0, <3>2 DEF Insts
        <3> QED
            BY <3>1, <3>3 DEF Ready
    <2>3. CASE ~p.host /\ inst.tokenizer # "untried"
        BY <2>3 DEF EnsureTokenizer
    <2>4. CASE ~p.host /\ inst.tokenizer = "untried"
        <3>1. PICK t \in {"absent", "ready"} : i = [inst EXCEPT !.tokenizer = t]
            BY <2>4 DEF EnsureTokenizer
        <3>2. i \in Insts /\ i.tokenizer = t
            BY <1>0, <3>1 DEF Insts
        <3> QED
            BY <2>4, <3>2 DEF Naming
    <2> QED
        BY <2>1, <2>2, <2>3, <2>4
<1>3. CASE i = inst /\ inst.tokenizer # "untried"
    BY <1>0, <1>1, <1>3 DEF Naming, Ready
<1>4. CASE i # inst \/ inst.tokenizer = "untried"
    BY <1>1, <1>2, <1>4
<1> QED
    BY <1>3, <1>4

\* Entering a stage, its request tells the context.
LEMMA EntersTells ==
    ASSUME p \in Provider, p' = p, NEW i \in Insts, Asked(q'), NEW s \in Sinks, EnterDecoding(i, q', s),
           steps' = <<>>, p.host => Ready(i), q'.prepend # <<>> => Ready(i),
           q'.picks = [j \in DOMAIN q'.picked |-> q'.picked[j].id], q'.picked \in Seq(Shows),
           \A j \in DOMAIN q'.picked :
              Named(q'.picked[j]) /\ (Real \/ ~Ready(i) => q'.picked[j].old \/ Spelt(i, q'.picked[j]))
    PROVE  ContextIsSent'
<1> DEFINE stage == at'
           call == q'
           j == inst'
           body == http'.body
<1>1. /\ stage \in {"step", "open"} /\ (stage = "step" <=> call.way = "steps")
      /\ j \in Insts /\ Grows(i, j)
      /\ stage = "step" => Knows(j, call.prompt)
      /\ body = BodyAt(stage, IF stage = "step" THEN j ELSE i, call, <<>>)
    BY Enters
<1>2. PICK k : k = IF stage = "step" THEN j ELSE i
    OBVIOUS
<1> HIDE DEF stage, call, j, body
<1>3. k \in Insts /\ Grows(i, k) /\ (stage = "step" => Knows(k, call.prompt)) /\ body = BodyAt(stage, k, call, <<>>)
    BY <1>1, <1>2, GrowsOrder
<1>4. (Ready(j) <=> Ready(i)) /\ (Ready(k) <=> Ready(i))
    BY <1>1, <1>3 DEF Grows, Ready
<1>5. \A x \in Shows : x.id \in Nat /\ (Spelt(i, x) => Spelt(k, x))
    <2>1. \A x \in Shows : x.id \in Nat
        BY DEF Shows
    <2> QED
        BY <1>3, <2>1, SpeltStays
<1>6. \A n \in DOMAIN call.picked : call.picked[n] \in Shows
    BY DEF call
<1>7. \A n \in DOMAIN call.picked :
         Named(call.picked[n]) /\ (Real \/ ~Ready(k) => call.picked[n].old \/ Spelt(k, call.picked[n]))
    BY <1>4, <1>5, <1>6 DEF call
<1>8. /\ Len(<<>>) = 0 /\ DOMAIN <<>> = {} /\ <<>> \in Seq(Nat) /\ <<>> \in Seq(Steps)
    OBVIOUS
<1>9. /\ Asked(q') /\ at' \in {"score", "step", "open"} /\ (Ready(inst') <=> Ready(k))
      /\ http'.body = BodyAt(at', k, q', <<>>)
      /\ at' = "step" => Knows(k, q'.prompt) /\ q'.way = "steps"
      /\ at' = "open" => q'.way # "steps"
      /\ p.host => Ready(k)
      /\ q'.prepend # <<>> => Ready(k)
    BY <1>1, <1>3, <1>4 DEF stage, call, j, body
<1>10. /\ steps' \in Seq(Steps) /\ Len(<<>>) = Len(steps')
       /\ \A n \in DOMAIN steps' : <<>>[n] = steps'[n].id /\ (Real \/ ~Ready(k) => Spelt(k, steps'[n]))
    BY <1>8
<1>11. \A n \in DOMAIN q'.picked :
         Named(q'.picked[n]) /\ (Real \/ ~Ready(k) => q'.picked[n].old \/ Spelt(k, q'.picked[n]))
    BY <1>7 DEF call
<1>12. PICK emitted : emitted = <<>>
    OBVIOUS
<1> QED
    BY <1>3, <1>8, <1>9, <1>10, <1>11, <1>12, BodyIsContext

\* Where no request is about to be sent, the property has nothing to say.
LEMMA Beyond == ASSUME at' \notin {"score", "step", "open", "read"} PROVE ContextIsSent'
BY DEF ContextIsSent, ContextIsAlwaysSent

\* The request and the call stay, and so does what it tells.
LEMMA ContextStays ==
    ASSUME ContextIsSent, UNCHANGED <<p, q>>, http'.body = http.body, Ready(inst') <=> Ready(inst),
           \/ at' = at /\ (at = "step" => steps' = steps)
           \/ at = "open" /\ at' = "read"
    PROVE  ContextIsSent'
<1>1. /\ IdsAreReal' <=> IdsAreReal
      /\ StalePick' <=> StalePick
      /\ Pieces' = Pieces /\ PicksSeen' = PicksSeen
    BY DEF IdsAreReal, StalePick, Pieces, PicksSeen
<1>2. CASE at = "open" /\ at' = "read"
    BY <1>1, <1>2 DEF ContextIsSent, ContextIsAlwaysSent
<1>3. CASE at' = at /\ at = "step" /\ steps' = steps
    BY <1>1, <1>3 DEF ContextIsSent, ContextIsAlwaysSent
<1>4. CASE at' = at /\ at # "step"
    BY <1>1, <1>4 DEF ContextIsSent, ContextIsAlwaysSent
<1> QED
    BY <1>2, <1>3, <1>4

\* The start of a call, and the loss of an instance, in one lemma.
LEMMA NamingOf ==
    ASSUME Shape, p' = p, shown' = shown, NEW i \in Insts, inst' \in Insts, Grows(i, inst'),
           i.tokenizer \in {"ready", "absent"}, p.host => Ready(i), steps' = <<>>,
           \A s \in shown : Named(s) /\ (Real \/ ~Ready(i) => s.old \/ Spelt(i, s))
    PROVE  Naming'
<1>1. inst'.tokenizer = i.tokenizer /\ (Ready(inst') <=> Ready(i))
    BY DEF Grows, Ready
<1>2. IdsAreReal' <=> Real \/ ~Ready(i)
    BY <1>1 DEF IdsAreReal, Real
<1>3. ASSUME NEW s \in shown
      PROVE  Named(s) /\ (Real \/ ~Ready(i) => s.old \/ Spelt(inst', s))
    <2>1. s.id \in Nat
        BY DEF Shape, Control, Types, Shows
    <2>2. Spelt(i, s) => Spelt(inst', s)
        BY <2>1, SpeltStays
    <2> QED
        BY <2>2
<1>4. p.host => inst'.tokenizer # "absent"
    BY <1>1 DEF Ready
<1>5. DOMAIN steps' = {}
    OBVIOUS
<1> QED
    BY <1>1, <1>2, <1>3, <1>4, <1>5 DEF Naming, Named, Real, Spelt

\* The actions keep Naming and what is sent.
LEMMA AskKnowing == ASSUME Knowing, Ask PROVE Naming' /\ ContextIsSent'
<1>0. /\ Shape /\ Naming /\ p \in Provider /\ p' = p /\ shown' = shown /\ shown \subseteq Shows
      /\ at = "idle" /\ steps' = <<>>
    BY DEF Knowing, Echoes, Ordering, Shape, Control, Types, Resting, Ask
<1>1. PICK i \in EnsureTokenizer(p, inst) :
                 /\ i \in Insts /\ Asked(q')
                 /\ q'.picked \in Seq(shown) /\ Len(q'.picked) <= 1
                 /\ q'.picks = [j \in DOMAIN q'.picked |-> q'.picked[j].id]
                 /\ q'.prepend # <<>> => Ready(i)
                 /\ Scores(q') => /\ at' = "score" /\ inst' = i /\ sink' = NoSink
                                  /\ http' = [body |-> BodyAt("score", i, q', <<>>), tries |-> 0]
                 /\ ~Scores(q') => EnterDecoding(i, q', NoSink)
    BY <1>0, AskCall
<1>2. /\ i.tokenizer \in {"ready", "absent"} /\ (p.host => Ready(i))
      /\ \A s \in shown : Named(s) /\ (Real \/ ~Ready(i) => s.old \/ Spelt(i, s))
    BY <1>0, Ensured
<1>3. /\ q'.picked \in Seq(Shows)
      /\ \A j \in DOMAIN q'.picked :
            Named(q'.picked[j]) /\ (Real \/ ~Ready(i) => q'.picked[j].old \/ Spelt(i, q'.picked[j]))
    BY <1>0, <1>1, <1>2, PicksNamed
<1>4. NoSink \in Sinks
    BY Usable
<1>5. CASE Scores(q')
    <2>1. at' = "score" /\ inst' = i /\ http'.body = BodyAt(at', i, q', <<>>)
        BY <1>1, <1>5
    <2>2. Len(<<>>) = 0 /\ DOMAIN <<>> = {} /\ <<>> \in Seq(Nat) /\ <<>> \in Seq(Steps)
        OBVIOUS
    <2>3. /\ steps' \in Seq(Steps) /\ Len(<<>>) = Len(steps')
          /\ \A n \in DOMAIN steps' : <<>>[n] = steps'[n].id /\ (Real \/ ~Ready(i) => Spelt(i, steps'[n]))
        BY <1>0, <2>2
    <2>4. ContextIsSent'
        BY <1>0, <1>1, <1>2, <1>3, <2>1, <2>2, <2>3, BodyIsContext
    <2>5. Grows(i, inst')
        BY <1>1, <2>1, GrowsOrder
    <2> QED
        BY <1>0, <1>1, <1>2, <2>1, <2>4, <2>5, NamingOf
<1>6. CASE ~Scores(q')
    <2>1. EnterDecoding(i, q', NoSink)
        BY <1>1, <1>6
    <2>2. inst' \in Insts /\ Grows(i, inst')
        BY <1>0, <1>1, <1>4, <2>1, Enters
    <2>3. ContextIsSent'
        BY <1>0, <1>1, <1>2, <1>3, <1>4, <2>1, EntersTells
    <2> QED
        BY <1>0, <1>1, <1>2, <2>2, <2>3, NamingOf
<1> QED
    BY <1>5, <1>6

\* The decoding that follows a request that scored.
LEMMA DecodesOn ==
    ASSUME Knowing, at = "score", UNCHANGED <<p, shown, q, steps>>, NEW i \in Insts, Grows(inst, i),
           NEW s \in Sinks, EnterDecoding(i, q, s)
    PROVE  Naming' /\ ContextIsSent'
<1>0. /\ Shape /\ Naming /\ p \in Provider /\ shown \subseteq Shows /\ steps = <<>> /\ inst \in Insts
      /\ Asked(q) /\ q.picked \in Seq(shown) /\ q.picks = [j \in DOMAIN q.picked |-> q.picked[j].id]
      /\ q.prepend # <<>> => Ready(inst)
    BY DEF Knowing, Echoes, Ordering, Shape, Control, Types, Resting, CallOK
<1>1. i.tokenizer = inst.tokenizer /\ (Ready(i) <=> Ready(inst))
    BY DEF Grows, Ready
<1>2. i.tokenizer \in {"ready", "absent"} /\ (p.host => Ready(i))
    BY <1>0, <1>1 DEF Naming, Ready, Insts
<1>3. \A x \in shown : Named(x) /\ (Real \/ ~Ready(i) => x.old \/ Spelt(i, x))
    <2>1. ASSUME NEW x \in shown PROVE Named(x) /\ (Real \/ ~Ready(i) => x.old \/ Spelt(i, x))
        <3>1. x.id \in Nat
            BY <1>0 DEF Shows
        <3>2. Spelt(inst, x) => Spelt(i, x)
            BY <1>0, <3>1, SpeltStays
        <3> QED
            BY <1>0, <1>1, <3>2, RealIdsAre DEF Naming
    <2> QED
        BY <2>1
<1>4. /\ q.picked \in Seq(Shows)
      /\ \A j \in DOMAIN q.picked :
            Named(q.picked[j]) /\ (Real \/ ~Ready(i) => q.picked[j].old \/ Spelt(i, q.picked[j]))
    BY <1>0, <1>3, PicksNamed
<1>5. inst' \in Insts /\ Grows(i, inst')
    BY <1>0, Enters
<1>6. steps' = <<>> /\ q' = q
    BY <1>0
<1>7. ContextIsSent'
    BY <1>0, <1>1, <1>2, <1>4, <1>6, EntersTells
<1> QED
    BY <1>0, <1>2, <1>3, <1>5, <1>6, <1>7, NamingOf

\* What Knowing says of a call, as facts that do not mention the stage.
LEMMA KnowingFacts ==
    ASSUME Knowing, at # "idle"
    PROVE  /\ Shape /\ Naming /\ p \in Provider /\ shown \subseteq Shows /\ inst \in Insts
           /\ steps \in Seq(Steps) /\ sink \in Sinks
           /\ Asked(q) /\ q.picked \in Seq(shown) /\ q.picks = [j \in DOMAIN q.picked |-> q.picked[j].id]
           /\ q.prepend # <<>> => Ready(inst)
           /\ p.host => Ready(inst)
           /\ RealIds <=> Real
           /\ Pieces \in Seq(Nat) /\ http.body.logprobs.top \in Int
<1>1. Shape /\ Naming
    BY DEF Knowing, Echoes, Ordering
<1>2. BodyFits(http.body)
    BY <1>1 DEF Shape, Control, BodyOK
<1>3. p.host => Ready(inst)
    BY <1>1 DEF Naming, Ready, Shape, Control, Types, Insts
<1> QED
    BY <1>1, <1>2, <1>3 DEF Shape, Control, Types, CallOK, BodyFits, Real, RealIds, Pieces

LEMMA NamingGives ==
    ASSUME Naming', p' = p
    PROVE  /\ \A s \in shown' : Named(s) /\ (Real \/ ~Ready(inst') => s.old \/ Spelt(inst', s))
           /\ \A j \in DOMAIN steps' : Named(steps'[j]) /\ (Real \/ ~Ready(inst') => Spelt(inst', steps'[j]))
<1> DEFINE xs == shown'
           ss == steps'
<1>1. IdsAreReal' <=> Real \/ ~Ready(inst')
    BY DEF IdsAreReal, Real
<1>2. \A s \in xs : Named(s) /\ (Real \/ ~Ready(inst') => s.old \/ Spelt(inst', s))
    BY <1>1 DEF Naming, Named, Real, Spelt
<1>3. \A j \in DOMAIN ss : Named(ss[j]) /\ (Real \/ ~Ready(inst') => Spelt(inst', ss[j]))
    BY <1>1 DEF Naming, Named, Real, Spelt
<1> QED
    BY <1>2, <1>3

\* A step names its token.
LEMMA StepIsNamed ==
    ASSUME Knowing, at # "idle", UNCHANGED <<p, shown>>, inst' \in Insts, Grows(inst, inst'),
           NEW rec \in Positions(Nat), rec.id = (IF Real THEN rec.piece ELSE None),
           rec.id = None => Text(<<rec.piece>>) \in ToSet(inst'.interned),
           rec.id # None /\ ~Ready(inst') => ToSet(Text(<<rec.piece>>)) \subseteq inst'.known,
           Real \/ ~Ready(inst) => rec.piece \in Tokens,
           ~Ready(inst) => rec.piece \notin Specials,
           NEW x, x.id = IdOf(inst', rec), x.piece = rec.piece,
           steps' = Append(steps, x), steps' \in Seq(Steps)
    PROVE  Naming'
<1>1. Shape /\ Naming /\ steps \in Seq(Steps)
    BY KnowingFacts
<1>2. Ready(inst') <=> Ready(inst)
    BY DEF Grows, Ready
<1>3. Named(x) /\ (Real \/ ~Ready(inst') => Spelt(inst', x))
    BY <1>2, NewName
<1>4. x \in Steps
    <2>1. Len(steps) + 1 \in DOMAIN Append(steps, x) /\ Append(steps, x)[Len(steps) + 1] = x
        BY <1>1
    <2>2. Append(steps, x) \in Seq(Steps)
        OBVIOUS
    <2> QED
        BY <2>1, <2>2
<1> QED
    BY <1>1, <1>2, <1>3, <1>4, NamingStays

LEMMA NextTokenKnowing == ASSUME Knowing, NextToken PROVE Naming' /\ ContextIsSent'
<1>0. at = "step" /\ UNCHANGED <<p, shown, q>>
    BY DEF NextToken
<1>1. /\ Shape /\ Naming /\ p \in Provider /\ shown \subseteq Shows /\ inst \in Insts
      /\ steps \in Seq(Steps)
      /\ Asked(q) /\ q.picked \in Seq(shown) /\ q.picks = [j \in DOMAIN q.picked |-> q.picked[j].id]
      /\ q.prepend # <<>> => Ready(inst)
      /\ p.host => Ready(inst)
      /\ RealIds <=> Real
    BY <1>0, KnowingFacts
<1>2. PICK piece \in Tokens \ Specials, why \in {None, "user_stop", "max_tokens"}, id \in Nat,
              chosen \in Positions(Nat) :
              /\ chosen.piece = piece /\ chosen.k = Len(Pieces) + 1
              /\ chosen.id = (IF RealIds THEN piece ELSE None)
              /\ inst' = Learn(inst, chosen) /\ id = IdOf(inst', chosen)
              /\ inst' \in Insts /\ Grows(inst, inst')
              /\ steps' = Append(steps, [pos |-> Len(LoopIds(inst, q, Emitted)), id |-> id, piece |-> piece,
                                         k |-> Len(Pieces) + 1, reason |-> why])
              /\ at' = IF why = None THEN "step" ELSE "over"
              /\ http' = IF why = None
                         THEN [body |-> BodyAt("step", inst', q, Append(Emitted, id)), tries |-> 0]
                         ELSE http
    BY <1>0, <1>1, Chosen
<1> DEFINE x == [pos |-> Len(LoopIds(inst, q, Emitted)), id |-> id, piece |-> piece,
                 k |-> Len(Pieces) + 1, reason |-> why]
<1>3. x.id = id /\ x.piece = piece /\ steps' = Append(steps, x)
    BY <1>2
<1> HIDE DEF x
<1>4. steps' \in Seq(Steps)
    BY <1>0, <1>1, NextTokenShape DEF Shape, Control, Types
<1>5. /\ chosen.id = None => Text(<<chosen.piece>>) \in ToSet(inst'.interned)
      /\ chosen.id # None => ToSet(Text(<<chosen.piece>>)) \subseteq inst'.known
    BY <1>1, <1>2, LearnGrows
<1>6. Naming'
    BY <1>0, <1>1, <1>2, <1>3, <1>4, <1>5, StepIsNamed
<1>7. CASE why # None
    BY <1>2, <1>6, <1>7, Beyond
<1>8. CASE why = None
    <2>1. at' = "step" /\ http'.body = BodyAt(at', inst', q', Append(Emitted, id))
        BY <1>0, <1>2, <1>8
    <2>2. Emitted \in Seq(Nat) /\ Len(Emitted) = Len(steps) /\ \A j \in DOMAIN steps : Emitted[j] = steps[j].id
        BY <1>1, EmittedType DEF Emitted
    <2> DEFINE emitted == Append(Emitted, id)
    <2>3. /\ emitted \in Seq(Nat) /\ Len(emitted) = Len(steps')
          /\ \A j \in DOMAIN steps' : emitted[j] = steps'[j].id
        <3>1. emitted \in Seq(Nat) /\ Len(emitted) = Len(steps) + 1 /\ Len(steps') = Len(steps) + 1
            BY <1>1, <1>2, <1>3, <2>2
        <3>2. DOMAIN steps' = 1 .. Len(steps) + 1 /\ DOMAIN steps = 1 .. Len(steps) /\ Len(steps) \in Nat
            BY <1>1, <1>3
        <3>3. ASSUME NEW j \in DOMAIN steps' PROVE emitted[j] = steps'[j].id
            <4>1. CASE j \in DOMAIN steps
                <5>1. steps'[j] = steps[j] /\ emitted[j] = Emitted[j]
                    BY <1>1, <1>3, <2>2, <3>2, <4>1
                <5> QED
                    BY <2>2, <4>1, <5>1
            <4>2. CASE j = Len(steps) + 1
                <5>1. steps'[j] = x /\ emitted[j] = id
                    BY <1>1, <1>3, <2>2, <4>2
                <5> QED
                    BY <1>3, <5>1
            <4>3. j \in DOMAIN steps \/ j = Len(steps) + 1
                BY <3>2
            <4> QED
                BY <4>1, <4>2, <4>3
        <3> QED
            BY <3>1, <3>3
    <2> HIDE DEF emitted
    <2>4. Ready(inst') <=> Ready(inst)
        BY <1>2 DEF Grows, Ready
    <2>5. /\ \A s \in shown : Named(s) /\ (Real \/ ~Ready(inst') => s.old \/ Spelt(inst', s))
          /\ \A j \in DOMAIN steps' : Named(steps'[j]) /\ (Real \/ ~Ready(inst') => Spelt(inst', steps'[j]))
        BY <1>0, <1>6, NamingGives
    <2>6. /\ q.picked \in Seq(Shows)
          /\ \A j \in DOMAIN q.picked :
                Named(q.picked[j]) /\ (Real \/ ~Ready(inst') => q.picked[j].old \/ Spelt(inst', q.picked[j]))
        BY <1>1, <2>5, PicksNamed
    <2>7. Knows(inst', q.prompt) /\ q.way = "steps"
        <3>1. Knows(inst, q.prompt) /\ q.way = "steps"
            BY <1>0, <1>1 DEF Shape, Control, CallOK
        <3> QED
            BY <1>1, <1>2, <3>1, KnowsStays
    <2>8. http'.body = BodyAt(at', inst', q', emitted)
        BY <2>1 DEF emitted
    <2>9. PICK i \in Insts : i = inst'
        BY <1>2
    <2>10. /\ p \in Provider /\ p' = p /\ Asked(q') /\ at' \in {"score", "step", "open"}
           /\ Ready(inst') <=> Ready(i)
           /\ steps' \in Seq(Steps) /\ Len(emitted) = Len(steps')
           /\ \A j \in DOMAIN steps' : emitted[j] = steps'[j].id /\ (Real \/ ~Ready(i) => Spelt(i, steps'[j]))
           /\ http'.body = BodyAt(at', i, q', emitted)
        BY <1>0, <1>1, <1>4, <2>1, <2>3, <2>5, <2>8, <2>9
    <2>11. /\ at' = "step" => Knows(i, q'.prompt) /\ q'.way = "steps"
           /\ at' = "open" => q'.way # "steps"
           /\ p.host => Ready(i)
           /\ q'.prepend # <<>> => Ready(i)
           /\ q'.picks = [j \in DOMAIN q'.picked |-> q'.picked[j].id] /\ q'.picked \in Seq(Shows)
        BY <1>0, <1>1, <2>1, <2>4, <2>6, <2>7, <2>9
    <2>12. \A j \in DOMAIN q'.picked :
              Named(q'.picked[j]) /\ (Real \/ ~Ready(i) => q'.picked[j].old \/ Spelt(i, q'.picked[j]))
        BY <1>0, <2>6, <2>9
    <2>13. ContextIsSent'
        BY <2>3, <2>9, <2>10, <2>11, <2>12, BodyIsContext
    <2> QED
        BY <1>6, <2>13
<1> QED
    BY <1>7, <1>8

\* Every piece of an array of ids is one of the model's, if the ids are real.
LEMMA ArrayIsReal ==
    ASSUME Knowing, at \in {"read", "flush"}, http.body.prompt.array, Real
    PROVE  Pieces \in Seq(Tokens)
<1>1. /\ Shape /\ Naming /\ shown \subseteq Shows /\ Asked(q) /\ q.picked \in Seq(shown)
      /\ q.picks = [j \in DOMAIN q.picked |-> q.picked[j].id]
    BY KnowingFacts
<1>2. Pieces = q.prepend \o q.prompt \o q.picks
    BY <1>1, StreamFacts DEF StreamBodyFits, Pieces
<1>3. ASSUME NEW j \in DOMAIN q.picked PROVE q.picked[j].id \in Tokens
    <2>1. q.picked[j] \in shown
        BY <1>1
    <2>2. q.picked[j].id \in Nat /\ q.picked[j].id < InternBase
        BY <1>1, <2>1 DEF Naming, Named, Shows
    <2> QED
        BY <2>2, CallAssumption DEF Tokens
<1>4. q.picks \in Seq(Tokens)
    <2> DEFINE f == [j \in DOMAIN q.picked |-> q.picked[j].id]
    <2>1. DOMAIN q.picked = 1 .. Len(q.picked) /\ Len(q.picked) \in Nat
        BY <1>1
    <2>2. f \in [1 .. Len(q.picked) -> Tokens]
        BY <1>3, <2>1
    <2> HIDE DEF f
    <2>3. f \in Seq(Tokens)
        BY <2>1, <2>2
    <2> QED
        BY <1>1, <2>3 DEF f
<1>5. q.prepend \in Seq(Tokens) /\ q.prompt \in Seq(Tokens)
    BY <1>1 DEF Asked
<1>6. \A s, t \in Seq(Tokens) : s \o t \in Seq(Tokens)
    BY ConcatTypes
<1> QED
    BY <1>2, <1>4, <1>5, <1>6

\* What a token of the stream names.
LEMMA TokenNames ==
    ASSUME Knowing, at \in {"read", "flush"}, NEW k \in Nat \ {0},
           ~http.body.prompt.array => k > Len(Pieces)
    PROVE  /\ Position(k) \in Positions(Nat)
           /\ Position(k).id = (IF Real THEN Position(k).piece ELSE None)
           /\ Real \/ ~Ready(inst) => Position(k).piece \in Tokens
           /\ ~Ready(inst) => Position(k).piece \notin Specials
<1>1. /\ Shape
      /\ q.prepend # <<>> => Ready(inst)
      /\ RealIds <=> Real
      /\ Pieces \in Seq(Nat) /\ http.body.logprobs.top \in Int
    BY KnowingFacts
<1>2. /\ Position(k).piece = PieceAt(k)
      /\ Position(k).id = IF RealIds THEN PieceAt(k) ELSE None
    BY PositionFields
<1>3. k > Len(Pieces) => PieceAt(k) \in Tokens /\ PieceAt(k) \notin Specials
    BY <1>1, PieceAtType
<1>4. http.body.prompt.array => Ready(inst)
    <2>1. StreamBodyFits(http.body, q)
        BY <1>1, StreamFacts
    <2>2. http.body.prompt.array => q.prepend # <<>>
        BY <2>1 DEF StreamBodyFits
    <2> QED
        BY <1>1, <2>2
<1>5. CASE k > Len(Pieces)
    BY <1>1, <1>2, <1>3, <1>5, PositionType
<1>6. CASE ~(k > Len(Pieces))
    <2>1. http.body.prompt.array /\ Ready(inst)
        BY <1>4, <1>6
    <2>2. ASSUME Real PROVE PieceAt(k) \in Tokens
        <3>1. Pieces \in Seq(Tokens)
            BY <2>1, <2>2, ArrayIsReal
        <3>2. k \in DOMAIN Pieces
            BY <1>1, <1>6
        <3> QED
            BY <1>6, <3>1, <3>2 DEF PieceAt
    <2> QED
        BY <1>1, <1>2, <2>1, <2>2, PositionType
<1> QED
    BY <1>5, <1>6

\* The token that is held back, and for a GPU host the one that is read, come
\* after the prompt, or from an array of ids.
LEMMA HeldToken ==
    ASSUME Knowing, at \in {"read", "flush"}, rd.held # <<>>
    PROVE  \E k \in Nat \ {0} : /\ rd.held[1] = Position(k) /\ k = FirstSent + Len(rd.echoed) + Len(steps)
                                /\ (~http.body.prompt.array => k > Len(Pieces))
<1>1. Shape /\ Order /\ EchoFits
    BY DEF Knowing, Echoes, Ordering
<1>2. TakenInOrder(Places, FirstSent, rd, steps) /\ (~http.body.echo => rd.echoed = <<>>)
    BY <1>1 DEF Order
<1>3. /\ FirstSent \in Nat \ {0} /\ Len(rd.echoed) \in Nat /\ Len(steps) \in Nat /\ Pieces \in Seq(Nat)
      /\ Len(Pieces) \in Nat /\ rd.held \in Seq(Positions(Nat)) /\ StreamBodyFits(http.body, q)
    BY <1>1, StreamFacts
<1> DEFINE a == Len(rd.echoed)
           b == Len(steps)
           k == FirstSent + a + b
<1>4. k \in Nat \ {0}
    BY <1>3
<1>5. rd.held[1] = Places[k]
    <2>1. 1 \in DOMAIN rd.held
        BY <1>3
    <2>2. rd.held[1] = Places[FirstSent + Len(rd.echoed) + Len(steps) + 1 - 1]
        BY <1>2, <2>1 DEF TakenInOrder, FromTo
    <2>3. FirstSent + Len(rd.echoed) + Len(steps) + 1 - 1 = k
        BY <1>3
    <2> HIDE DEF k
    <2> QED
        BY <2>2, <2>3
<1>6. rd.emitting
    BY <1>2 DEF TakenInOrder
<1>7. ASSUME ~http.body.prompt.array PROVE k > Len(Pieces)
    <2>1. CASE http.body.echo
        <3>1. FirstSent + a > Len(Pieces)
            BY <1>1, <1>6, <1>7, <2>1 DEF EchoFits
        <3> HIDE DEF a, b
        <3>2. a \in Nat /\ b \in Nat
            BY <1>3 DEF a, b
        <3> QED
            BY <1>3, <3>1, <3>2
    <2>2. CASE ~http.body.echo
        <3>1. FirstSent = Len(Pieces) + 1
            BY <2>2 DEF FirstSent
        <3> HIDE DEF a, b
        <3>2. a \in Nat /\ b \in Nat
            BY <1>3 DEF a, b
        <3> QED
            BY <1>3, <3>1, <3>2
    <2> QED
        BY <2>1, <2>2
<1>8. Places[k] = Position(k)
    BY <1>4, PlaceFields
<1> HIDE DEF k
<1>9. k = FirstSent + Len(rd.echoed) + Len(steps)
    BY DEF k
<1> QED
    BY <1>4, <1>5, <1>7, <1>8, <1>9

\* A token that a host sends is one after the prompt.
LEMMA HostToken ==
    ASSUME Knowing, at = "read", p.host, rd.recs # <<>>
    PROVE  \E k \in Nat \ {0} : Head(rd.recs) = Position(k) /\ k > Len(Pieces)
<1>1. Shape /\ Ordering
    BY DEF Knowing, Echoes, Ordering
<1>2. Head(rd.recs) = Position(FirstSent + Taken(rd, steps))
    BY <1>1, NextInOrder
<1>3. /\ FirstSent \in Nat \ {0} /\ Taken(rd, steps) \in Nat /\ Len(Pieces) \in Nat
      /\ StreamBodyFits(http.body, q) /\ q.way = Way(p, q)
    BY <1>1, StreamFacts DEF Shape, Control, CallOK, Asked
<1>4. ~http.body.echo
    BY <1>3 DEF StreamBodyFits
<1>5. FirstSent = Len(Pieces) + 1
    BY <1>4 DEF FirstSent
<1> DEFINE k == FirstSent + Taken(rd, steps)
<1>6. k \in Nat \ {0} /\ k > Len(Pieces)
    BY <1>3, <1>5
<1> HIDE DEF k
<1> QED
    BY <1>2, <1>6 DEF k

\* A step of the stream.
LEMMA StreamStepNamed ==
    ASSUME Knowing, at \in {"read", "flush"}, UNCHANGED <<p, shown>>, NEW k \in Nat \ {0},
           ~http.body.prompt.array => k > Len(Pieces), NEW why, StepOf(Position(k), why)
    PROVE  Naming'
<1>1. /\ Shape /\ inst \in Insts /\ (p.host => Ready(inst))
    BY KnowingFacts
<1>2. PICK rec : rec = Position(k)
    OBVIOUS
<1>3. /\ rec \in Positions(Nat)
      /\ rec.id = (IF Real THEN rec.piece ELSE None)
      /\ Real \/ ~Ready(inst) => rec.piece \in Tokens
      /\ ~Ready(inst) => rec.piece \notin Specials
    BY <1>2, TokenNames
<1>4. StepOf(rec, why)
    BY <1>2
<1> DEFINE x == [pos |-> rd.before + Len(steps), id |-> IdOf(inst', rec),
                 piece |-> rec.piece, k |-> rec.k, reason |-> why]
<1>5. /\ inst' \in Insts /\ Grows(inst, inst')
      /\ rec.id = None => Text(<<rec.piece>>) \in ToSet(inst'.interned)
      /\ ~p.host => inst' = Learn(inst, rec)
      /\ steps' = Append(steps, x) /\ steps' \in Seq(Steps)
      /\ x.id = IdOf(inst', rec) /\ x.piece = rec.piece
    BY <1>4 DEF StepOf
<1> HIDE DEF x
<1>6. rec.id # None /\ ~Ready(inst') => ToSet(Text(<<rec.piece>>)) \subseteq inst'.known
    <2>1. Ready(inst') <=> Ready(inst)
        BY <1>5 DEF Grows, Ready
    <2>2. ~p.host => (rec.id # None => ToSet(Text(<<rec.piece>>)) \subseteq inst'.known)
        BY <1>1, <1>3, <1>5, LearnGrows
    <2> QED
        BY <1>1, <2>1, <2>2
<1> QED
    BY <1>3, <1>5, <1>6, StepIsNamed

LEMMA ReadTokenKnowing == ASSUME Knowing, ReadToken PROVE Naming' /\ ContextIsSent'
<1>0. Shape /\ Naming /\ ContextIsSent
    BY DEF Knowing, Echoes, Ordering
<1>1. /\ at = "read" /\ at' = "read" /\ rd.recs # <<>>
      /\ UNCHANGED <<p, shown, q, http, up, wire, entries, outcome>>
      /\ p.host => StepOf(Head(rd.recs), rd.finish)
      /\ ~p.host /\ rd.held # <<>> => StepOf(rd.held[1], None)
      /\ ~p.host /\ rd.held = <<>> => UNCHANGED <<inst, steps, rows>>
    BY <1>0, TokenSteps, ReadTokenReader
<1>2. /\ inst \in Insts
      /\ inst' \in Insts /\ Grows(inst, inst')
    <2>1. inst \in Insts
        BY <1>0 DEF Shape, Control, Types
    <2>2. CASE p.host
        BY <1>1, <2>1, <2>2 DEF StepOf
    <2>3. CASE ~p.host /\ rd.held # <<>>
        BY <1>1, <2>1, <2>3 DEF StepOf
    <2>4. CASE ~p.host /\ rd.held = <<>>
        BY <1>1, <2>1, <2>4, GrowsOrder
    <2> QED
        BY <2>1, <2>2, <2>3, <2>4
<1>3. ContextIsSent'
    <2>1. Ready(inst') <=> Ready(inst)
        BY <1>2 DEF Grows, Ready
    <2> QED
        BY <1>0, <1>1, <2>1, ContextStays
<1>4. Naming'
    <2>1. CASE p.host
        <3>1. PICK k \in Nat \ {0} : Head(rd.recs) = Position(k) /\ k > Len(Pieces)
            BY <1>1, <2>1, HostToken
        <3>2. StepOf(Position(k), rd.finish)
            BY <1>1, <2>1, <3>1
        <3> QED
            BY <1>1, <3>1, <3>2, StreamStepNamed
    <2>2. CASE ~p.host /\ rd.held # <<>>
        <3>1. PICK k \in Nat \ {0} : rd.held[1] = Position(k) /\ (~http.body.prompt.array => k > Len(Pieces))
            BY <1>1, <2>2, HeldToken
        <3>2. StepOf(Position(k), None)
            BY <1>1, <2>2, <3>1
        <3> QED
            BY <1>1, <3>1, <3>2, StreamStepNamed
    <2>3. CASE ~p.host /\ rd.held = <<>>
        BY <1>0, <1>1, <1>2, <2>3, NamingStays
    <2> QED
        BY <2>1, <2>2, <2>3
<1> QED
    BY <1>3, <1>4

LEMMA FlushKnowing == ASSUME Knowing, Flush PROVE Naming' /\ ContextIsSent'
<1>0. Shape /\ Naming /\ inst \in Insts
    BY DEF Knowing, Echoes, Ordering, Shape, Control, Types
<1>1. /\ at = "flush" /\ at' = "over" /\ ~p.host
      /\ UNCHANGED <<p, shown, q, http, up, wire, rd, entries, outcome>>
      /\ rd.held # <<>> => StepOf(rd.held[1], FinishReasonToStop(rd.finish))
      /\ rd.held = <<>> => UNCHANGED <<inst, steps>>
    BY <1>0, FlushSteps
<1>2. Naming'
    <2>1. CASE rd.held # <<>>
        <3>1. PICK k \in Nat \ {0} : rd.held[1] = Position(k) /\ (~http.body.prompt.array => k > Len(Pieces))
            BY <1>1, <2>1, HeldToken
        <3>2. PICK why : StepOf(Position(k), why)
            BY <1>1, <2>1, <3>1
        <3> QED
            BY <1>1, <3>1, <3>2, StreamStepNamed
    <2>2. CASE rd.held = <<>>
        <3>1. inst' \in Insts /\ Grows(inst, inst') /\ steps' = steps
            BY <1>0, <1>1, <2>2, GrowsOrder
        <3> QED
            BY <1>0, <1>1, <3>1, NamingStays
    <2> QED
        BY <2>1, <2>2
<1> QED
    BY <1>1, <1>2, Beyond

LEMMA ForgetKnowing == ASSUME Knowing, Forget PROVE Naming' /\ ContextIsSent'
<1>0. Shape /\ Naming /\ steps \in Seq(Steps) /\ shown \subseteq Shows /\ inst \in Insts
    BY DEF Knowing, Echoes, Ordering, Shape, Control, Types
<1>1. /\ at = "over" /\ at' = "idle" /\ UNCHANGED <<p, inst>> /\ steps' = <<>>
      /\ shown' = shown \cup {[id |-> steps[k].id, piece |-> steps[k].piece, old |-> FALSE] : k \in DOMAIN steps}
    BY DEF Forget
<1>2. IdsAreReal' <=> IdsAreReal
    BY <1>1 DEF IdsAreReal
<1>3. inst.tokenizer # "untried" /\ (p.host => inst.tokenizer # "absent")
    BY <1>0, <1>1 DEF Naming
<1>4. ASSUME NEW s \in shown' PROVE Named(s) /\ (IdsAreReal /\ ~s.old => Spelt(inst, s))
    <2>1. CASE s \in shown
        BY <1>0, <2>1 DEF Naming
    <2>2. ASSUME NEW k \in DOMAIN steps, s = [id |-> steps[k].id, piece |-> steps[k].piece, old |-> FALSE]
          PROVE  Named(s) /\ (IdsAreReal /\ ~s.old => Spelt(inst, s))
        <3>1. Named(steps[k]) /\ (IdsAreReal => Spelt(inst, steps[k]))
            BY <1>0 DEF Naming
        <3>2. s.id = steps[k].id /\ s.piece = steps[k].piece
            BY <2>2
        <3> DEFINE x == steps[k]
        <3>3. Named(x) /\ (IdsAreReal => Spelt(inst, x)) /\ s.id = x.id /\ s.piece = x.piece
            BY <3>1, <3>2
        <3> HIDE DEF x
        <3>4. Named(s) /\ (IdsAreReal => Spelt(inst, s))
            BY <3>3 DEF Named, Spelt
        <3> QED
            BY <3>4
    <2> QED
        BY <1>1, <2>1, <2>2
<1>5. DOMAIN steps' = {}
    BY <1>1
<1>6. Naming'
    BY <1>1, <1>2, <1>3, <1>4, <1>5 DEF Naming, Named, Real, Spelt
<1> QED
    BY <1>1, <1>6, Beyond

LEMMA RestartKnowing == ASSUME Knowing, Restart PROVE Naming' /\ ContextIsSent'
<1>0. Shape /\ Naming /\ shown \subseteq Shows
    BY DEF Knowing, Echoes, Ordering, Shape, Control, Types
<1>1. /\ at = "idle" /\ at' = "idle" /\ inst' = NewInstance /\ p' = p /\ steps' = steps /\ steps = <<>>
      /\ shown' = {[s EXCEPT !.old = TRUE] : s \in shown}
    BY <1>0 DEF Restart, Shape, Control, Resting
<1>2. ASSUME NEW s \in shown' PROVE Named(s) /\ s.old
    <2>1. PICK x \in shown : s = [x EXCEPT !.old = TRUE]
        BY <1>1
    <2>2. x \in Shows
        BY <1>0
    <2>3. s.id = x.id /\ s.piece = x.piece /\ s.old
        BY <2>1, <2>2 DEF Shows
    <2>4. Named(x)
        BY <1>0 DEF Naming
    <2> QED
        BY <2>3, <2>4 DEF Named
<1>3. inst'.tokenizer = "untried" /\ DOMAIN steps' = {}
    BY <1>1 DEF NewInstance
<1>4. Naming'
    BY <1>1, <1>2, <1>3 DEF Naming, Named, Real, Spelt
<1> QED
    BY <1>1, <1>4, Beyond

LEMMA FailKnowing == ASSUME Knowing, Fail PROVE Naming' /\ ContextIsSent'
<1>0. Shape /\ Naming /\ inst \in Insts
    BY DEF Knowing, Echoes, Ordering, Shape, Control, Types
<1>1. UNCHANGED <<p, shown, q, steps>> /\ at \in {"score", "step", "open"}
    BY DEF Fail, Asking
<1>2. CASE at = "score"
    <2>1. EnterDecoding(inst, q, RecordRequest(sink))
        BY <1>2 DEF Fail
    <2>2. RecordRequest(sink) \in Sinks /\ Grows(inst, inst)
        BY <1>0, Attempt, GrowsOrder
    <2> QED
        BY <1>0, <1>1, <1>2, <2>1, <2>2, DecodesOn
<1>3. CASE at # "score"
    <2>1. at' = "over" /\ inst' = inst
        BY <1>3 DEF Fail
    <2> QED
        BY <1>0, <1>1, <2>1, Beyond, GrowsOrder, NamingStays
<1> QED
    BY <1>2, <1>3

LEMMA ScoredKnowing == ASSUME Knowing, Scored PROVE Naming' /\ ContextIsSent'
<1> DEFINE n == Len(Pieces)
           recs == [k \in 1 .. n |-> Position(k + 1)]
           seen == LearnAll(inst, recs)
           i == IF p.host THEN inst ELSE seen
           counted == RecordTokens(RecordRequest(sink), Usage(1))
<1>1. at = "score" /\ EnterDecoding(i, q, counted) /\ UNCHANGED <<p, shown, q, steps>>
    BY DEF Scored
<1>2. Shape /\ inst \in Insts /\ Pieces \in Seq(Nat) /\ http.body.logprobs.top \in Int /\ n \in Nat
    <2>1. Shape /\ inst \in Insts /\ Pieces \in Seq(Nat) /\ http.body.logprobs.top \in Int
        BY <1>1, KnowingFacts
    <2> QED
        BY <2>1
<1>3. counted \in Sinks
    BY <1>2, Answered
<1>4. recs \in Seq(Positions(Nat))
    <2>1. ASSUME NEW k \in 1 .. n PROVE Position(k + 1) \in Positions(Nat)
        BY <1>2, PositionType
    <2>2. recs \in [1 .. n -> Positions(Nat)]
        BY <2>1
    <2> HIDE DEF recs, n
    <2> QED
        BY <1>2, <2>2
<1>5. seen \in Insts /\ Grows(inst, seen)
    BY <1>2, <1>4, LearnAllGrows
<1>6. i \in Insts /\ Grows(inst, i)
    BY <1>2, <1>5, GrowsOrder
<1> HIDE DEF i, counted, seen, recs, n
<1> QED
    BY <1>1, <1>3, <1>6, DecodesOn

\* Every step keeps Knowing.
LEMMA KnowingNext == ASSUME Knowing, [Next]_vars PROVE Knowing'
<1>0. Echoes' /\ Shape /\ Naming /\ ContextIsSent
    BY EchoNext DEF Knowing, Echoes, Ordering
<1>1. inst \in Insts /\ Grows(inst, inst)
    BY <1>0, GrowsOrder DEF Shape, Control, Types
<1>2. Naming' /\ ContextIsSent'
    <2>1. CASE Ask
        BY <2>1, AskKnowing
    <2>2. CASE Refuse
        <3>1. at = "idle" /\ at' = "idle" /\ UNCHANGED <<p, inst, shown, steps>>
            BY <2>2 DEF Refuse
        <3>2. Naming'
            BY <1>0, <3>1 DEF Naming, IdsAreReal, Named, Real, Spelt
        <3> QED
            BY <3>1, <3>2, Beyond
    <2>3. CASE Busy
        <3>1. /\ at \in {"score", "step", "open"} /\ at' = at /\ UNCHANGED <<p, q, inst, shown, steps>>
              /\ http' = [http EXCEPT !.tries = @ + 1]
            BY <2>3 DEF Busy, Asking
        <3>2. http'.body = http.body
            BY <1>0, <3>1 DEF Shape, Control, Types
        <3> QED
            BY <1>0, <1>1, <3>1, <3>2, ContextStays, NamingStays
    <2>4. CASE Fail
        BY <2>4, FailKnowing
    <2>5. CASE Scored
        BY <2>5, ScoredKnowing
    <2>6. CASE NextToken
        BY <2>6, NextTokenKnowing
    <2>7. CASE NoCandidates \/ Cut \/ EndOfBody \/ Leave
        <3>1. at # "idle" /\ at' \in {"over", "flush"} /\ UNCHANGED <<p, inst, shown, steps>>
            BY <2>7 DEF NoCandidates, Cut, EndOfBody, Leave, Reading
        <3> QED
            BY <1>0, <1>1, <3>1, Beyond, NamingStays
    <2>8. CASE Opened
        <3>1. at = "open" /\ at' = "read" /\ UNCHANGED <<p, q, inst, shown, steps, http>>
            BY <2>8 DEF Opened
        <3> QED
            BY <1>0, <1>1, <3>1, ContextStays, NamingStays
    <2>9. CASE Pull \/ ReadFrame
        <3>1. at = "read" /\ at' = "read" /\ UNCHANGED <<p, q, inst, shown, steps, http>>
            BY <2>9 DEF Pull, ReadFrame, Reading
        <3> QED
            BY <1>0, <1>1, <3>1, ContextStays, NamingStays
    <2>10. CASE ReadDone
        <3>1. at = "read" /\ at' \in {"over", "flush"} /\ UNCHANGED <<p, inst, shown, steps>>
            BY <2>10 DEF ReadDone, Reading
        <3> QED
            BY <1>0, <1>1, <3>1, Beyond, NamingStays
    <2>11. CASE ReadEcho
        <3>1. /\ at = "read" /\ at' = "read" /\ UNCHANGED <<p, q, shown, steps, http>> /\ rd.recs # <<>>
              /\ inst' = Learn(inst, Head(rd.recs))
            BY <2>11 DEF ReadEcho
        <3>2. inst' \in Insts /\ Grows(inst, inst')
            BY <1>0, <1>1, <3>1, NextPosition, LearnGrows
        <3>3. Ready(inst') <=> Ready(inst)
            BY <3>2 DEF Grows, Ready
        <3> QED
            BY <1>0, <3>1, <3>2, <3>3, ContextStays, NamingStays
    <2>12. CASE ReadToken
        BY <2>12, ReadTokenKnowing
    <2>13. CASE Flush
        BY <2>13, FlushKnowing
    <2>14. CASE Forget
        BY <2>14, ForgetKnowing
    <2>15. CASE Restart
        BY <2>15, RestartKnowing
    <2>16. CASE UNCHANGED vars
        <3>1. UNCHANGED <<p, q, at, inst, shown, steps, http>>
            BY <2>16 DEF vars
        <3>2. ContextIsSent'
            BY <1>0, <3>1, ContextStays
        <3>3. Naming'
            BY <1>0, <3>1 DEF Naming, IdsAreReal, Named, Real, Spelt
        <3> QED
            BY <3>2, <3>3
    <2> QED
        BY <2>1, <2>2, <2>3, <2>4, <2>5, <2>6, <2>7, <2>8, <2>9, <2>10, <2>11, <2>12, <2>13, <2>14, <2>15, <2>16
        DEF Next
<1> QED
    BY <1>0, <1>2 DEF Knowing

LEMMA KnowingInit == Init => Knowing
<1> SUFFICES ASSUME Init PROVE Knowing
    OBVIOUS
<1>1. Shape
    BY ShapeInit
<1>2. at = "idle" /\ steps = <<>> /\ shown = {} /\ inst = NewInstance
    BY DEF Init
<1>3. Order /\ EchoFits /\ ContextIsSent
    BY <1>2 DEF Order, EchoFits, ContextIsSent, ContextIsAlwaysSent
<1>4. inst.tokenizer = "untried" /\ DOMAIN steps = {}
    BY <1>2 DEF NewInstance
<1>5. Naming
    BY <1>2, <1>4 DEF Naming
<1> QED
    BY <1>1, <1>3, <1>5 DEF Knowing, Echoes, Ordering

\* The prompt of every request is the text the browser shows: the prompt, the
\* picks and the steps so far, through tokenize, intern and detokenize, for
\* providers whose ids are real or who have no tokenizer mapped.
THEOREM ContextSent == Spec => []ContextIsSent
<1>1. Init => Knowing
    BY KnowingInit
<1>2. Knowing /\ [Next]_vars => Knowing'
    BY KnowingNext
<1>3. Knowing => ContextIsSent
    BY DEF Knowing
<1> QED
    BY <1>1, <1>2, <1>3, PTL DEF Spec

-----------------------------------------------------------------------------
(***************************************************************************)
(* What a provider takes.                                                  *)
(***************************************************************************)
\* A body that a provider takes, whatever its ids.
Sendable(body) ==
    /\ body.fields \subseteq p.takes
    /\ body.logprobs.new => "new_logprobs" \in p.takes
    /\ body.logprobs.mask => "sampling_mask" \in p.takes
    /\ body.logprobs.top \in 1 .. p.top
    /\ body.echo => (IF body.stream THEN "combined_echo_stream" ELSE "prompt_logprobs") \in p.takes

\* The request to go on after EOS is passed on, or the user is told.
EosTold(body, call, s) ==
    ~p.host /\ ~call.respectEos => "ignore_eos" \in body.fields \/ s.noted

\* The request in flight is one its provider takes, and where a wish to go on
\* after EOS cannot be passed on, that was noted.
Sending ==
    /\ Asking /\ ~p.host => Sendable(http.body)
    /\ at = "open" => EosTold(http.body, q, sink)

\* Knowing and Sending.
Polite == Knowing /\ Sending

\* A flag that is on for a model is one its provider takes.
LEMMA FlagsTaken ==
    ASSUME p \in Provider, NEW f \in Flags, FlagForModel(p, f)
    PROVE  f \in p.takes
BY ProviderAssumption

\* What is asked of the logprobs is what the provider takes.
LEMMA LogprobsTaken ==
    ASSUME p \in Provider, NEW call, call.top \in Int
    PROVE  /\ Logprobs(p, call).new => "new_logprobs" \in p.takes
           /\ Logprobs(p, call).mask => "sampling_mask" \in p.takes
           /\ Logprobs(p, call).top \in 1 .. p.top
<1>1. p.top \in Nat \ {0}
    BY ProviderAssumption
<1>2. "new_logprobs" \in Flags /\ "sampling_mask" \in Flags
    BY DEF Flags
<1>3. /\ Logprobs(p, call).new = FlagForModel(p, "new_logprobs")
      /\ Logprobs(p, call).mask = (FlagForModel(p, "new_logprobs") /\ FlagForModel(p, "sampling_mask"))
      /\ Logprobs(p, call).top = IF call.top < 1 THEN 1 ELSE IF call.top > p.top THEN p.top ELSE call.top
    BY DEF Logprobs
<1>4. (IF call.top < 1 THEN 1 ELSE IF call.top > p.top THEN p.top ELSE call.top) \in 1 .. p.top
    BY <1>1
<1> QED
    BY <1>2, <1>3, <1>4, FlagsTaken

\* The fields of the requests are the ones the provider takes.
LEMMA FieldsTaken ==
    ASSUME p \in Provider, ~p.host, NEW call, Asked(call)
    PROVE  /\ PostFields(p) \subseteq p.takes
           /\ call.way # "steps" => StreamFields(p, call) \subseteq p.takes
<1>1. ASSUME NEW f \in PostFields(p) PROVE f \in p.takes
    <2>1. f \in {"perf_metrics", "raw_output"} /\ FlagForModel(p, f)
        BY DEF PostFields
    <2>2. f \in Flags
        BY <2>1 DEF Flags
    <2> QED
        BY <2>1, <2>2, FlagsTaken
<1>2. ASSUME call.way # "steps", NEW f \in SamplerFields(p, call) PROVE f \in p.takes
    <2>1. SupportsNative(p, call.sampler)
        BY <1>2 DEF Asked, Way
    <2>2. CASE f \in call.penalties /\ (f = "repetition_penalty" => FlagForModel(p, f))
        <3>1. f = "repetition_penalty" /\ "repetition_penalty" \in Flags
            BY <2>2 DEF Asked, Flags
        <3> QED
            BY <2>2, <3>1, FlagsTaken
    <2>3. CASE call.sampler = "typical" /\ f = "typical_p_native"
        <3>1. FlagForModel(p, "typical_p_native") /\ "typical_p_native" \in Flags
            BY <2>1, <2>3 DEF SupportsNative, NativeSamplers, Flags
        <3> QED
            BY <2>3, <3>1, FlagsTaken
    <2>4. CASE call.sampler = "mirostat" /\ f = "mirostat"
        <3>1. FlagForModel(p, "mirostat") /\ "mirostat" \in Flags
            BY <2>1, <2>4 DEF SupportsNative, NativeSamplers, Flags
        <3> QED
            BY <2>4, <3>1, FlagsTaken
    <2>5. \/ f \in call.penalties /\ (f = "repetition_penalty" => FlagForModel(p, f))
          \/ call.sampler = "typical" /\ f = "typical_p_native"
          \/ call.sampler = "mirostat" /\ f = "mirostat"
        <3>1. CASE call.sampler = "typical"
            BY <1>2, <3>1 DEF SamplerFields
        <3>2. CASE call.sampler = "mirostat"
            BY <1>2, <3>2 DEF SamplerFields
        <3>3. CASE call.sampler \notin {"typical", "mirostat"}
            BY <1>2, <3>3 DEF SamplerFields
        <3> QED
            BY <3>1, <3>2, <3>3
    <2> QED
        BY <2>2, <2>3, <2>4, <2>5
<1>3. ASSUME NEW f \in call.extras \cup (IF call.respectEos THEN {} ELSE {"ignore_eos"}), FlagForModel(p, f)
      PROVE  f \in p.takes
    <2>1. f \in Flags
        BY <1>3 DEF Asked, Flags
    <2> QED
        BY <1>3, <2>1, FlagsTaken
<1> QED
    BY <1>1, <1>2, <1>3 DEF StreamFields

\* The body of every stage is one that the provider takes.
LEMMA BodySendable ==
    ASSUME p \in Provider, ~p.host, NEW i, NEW call, Asked(call), NEW emitted,
           NEW stage \in {"score", "step", "open"}, stage = "score" => Scores(call),
           stage = "open" => call.way # "steps"
    PROVE  Sendable(BodyAt(stage, i, call, emitted))
<1>1. /\ Logprobs(p, call).new => "new_logprobs" \in p.takes
      /\ Logprobs(p, call).mask => "sampling_mask" \in p.takes
      /\ Logprobs(p, call).top \in 1 .. p.top
    BY LogprobsTaken DEF Asked
<1>2. /\ PostFields(p) \subseteq p.takes
      /\ call.way # "steps" => StreamFields(p, call) \subseteq p.takes
    BY FieldsTaken
<1>3. CASE stage = "score"
    <2>1. FlagForModel(p, "prompt_logprobs") /\ "prompt_logprobs" \in Flags
        BY <1>3 DEF Scores, Flags
    <2>2. "prompt_logprobs" \in p.takes
        BY <2>1, FlagsTaken
    <2> DEFINE b == ScoreBody(p, i, call)
    <2>3. b.fields = PostFields(p) /\ b.logprobs = Logprobs(p, call) /\ b.stream = FALSE
        BY DEF ScoreBody
    <2>4. BodyAt(stage, i, call, emitted) = b
        BY <1>3 DEF BodyAt
    <2> HIDE DEF b
    <2> QED
        BY <1>1, <1>2, <2>2, <2>3, <2>4 DEF Sendable
<1>4. CASE stage = "step"
    <2> DEFINE b == NextBody(p, i, call, LoopIds(i, call, emitted))
    <2>1. b.fields = PostFields(p) /\ b.logprobs = Logprobs(p, call) /\ b.echo = FALSE
        BY DEF NextBody
    <2>2. BodyAt(stage, i, call, emitted) = b
        BY <1>4 DEF BodyAt
    <2> HIDE DEF b
    <2> QED
        BY <1>1, <1>2, <2>1, <2>2 DEF Sendable
<1>5. CASE stage = "open"
    <2>1. call.way = Way(p, call) /\ call.way \in {"native", "combined"}
        BY <1>5, WayIs DEF Asked
    <2> DEFINE b == NativeBody(p, i, call)
               c == CombinedBody(p, i, call)
    <2>2. b.fields = StreamFields(p, call) /\ b.logprobs = Logprobs(p, call) /\ b.echo = FALSE
        BY DEF NativeBody
    <2>3. c.fields = StreamFields(p, call) /\ c.logprobs = Logprobs(p, call) /\ c.echo = TRUE /\ c.stream = TRUE
        BY DEF CombinedBody, NativeBody
    <2> HIDE DEF b, c
    <2>4. CASE call.way = "native"
        <3>1. BodyAt(stage, i, call, emitted) = b
            BY <1>5, <2>4 DEF BodyAt, b
        <3> QED
            BY <1>1, <1>2, <2>1, <2>2, <3>1 DEF Sendable
    <2>5. CASE call.way = "combined"
        <3>1. BodyAt(stage, i, call, emitted) = c
            BY <1>5, <2>5 DEF BodyAt, c
        <3>2. FlagForModel(p, "combined_echo_stream") /\ "combined_echo_stream" \in Flags
            BY <2>1, <2>5 DEF Way, Flags
        <3>3. "combined_echo_stream" \in p.takes
            BY <3>2, FlagsTaken
        <3> QED
            BY <1>1, <1>2, <2>1, <2>3, <3>1, <3>3 DEF Sendable
    <2> QED
        BY <2>1, <2>4, <2>5
<1> QED
    BY <1>3, <1>4, <1>5

\* An ask to go on after EOS goes into the body, where it can.
LEMMA EosPassed ==
    ASSUME p \in Provider, ~p.host, NEW i, NEW call, Asked(call), call.way # "steps", ~call.respectEos,
           FlagForModel(p, "ignore_eos"), NEW emitted
    PROVE  "ignore_eos" \in BodyAt("open", i, call, emitted).fields
<1>1. call.way \in {"native", "combined"}
    BY WayIs DEF Asked
<1>2. "ignore_eos" \in StreamFields(p, call)
    BY DEF StreamFields
<1>3. NativeBody(p, i, call).fields = StreamFields(p, call) /\ CombinedBody(p, i, call).fields = StreamFields(p, call)
    BY DEF NativeBody, CombinedBody
<1>4. BodyAt("open", i, call, emitted) \in {NativeBody(p, i, call), CombinedBody(p, i, call)}
    BY <1>1 DEF BodyAt
<1> QED
    BY <1>2, <1>3, <1>4

\* The actions establish or keep Sending.
LEMMA EntersSending ==
    ASSUME p \in Provider, p' = p, NEW i \in Insts, Asked(q'), NEW s \in Sinks, EnterDecoding(i, q', s)
    PROVE  Sending'
<1> DEFINE stage == at'
           call == q'
           body == http'.body
           k == IF stage = "step" THEN inst' ELSE i
<1>1. /\ stage \in {"step", "open"} /\ (stage = "step" <=> call.way = "steps")
      /\ body = BodyAt(stage, k, call, <<>>)
      /\ sink'.noted = (call.way \in {"native", "combined"} /\ ~call.respectEos
                        /\ ~FlagForModel(p, "ignore_eos"))
    BY Enters
<1>2. Asked(call)
    OBVIOUS
<1>3. PICK st, c, j, no : st = stage /\ c = call /\ j = k /\ no = <<>>
    BY <1>1
<1> HIDE DEF stage, call, body, k
<1>4. st \in {"step", "open"} /\ Asked(c) /\ (st = "open" => c.way # "steps") /\ body = BodyAt(st, j, c, no)
    BY <1>1, <1>2, <1>3
<1>5. ~p.host => Sendable(body)
    BY <1>4, BodySendable
<1>6. st = "open" /\ ~p.host /\ ~c.respectEos => "ignore_eos" \in body.fields \/ sink'.noted
    <2>1. ASSUME st = "open", ~p.host, ~c.respectEos, FlagForModel(p, "ignore_eos")
          PROVE  "ignore_eos" \in body.fields
        BY <1>4, <2>1, EosPassed
    <2>2. ASSUME st = "open", ~p.host, ~c.respectEos, ~FlagForModel(p, "ignore_eos")
          PROVE  sink'.noted
        <3>1. c.way \in {"native", "combined"}
            BY <1>4, <2>2, WayIs DEF Asked
        <3> QED
            BY <1>1, <1>3, <2>2, <3>1
    <2> QED
        BY <2>1, <2>2
<1> QED
    BY <1>3, <1>5, <1>6 DEF Sending, Sendable, EosTold, stage, call, body

LEMMA AskSending == ASSUME Shape, Ask PROVE Sending'
<1>0. p \in Provider /\ p' = p
    BY DEF Shape, Control, Types, Ask
<1>1. PICK i \in EnsureTokenizer(p, inst) :
                 /\ i \in Insts /\ Asked(q')
                 /\ Scores(q') => /\ at' = "score" /\ inst' = i /\ sink' = NoSink
                                  /\ http' = [body |-> BodyAt("score", i, q', <<>>), tries |-> 0]
                 /\ ~Scores(q') => EnterDecoding(i, q', NoSink)
    BY AskCall
<1>2. CASE ~Scores(q')
    BY <1>0, <1>1, <1>2, Usable, EntersSending
<1>3. CASE Scores(q')
    <2>1. at' = "score" /\ http'.body = BodyAt("score", i, q', <<>>)
        BY <1>1, <1>3
    <2>2. PICK c, no : c = q' /\ no = <<>>
        OBVIOUS
    <2> DEFINE body == http'.body
    <2>3. body = BodyAt("score", i, c, no) /\ Scores(c) /\ Asked(c)
        BY <1>1, <1>3, <2>1, <2>2
    <2> HIDE DEF body
    <2>4. ~p.host => Sendable(body)
        BY <1>0, <2>3, BodySendable
    <2> QED
        BY <1>0, <2>1, <2>4 DEF Sending, Sendable, body
<1> QED
    BY <1>2, <1>3

LEMMA ScoredSending == ASSUME Shape, Scored PROVE Sending'
<1>1. p \in Provider /\ p' = p /\ q' = q /\ at = "score" /\ Asked(q)
    BY DEF Scored, Shape, Control, Types, CallOK
<1> DEFINE seen == LearnAll(inst, [k \in 1 .. Len(Pieces) |-> Position(k + 1)])
           counted == RecordTokens(RecordRequest(sink), Usage(1))
           i == IF p.host THEN inst ELSE seen
<1>2. EnterDecoding(i, q, counted)
    BY DEF Scored
<1>3. Pieces \in Seq(Nat) /\ http.body.logprobs.top \in Int /\ inst \in Insts
    BY <1>1 DEF Shape, Control, BodyOK, BodyFits, Pieces, Types
<1>4. counted \in Sinks
    BY <1>3, Answered
<1>5. i \in Insts
    <2> DEFINE n == Len(Pieces)
               recs == [k \in 1 .. n |-> Position(k + 1)]
    <2>1. n \in Nat
        BY <1>3
    <2>2. ASSUME NEW k \in 1 .. n PROVE Position(k + 1) \in Positions(Nat)
        BY <1>3, <2>1, PositionType
    <2>3. recs \in [1 .. n -> Positions(Nat)]
        BY <2>2
    <2>4. recs \in Seq(Positions(Nat))
        <3> HIDE DEF recs, n
        <3> QED
            BY <2>1, <2>3
    <2>5. seen = LearnAll(inst, recs)
        OBVIOUS
    <2> HIDE DEF recs, seen
    <2> QED
        BY <1>3, <2>4, <2>5, LearnAllGrows
<1> HIDE DEF seen, counted, i
<1> QED
    BY <1>1, <1>2, <1>4, <1>5, EntersSending

LEMMA FailSending == ASSUME Shape, Fail PROVE Sending'
<1>1. CASE at = "score"
    <2>1. EnterDecoding(inst, q, RecordRequest(sink)) /\ p' = p /\ q' = q
        BY <1>1 DEF Fail
    <2>2. p \in Provider /\ Asked(q) /\ inst \in Insts /\ RecordRequest(sink) \in Sinks
        BY <1>1, Attempt DEF Shape, Control, Types, CallOK
    <2> QED
        BY <2>1, <2>2, EntersSending
<1>2. CASE at # "score"
    <2>1. at' = "over"
        BY <1>2 DEF Fail
    <2> QED
        BY <2>1 DEF Sending, Asking
<1> QED
    BY <1>1, <1>2

LEMMA NextTokenSending == ASSUME Shape, NextToken PROVE Sending'
<1>1. at = "step" /\ p' = p /\ q' = q
    BY DEF NextToken
<1>2. PICK piece \in Tokens \ Specials, why \in {None, "user_stop", "max_tokens"}, id \in Nat,
              chosen \in Positions(Nat) :
              /\ at' = IF why = None THEN "step" ELSE "over"
              /\ http' = IF why = None
                         THEN [body |-> BodyAt("step", inst', q, Append(Emitted, id)), tries |-> 0]
                         ELSE http
    <2>1. at = "step"
        BY <1>1
    <2>2. PICK piece \in Tokens \ Specials, why \in {None, "user_stop", "max_tokens"}, id \in Nat,
              chosen \in Positions(Nat) :
              /\ chosen.piece = piece /\ chosen.k = Len(Pieces) + 1
              /\ chosen.id = (IF RealIds THEN piece ELSE None)
              /\ inst' = Learn(inst, chosen) /\ id = IdOf(inst', chosen)
              /\ inst' \in Insts /\ Grows(inst, inst')
              /\ steps' = Append(steps, [pos |-> Len(LoopIds(inst, q, Emitted)), id |-> id, piece |-> piece,
                                         k |-> Len(Pieces) + 1, reason |-> why])
              /\ at' = IF why = None THEN "step" ELSE "over"
              /\ http' = IF why = None
                         THEN [body |-> BodyAt("step", inst', q, Append(Emitted, id)), tries |-> 0]
                         ELSE http
        BY <2>1, Chosen, Zenon
    <2> QED
        BY <2>2, Zenon
<1>3. CASE why # None
    <2>1. at' = "over"
        BY <1>2, <1>3
    <2> QED
        BY <2>1 DEF Sending, Asking
<1>4. CASE why = None
    <2>1. at' = "step" /\ http'.body = BodyAt("step", inst', q, Append(Emitted, id))
        BY <1>2, <1>4
    <2>2. PICK j, emitted : j = inst' /\ emitted = Append(Emitted, id)
        OBVIOUS
    <2> DEFINE body == http'.body
    <2>3. body = BodyAt("step", j, q, emitted) /\ Asked(q) /\ p \in Provider
        BY <1>1, <2>1, <2>2 DEF Shape, Control, CallOK, Types
    <2> HIDE DEF body
    <2>4. ~p.host => Sendable(body)
        BY <2>3, BodySendable
    <2> QED
        BY <1>1, <2>1, <2>4 DEF Sending, Sendable, body
<1> QED
    BY <1>3, <1>4

LEMMA BusySending == ASSUME Shape, Sending, Busy PROVE Sending'
<1>1. /\ Asking /\ at' = at /\ ~p.host /\ UNCHANGED <<p, q>> /\ sink' = RecordRequest(sink)
      /\ http' = [http EXCEPT !.tries = @ + 1] /\ sink \in Sinks
    BY DEF Busy, Shape, Control, Types
<1>2. http'.body = http.body
    BY <1>1 DEF Shape, Control, Types
<1>3. sink'.noted = sink.noted
    <2>1. None \in Usages \cup {None}
        OBVIOUS
    <2> QED
        BY <1>1, <2>1, Recorded
<1> QED
    BY <1>1, <1>2, <1>3 DEF Sending, Sendable, EosTold, Asking

\* Every step keeps Polite.
LEMMA PoliteNext == ASSUME Polite, [Next]_vars PROVE Polite'
<1>0. Knowing' /\ Shape /\ Sending
    BY KnowingNext DEF Polite, Knowing, Echoes, Ordering
<1>1. Sending'
    <2>1. CASE Ask
        BY <1>0, <2>1, AskSending
    <2>2. CASE Busy
        BY <1>0, <2>2, BusySending
    <2>3. CASE Fail
        BY <1>0, <2>3, FailSending
    <2>4. CASE Scored
        BY <1>0, <2>4, ScoredSending
    <2>5. CASE NextToken
        BY <1>0, <2>5, NextTokenSending
    <2>6. CASE Refuse \/ Restart \/ Forget
        <3>1. at' = "idle"
            BY <2>6 DEF Refuse, Restart, Forget
        <3> QED
            BY <3>1 DEF Sending, Asking
    <2>7. CASE NoCandidates \/ Opened \/ Pull \/ EndOfBody \/ Cut \/ ReadFrame \/ ReadDone \/ ReadEcho
               \/ ReadToken \/ Flush \/ Leave
        <3>1. at' \in {"over", "read", "flush"}
            BY <2>7 DEF NoCandidates, Opened, Pull, EndOfBody, Cut, ReadFrame, ReadDone, ReadEcho, ReadToken,
                        Flush, Leave, Reading
        <3> QED
            BY <3>1 DEF Sending, Asking
    <2>8. CASE UNCHANGED vars
        BY <1>0, <2>8 DEF vars, Sending, Sendable, EosTold, Asking
    <2> QED
        BY <2>1, <2>2, <2>3, <2>4, <2>5, <2>6, <2>7, <2>8 DEF Next
<1> QED
    BY <1>0, <1>1 DEF Polite

\* The ids of a request are the provider's own.
LEMMA IdsAreTokens ==
    ASSUME Knowing, Asking, ~StalePick, IdsAreReal
    PROVE  \A id \in ToSet(http.body.prompt.tokens) : id < InternBase
<1>1. /\ Shape /\ Naming /\ shown \subseteq Shows /\ Asked(q) /\ q.picked \in Seq(shown)
      /\ steps \in Seq(Steps) /\ Pieces \in Seq(Nat)
    BY KnowingFacts DEF Asking
<1> DEFINE said == [k \in DOMAIN steps |-> steps[k].piece]
           lead == IF at = "score" \/ q.way \in {"native", "combined"} THEN q.prepend ELSE <<>>
           tail == IF at = "step" THEN said ELSE <<>>
<1>2. Pieces = lead \o q.prompt \o PicksSeen \o tail
    BY DEF Knowing, ContextIsSent, ContextIsAlwaysSent, Asking
<1>3. Real \/ ~Ready(inst)
    BY RealIdsAre
<1>4. said \in Seq(Tokens)
    <2>1. ASSUME NEW k \in DOMAIN steps PROVE steps[k].piece \in Tokens
        BY <1>1 DEF Naming, Spelt
    <2>2. DOMAIN steps = 1 .. Len(steps) /\ Len(steps) \in Nat
        BY <1>1
    <2>3. said \in [1 .. Len(steps) -> Tokens]
        BY <2>1, <2>2
    <2> HIDE DEF said
    <2> QED
        BY <2>2, <2>3
<1>5. PicksSeen \in Seq(Tokens)
    <2>1. ASSUME NEW k \in DOMAIN q.picked PROVE q.picked[k].piece \in Tokens
        <3> DEFINE x == q.picked[k]
        <3>1. x \in shown /\ x \in Shows /\ x \in ToSet(q.picked)
            BY <1>1 DEF ToSet
        <3> HIDE DEF x
        <3>2. Named(x) /\ (x.old \/ Spelt(inst, x))
            BY <1>1, <3>1 DEF Naming
        <3>3. ~(x.old /\ ~(Ready(inst) /\ x.id < InternBase))
            BY <3>1 DEF StalePick
        <3>4. CASE x.old
            <4>1. x.id < InternBase /\ x.id \in Nat
                BY <3>1, <3>3, <3>4 DEF Shows
            <4>2. x.piece = x.id
                BY <3>2, <4>1 DEF Named
            <4>3. x.piece \in Tokens
                BY <4>1, <4>2, CallAssumption DEF Tokens
            <4> QED
                BY <4>3 DEF x
        <3>5. CASE ~x.old
            BY <3>2, <3>5 DEF Spelt, x
        <3> QED
            BY <3>4, <3>5
    <2>2. DOMAIN q.picked = 1 .. Len(q.picked) /\ Len(q.picked) \in Nat
        BY <1>1
    <2> DEFINE s == [j \in DOMAIN q.picked |-> q.picked[j].piece]
    <2>3. s \in [1 .. Len(q.picked) -> Tokens]
        BY <2>1, <2>2
    <2> HIDE DEF s
    <2>4. s \in Seq(Tokens)
        BY <2>2, <2>3
    <2> QED
        BY <2>4 DEF PicksSeen, s
<1>6. lead \in Seq(Tokens) /\ tail \in Seq(Tokens) /\ q.prompt \in Seq(Tokens)
    <2>1. <<>> \in Seq(Tokens)
        OBVIOUS
    <2> HIDE DEF said
    <2> QED
        BY <1>1, <1>4, <2>1 DEF Asked
<1> HIDE DEF lead, tail
<1>7. \A s, t \in Seq(Tokens) : s \o t \in Seq(Tokens)
    BY ConcatTypes
<1>8. Pieces \in Seq(Tokens)
    <2>1. lead \o q.prompt \in Seq(Tokens)
        BY <1>6, <1>7
    <2>2. lead \o q.prompt \o PicksSeen \in Seq(Tokens)
        BY <1>5, <1>7, <2>1
    <2> QED
        BY <1>2, <1>6, <1>7, <2>2
<1>9. ASSUME NEW id \in ToSet(Pieces) PROVE id < InternBase
    <2>1. id \in Tokens
        BY <1>8 DEF ToSet
    <2> QED
        BY <2>1, CallAssumption DEF Tokens
<1> QED
    BY <1>9 DEF Pieces

\* No request has a field, a number of logprobs, an echo or an id that its provider
\* does not have, and a wish to go on after EOS is passed on or its loss is noted.
THEOREM Refusal == Spec => []NeverRefused
<1>1. Init => Polite
    <2>1. Init => Sending
        BY DEF Init, Sending, Asking
    <2> QED
        BY <2>1, KnowingInit DEF Polite
<1>2. Polite /\ [Next]_vars => Polite'
    BY PoliteNext
<1>3. Polite => NeverRefused
    <2> SUFFICES ASSUME Polite PROVE NeverRefused
        OBVIOUS
    <2>1. ASSUME Asking, ~StalePick, IdsAreReal, ~p.host PROVE Accepts(p, http.body)
        <3>1. Sendable(http.body)
            BY <2>1 DEF Polite, Sending
        <3>2. p.completions
            BY <2>1 DEF Polite, Knowing, Echoes, Ordering, Shape, Control, CallOK, Asking
        <3>3. \A id \in ToSet(http.body.prompt.tokens) : id < InternBase
            BY <2>1, IdsAreTokens DEF Polite
        <3> QED
            BY <3>1, <3>2, <3>3 DEF Accepts, Sendable
    <2>2. Asking /\ ~StalePick /\ IdsAreReal /\ p.host => Accepts(p, http.body)
        BY DEF Accepts
    <2>3. at = "open" /\ ~p.host /\ ~q.respectEos => "ignore_eos" \in http.body.fields \/ sink.noted
        BY DEF Polite, Sending, EosTold
    <2> QED
        BY <2>1, <2>2, <2>3 DEF NeverRefused
<1> QED
    BY <1>1, <1>2, <1>3, PTL DEF Spec

-----------------------------------------------------------------------------
(***************************************************************************)
(* Where the echo ends.                                                    *)
(***************************************************************************)
\* Where the end of an echo can be told, the echo is the prompt and no more.
\* The text that is counted leaves out the prepended tokens, which come first.
EchoEnds(f, n, m, r, style) ==
    /\ r.emitting => f + Len(r.echoed) = n + 1
    /\ ~r.emitting => /\ f + Len(r.echoed) <= n + 1
                      /\ r.running = 0 \/ r.running + m < f + Len(r.echoed)
                      /\ style = "bare" => r.running + m + 1 >= f + Len(r.echoed)

\* While a stream with an echo is read, if the end of its echo can be told.
EchoEndFits ==
    at \in {"read", "flush"} /\ http.body.echo /\ EchoEndTells =>
        EchoEnds(FirstSent, Len(Pieces), Len(q.prepend), rd, up.style)

(***************************************************************************)
(* How the stream ends.                                                    *)
(***************************************************************************)
\* The finish reasons among the frames w.
Finishes(w) == Join(FinishOf, w)

\* Of a provider one frame has a finish_reason, and the reader has kept it when
\* it is not among the frames to be read.
FinishTold(u, w, b, finish) ==
    /\ Finishes(w) = (IF u.reason = None THEN <<>> ELSE <<u.reason>>)
    /\ Finishes(b) = <<>> => finish = u.reason
    /\ Finishes(b) # <<>> => Finishes(b) = Finishes(w)

\* Of a GPU host the last position has the reason, and the done event has it too.
Why(u, f, k) == IF k = f + u.sent - 1 THEN u.reason ELSE None

\* The done event is not lost, and each step has the reason of its position.
HostTold(u, f, w, b, recs, finish, ss) ==
    /\ Join(DoneOf, w) = Join(DoneOf, b)
    /\ \A j \in DOMAIN b : /\ b[j].event = "done" => b[j].finish = u.reason
                           /\ b[j].recs # <<>> => b[j].finish = Why(u, f, b[j].recs[1].k)
    /\ recs # <<>> => finish = Why(u, f, recs[1].k)
    /\ \A j \in DOMAIN ss : ss[j].reason = Why(u, f, ss[j].k)

\* How the stream ends, in the frames, the reader and the steps.
Ends ==
    /\ at = "read" =>
          /\ Closes(up, rd.buf)
          /\ p.host => HostTold(up, FirstSent, wire, rd.buf, rd.recs, rd.finish, steps)
          /\ ~p.host => FinishTold(up, wire, rd.buf, rd.finish)
    /\ at \in {"read", "flush"} /\ ~p.host =>
          /\ \A j \in DOMAIN steps : steps[j].reason = None
          /\ steps # <<>> => rd.held # <<>>
    /\ at = "flush" =>
          /\ rd.buf = <<>> /\ rd.recs = <<>> /\ up.phase # "more"
          /\ rd.finish = up.reason /\ Finishes(wire) = (IF up.reason = None THEN <<>> ELSE <<up.reason>>)
          /\ entries # <<>> /\ Last(entries) = StreamedEntry(wire, FALSE)

\* The text of a part of a prompt of which just the first m tokens are blank.
LEMMA MarkedText ==
    ASSUME NEW s \in Seq(Nat), NEW m \in Nat, \A k \in DOMAIN s : s[k] \in Specials <=> k <= m
    PROVE  \A j \in 0 .. Len(s) : Shown(SubSeq(s, 1, j)) = IF j <= m THEN 0 ELSE j - m
<1> DEFINE T == {j \in Nat : j <= Len(s) => Shown(SubSeq(s, 1, j)) = IF j <= m THEN 0 ELSE j - m}
<1>1. 0 \in T
    <2>1. SubSeq(s, 1, 0) = <<>> /\ Len(<<>>) = 0
        OBVIOUS
    <2> DEFINE t == SubSeq(s, 1, 0)
    <2>2. t = <<>>
        BY <2>1
    <2> HIDE DEF t
    <2>3. Shown(t) = 0
        BY <2>1, <2>2, TextEmpty DEF Shown
    <2> QED
        BY <2>3 DEF t
<1>2. ASSUME NEW j \in Nat, j \in T PROVE j + 1 \in T
    <2> SUFFICES ASSUME j + 1 <= Len(s)
                 PROVE  Shown(SubSeq(s, 1, j + 1)) = IF j + 1 <= m THEN 0 ELSE j + 1 - m
        OBVIOUS
    <2> DEFINE t == SubSeq(s, 1, j)
               x == s[j + 1]
    <2>1. t \in Seq(Nat) /\ x \in Nat /\ SubSeq(s, 1, j + 1) = Append(t, x)
        OBVIOUS
    <2>2. x \in Specials <=> j + 1 <= m
        OBVIOUS
    <2>3. Shown(t) = IF j <= m THEN 0 ELSE j - m
        BY <1>2
    <2> HIDE DEF t, x
    <2>4. Text(t) \in Seq(Nat) /\ Text(Append(t, x)) = Text(t) \o (IF x \in Specials THEN <<>> ELSE <<x>>)
        BY <2>1, TextAppend
    <2>5. CASE j + 1 <= m
        <3>1. Text(Append(t, x)) = Text(t)
            BY <2>2, <2>4, <2>5
        <3>2. Shown(Append(t, x)) = 0
            BY <2>3, <2>5, <3>1 DEF Shown
        <3> QED
            BY <2>1, <2>5, <3>2
    <2>6. CASE j + 1 > m
        <3>1. Text(Append(t, x)) = Text(t) \o <<x>>
            BY <2>2, <2>4, <2>6
        <3>2. Len(Text(t) \o <<x>>) = Len(Text(t)) + 1
            BY <2>4
        <3>3. Shown(Append(t, x)) = Shown(t) + 1
            BY <3>1, <3>2 DEF Shown
        <3>4. Shown(t) = j - m
            BY <2>3, <2>6
        <3>5. Shown(Append(t, x)) = j + 1 - m
            BY <3>3, <3>4
        <3>6. ~(j + 1 <= m)
            BY <2>6
        <3>7. Shown(SubSeq(s, 1, j + 1)) = j + 1 - m
            BY <2>1, <3>5
        <3> QED
            BY <3>6, <3>7
    <2> QED
        BY <2>5, <2>6
<1> HIDE DEF T
<1>3. Nat \subseteq T
    BY <1>1, <1>2, SetInduction
<1> QED
    BY <1>3 DEF T

\* An echo whose end can be told, as the reader sees it: it counts the text of
\* the prompt without the prepended tokens.
LEMMA EchoCounted ==
    ASSUME Echoes, at \in {"read", "flush"}, http.body.echo, EchoEndTells
    PROVE  /\ ~p.host /\ q.way = "combined"
           /\ Len(q.prepend) \in Nat /\ Len(q.prepend) <= Len(Pieces)
           /\ rd.promptLen = Len(Pieces) - Len(q.prepend)
           /\ Len(Pieces) > 0 => Len(q.prepend) < Len(Pieces)
           /\ up.style = "bare" => FirstSent = 1
           /\ \A j \in 0 .. Len(Pieces) :
                 Shown(SubSeq(Pieces, 1, j)) = IF j <= Len(q.prepend) THEN 0 ELSE j - Len(q.prepend)
<1>1. /\ Pieces \in Seq(Nat) /\ Len(Pieces) \in Nat /\ StreamBodyFits(http.body, q)
      /\ q.prompt \in Seq(Tokens) /\ q.prepend \in Seq(Tokens)
      /\ rd.promptLen = IF http.body.prompt.array THEN Len(q.prompt) ELSE Len(Pieces)
    BY StreamFacts DEF Echoes, Ordering, EchoFits
<1>2. ~p.host /\ q.way = "combined"
    BY <1>1 DEF StreamBodyFits
<1>3. /\ \A k \in DOMAIN Pieces : Pieces[k] \in Specials <=> k <= Len(q.prepend)
      /\ http.body.prompt.array => q.picks = <<>> /\ q.prompt # <<>>
      /\ up.style = "bare" => http.body.last = None
    BY DEF EchoEndTells
<1>4. /\ Len(q.prepend) \in Nat /\ Len(q.prepend) <= Len(Pieces)
      /\ rd.promptLen = Len(Pieces) - Len(q.prepend)
      /\ Len(Pieces) > 0 => Len(q.prepend) < Len(Pieces)
    <2>1. CASE http.body.prompt.array
        <3>1. Pieces = q.prepend \o q.prompt \o <<>>
            BY <1>1, <1>3, <2>1 DEF StreamBodyFits, Pieces
        <3>2. Len(q.prepend \o q.prompt \o <<>>) = Len(q.prepend) + Len(q.prompt)
            BY <1>1
        <3>3. Len(q.prompt) \in Nat /\ Len(q.prepend) \in Nat /\ Len(q.prompt) # 0
            BY <1>1, <1>3, <2>1
        <3>4. rd.promptLen = Len(q.prompt)
            BY <1>1, <2>1
        <3>5. Len(Pieces) = Len(q.prepend) + Len(q.prompt)
            BY <3>1, <3>2
        <3> DEFINE a == Len(q.prepend)
                   b == Len(q.prompt)
                   n == Len(Pieces)
        <3> HIDE DEF a, b, n
        <3>6. a \in Nat /\ b \in Nat /\ b # 0 /\ n = a + b /\ rd.promptLen = b
            BY <3>3, <3>4, <3>5 DEF a, b, n
        <3>7. a \in Nat /\ a <= n /\ rd.promptLen = n - a /\ (n > 0 => a < n)
            BY <3>6
        <3> QED
            BY <3>7 DEF a, n
    <2>2. CASE ~http.body.prompt.array
        <3>1. q.prepend = <<>>
            BY <1>1, <1>2, <2>2 DEF StreamBodyFits
        <3>2. Len(<<>>) = 0
            OBVIOUS
        <3> QED
            BY <1>1, <2>2, <3>1, <3>2
    <2> QED
        BY <2>1, <2>2
<1>5. up.style = "bare" => FirstSent = 1
    BY <1>3 DEF FirstSent
<1>6. \A j \in 0 .. Len(Pieces) :
          Shown(SubSeq(Pieces, 1, j)) = IF j <= Len(q.prepend) THEN 0 ELSE j - Len(q.prepend)
    <2> DEFINE s == Pieces
               m == Len(q.prepend)
    <2>1. s \in Seq(Nat) /\ m \in Nat /\ \A k \in DOMAIN s : s[k] \in Specials <=> k <= m
        BY <1>1, <1>3, <1>4
    <2> HIDE DEF s, m
    <2>2. \A j \in 0 .. Len(s) : Shown(SubSeq(s, 1, j)) = IF j <= m THEN 0 ELSE j - m
        BY <2>1, MarkedText
    <2> QED
        BY <2>2 DEF s, m
<1> QED
    BY <1>2, <1>4, <1>5, <1>6

\* The next position of an echo that goes on.
LEMMA EchoNow ==
    ASSUME Echoes, EchoEndFits, at = "read", http.body.echo, EchoEndTells, rd.recs # <<>>, ~rd.emitting,
           NEW k, k = FirstSent + Len(rd.echoed)
    PROVE  /\ k \in Nat \ {0} /\ Head(rd.recs) = Position(k) /\ k <= Len(Pieces) + 1
           /\ rd.running = 0 \/ rd.running + Len(q.prepend) < k
           /\ up.style = "bare" => rd.running + Len(q.prepend) + 1 >= k
<1>1. /\ FirstSent \in Nat \ {0} /\ Len(rd.echoed) \in Nat
    BY StreamFacts DEF Echoes, Ordering
<1>2. Head(rd.recs) = Position(FirstSent + Taken(rd, steps)) /\ TakenInOrder(Places, FirstSent, rd, steps)
    BY NextInOrder DEF Echoes
<1>3. Taken(rd, steps) = Len(rd.echoed)
    <2>1. steps = <<>> /\ rd.held = <<>>
        BY <1>2 DEF TakenInOrder
    <2>2. Len(<<>>) = 0
        OBVIOUS
    <2> QED
        BY <1>1, <2>1, <2>2 DEF Taken
<1> QED
    BY <1>1, <1>2, <1>3 DEF EchoEndFits, EchoEnds

\* The text of one position of an echo.
LEMMA OnePiece ==
    ASSUME NEW x
    PROVE  Shown(<<x>>) = IF x \in Specials THEN 0 ELSE 1
<1>1. Len(<<>>) = 0 /\ Len(<<x>>) = 1
    OBVIOUS
<1> QED
    BY <1>1, TextOne DEF Shown

\* Where the end of an echo can be told, a position is taken for one of the
\* prompt just if it is.
LEMMA EchoTurns ==
    ASSUME Echoes, EchoEndFits, at = "read", http.body.echo, EchoEndTells, rd.recs # <<>>, ~rd.emitting,
           NEW k, k = FirstSent + Len(rd.echoed)
    PROVE  /\ IsEmit(Head(rd.recs)) <=> k = Len(Pieces) + 1
           /\ k <= Len(Pieces) =>
                 /\ RunningLen(Head(rd.recs)) = 0 \/ RunningLen(Head(rd.recs)) + Len(q.prepend) < k + 1
                 /\ up.style = "bare" => RunningLen(Head(rd.recs)) + Len(q.prepend) + 1 >= k + 1
<1> DEFINE rec == Head(rd.recs)
           n == Len(Pieces)
           m == Len(q.prepend)
           r == rd.running
           l == RunningLen(rec)
<1>1. /\ k \in Nat \ {0} /\ rec = Position(k) /\ k <= n + 1
      /\ r = 0 \/ r + m < k
      /\ up.style = "bare" => r + m + 1 >= k
    BY EchoNow
<1>2. /\ m \in Nat /\ m <= n /\ rd.promptLen = n - m /\ (n > 0 => m < n)
      /\ \A j \in 0 .. n : Shown(SubSeq(Pieces, 1, j)) = IF j <= m THEN 0 ELSE j - m
      /\ ~p.host /\ q.way = "combined"
    BY EchoCounted
<1>3. n \in Nat /\ Pieces \in Seq(Nat) /\ r \in Nat
    BY StreamFacts DEF Echoes, Ordering
<1>4. /\ rec.piece = PieceAt(k) /\ rec.off = OffAt(k) /\ rec.signal = (up.style = "signal" /\ k > n)
    BY <1>1, PositionFields
<1>10. ASSUME rec.signal PROVE up.style = "signal" /\ k > n
    BY <1>4, <1>10, Zenon
<1>11. ASSUME up.style = "signal", k > n PROVE rec.signal
    BY <1>4, <1>11, Zenon
<1>5. None \notin Nat
    BY NoneIsNone
<1>6. up.style \in {"offset", "signal", "bare"}
    BY StreamFacts DEF Echoes, Ordering, Uppers
<1>7. \A j \in DOMAIN Pieces : Pieces[j] \in Specials <=> j <= m
    BY DEF EchoEndTells
<1>8. CASE up.style = "offset"
    <2>1. ASSUME k <= n PROVE rec.off = IF k - 1 <= m THEN 0 ELSE k - 1 - m
        <3>1. rec.off = Shown(SubSeq(Pieces, 1, k - 1))
            BY <1>1, <1>3, <1>4, <1>8, <2>1 DEF OffAt
        <3>2. k - 1 \in 0 .. n
            BY <1>1, <1>3, <2>1
        <3> HIDE DEF n, m, rec
        <3> QED
            BY <1>2, <3>1, <3>2
    <2>2. ASSUME k = n + 1 PROVE rec.off = n - m
        <3>1. rec.off = Shown(Pieces) + k - n - 1
            BY <1>1, <1>3, <1>4, <1>8, <2>2 DEF OffAt
        <3>2. Pieces = SubSeq(Pieces, 1, n)
            BY <1>3
        <3>3. n \in 0 .. n
            BY <1>3
        <3> HIDE DEF n, m, rec
        <3>4. Shown(SubSeq(Pieces, 1, n)) = IF n <= m THEN 0 ELSE n - m
            BY <1>2, <3>3
        <3>5. Shown(Pieces) = n - m
            <4>1. Shown(Pieces) = IF n <= m THEN 0 ELSE n - m
                BY <3>2, <3>4
            <4> HIDE <3>2, <3>4
            <4> QED
                BY <1>2, <1>3, <4>1
        <3> QED
            BY <1>2, <1>3, <2>2, <3>1, <3>5
    <2>3. rec.off # None
        <3>1. CASE k <= n
            <4>1. k \in Nat /\ k >= 1 /\ m \in Nat
                BY <1>1, <1>2
            <4>2. rec.off = IF k - 1 <= m THEN 0 ELSE k - 1 - m
                BY <2>1, <3>1
            <4> HIDE DEF n, m, rec, r, l
            <4>3. rec.off \in Nat
                BY <4>1, <4>2
            <4> QED
                BY <1>5, <4>3
        <3>2. CASE k = n + 1
            <4>1. rec.off \in Nat
                BY <1>2, <1>3, <2>2, <3>2
            <4> QED
                BY <1>5, <4>1
        <3> QED
            BY <1>1, <1>3, <3>1, <3>2
    <2>4. l = r
        BY <2>3 DEF RunningLen
    <2>5. IsEmit(rec) <=> rec.off >= n - m
        BY <1>2, <2>3 DEF IsEmit
    <2> HIDE DEF l, r, n, m, rec
    <2>6. IsEmit(rec) <=> k = n + 1
        <3>1. CASE k <= n
            <4>1. ~(rec.off >= n - m)
                BY <1>1, <1>2, <1>3, <2>1, <3>1
            <4> QED
                BY <1>1, <1>3, <2>5, <3>1, <4>1
        <3>2. CASE k = n + 1
            BY <1>2, <1>3, <2>2, <2>5, <3>2
        <3> QED
            BY <1>1, <1>3, <3>1, <3>2
    <2>7. l = 0 \/ l + m < k + 1
        BY <1>1, <1>2, <1>3, <2>4
    <2> QED
        BY <1>8, <2>6, <2>7 DEF l, r, n, m, rec
<1>9. CASE up.style # "offset"
    <2>1. rec.off = None
        BY <1>4, <1>9 DEF OffAt
    <2>2. ~rec.signal => l = r + Shown(<<rec.piece>>)
        BY <2>1 DEF RunningLen
    <2>3. IsEmit(rec) <=> rec.signal \/ l > n - m
        BY <1>2, <2>1 DEF IsEmit
    <2>4. CASE k <= n
        <3>1. ~rec.signal
            BY <1>1, <1>3, <1>10, <2>4
        <3>2. rec.piece = Pieces[k] /\ k \in DOMAIN Pieces
            BY <1>1, <1>3, <1>4, <2>4 DEF PieceAt
        <3>3. Shown(<<rec.piece>>) = IF k <= m THEN 0 ELSE 1
            BY <1>7, <3>2, OnePiece
        <3>4. l = r + (IF k <= m THEN 0 ELSE 1)
            BY <2>2, <3>1, <3>3
        <3> HIDE DEF l, r, n, m, rec
        <3>5. ~(l > n - m)
            BY <1>1, <1>2, <1>3, <2>4, <3>4
        <3>6. ~IsEmit(rec) /\ k # n + 1
            BY <1>1, <1>3, <2>3, <2>4, <3>1, <3>5
        <3>7. l = 0 \/ l + m < k + 1
            BY <1>1, <1>2, <1>3, <2>4, <3>4
        <3>8. up.style = "bare" => l + m + 1 >= k + 1
            BY <1>1, <1>2, <1>3, <2>4, <3>4
        <3> QED
            BY <3>6, <3>7, <3>8 DEF l, r, n, m, rec
    <2>5. CASE k = n + 1
        <3>1. CASE up.style = "signal"
            <4>1. rec.signal
                BY <1>3, <1>11, <2>5, <3>1
            <4> QED
                BY <1>3, <2>3, <2>5, <4>1
        <3>2. CASE up.style = "bare"
            <4>1. ~rec.signal
                BY <1>10, <3>2
            <4>2. PieceAt(k) \notin Specials
                BY <1>1, <1>3, <2>5, PieceAtType
            <4>3. Shown(<<rec.piece>>) = 1
                BY <1>4, <4>2, OnePiece
            <4>4. l = r + 1
                BY <2>2, <4>1, <4>3
            <4> HIDE DEF l, r, n, m, rec
            <4>5. l > n - m
                BY <1>1, <1>2, <1>3, <2>5, <3>2, <4>4
            <4>6. IsEmit(rec) /\ k = n + 1 /\ ~(k <= n)
                BY <1>3, <2>3, <2>5, <4>5
            <4> QED
                BY <4>6 DEF n, rec
        <3> QED
            BY <1>6, <1>9, <3>1, <3>2
    <2> QED
        BY <1>1, <1>3, <2>4, <2>5
<1> QED
    BY <1>8, <1>9

\* Echoes and EchoEndFits.
Turning == Echoes /\ EchoEndFits

\* Whether the end of the echo can be told depends on the call and the provider
\* alone.
LEMMA TellsStay ==
    ASSUME p' = p, q' = q, http' = http, up'.style = up.style
    PROVE  EchoEndTells' <=> EchoEndTells
BY DEF EchoEndTells, Pieces

\* Each action that touches the stream keeps EchoEndFits.
LEMMA OpenedTurn == ASSUME Turning, Opened PROVE EchoEndFits'
<1>1. /\ at = "open" /\ at' = "read" /\ UNCHANGED <<p, inst, q, http, steps, rows>>
      /\ rd'.running = 0 /\ rd'.echoed = <<>> /\ rd'.emitting = FALSE
    BY DEF Opened, NewReader
<1>2. Pieces' = Pieces /\ FirstSent' = FirstSent
    BY <1>1 DEF Pieces, FirstSent
<1>3. FirstSent \in Nat \ {0} /\ FirstSent <= Len(Pieces) + 1
    <2>1. BodyFits(http.body) /\ StreamBodyFits(http.body, q)
        BY <1>1 DEF Turning, Echoes, Ordering, Shape, Control, BodyOK
    <2> QED
        BY <2>1, FirstSentType DEF BodyFits, StreamBodyFits, Pieces
<1>4. ASSUME http.body.echo, EchoEndTells', up'.style = "bare" PROVE FirstSent = 1
    BY <1>1, <1>4 DEF EchoEndTells, FirstSent
<1>5. q.prepend \in Seq(Tokens)
    BY <1>1 DEF Turning, Echoes, Ordering, Shape, Control, CallOK, Asked
<1>6. Len(q.prepend) \in Nat /\ Len(<<>>) = 0
    BY <1>5
<1>7. ASSUME http.body.echo, EchoEndTells' PROVE EchoEnds(FirstSent, Len(Pieces), Len(q.prepend), rd', up'.style)
    <2> DEFINE m == Len(q.prepend)
               n == Len(Pieces)
               f == FirstSent
               e == Len(rd'.echoed)
    <2>1. e = 0 /\ m \in Nat /\ f \in Nat \ {0} /\ f <= n + 1 /\ (up'.style = "bare" => f = 1)
        BY <1>1, <1>3, <1>4, <1>6, <1>7
    <2> HIDE DEF m, n, f, e
    <2>2. f + e <= n + 1 /\ (up'.style = "bare" => 0 + m + 1 >= f + e)
        BY <2>1
    <2> QED
        BY <1>1, <2>2 DEF EchoEnds, m, n, f, e
<1> QED
    BY <1>1, <1>2, <1>7 DEF EchoEndFits

LEMMA UntakenTurn ==
    ASSUME Turning, at = "read", at' \in {"read", "flush"}, UNCHANGED <<p, q, http>>,
           up'.style = up.style, Untaken(rd, rd')
    PROVE  EchoEndFits'
<1>1. FirstSent' = FirstSent /\ Pieces' = Pieces /\ (EchoEndTells' <=> EchoEndTells)
    BY PlacesStay, TellsStay
<1> QED
    BY <1>1 DEF Turning, EchoEndFits, EchoEnds, Untaken

LEMMA ReadEchoTurn == ASSUME Turning, ReadEcho PROVE EchoEndFits'
<1> DEFINE rec == Head(rd.recs)
           row == EchoRow(rec, rd.echoed)
<1>1. /\ at = "read" /\ at' = "read" /\ Shape /\ Ordering /\ Echoes /\ EchoEndFits /\ ~rd.emitting /\ ~IsEmit(rec)
      /\ UNCHANGED <<p, q, http, steps, up, rows>>
    BY DEF ReadEcho, Echoing, Ordering, Echoes, Turning
<1>2. /\ rd.recs # <<>> /\ rd'.emitting = rd.emitting
      /\ rd'.running = RunningLen(rec) /\ rd'.echoed = Append(rd.echoed, row)
    BY <1>1, ReadEchoReader
<1>3. FirstSent' = FirstSent /\ Pieces' = Pieces /\ (EchoEndTells' <=> EchoEndTells)
    BY <1>1, PlacesStay, TellsStay
<1>4. FirstSent \in Nat \ {0} /\ Len(rd.echoed) \in Nat /\ rd.echoed \in Seq([pos : Nat, k : Nat]) /\ Len(Pieces) \in Nat
    BY <1>1, StreamFacts
<1>5. Len(rd'.echoed) = Len(rd.echoed) + 1
    BY <1>2, <1>4
<1>6. ASSUME http.body.echo, EchoEndTells
      PROVE  EchoEnds(FirstSent, Len(Pieces), Len(q.prepend), rd', up.style)
    <2> DEFINE k == FirstSent + Len(rd.echoed)
               m == Len(q.prepend)
               n == Len(Pieces)
    <2>1. /\ k \in Nat \ {0} /\ k <= n + 1
        BY <1>1, <1>2, <1>6, EchoNow
    <2>2. /\ ~IsEmit(rec) => k # n + 1
          /\ k <= n => /\ rd'.running = 0 \/ rd'.running + m < k + 1
                       /\ up.style = "bare" => rd'.running + m + 1 >= k + 1
        BY <1>1, <1>2, <1>6, EchoTurns
    <2>3. FirstSent + Len(rd'.echoed) = k + 1
        BY <1>4, <1>5
    <2> HIDE DEF k, m, n
    <2>4. n \in Nat
        BY <1>4 DEF n
    <2>5. k <= n /\ k + 1 <= n + 1
        BY <1>1, <2>1, <2>2, <2>4
    <2> QED
        BY <1>1, <1>2, <2>2, <2>3, <2>5 DEF EchoEnds, m, n
<1> QED
    BY <1>1, <1>3, <1>6 DEF EchoEndFits

LEMMA ReadTokenTurn == ASSUME Turning, ReadToken PROVE EchoEndFits'
<1>1. /\ at = "read" /\ at' = "read" /\ Shape /\ Ordering /\ Echoes /\ EchoEndFits /\ UNCHANGED <<p, q, http, up>>
    BY TokenSteps DEF Ordering, Echoes, Turning
<1>2. /\ rd.recs # <<>> /\ rd'.emitting = TRUE /\ rd'.echoed = rd.echoed
    BY <1>1, ReadTokenReader
<1>3. FirstSent' = FirstSent /\ Pieces' = Pieces /\ (EchoEndTells' <=> EchoEndTells)
    BY <1>1, PlacesStay, TellsStay
<1>4. ASSUME http.body.echo, EchoEndTells PROVE FirstSent + Len(rd.echoed) = Len(Pieces) + 1
    <2>1. CASE rd.emitting
        BY <1>1, <1>4, <2>1 DEF EchoEndFits, EchoEnds
    <2>2. CASE ~rd.emitting
        <3>1. q.way = "combined"
            BY <1>1, <1>4, EchoCounted
        <3>2. IsEmit(Head(rd.recs))
            BY <2>2, <3>1 DEF ReadToken, Echoing
        <3> DEFINE k == FirstSent + Len(rd.echoed)
        <3>3. IsEmit(Head(rd.recs)) <=> k = Len(Pieces) + 1
            BY <1>1, <1>2, <1>4, <2>2, EchoTurns
        <3> QED
            BY <3>2, <3>3
    <2> QED
        BY <2>1, <2>2
<1> QED
    BY <1>1, <1>2, <1>3, <1>4 DEF EchoEndFits, EchoEnds

\* Every step leaves the echo where the prompt ends.
LEMMA TurningNext == ASSUME Turning, [Next]_vars PROVE Turning'
<1>0. Echoes' /\ Ordering /\ Shape
    BY EchoNext DEF Turning, Echoes, Ordering
<1>1. EchoEndFits'
    <2>1. CASE at' \notin {"read", "flush"}
        BY <2>1 DEF EchoEndFits
    <2>2. CASE at' \in {"read", "flush"} /\ Opened
        BY <2>2, OpenedTurn
    <2>3. CASE at' \in {"read", "flush"} /\ (ReadFrame \/ ReadDone)
        <3>1. /\ at = "read" /\ UNCHANGED <<p, q, http, up>>
            BY <2>3 DEF ReadFrame, ReadDone, Reading
        <3>2. Untaken(rd, rd')
            BY <1>0, <2>3, ReadFrameReader, ReadDoneReader
        <3> QED
            BY <2>3, <3>1, <3>2, UntakenTurn
    <2>4. CASE at' \in {"read", "flush"} /\ Pull
        <3>1. at = "read" /\ UNCHANGED <<p, q, http>> /\ Untaken(rd, rd')
            BY <1>0, <2>4, PullReader DEF Pull, Reading
        <3>2. up'.style = up.style
            BY <1>0, <2>4, Pulled DEF Emits
        <3> QED
            BY <2>4, <3>1, <3>2, UntakenTurn
    <2>5. CASE at' \in {"read", "flush"} /\ EndOfBody
        <3>1. at = "read" /\ UNCHANGED <<p, q, http, up, rd>> /\ Untaken(rd, rd')
            BY <2>5 DEF EndOfBody, Reading, Untaken, Kept
        <3> QED
            BY <2>5, <3>1, UntakenTurn
    <2>6. CASE at' \in {"read", "flush"} /\ ReadEcho
        BY <2>6, ReadEchoTurn
    <2>7. CASE at' \in {"read", "flush"} /\ ReadToken
        BY <2>7, ReadTokenTurn
    <2>8. CASE UNCHANGED vars
        <3>1. UNCHANGED <<at, p, q, http, up, rd>>
            BY <2>8 DEF vars
        <3>2. FirstSent' = FirstSent /\ Pieces' = Pieces /\ (EchoEndTells' <=> EchoEndTells)
            BY <3>1, PlacesStay, TellsStay
        <3> QED
            BY <3>1, <3>2 DEF Turning, EchoEndFits
    <2>9. ASSUME at' \in {"read", "flush"}
          PROVE  ~(Ask \/ Refuse \/ Busy \/ Fail \/ Scored \/ NextToken \/ NoCandidates \/ Cut \/ Flush
                   \/ Leave \/ Forget \/ Restart)
        BY <2>9, StaysOut
    <2> QED
        BY <2>1, <2>2, <2>3, <2>4, <2>5, <2>6, <2>7, <2>8, <2>9 DEF Next
<1> QED
    BY <1>0, <1>1 DEF Turning

\* Joining the frames that are done, and those that have a finish_reason.
LEMMA JoinsOf ==
    ASSUME NEW f, NEW T, Maps(f, Frames, T)
    PROVE  /\ Join(f, <<>>) = <<>>
           /\ \A w \in Seq(Frames) : Join(f, w) \in Seq(T)
           /\ \A w \in Seq(Frames), x \in Frames : Join(f, Append(w, x)) = Join(f, w) \o f[x]
           /\ \A w \in Seq(Frames) : w # <<>> => Join(f, w) = f[Head(w)] \o Join(f, Tail(w))
BY JoinEmpty, JoinType, JoinAppend, JoinHead

\* How the finish reasons change with the frames.
LEMMA FinishesOf ==
    /\ Finishes(<<>>) = <<>>
    /\ \A w \in Seq(Frames) : Finishes(w) \in Seq(Reasons)
    /\ \A w \in Seq(Frames), f \in Frames : Finishes(Append(w, f)) =
          IF f.finish = None THEN Finishes(w) ELSE Append(Finishes(w), f.finish)
    /\ \A w \in Seq(Frames) : w # <<>> => Finishes(w) =
          IF Head(w).finish = None THEN Finishes(Tail(w)) ELSE <<Head(w).finish>> \o Finishes(Tail(w))
<1> DEFINE f == FinishOf
<1>1. Maps(f, Frames, Reasons) /\ \A x \in Frames : f[x] = IF x.finish = None THEN <<>> ELSE <<x.finish>>
    BY FrameMaps DEF FinishOf
<1>2. \A w \in Seq(Frames) : Finishes(w) = Join(f, w)
    BY DEF Finishes
<1>3. Finishes(<<>>) = <<>>
    BY JoinEmpty DEF Finishes
<1> HIDE DEF f
<1>4. /\ \A w \in Seq(Frames) : Join(f, w) \in Seq(Reasons)
      /\ \A w \in Seq(Frames), x \in Frames : Join(f, Append(w, x)) = Join(f, w) \o f[x]
      /\ \A w \in Seq(Frames) : w # <<>> => Join(f, w) = f[Head(w)] \o Join(f, Tail(w))
    BY <1>1, JoinsOf
<1>5. \A w \in Seq(Frames) : Finishes(w) \in Seq(Reasons)
    BY <1>2, <1>4
<1>6. ASSUME NEW w \in Seq(Frames), NEW x \in Frames
      PROVE  Finishes(Append(w, x)) = IF x.finish = None THEN Finishes(w) ELSE Append(Finishes(w), x.finish)
    <2> DEFINE v == Append(w, x)
    <2>1. v \in Seq(Frames)
        OBVIOUS
    <2>2. Join(f, v) = Join(f, w) \o f[x]
        BY <1>4
    <2> HIDE DEF v
    <2>3. Finishes(v) = Finishes(w) \o f[x]
        BY <1>2, <2>1, <2>2
    <2>4. Finishes(w) \in Seq(Reasons) /\ (x.finish # None => x.finish \in Reasons)
        BY <1>5 DEF Frames
    <2>5. CASE x.finish = None
        <3>1. Finishes(v) = Finishes(w) \o <<>>
            BY <1>1, <2>3, <2>5
        <3>2. Finishes(w) \o <<>> = Finishes(w)
            BY <2>4
        <3> QED
            BY <2>5, <3>1, <3>2 DEF v
    <2>6. CASE x.finish # None
        <3>1. Finishes(v) = Finishes(w) \o <<x.finish>>
            BY <1>1, <2>3, <2>6
        <3> QED
            BY <2>4, <2>6, <3>1 DEF v
    <2> QED
        BY <2>5, <2>6
<1>7. ASSUME NEW w \in Seq(Frames), w # <<>>
      PROVE  Finishes(w) = IF Head(w).finish = None THEN Finishes(Tail(w))
                           ELSE <<Head(w).finish>> \o Finishes(Tail(w))
    <2> DEFINE x == Head(w)
               v == Tail(w)
    <2>1. x \in Frames /\ v \in Seq(Frames)
        BY <1>7
    <2>2. Join(f, w) = f[x] \o Join(f, v)
        BY <1>4, <1>7
    <2> HIDE DEF x, v
    <2>3. Finishes(w) = f[x] \o Finishes(v) /\ Finishes(v) \in Seq(Reasons)
        BY <1>2, <1>5, <2>1, <2>2
    <2>4. CASE x.finish = None
        <3>1. Finishes(w) = <<>> \o Finishes(v)
            BY <1>1, <2>1, <2>3, <2>4
        <3>2. <<>> \o Finishes(v) = Finishes(v)
            BY <2>3
        <3> QED
            BY <2>4, <3>1, <3>2 DEF x, v
    <2>5. CASE x.finish # None
        BY <1>1, <2>1, <2>3, <2>5 DEF x, v
    <2> QED
        BY <2>4, <2>5
<1> QED
    BY <1>3, <1>5, <1>6, <1>7

\* A provider gives its finish_reason once.
LEMMA FinishMore ==
    ASSUME ~p.host, NEW u \in Uppers, NEW w \in Seq(Frames), NEW b \in Seq(Frames), NEW finish,
           Closes(u, b), FinishTold(u, w, b, finish), NEW f, NEW v, Emits(u, f, v)
    PROVE  FinishTold(v, Append(w, f), Append(b, f), finish)
<1> DEFINE w1 == Append(w, f)
           b1 == Append(b, f)
<1>1. /\ f \in Frames /\ ProviderEmits(u, f, v)
    BY DEF Emits
<1>2. /\ Finishes(w) \in Seq(Reasons) /\ Finishes(b) \in Seq(Reasons)
      /\ Finishes(w1) = IF f.finish = None THEN Finishes(w) ELSE Append(Finishes(w), f.finish)
      /\ Finishes(b1) = IF f.finish = None THEN Finishes(b) ELSE Append(Finishes(b), f.finish)
    BY <1>1, FinishesOf
<1> HIDE DEF w1, b1
<1>3. CASE f.finish = None
    <2>1. v.reason = u.reason
        BY <1>1, <1>3 DEF ProviderEmits
    <2>2. Finishes(w1) = Finishes(w) /\ Finishes(b1) = Finishes(b)
        BY <1>2, <1>3
    <2>3. FinishTold(v, w1, b1, finish)
        BY <2>1, <2>2 DEF FinishTold
    <2> QED
        BY <2>3 DEF w1, b1
<1>4. CASE f.finish # None
    <2>1. u.phase = "more" /\ v.reason = f.finish
        BY <1>1, <1>4 DEF ProviderEmits
    <2>2. u.reason = None
        BY <2>1 DEF Closes
    <2>3. Finishes(w) = <<>> /\ Finishes(b) = <<>>
        BY <2>2 DEF FinishTold
    <2>4. Finishes(w1) = <<f.finish>> /\ Finishes(b1) = <<f.finish>>
        BY <1>2, <1>4, <2>3
    <2>5. <<f.finish>> # <<>>
        OBVIOUS
    <2>6. FinishTold(v, w1, b1, finish)
        BY <1>4, <2>1, <2>4, <2>5 DEF FinishTold
    <2> QED
        BY <2>6 DEF w1, b1
<1> QED
    BY <1>3, <1>4

\* A position before k0.
Behind(k, k0) == k \in 0 .. k0 - 1

\* What was sent so far comes before position k0.
Before(k0, b, recs, ss) ==
    /\ \A j \in DOMAIN b : b[j].recs # <<>> => Behind(b[j].recs[1].k, k0)
    /\ recs # <<>> => Behind(recs[1].k, k0)
    /\ \A j \in DOMAIN ss : Behind(ss[j].k, k0)

\* All positions in the reader and in the steps come before the next one to be
\* sent.
LEMMA BeforeNow ==
    ASSUME Ordering, at = "read"
    PROVE  Before(FirstSent + up.sent, rd.buf, rd.recs, steps)
<1> DEFINE P == Places
           f == FirstSent
           sent == up.sent
           b == rd.buf
           recs == rd.recs
           t == Taken(rd, steps)
           g == Fetched(b)
           e == Len(rd.echoed)
<1>1. /\ f \in Nat /\ sent \in Nat /\ t \in Nat /\ b \in Seq(Frames) /\ recs \in Seq(Positions(Nat))
      /\ g \in Seq(Positions(Nat)) /\ e \in Nat /\ steps \in Seq(Steps) /\ rd.held \in Seq(Positions(Nat))
    BY StreamFacts, FetchedOf DEF Ordering
<1>2. sent = t + Len(recs) + Len(g) /\ FromTo(P, f + t, recs \o g) /\ TakenInOrder(P, f, rd, steps)
    BY DEF Ordering, Order, SentInOrder
<1>3. t = e + Len(steps) + Len(rd.held)
    BY DEF Taken
<1>4. \A k \in Nat : P[k].k = k
    BY PlaceFields
<1>5. \A j \in DOMAIN steps : Behind(steps[j].k, f + sent)
    <2> SUFFICES ASSUME NEW j \in DOMAIN steps PROVE Behind(steps[j].k, f + sent)
        OBVIOUS
    <2>1. steps[j].k = f + e + j - 1
        BY <1>2 DEF TakenInOrder
    <2> DEFINE a == Len(steps)
               c == Len(rd.held)
               d == Len(recs)
               x == Len(g)
    <2>2. j \in Nat /\ j <= a /\ a \in Nat /\ c \in Nat /\ d \in Nat /\ x \in Nat
        BY <1>1
    <2>3. sent = t + d + x /\ t = e + a + c
        BY <1>2, <1>3
    <2>4. f \in Nat /\ e \in Nat /\ j \in Nat \ {0}
        BY <1>1
    <2> HIDE DEF a, c, d, x, e, t, f, sent
    <2>5. Behind(f + e + j - 1, f + sent)
        BY <2>2, <2>3, <2>4 DEF Behind
    <2> QED
        BY <2>1, <2>5
<1>6. ASSUME recs # <<>> PROVE Behind(recs[1].k, f + sent)
    <2> DEFINE d == Len(recs)
               x == Len(g)
    <2>1. d \in Nat \ {0} /\ x \in Nat /\ (recs \o g)[1] = recs[1] /\ 1 \in DOMAIN (recs \o g)
        <3> HIDE DEF recs, g
        <3> QED
            BY <1>1, <1>6
    <2>2. recs[1] = P[f + t + 1 - 1]
        BY <1>2, <2>1 DEF FromTo
    <2>3. sent = t + d + x
        BY <1>2
    <2> HIDE DEF P, f, sent, t, recs, g, d, x
    <2>4. f + t + 1 - 1 = f + t /\ f + t \in Nat /\ Behind(f + t, f + sent)
        BY <1>1, <2>1, <2>3 DEF Behind
    <2> QED
        BY <1>4, <2>2, <2>4
<1>7. ASSUME NEW j \in DOMAIN b, b[j].recs # <<>> PROVE Behind(b[j].recs[1].k, f + sent)
    <2> DEFINE y == b[j].recs[1]
               d == Len(recs)
               x == Len(g)
    <2>1. b[j] \in Frames /\ b[j].recs \in Seq(Positions(Nat)) /\ b[j] \in ToSet(b)
        <3>1. b[j] \in Frames /\ b[j] \in ToSet(b)
            BY <1>1, <1>7 DEF ToSet
        <3> QED
            BY <3>1 DEF Frames
    <2>2. y \in ToSet(RecsOf[b[j]])
        <3>1. y \in ToSet(b[j].recs)
            BY <1>7, <2>1 DEF ToSet
        <3> QED
            BY <2>1, <3>1 DEF RecsOf
    <2>3. ToSet(Join(RecsOf, b)) = UNION {ToSet(RecsOf[z]) : z \in ToSet(b)}
        BY <1>1, FrameMaps, JoinElements
    <2>4. y \in ToSet(g)
        BY <2>1, <2>2, <2>3 DEF Fetched
    <2>5. PICK i \in DOMAIN g : y = g[i]
        BY <2>4 DEF ToSet
    <2>6. d \in Nat /\ x \in Nat /\ i \in 1 .. x /\ d + i \in DOMAIN (recs \o g) /\ (recs \o g)[d + i] = g[i]
        <3> HIDE DEF recs, g
        <3> QED
            BY <1>1, <2>5
    <2>7. y = P[f + t + (d + i) - 1]
        BY <1>2, <2>5, <2>6 DEF FromTo
    <2>8. sent = t + d + x
        BY <1>2
    <2>11. i \in Nat /\ 1 <= i /\ i <= x /\ d \in Nat /\ x \in Nat
        BY <2>6
    <2>12. f \in Nat /\ t \in Nat
        BY <1>1
    <2> HIDE DEF P, f, sent, t, recs, g, d, x, y, b
    <2>9. f + t + (d + i) - 1 \in Nat /\ Behind(f + t + (d + i) - 1, f + sent)
        BY <2>8, <2>11, <2>12 DEF Behind
    <2>10. Behind(y.k, f + sent)
        BY <1>4, <2>7, <2>9
    <2> QED
        BY <2>10 DEF y
<1> QED
    BY <1>5, <1>6, <1>7 DEF Before

\* A GPU host gives the reason with the last step and again when it is done.
LEMMA HostMore ==
    ASSUME p.host, FirstSent \in Nat, NEW u \in Uppers, NEW w \in Seq(Frames), NEW b \in Seq(Frames),
           NEW recs, NEW finish, NEW ss,
           Closes(u, b), HostTold(u, FirstSent, w, b, recs, finish, ss),
           Before(FirstSent + u.sent, b, recs, ss), NEW f, NEW v, Emits(u, f, v)
    PROVE  /\ HostTold(v, FirstSent, Append(w, f), Append(b, f), recs, finish, ss)
           /\ Before(FirstSent + v.sent, Append(b, f), recs, ss)
<1> DEFINE w1 == Append(w, f)
           b1 == Append(b, f)
           k0 == FirstSent
<1>1. /\ f \in Frames /\ v \in Uppers /\ u.phase # "ended" /\ FrameOK(f) /\ HostEmits(u, f, v)
      /\ \/ f.recs = <<>> /\ v.sent = u.sent
         \/ u.phase = "more" /\ f.recs = <<Position(k0 + u.sent)>> /\ v.sent = u.sent + 1
    BY DEF Emits
<1>2. /\ DOMAIN b1 = 1 .. Len(b) + 1 /\ b1[Len(b) + 1] = f
      /\ \A j \in 1 .. Len(b) : b1[j] = b[j]
      /\ DOMAIN b = 1 .. Len(b) /\ Len(b) \in Nat
    BY <1>1
<1>3. \A j \in DOMAIN b : ~IsDone(b[j])
    BY <1>1 DEF Closes
<1>4. Join(DoneOf, w1) = Join(DoneOf, b1)
    <2> DEFINE g == DoneOf
    <2>1. Maps(g, Frames, Frames)
        BY FrameMaps
    <2>2. Join(g, w) = Join(g, b)
        BY DEF HostTold
    <2> HIDE DEF g
    <2>3. Join(g, w1) = Join(g, w) \o g[f] /\ Join(g, b1) = Join(g, b) \o g[f]
        BY <1>1, <2>1, JoinsOf
    <2> HIDE DEF w1, b1
    <2>4. Join(g, w1) = Join(g, b1)
        BY <2>2, <2>3
    <2> QED
        BY <2>4 DEF g
<1>5. u.sent \in Nat /\ v.sent \in Nat
    BY <1>1 DEF Uppers
<1>6. ASSUME NEW k, Behind(k, k0 + u.sent)
      PROVE  Why(v, k0, k) = Why(u, k0, k) /\ Behind(k, k0 + v.sent)
    <2>1. CASE f.recs = <<>> /\ v.sent = u.sent
        <3>1. v.reason = u.reason
            BY <1>1, <2>1 DEF HostEmits
        <3> QED
            BY <1>6, <2>1, <3>1 DEF Why
    <2>2. CASE u.phase = "more" /\ v.sent = u.sent + 1
        <3>1. u.reason = None
            BY <2>2 DEF Closes
        <3>2. k # k0 + v.sent - 1
            BY <1>5, <1>6, <2>2 DEF Behind
        <3>3. Behind(k, k0 + v.sent)
            BY <1>5, <1>6, <2>2 DEF Behind
        <3> QED
            BY <3>1, <3>2, <3>3 DEF Why
    <2> QED
        BY <1>1, <2>1, <2>2
<1>7. f.event = "done" => f.finish = v.reason
    BY <1>1 DEF HostEmits
<1>8. ASSUME f.recs # <<>>
      PROVE  f.finish = Why(v, k0, f.recs[1].k) /\ Behind(f.recs[1].k, k0 + v.sent)
    <2>1. f.recs = <<Position(k0 + u.sent)>> /\ v.sent = u.sent + 1 /\ v.reason = f.finish
        BY <1>1, <1>8 DEF HostEmits
    <2>2. f.recs[1].k = k0 + u.sent
        <3>1. f.recs[1] = Position(k0 + u.sent)
            BY <2>1
        <3> QED
            BY <3>1, PositionFields
    <2>3. k0 + u.sent = k0 + v.sent - 1 /\ Behind(k0 + u.sent, k0 + v.sent)
        BY <1>5, <2>1 DEF Behind
    <2> HIDE DEF k0
    <2> QED
        BY <2>1, <2>2, <2>3 DEF Why
<1> HIDE DEF w1, b1, k0
<1>9. /\ \A j \in DOMAIN b : b[j].recs # <<>> => b[j].finish = Why(u, k0, b[j].recs[1].k) /\ Behind(b[j].recs[1].k, k0 + u.sent)
      /\ recs # <<>> => finish = Why(u, k0, recs[1].k) /\ Behind(recs[1].k, k0 + u.sent)
      /\ \A j \in DOMAIN ss : ss[j].reason = Why(u, k0, ss[j].k) /\ Behind(ss[j].k, k0 + u.sent)
    BY DEF HostTold, Before, k0
<1>10. ASSUME NEW j \in DOMAIN b1
       PROVE  /\ b1[j].event = "done" => b1[j].finish = v.reason
              /\ b1[j].recs # <<>> => b1[j].finish = Why(v, k0, b1[j].recs[1].k) /\ Behind(b1[j].recs[1].k, k0 + v.sent)
    <2>1. CASE j \in DOMAIN b
        <3>1. b1[j] = b[j] /\ b[j].event # "done"
            BY <1>2, <1>3, <2>1 DEF IsDone
        <3> QED
            BY <1>6, <1>9, <2>1, <3>1
    <2>2. CASE j = Len(b) + 1
        BY <1>2, <1>7, <1>8, <2>2
    <2> QED
        BY <1>2, <2>1, <2>2
<1>11. recs # <<>> => finish = Why(v, k0, recs[1].k) /\ Behind(recs[1].k, k0 + v.sent)
    BY <1>6, <1>9
<1>12. \A j \in DOMAIN ss : ss[j].reason = Why(v, k0, ss[j].k) /\ Behind(ss[j].k, k0 + v.sent)
    BY <1>6, <1>9
<1> QED
    BY <1>4, <1>10, <1>11, <1>12 DEF HostTold, Before, w1, b1, k0

\* Ordering and Ends.
Telling == Ordering /\ Ends

\* What Ends says while a stream is read, as an operator of the stream.
StreamTold(u, w, b, recs, finish, ss) ==
    /\ Closes(u, b)
    /\ p.host => /\ HostTold(u, FirstSent, w, b, recs, finish, ss)
                 /\ Before(FirstSent + u.sent, b, recs, ss)
    /\ ~p.host => FinishTold(u, w, b, finish)

\* A frame more keeps it.
LEMMA StreamToldMore ==
    ASSUME FirstSent \in Nat, NEW u \in Uppers, NEW w \in Seq(Frames), NEW b \in Seq(Frames),
           NEW recs, NEW finish, NEW ss, StreamTold(u, w, b, recs, finish, ss),
           NEW f, NEW v, Emits(u, f, v)
    PROVE  StreamTold(v, Append(w, f), Append(b, f), recs, finish, ss)
<1>1. Closes(u, b) /\ Closes(v, Append(b, f))
    BY ClosesMore DEF StreamTold
<1>2. CASE p.host
    <2>1. HostTold(u, FirstSent, w, b, recs, finish, ss) /\ Before(FirstSent + u.sent, b, recs, ss)
        BY <1>2 DEF StreamTold
    <2>2. /\ HostTold(v, FirstSent, Append(w, f), Append(b, f), recs, finish, ss)
          /\ Before(FirstSent + v.sent, Append(b, f), recs, ss)
        BY <1>1, <1>2, <2>1, HostMore
    <2> QED
        BY <1>1, <1>2, <2>2 DEF StreamTold
<1>3. CASE ~p.host
    <2>1. FinishTold(u, w, b, finish)
        BY <1>3 DEF StreamTold
    <2>2. FinishTold(v, Append(w, f), Append(b, f), finish)
        BY <1>1, <1>3, <2>1, FinishMore
    <2> QED
        BY <1>1, <1>3, <2>2 DEF StreamTold
<1> QED
    BY <1>2, <1>3

LEMMA StreamToldNow ==
    ASSUME Telling, at = "read"
    PROVE  StreamTold(up, wire, rd.buf, rd.recs, rd.finish, steps)
<1>1. Before(FirstSent + up.sent, rd.buf, rd.recs, steps)
    BY BeforeNow DEF Telling
<1> QED
    BY <1>1 DEF Telling, Ends, StreamTold

LEMMA PullEnds == ASSUME Telling, Pull PROVE Ends'
<1> DEFINE b0 == rd.buf
           recs == rd.recs
           finish == rd.finish
<1>1. /\ at = "read" /\ at' = "read" /\ b0 = <<>> /\ Shape /\ Ordering
      /\ UNCHANGED <<p, http, steps>> /\ rd'.recs = recs /\ rd'.finish = finish
    BY PullReader DEF Pull, Reading, Ordering, Telling
<1>2. /\ FirstSent \in Nat /\ up \in Uppers /\ wire \in Seq(Frames) /\ b0 \in Seq(Frames) /\ rd \in Readers
    BY <1>1, StreamFacts
<1>3. StreamTold(up, wire, b0, recs, finish, steps)
    BY <1>1, StreamToldNow
<1>4. ASSUME NEW u \in Uppers, NEW w \in Seq(Frames), NEW b \in Seq(Frames), NEW fr, NEW v,
             StreamTold(u, w, b, recs, finish, steps), Emits(u, fr, v)
      PROVE  /\ StreamTold(v, Append(w, fr), Append(b, fr), recs, finish, steps)
             /\ fr \in Frames /\ v \in Uppers
             /\ Append(w, fr) \in Seq(Frames) /\ Append(b, fr) \in Seq(Frames)
    <2>1. fr \in Frames /\ v \in Uppers
        BY <1>4 DEF Emits
    <2> HIDE DEF recs, finish
    <2>2. StreamTold(v, Append(w, fr), Append(b, fr), recs, finish, steps)
        BY <1>2, <1>4, StreamToldMore
    <2> QED
        BY <2>1, <2>2
<1>5. StreamTold(up', wire', rd'.buf, recs, finish, steps)
    <2>1. CASE \E fr \in Frames : Emits(up, fr, up') /\ wire' = Append(wire, fr) /\ rd' = [rd EXCEPT !.buf = <<fr>>]
        <3>1. PICK fr \in Frames : Emits(up, fr, up') /\ wire' = Append(wire, fr) /\ rd' = [rd EXCEPT !.buf = <<fr>>]
            BY <2>1
        <3>2. rd'.buf = <<fr>> /\ <<fr>> = Append(b0, fr)
            <4>1. <<fr>> = Append(<<>>, fr)
                OBVIOUS
            <4>2. rd'.buf = <<fr>>
                BY <1>2, <3>1 DEF Readers
            <4> QED
                BY <1>1, <4>1, <4>2
        <3> HIDE DEF recs, b0, finish
        <3>3. StreamTold(up', Append(wire, fr), Append(b0, fr), recs, finish, steps)
            BY <1>2, <1>3, <1>4, <3>1
        <3> QED
            BY <3>1, <3>2, <3>3
    <2>2. CASE \E fr, g \in Frames, u \in Uppers :
                 /\ Emits(up, fr, u) /\ Emits(u, g, up')
                 /\ wire' = wire \o <<fr, g>> /\ rd' = [rd EXCEPT !.buf = <<fr, g>>]
        <3>1. PICK fr \in Frames, g \in Frames, u \in Uppers :
                 /\ Emits(up, fr, u) /\ Emits(u, g, up')
                 /\ wire' = wire \o <<fr, g>> /\ rd' = [rd EXCEPT !.buf = <<fr, g>>]
            BY <2>2
        <3>2. rd'.buf = <<fr, g>> /\ <<fr, g>> = Append(Append(b0, fr), g)
            <4>1. <<fr, g>> = Append(Append(<<>>, fr), g)
                OBVIOUS
            <4>2. rd'.buf = <<fr, g>>
                BY <1>2, <3>1 DEF Readers
            <4> QED
                BY <1>1, <4>1, <4>2
        <3>3. wire' = Append(Append(wire, fr), g)
            BY <1>2, <3>1
        <3> HIDE DEF recs, b0, finish
        <3>4. /\ StreamTold(u, Append(wire, fr), Append(b0, fr), recs, finish, steps)
              /\ Append(wire, fr) \in Seq(Frames) /\ Append(b0, fr) \in Seq(Frames)
            BY <1>2, <1>3, <1>4, <3>1
        <3>5. StreamTold(up', Append(Append(wire, fr), g), Append(Append(b0, fr), g), recs, finish, steps)
            BY <1>4, <3>1, <3>4
        <3> QED
            BY <3>2, <3>3, <3>5
    <2> QED
        BY <1>1, <2>1, <2>2, Pulled
<1>6. FirstSent' = FirstSent
    BY <1>1 DEF FirstSent, Pieces
<1>7. ~p.host => /\ \A j \in DOMAIN steps : steps[j].reason = None
                 /\ steps # <<>> => rd'.held # <<>>
    BY <1>1, PullReader DEF Telling, Ends, Untaken
<1> QED
    BY <1>1, <1>5, <1>6, <1>7 DEF Ends, StreamTold

\* Each action that touches the stream keeps Ends.
LEMMA OpenedEnds == ASSUME Telling, Opened PROVE Ends'
<1>1. /\ at = "open" /\ at' = "read" /\ wire' = <<>> /\ steps' = <<>>
      /\ rd'.buf = <<>> /\ rd'.recs = <<>> /\ rd'.finish = None
    BY DEF Opened, NewReader, Telling, Ordering, Shape, Control, Resting
<1>2. up'.reason = None
    BY DEF Opened, NoUp
<1>3. DOMAIN <<>> = {} /\ Join(DoneOf, <<>>) = Join(DoneOf, <<>>)
    OBVIOUS
<1>4. Closes(up', rd'.buf)
    BY <1>1, <1>2, <1>3 DEF Closes
<1>5. HostTold(up', FirstSent', wire', rd'.buf, rd'.recs, rd'.finish, steps')
    BY <1>1, <1>2, <1>3 DEF HostTold
<1>6. FinishTold(up', wire', rd'.buf, rd'.finish)
    BY <1>1, <1>2, FinishesOf DEF FinishTold
<1>7. \A j \in DOMAIN steps' : steps'[j].reason = None
    BY <1>1, <1>3
<1> QED
    BY <1>1, <1>4, <1>5, <1>6, <1>7 DEF Ends

\* A frame that is read is a frame of the provider, or of the host.
LEMMA HeadFits ==
    ASSUME Shape, rd.buf # <<>>
    PROVE  /\ rd.buf \in Seq(Frames) /\ Head(rd.buf) \in Frames /\ FrameOK(Head(rd.buf))
           /\ Head(rd.buf) = rd.buf[1] /\ 1 \in DOMAIN rd.buf /\ wire \in Seq(Frames)
<1>1. rd.buf \in Seq(Frames) /\ wire \in Seq(Frames)
    BY DEF Shape, Control, Types, Readers
<1>2. Head(rd.buf) \in Frames /\ Head(rd.buf) = rd.buf[1] /\ 1 \in DOMAIN rd.buf
    BY <1>1, TailOf
<1> QED
    BY <1>1, <1>2 DEF Shape, FramesFit

LEMMA ReadFrameEnds == ASSUME Telling, ReadFrame PROVE Ends'
<1> DEFINE b == rd.buf
           f == Head(b)
           t == Tail(b)
<1>1. /\ at = "read" /\ at' = "read" /\ Shape /\ Ordering /\ Ends
      /\ UNCHANGED <<p, http, up, wire, steps>> /\ f.event # "done"
    BY DEF ReadFrame, Reading, Telling, Ordering
<1>2. /\ b # <<>> /\ rd'.buf = t /\ rd'.recs = f.recs
      /\ rd'.finish = IF f.finish = None /\ ~p.host THEN rd.finish ELSE f.finish
    BY <1>1, ReadFrameReader
<1>3. /\ b \in Seq(Frames) /\ f \in Frames /\ f = b[1] /\ 1 \in DOMAIN b /\ wire \in Seq(Frames)
      /\ t \in Seq(Frames)
      /\ \A j \in DOMAIN t : j + 1 \in DOMAIN b /\ t[j] = b[j + 1] /\ j \in Nat
    BY <1>1, <1>2, HeadFits, TailOf
<1>4. FirstSent' = FirstSent
    BY <1>1 DEF FirstSent, Pieces
<1>5. Closes(up, t)
    BY <1>1, <1>2, <1>3, TailOf DEF Ends
<1>6. ASSUME p.host
      PROVE  HostTold(up, FirstSent, wire, t, f.recs, rd'.finish, steps)
    <2>1. HostTold(up, FirstSent, wire, b, rd.recs, rd.finish, steps) /\ rd'.finish = f.finish
        BY <1>1, <1>2, <1>6 DEF Ends
    <2> DEFINE g == DoneOf
    <2>2. Maps(g, Frames, Frames) /\ g[f] = <<>>
        BY <1>1, <1>3, FrameMaps DEF DoneOf
    <2> HIDE DEF g, b, f, t
    <2>3. Join(g, b) = g[f] \o Join(g, t) /\ Join(g, t) \in Seq(Frames)
        <3>1. Join(g, b) = g[Head(b)] \o Join(g, Tail(b)) /\ Join(g, t) \in Seq(Frames)
            BY <1>2, <1>3, <2>2, JoinsOf
        <3> QED
            BY <3>1 DEF f, t
    <2>4. <<>> \o Join(g, t) = Join(g, t)
        BY <2>3
    <2>5. Join(DoneOf, wire) = Join(DoneOf, t)
        <3>1. Join(DoneOf, wire) = Join(DoneOf, b)
            BY <2>1 DEF HostTold
        <3> QED
            BY <2>2, <2>3, <2>4, <3>1 DEF g
    <2>6. \A j \in DOMAIN t : /\ t[j].event = "done" => t[j].finish = up.reason
                              /\ t[j].recs # <<>> => t[j].finish = Why(up, FirstSent, t[j].recs[1].k)
        BY <1>3, <2>1 DEF HostTold
    <2>7. f.recs # <<>> => rd'.finish = Why(up, FirstSent, f.recs[1].k)
        BY <1>3, <2>1 DEF HostTold
    <2> QED
        BY <2>1, <2>5, <2>6, <2>7 DEF HostTold
<1>7. ASSUME ~p.host
      PROVE  FinishTold(up, wire, t, rd'.finish)
    <2>1. FinishTold(up, wire, b, rd.finish)
        BY <1>1, <1>7 DEF Ends
    <2>2. /\ Finishes(t) \in Seq(Reasons)
          /\ Finishes(b) = IF f.finish = None THEN Finishes(t) ELSE <<f.finish>> \o Finishes(t)
        BY <1>2, <1>3, FinishesOf
    <2> HIDE DEF b, f, t
    <2>3. CASE f.finish = None
        <3>1. Finishes(b) = Finishes(t) /\ rd'.finish = rd.finish
            BY <1>2, <1>7, <2>2, <2>3
        <3> QED
            BY <2>1, <3>1 DEF FinishTold
    <2>4. CASE f.finish # None
        <3>1. Finishes(b) = <<f.finish>> \o Finishes(t) /\ rd'.finish = f.finish
            BY <1>2, <2>2, <2>4
        <3>2. Len(<<f.finish>> \o Finishes(t)) = 1 + Len(Finishes(t)) /\ (<<f.finish>> \o Finishes(t))[1] = f.finish
            BY <2>2
        <3>3. Len(<<>>) = 0 /\ Len(Finishes(t)) \in Nat
            BY <2>2
        <3>4. Finishes(b) # <<>> /\ Finishes(b)[1] = f.finish /\ Len(Finishes(b)) = 1 + Len(Finishes(t))
            BY <3>1, <3>2, <3>3
        <3>5. Finishes(b) = <<up.reason>>
            BY <2>1, <3>4 DEF FinishTold
        <3>6. Len(<<up.reason>>) = 1 /\ <<up.reason>>[1] = up.reason
            OBVIOUS
        <3>7. f.finish = up.reason /\ Len(Finishes(t)) = 0
            BY <3>3, <3>4, <3>5, <3>6
        <3>8. Finishes(t) = <<>>
            BY <2>2, <3>7
        <3> QED
            BY <2>1, <3>1, <3>7, <3>8 DEF FinishTold
    <2> QED
        BY <2>3, <2>4
<1>8. ~p.host => /\ \A j \in DOMAIN steps : steps[j].reason = None
                 /\ steps # <<>> => rd'.held # <<>>
    BY <1>1, ReadFrameReader DEF Ends, Untaken
<1> HIDE DEF b, f, t
<1> QED
    BY <1>1, <1>2, <1>4, <1>5, <1>6, <1>7, <1>8 DEF Ends

\* At the end, by whatever way, the log has the stream, and the reader its reason.
LEMMA EntersFlush ==
    ASSUME Telling, at = "read", at' = "flush", ~p.host, UNCHANGED <<p, up, wire, steps>>,
           rd'.buf = <<>>, rd'.recs = <<>>, rd'.finish = rd.finish, rd'.held = rd.held, Finishes(rd.buf) = <<>>,
           up.phase # "more", entries' = Append(entries, StreamedEntry(wire, FALSE))
    PROVE  Ends'
<1>1. /\ FinishTold(up, wire, rd.buf, rd.finish)
      /\ \A j \in DOMAIN steps : steps[j].reason = None
      /\ steps # <<>> => rd.held # <<>>
    BY DEF Telling, Ends
<1>2. rd.finish = up.reason /\ Finishes(wire) = (IF up.reason = None THEN <<>> ELSE <<up.reason>>)
    BY <1>1 DEF FinishTold
<1> DEFINE e == StreamedEntry(wire, FALSE)
<1>3. entries \in Seq(Entries)
    BY DEF Telling, Ordering, Shape, Control, Types
<1>4. e \in Entries
    <2>1. wire \in Seq(Frames)
        BY StreamFacts DEF Telling, Ordering
    <2> QED
        BY <2>1, AggregateType
<1> HIDE DEF e
<1>5. Append(entries, e) # <<>> /\ Last(Append(entries, e)) = e
    <2> DEFINE es == Append(entries, e)
    <2>1. Len(es) = Len(entries) + 1 /\ es[Len(entries) + 1] = e /\ es # <<>>
        BY <1>3
    <2> HIDE DEF es
    <2>2. es # <<>> /\ Last(es) = e
        BY <2>1 DEF Last
    <2> QED
        BY <2>2 DEF es
<1>6. entries' # <<>> /\ Last(entries') = StreamedEntry(wire', FALSE)
    BY <1>5 DEF e
<1> QED
    BY <1>1, <1>2, <1>6 DEF Ends

LEMMA ReadDoneEnds == ASSUME Telling, ReadDone PROVE Ends'
<1> DEFINE b == rd.buf
           f == Head(b)
<1>1. /\ at = "read" /\ Shape /\ Ordering /\ Ends
      /\ UNCHANGED <<p, http, up, wire, steps>>
      /\ at' = (IF p.host THEN "over" ELSE "flush")
      /\ entries' = Append(entries, StreamedEntry(wire, FALSE))
    BY DEF ReadDone, Reading, Telling, Ordering, Logged
<1>2. b # <<>> /\ rd'.buf = Tail(b) /\ rd'.recs = <<>> /\ rd'.finish = rd.finish /\ IsDone(f)
      /\ rd'.held = rd.held
    BY <1>1, ReadDoneReader DEF Untaken
<1>3. CASE p.host
    BY <1>1, <1>3 DEF Ends
<1>4. CASE ~p.host
    <2>1. b \in Seq(Frames) /\ FrameOK(f) /\ f \in Frames
        BY <1>1, <1>2, HeadFits
    <2>2. Tail(b) = <<>> /\ up.phase = "ended"
        BY <1>1, <1>2, <2>1, DoneIsLast DEF Ends
    <2>3. f.finish = None
        BY <1>2, <1>4, <2>1 DEF IsDone, FrameOK, ProviderFrame
    <2>4. Finishes(b) = <<>>
        <3>1. Finishes(b) = Finishes(Tail(b))
            BY <1>2, <2>1, <2>3, FinishesOf
        <3> QED
            BY <2>2, <3>1, FinishesOf
    <2>5. rd'.buf = <<>> /\ up.phase # "more" /\ at' = "flush"
        BY <1>1, <1>2, <1>4, <2>2
    <2> QED
        BY <1>1, <1>2, <1>4, <2>4, <2>5, EntersFlush
<1> QED
    BY <1>3, <1>4

LEMMA EndOfBodyEnds == ASSUME Telling, EndOfBody PROVE Ends'
<1>1. /\ at = "read" /\ at' = "flush" /\ ~p.host /\ UNCHANGED <<p, up, wire, steps, rd>>
      /\ rd.buf = <<>> /\ rd.recs = <<>> /\ up.phase # "more"
      /\ entries' = Append(entries, StreamedEntry(wire, FALSE))
    BY DEF EndOfBody, Reading, Logged
<1>2. Finishes(rd.buf) = <<>>
    BY <1>1, FinishesOf
<1> QED
    BY <1>1, <1>2, EntersFlush

\* A position that is taken was the only one of its frame.
LEMMA OneTaken ==
    ASSUME Ordering, at = "read", rd.recs # <<>>
    PROVE  Tail(rd.recs) = <<>> /\ Head(rd.recs) = rd.recs[1]
<1> DEFINE t == Tail(rd.recs)
<1>1. rd.recs \in Seq(Positions(Nat)) /\ Len(rd.recs) <= 1
    BY StreamFacts DEF Ordering, Order, SentInOrder
<1>2. t \in Seq(Positions(Nat)) /\ Len(t) = Len(rd.recs) - 1 /\ Len(rd.recs) \in Nat
    BY NextPosition DEF Ordering
<1> HIDE DEF t
<1>3. Len(t) \in Nat
    BY <1>2
<1>4. Len(t) = 0
    <2> DEFINE l == Len(rd.recs)
               m == Len(t)
    <2>1. l <= 1 /\ l \in Nat /\ m = l - 1 /\ m \in Nat
        BY <1>1, <1>2, <1>3
    <2> HIDE DEF l, m
    <2>2. m = 0
        BY <2>1
    <2> QED
        BY <2>2 DEF m
<1>5. t = <<>>
    BY <1>2, <1>4
<1>6. Head(rd.recs) = rd.recs[1]
    BY <1>1
<1> QED
    BY <1>5, <1>6 DEF t

LEMMA ReadEchoEnds == ASSUME Telling, ReadEcho PROVE Ends'
<1>1. /\ at = "read" /\ at' = "read" /\ Shape /\ Ordering /\ Ends
      /\ UNCHANGED <<p, http, up, wire, steps>>
    BY DEF ReadEcho, Telling, Ordering
<1>2. rd.recs # <<>> /\ rd'.buf = rd.buf /\ rd'.recs = Tail(rd.recs) /\ rd'.finish = rd.finish
      /\ rd'.held = rd.held
    BY <1>1, ReadEchoReader
<1>3. rd'.recs = <<>>
    BY <1>1, <1>2, OneTaken
<1>4. FirstSent' = FirstSent
    BY <1>1 DEF FirstSent, Pieces
<1>5. p.host => HostTold(up, FirstSent, wire, rd.buf, rd'.recs, rd.finish, steps)
    BY <1>1, <1>3 DEF Ends, HostTold
<1> QED
    BY <1>1, <1>2, <1>4, <1>5 DEF Ends

\* One more element has what the others have.
LEMMA EachAppended ==
    ASSUME NEW T, NEW s \in Seq(T), NEW x \in T
    PROVE  /\ DOMAIN Append(s, x) = 1 .. Len(s) + 1 /\ DOMAIN s = 1 .. Len(s) /\ Len(s) \in Nat
           /\ \A j \in 1 .. Len(s) : Append(s, x)[j] = s[j]
           /\ Append(s, x)[Len(s) + 1] = x
OBVIOUS

\* What StepOf does to the steps.
LEMMA StepAppended ==
    ASSUME steps \in Seq(Steps), NEW rec, NEW why, StepOf(rec, why)
    PROVE  /\ DOMAIN steps' = 1 .. Len(steps) + 1 /\ DOMAIN steps = 1 .. Len(steps) /\ Len(steps) \in Nat
           /\ \A j \in DOMAIN steps : steps'[j] = steps[j]
           /\ steps'[Len(steps) + 1].reason = why /\ steps'[Len(steps) + 1].k = rec.k
           /\ steps'[Len(steps) + 1].piece = rec.piece /\ steps'[Len(steps) + 1].pos = rd.before + Len(steps)
<1> DEFINE s == [pos |-> rd.before + Len(steps), id |-> IdOf(inst', rec),
                 piece |-> rec.piece, k |-> rec.k, reason |-> why]
<1>1. steps' = Append(steps, s) /\ steps' \in Seq(Steps) /\ Len(steps') = Len(steps) + 1
    BY DEF StepOf
<1>2. s.reason = why /\ s.k = rec.k /\ s.piece = rec.piece /\ s.pos = rd.before + Len(steps)
    OBVIOUS
<1> HIDE DEF s
<1>3. /\ DOMAIN steps' = 1 .. Len(steps) + 1 /\ DOMAIN steps = 1 .. Len(steps) /\ Len(steps) \in Nat
      /\ \A j \in DOMAIN steps : steps'[j] = steps[j]
      /\ steps'[Len(steps) + 1] = s
    BY <1>1
<1> QED
    BY <1>2, <1>3

LEMMA ReadTokenEnds == ASSUME Telling, ReadToken PROVE Ends'
<1> DEFINE rec == Head(rd.recs)
<1>1. /\ at = "read" /\ at' = "read" /\ Shape /\ Ordering /\ Ends
      /\ UNCHANGED <<p, http, up, wire>>
      /\ p.host => StepOf(rec, rd.finish)
      /\ ~p.host /\ rd.held # <<>> => StepOf(rd.held[1], None)
      /\ ~p.host /\ rd.held = <<>> => steps' = steps
    BY TokenSteps DEF Telling, Ordering
<1>2. rd.recs # <<>> /\ rd'.buf = rd.buf /\ rd'.recs = Tail(rd.recs) /\ rd'.finish = rd.finish
    BY <1>1, ReadTokenReader
<1>3. rd'.recs = <<>> /\ rec = rd.recs[1]
    BY <1>1, <1>2, OneTaken
<1>4. FirstSent' = FirstSent
    BY <1>1 DEF FirstSent, Pieces
<1>5. steps \in Seq(Steps)
    BY <1>1, StreamFacts
<1>6. ASSUME p.host PROVE HostTold(up, FirstSent, wire, rd.buf, rd'.recs, rd.finish, steps')
    <2>1. HostTold(up, FirstSent, wire, rd.buf, rd.recs, rd.finish, steps)
        BY <1>1, <1>6 DEF Ends
    <2>2. rd.finish = Why(up, FirstSent, rec.k)
        BY <1>2, <1>3, <2>1 DEF HostTold
    <2> HIDE DEF rec
    <2>3. /\ DOMAIN steps' = 1 .. Len(steps) + 1 /\ DOMAIN steps = 1 .. Len(steps) /\ Len(steps) \in Nat
          /\ \A j \in DOMAIN steps : steps'[j] = steps[j]
          /\ steps'[Len(steps) + 1].reason = rd.finish /\ steps'[Len(steps) + 1].k = rec.k
        BY <1>1, <1>5, <1>6, StepAppended
    <2>4. \A j \in DOMAIN steps : steps[j].reason = Why(up, FirstSent, steps[j].k)
        BY <2>1 DEF HostTold
    <2>5. ASSUME NEW j \in DOMAIN steps' PROVE steps'[j].reason = Why(up, FirstSent, steps'[j].k)
        <3>1. CASE j \in DOMAIN steps
            BY <2>3, <2>4, <3>1
        <3>2. CASE j = Len(steps) + 1
            BY <2>2, <2>3, <3>2
        <3> QED
            BY <2>3, <3>1, <3>2
    <2> QED
        BY <1>3, <2>1, <2>5 DEF HostTold
<1>7. ASSUME ~p.host PROVE \A j \in DOMAIN steps' : steps'[j].reason = None
    <2>1. \A j \in DOMAIN steps : steps[j].reason = None
        BY <1>1, <1>7 DEF Ends
    <2>2. CASE rd.held = <<>>
        BY <1>1, <1>7, <2>1, <2>2
    <2>3. CASE rd.held # <<>>
        <3> DEFINE x == rd.held[1]
        <3>1. StepOf(x, None)
            BY <1>1, <1>7, <2>3
        <3> HIDE DEF x
        <3>2. /\ DOMAIN steps' = 1 .. Len(steps) + 1 /\ DOMAIN steps = 1 .. Len(steps) /\ Len(steps) \in Nat
              /\ \A j \in DOMAIN steps : steps'[j] = steps[j]
              /\ steps'[Len(steps) + 1].reason = None
            BY <1>5, <3>1, StepAppended
        <3>3. ASSUME NEW j \in DOMAIN steps' PROVE steps'[j].reason = None
            <4>1. CASE j \in DOMAIN steps
                BY <2>1, <3>2, <4>1
            <4>2. CASE j = Len(steps) + 1
                BY <3>2, <4>2
            <4> QED
                BY <3>2, <4>1, <4>2
        <3> QED
            BY <3>3
    <2> QED
        BY <2>2, <2>3
<1>8. ~p.host => FinishTold(up, wire, rd.buf, rd.finish)
    BY <1>1 DEF Ends
<1>9. Closes(up, rd.buf)
    BY <1>1 DEF Ends
<1>10. ~p.host => rd'.held # <<>>
    <2>1. ~p.host => rd'.held = <<rec>>
        BY <1>1, ReadTokenReader
    <2>2. <<rec>> # <<>>
        OBVIOUS
    <2> QED
        BY <2>1, <2>2
<1> QED
    BY <1>1, <1>2, <1>4, <1>6, <1>7, <1>8, <1>9, <1>10 DEF Ends

\* Every step leaves the end of the stream told.
LEMMA TellingNext == ASSUME Telling, [Next]_vars PROVE Telling'
<1>0. Ordering'
    BY OrderNext DEF Telling
<1>1. Ends'
    <2>1. CASE at' \notin {"read", "flush"}
        BY <2>1 DEF Ends
    <2>2. CASE at' \in {"read", "flush"} /\ Opened
        BY <2>2, OpenedEnds
    <2>3. CASE at' \in {"read", "flush"} /\ ReadFrame
        BY <2>3, ReadFrameEnds
    <2>4. CASE at' \in {"read", "flush"} /\ Pull
        BY <2>4, PullEnds
    <2>5. CASE at' \in {"read", "flush"} /\ EndOfBody
        BY <2>5, EndOfBodyEnds
    <2>6. CASE at' \in {"read", "flush"} /\ ReadEcho
        BY <2>6, ReadEchoEnds
    <2>7. CASE at' \in {"read", "flush"} /\ ReadToken
        BY <2>7, ReadTokenEnds
    <2>8. CASE UNCHANGED vars
        <3>1. UNCHANGED <<at, p, http, up, rd, wire, steps, entries>>
            BY <2>8 DEF vars
        <3>2. FirstSent' = FirstSent
            BY <3>1 DEF FirstSent, Pieces
        <3> QED
            BY <3>1, <3>2 DEF Telling, Ends
    <2>9. CASE at' \in {"read", "flush"} /\ ReadDone
        BY <2>9, ReadDoneEnds
    <2>10. ASSUME at' \in {"read", "flush"}
           PROVE  ~(Ask \/ Refuse \/ Busy \/ Fail \/ Scored \/ NextToken \/ NoCandidates \/ Cut \/ Flush
                    \/ Leave \/ Forget \/ Restart)
        BY <2>10, StaysOut
    <2> QED
        BY <2>1, <2>2, <2>3, <2>4, <2>5, <2>6, <2>7, <2>8, <2>9, <2>10 DEF Next
<1> QED
    BY <1>0, <1>1 DEF Telling

-----------------------------------------------------------------------------
(***************************************************************************)
(* The order of the stream.                                                *)
(***************************************************************************)
\* What StreamIsInOrder says, of a response that starts at position f after a
\* prompt of n tokens; over is that it was read to its end.
InOrder(n, f, echo, sent, tell, ech, rws, ss, real, over) ==
    /\ \A j \in DOMAIN ech : ech[j].k = f + j - 1
    /\ echo /\ (ss # <<>> \/ over) => Len(rws) = n - f + 1
    /\ \A j \in DOMAIN ss :
            /\ ss[j].k = n + j
            /\ real => ss[j].pos = n + j - 1
            /\ j < Len(ss) => ss[j].reason = None
    /\ over => /\ Len(ss) = sent - (n + 1 - f)
               /\ ss # <<>> => Last(ss).reason = tell

\* The reason that the last step has to have.
Tell(reason) == IF p.host THEN reason ELSE FinishReasonToStop(reason)
\* The prompt has real ids, and the echo ends where they end.
EndIsReal == Ready(inst) /\ q.prepend = <<>>
\* The call is over and nothing failed.
EndedWell == at = "over" /\ outcome = "ok"

\* What StreamIsInOrder says, as an operator of whether the call ended well.
OrderHolds(over) ==
    InOrder(Len(Pieces), FirstSent, http.body.echo, up.sent, Tell(up.reason), rd.echoed, rows, steps,
            EndIsReal, over)

\* With a premise less, the property.
LEMMA OrderIs ==
    ASSUME (http.body.echo => EchoEndTells) => OrderHolds(EndedWell)
    PROVE  StreamIsInOrder
BY DEF StreamIsInOrder, OrderHolds, InOrder, Tell, EndIsReal, EndedWell

LEMMA Shifted ==
    ASSUME NEW a \in Nat, NEW b \in Nat, NEW c \in Nat, NEW d \in Nat, a + b = c + 1
    PROVE  a + b + d - 1 = c + d
OBVIOUS

LEMMA Remaining ==
    ASSUME NEW a \in Nat, NEW b \in Nat, NEW c \in Nat, NEW d \in Nat, NEW e \in Nat,
           a + b = c + 1, e = b + d
    PROVE  d = e - (c + 1 - a)
OBVIOUS

\* The steps are in order if the echo ends where the prompt does.
LEMMA StepsInOrder ==
    ASSUME NEW P, NEW f \in Nat, NEW n \in Nat, NEW echo, NEW sent \in Nat, NEW tell, NEW r, NEW rws,
           NEW ss \in Seq(Steps), NEW real, NEW over, NEW e \in Nat, e = Len(r.echoed),
           TakenInOrder(P, f, r, ss),
           ss # <<>> \/ over => f + e = n + 1,
           echo /\ (ss # <<>> \/ over) => Len(rws) = e,
           real => r.before = n,
           \A j \in DOMAIN ss : j < Len(ss) => ss[j].reason = None,
           over => sent = e + Len(ss) /\ (ss # <<>> => Last(ss).reason = tell)
    PROVE  InOrder(n, f, echo, sent, tell, r.echoed, rws, ss, real, over)
<1> DEFINE l == Len(ss)
<1>1. \A j \in DOMAIN r.echoed : r.echoed[j].k = f + j - 1
    BY DEF TakenInOrder
<1>2. e \in Nat /\ l \in Nat /\ (ss # <<>> \/ over => f + e = n + 1) /\ (over => sent = e + l)
    OBVIOUS
<1>3. ASSUME echo, ss # <<>> \/ over PROVE Len(rws) = n - f + 1
    <2>1. Len(rws) = e /\ f + e = n + 1
        BY <1>2, <1>3
    <2>2. e = n - f + 1
        BY <1>2, <2>1
    <2> QED
        BY <2>1, <2>2
<1>4. ASSUME NEW j \in DOMAIN ss
      PROVE  /\ ss[j].k = n + j
             /\ real => ss[j].pos = n + j - 1
             /\ j < Len(ss) => ss[j].reason = None
    <2>1. ss # <<>> /\ j \in Nat
        BY <1>4
    <2>2. ss[j].k = f + e + j - 1 /\ ss[j].pos = r.before + j - 1
        BY DEF TakenInOrder
    <2>3. f + e = n + 1
        BY <1>2, <2>1
    <2>5. e \in Nat /\ j \in Nat
        BY <2>1
    <2>4. f + e + j - 1 = n + j
        BY <2>3, <2>5, Shifted
    <2>6. real => r.before = n
        OBVIOUS
    <2>7. j < Len(ss) => ss[j].reason = None
        OBVIOUS
    <2> QED
        BY <2>2, <2>4, <2>6, <2>7
<1>5. ASSUME over PROVE Len(ss) = sent - (n + 1 - f)
    <2>1. l \in Nat /\ f + e = n + 1 /\ sent = e + l
        BY <1>2, <1>5
    <2> HIDE DEF l
    <2>2. l = sent - (n + 1 - f)
        BY <2>1, Remaining
    <2> QED
        BY <2>2 DEF l
<1> QED
    BY <1>1, <1>3, <1>4, <1>5 DEF InOrder

\* Turning and Ends.
Streaming == Turning /\ Ends

\* Where an echo ends when there are steps, and the rows of it.
LEMMA EchoedNow ==
    ASSUME Streaming, at \in {"read", "flush"}, http.body.echo => EchoEndTells
    PROVE  /\ steps # <<>> \/ rd.held # <<>> => FirstSent + Len(rd.echoed) = Len(Pieces) + 1
           /\ http.body.echo => FirstSent + Len(rd.echoed) <= Len(Pieces) + 1
           /\ ~http.body.echo => FirstSent = Len(Pieces) + 1 /\ rd.echoed = <<>>
           /\ http.body.echo /\ steps # <<>> => Len(rows) = Len(rd.echoed)
           /\ EndIsReal => rd.before = Len(Pieces)
           /\ http.body.echo <=> q.way = "combined"
           /\ TakenInOrder(Places, FirstSent, rd, steps)
<1>1. /\ TakenInOrder(Places, FirstSent, rd, steps) /\ (~http.body.echo => rd.echoed = <<>>)
      /\ FirstSent \in Nat \ {0} /\ FirstSent <= Len(Pieces) + 1 /\ Len(Pieces) \in Nat /\ Len(rd.echoed) \in Nat
      /\ StreamBodyFits(http.body, q)
    BY StreamFacts DEF Streaming, Turning, Echoes, Ordering, Order
<1>2. http.body.echo <=> q.way = "combined"
    BY <1>1 DEF StreamBodyFits
<1>3. CASE http.body.echo
    <2>1. EchoEnds(FirstSent, Len(Pieces), Len(q.prepend), rd, up.style)
        BY <1>3 DEF Streaming, Turning, EchoEndFits
    <2>2. rd.emitting <=> steps # <<>> \/ rd.held # <<>>
        BY <1>1 DEF TakenInOrder
    <2>3. rd.emitting => FirstSent + Len(rd.echoed) = Len(Pieces) + 1
        BY <2>1 DEF EchoEnds
    <2>4. FirstSent + Len(rd.echoed) <= Len(Pieces) + 1
        <3> DEFINE x == FirstSent + Len(rd.echoed)
                   y == Len(Pieces) + 1
        <3>1. x \in Nat /\ y \in Nat /\ (rd.emitting => x = y) /\ (~rd.emitting => x <= y)
            BY <1>1, <2>1 DEF EchoEnds
        <3> HIDE DEF x, y
        <3>2. x <= y
            BY <3>1
        <3> QED
            BY <3>2 DEF x, y
    <2> QED
        BY <1>1, <1>2, <1>3, <2>2, <2>3, <2>4 DEF Streaming, Turning, Echoes, EchoFits, EndIsReal
<1>4. CASE ~http.body.echo
    <2>1. FirstSent = Len(Pieces) + 1
        BY <1>4 DEF FirstSent
    <2>2. Len(<<>>) = 0
        OBVIOUS
    <2>4. Len(rd.echoed) = 0
        BY <1>1, <1>4, <2>2
    <2>3. FirstSent + Len(rd.echoed) = Len(Pieces) + 1
        BY <1>1, <2>1, <2>4
    <2> QED
        BY <1>1, <1>2, <1>4, <2>1, <2>3 DEF Streaming, Turning, Echoes, EchoFits, EndIsReal
<1> QED
    BY <1>3, <1>4

\* The last position sent is no step's but the last one's.
LEMMA SentBeyond ==
    ASSUME NEW f \in Nat, NEW e \in Nat, NEW l \in Nat, NEW h \in Nat, NEW a \in Nat, NEW b \in Nat,
           NEW sent, sent = e + l + h + a + b, NEW j \in Nat, j < l
    PROVE  f + e + j - 1 # f + sent - 1
OBVIOUS

\* While the stream is read only the last step may have a reason.
LEMMA ReasonsNow ==
    ASSUME Streaming, at \in {"read", "flush"}, NEW j \in DOMAIN steps, j < Len(steps)
    PROVE  steps[j].reason = None
<1>1. Shape /\ Ordering /\ Ends
    BY DEF Streaming, Turning, Echoes, Ordering
<1>2. CASE ~p.host
    BY <1>1, <1>2 DEF Ends
<1>3. CASE p.host
    <2>1. at = "read"
        BY <1>1, <1>3 DEF Shape, Control, Resting
    <2>2. HostTold(up, FirstSent, wire, rd.buf, rd.recs, rd.finish, steps)
        BY <1>1, <1>3, <2>1 DEF Ends
    <2>3. steps[j].reason = Why(up, FirstSent, steps[j].k)
        BY <2>2 DEF HostTold
    <2>4. /\ SentInOrder(Places, FirstSent, up.sent, wire, rd.buf, rd.recs, Taken(rd, steps))
          /\ TakenInOrder(Places, FirstSent, rd, steps)
        BY <1>1 DEF Ordering, Order
    <2>5. /\ FirstSent \in Nat /\ Len(rd.echoed) \in Nat /\ Len(steps) \in Nat /\ rd.held \in Seq(Positions(Nat))
          /\ rd.recs \in Seq(Positions(Nat)) /\ rd.buf \in Seq(Frames) /\ steps \in Seq(Steps)
        BY <1>1, StreamFacts
    <2>6. Len(rd.held) \in Nat /\ Len(rd.recs) \in Nat /\ Len(Fetched(rd.buf)) \in Nat /\ j \in Nat
        BY <2>5, FetchedOf
    <2>7. up.sent = Len(rd.echoed) + Len(steps) + Len(rd.held) + Len(rd.recs) + Len(Fetched(rd.buf))
        BY <2>4 DEF SentInOrder, Taken
    <2>8. steps[j].k = FirstSent + Len(rd.echoed) + j - 1
        BY <2>4 DEF TakenInOrder
    <2>9. FirstSent + Len(rd.echoed) + j - 1 # FirstSent + up.sent - 1
        <3> DEFINE f == FirstSent
                   e == Len(rd.echoed)
                   l == Len(steps)
                   h == Len(rd.held)
                   a == Len(rd.recs)
                   b == Len(Fetched(rd.buf))
                   sent == up.sent
        <3>1. f \in Nat /\ e \in Nat /\ l \in Nat /\ h \in Nat /\ a \in Nat /\ b \in Nat
              /\ j \in Nat /\ j < l /\ sent = e + l + h + a + b
            BY <2>5, <2>6, <2>7
        <3> HIDE DEF f, e, l, h, a, b, sent
        <3>2. f + e + j - 1 # f + sent - 1
            BY <3>1, SentBeyond
        <3> QED
            BY <3>2 DEF f, e, sent
    <2> QED
        BY <2>3, <2>8, <2>9 DEF Why
<1> QED
    BY <1>2, <1>3

\* What is read so far is in order.
LEMMA OrderSoFar ==
    ASSUME Streaming, at \in {"read", "flush"}, http.body.echo => EchoEndTells
    PROVE  OrderHolds(FALSE)
<1>1. /\ FirstSent \in Nat /\ Len(Pieces) \in Nat /\ Len(rd.echoed) \in Nat /\ steps \in Seq(Steps)
      /\ up.sent \in Nat
    BY StreamFacts DEF Streaming, Turning, Echoes, Ordering
<1>2. /\ steps # <<>> => FirstSent + Len(rd.echoed) = Len(Pieces) + 1
      /\ http.body.echo /\ steps # <<>> => Len(rows) = Len(rd.echoed)
      /\ EndIsReal => rd.before = Len(Pieces)
      /\ TakenInOrder(Places, FirstSent, rd, steps)
    BY EchoedNow
<1>3. \A j \in DOMAIN steps : j < Len(steps) => steps[j].reason = None
    BY ReasonsNow
<1>4. InOrder(Len(Pieces), FirstSent, http.body.echo, up.sent, Tell(up.reason), rd.echoed, rows, steps,
              EndIsReal, FALSE)
    BY <1>1, <1>2, <1>3, StepsInOrder
<1> QED
    BY <1>4 DEF OrderHolds

\* While the stream is read the property follows from the invariant.
LEMMA OrderlyNow ==
    ASSUME Streaming, at \in {"read", "flush"}
    PROVE  StreamIsInOrder
<1>1. ~EndedWell
    BY DEF EndedWell
<1>2. (http.body.echo => EchoEndTells) => OrderHolds(FALSE)
    BY OrderSoFar
<1>3. OrderHolds(FALSE) => OrderHolds(EndedWell)
    BY <1>1 DEF OrderHolds, InOrder
<1> QED
    BY <1>2, <1>3, OrderIs

\* A step that leaves the stream alone leaves the property alone.
LEMMA OrderStays ==
    ASSUME UNCHANGED <<p, q, http>>, up'.style = up.style, up'.sent = up.sent, up'.reason = up.reason,
           (http.body.echo => EchoEndTells) =>
              InOrder(Len(Pieces), FirstSent, http.body.echo, up.sent, Tell(up.reason), rd'.echoed, rows', steps',
                      EndIsReal', EndedWell')
    PROVE  StreamIsInOrder'
<1>1. (EchoEndTells' <=> EchoEndTells) /\ FirstSent' = FirstSent /\ Pieces' = Pieces
    BY TellsStay, PlacesStay
<1>2. Tell(up.reason)' = Tell(up.reason)
    BY DEF Tell, FinishReasonToStop
<1>3. (http.body.echo' => EchoEndTells') => OrderHolds(EndedWell)'
    BY <1>1, <1>2 DEF OrderHolds
<1> QED
    BY <1>3 DEF StreamIsInOrder, OrderHolds, InOrder, Tell, EndIsReal, EndedWell

\* Of a call that opened no stream the property has nothing to say.
LEMMA NotStreamed == ASSUME up'.phase = "closed" PROVE StreamIsInOrder'
BY DEF StreamIsInOrder, Streamed

\* The stream breaks off, or the browser is gone.
LEMMA LeftInOrder ==
    ASSUME Streaming, at = "read", UNCHANGED <<p, inst, q, http, up, rd, rows, steps>>,
           at' # "over" \/ outcome' # "ok"
    PROVE  StreamIsInOrder'
<1>1. (http.body.echo => EchoEndTells) => OrderHolds(FALSE)
    BY OrderSoFar
<1>2. ~EndedWell'
    BY DEF EndedWell
<1>3. EndIsReal' = EndIsReal
    BY DEF EndIsReal, Ready
<1>4. (http.body.echo => EchoEndTells) =>
         InOrder(Len(Pieces), FirstSent, http.body.echo, up.sent, Tell(up.reason), rd'.echoed, rows', steps',
                 EndIsReal', EndedWell')
    BY <1>1, <1>2, <1>3 DEF OrderHolds, InOrder
<1> QED
    BY <1>4, OrderStays

\* When nothing is left in the reader, all that was sent was taken.
LEMMA NothingLeft ==
    ASSUME Ordering, at \in {"read", "flush"}, rd.recs = <<>>, Fetched(rd.buf) = <<>>
    PROVE  up.sent = Taken(rd, steps)
<1>1. up.sent = Taken(rd, steps) + Len(rd.recs) + Len(Fetched(rd.buf))
    BY DEF Ordering, Order, SentInOrder
<1>2. Len(<<>>) = 0 /\ Taken(rd, steps) \in Nat
    BY StreamFacts DEF Ordering
<1>3. up.sent = Taken(rd, steps) + 0 + 0
    BY <1>1, <1>2
<1> QED
    BY <1>2, <1>3

\* At the last frame everything is read.
LEMMA DoneTaken ==
    ASSUME Telling, at = "read", rd.recs = <<>>, rd.buf # <<>>, IsDone(Head(rd.buf))
    PROVE  /\ up.sent = Taken(rd, steps) /\ up.phase = "ended"
           /\ rd.buf = <<Head(rd.buf)>> /\ Tail(rd.buf) = <<>>
           /\ Head(rd.buf) \in Frames /\ FrameOK(Head(rd.buf)) /\ Head(rd.buf).recs = <<>>
<1>1. Shape /\ Ordering /\ Closes(up, rd.buf)
    BY DEF Telling, Ordering, Ends
<1>2. rd.buf \in Seq(Frames) /\ Head(rd.buf) \in Frames /\ FrameOK(Head(rd.buf))
    BY <1>1, HeadFits
<1>3. Tail(rd.buf) = <<>> /\ up.phase = "ended" /\ rd.buf = <<Head(rd.buf)>>
    BY <1>1, <1>2, DoneIsLast
<1>4. Head(rd.buf).recs = <<>>
    BY <1>2 DEF FrameOK, HostFrame, ProviderFrame, IsDone
<1>5. Fetched(rd.buf) = Head(rd.buf).recs \o Fetched(Tail(rd.buf))
    BY <1>2, FetchedOf
<1>6. <<>> \o <<>> = <<>>
    OBVIOUS
<1>7. Fetched(rd.buf) = <<>>
    BY <1>3, <1>4, <1>5, <1>6, FetchedOf
<1>8. up.sent = Taken(rd, steps)
    BY <1>1, <1>7, NothingLeft
<1> QED
    BY <1>2, <1>3, <1>4, <1>8

\* The response of a GPU host ends with its done event.
LEMMA HostEndsInOrder ==
    ASSUME Streaming, ReadDone, p.host
    PROVE  StreamIsInOrder'
<1>1. Shape /\ Ordering /\ Telling /\ at = "read"
    BY DEF Streaming, Turning, Echoes, Ordering, Telling, ReadDone, Reading
<1>2. /\ rd'.echoed = rd.echoed /\ rd.recs = <<>> /\ rd.buf # <<>> /\ IsDone(Head(rd.buf))
    BY <1>1, ReadDoneReader DEF Untaken
<1>3. UNCHANGED <<p, inst, q, http, up, rows, steps>>
    BY DEF ReadDone
<1>4. up.sent = Taken(rd, steps) /\ rd.held = <<>> /\ ~http.body.echo
    <2>1. up.sent = Taken(rd, steps)
        BY <1>1, <1>2, DoneTaken
    <2>2. StreamBodyFits(http.body, q)
        BY <1>1, StreamFacts
    <2>3. rd.held = <<>>
        BY <1>1 DEF Ordering, Order
    <2> QED
        BY <2>1, <2>2, <2>3 DEF StreamBodyFits
<1>5. /\ FirstSent \in Nat /\ Len(Pieces) \in Nat /\ Len(rd.echoed) \in Nat /\ steps \in Seq(Steps)
      /\ up.sent \in Nat /\ Len(steps) \in Nat
    BY <1>1, StreamFacts
<1>6. /\ FirstSent = Len(Pieces) + 1 /\ rd.echoed = <<>> /\ TakenInOrder(Places, FirstSent, rd, steps)
      /\ EndIsReal => rd.before = Len(Pieces)
    BY <1>1, <1>4, EchoedNow
<1>7. Len(rd.echoed) = 0 /\ up.sent = Len(rd.echoed) + Len(steps)
    <2>1. Len(<<>>) = 0
        OBVIOUS
    <2> QED
        BY <1>4, <1>5, <1>6, <2>1 DEF Taken
<1>8. \A j \in DOMAIN steps : j < Len(steps) => steps[j].reason = None
    BY <1>1, ReasonsNow
<1>9. ASSUME steps # <<>> PROVE Last(steps).reason = Tell(up.reason)
    <2> DEFINE l == Len(steps)
    <2>1. l \in DOMAIN steps /\ l \in Nat /\ Last(steps) = steps[l]
        BY <1>5, <1>9 DEF Last
    <2>2. HostTold(up, FirstSent, wire, rd.buf, rd.recs, rd.finish, steps)
        BY <1>1 DEF Telling, Ends
    <2>3. steps[l].reason = Why(up, FirstSent, steps[l].k)
        BY <2>1, <2>2 DEF HostTold
    <2>4. steps[l].k = FirstSent + Len(rd.echoed) + l - 1
        BY <1>6, <2>1 DEF TakenInOrder
    <2>5. FirstSent + Len(rd.echoed) + l - 1 = FirstSent + up.sent - 1
        BY <1>5, <1>7, <2>1
    <2> QED
        BY <2>1, <2>3, <2>4, <2>5 DEF Why, Tell
<1>10. EndIsReal' = EndIsReal
    BY <1>3 DEF EndIsReal, Ready
<1>11. InOrder(Len(Pieces), FirstSent, http.body.echo, up.sent, Tell(up.reason), rd.echoed, rows, steps,
              EndIsReal, EndedWell')
    <2>1. FirstSent + Len(rd.echoed) = Len(Pieces) + 1
        BY <1>5, <1>6, <1>7
    <2> QED
        BY <1>4, <1>5, <1>6, <1>7, <1>8, <1>9, <2>1, StepsInOrder
<1> QED
    BY <1>2, <1>3, <1>10, <1>11, OrderStays

\* The step of the last position.
LEMMA LastTaken ==
    ASSUME Ordering, at = "flush", NEW rec, NEW why, StepOf(rec, why),
           rec = Position(FirstSent + Len(rd.echoed) + Len(steps)),
           NEW r2, r2.echoed = rd.echoed, r2.before = rd.before, r2.emitting = TRUE, r2.held = <<>>
    PROVE  TakenInOrder(Places, FirstSent, r2, steps')
<1> DEFINE e == Len(rd.echoed)
           n == Len(steps)
           f == FirstSent
           P == Places
           s == [pos |-> rd.before + Len(steps), id |-> IdOf(inst', rec), piece |-> rec.piece, k |-> rec.k,
                 reason |-> why]
<1>1. /\ e \in Nat /\ n \in Nat /\ f \in Nat /\ steps \in Seq(Steps)
      /\ TakenInOrder(P, f, rd, steps)
    BY StreamFacts DEF Ordering, Order
<1>2. steps' = Append(steps, s) /\ steps' \in Seq(Steps) /\ Len(steps') = n + 1
    BY DEF StepOf
<1>3. s \in Steps
    <2>1. n + 1 \in DOMAIN steps' /\ steps'[n + 1] = s
        BY <1>1, <1>2
    <2> QED
        BY <1>2, <2>1
<1>4. rec = Position(f + e + n)
    OBVIOUS
<1> HIDE DEF P, f, e, n
<1>5. rec.k = f + e + n /\ rec.piece = P[f + e + n].piece
    <2>1. f + e + n \in Nat
        BY <1>1
    <2>2. rec.k = f + e + n
        BY <1>4, PositionFields
    <2>3. P[f + e + n] = Position(f + e + n)
        BY <2>1, PlaceFields DEF P
    <2> QED
        BY <1>4, <2>2, <2>3
<1>6. s.pos = rd.before + Len(steps) /\ s.k = f + Len(rd.echoed) + Len(steps) /\ s.piece = P[s.k].piece
    BY <1>5 DEF e, n
<1>7. FromTo(P, s.k + 1, r2.held)
    <2>1. DOMAIN <<>> = {}
        OBVIOUS
    <2> QED
        BY <2>1 DEF FromTo
<1>8. Len(rd.echoed) \in Nat
    BY <1>1 DEF e
<1> HIDE DEF s
<1>9. TakenInOrder(P, f, r2, Append(steps, s))
    BY <1>1, <1>3, <1>6, <1>7, <1>8, StepInOrder
<1> QED
    BY <1>2, <1>9 DEF P, f

\* When a stream is over without a step, all of it was echo.
LEMMA FlushCounts ==
    ASSUME Streaming, at = "flush", http.body.echo => EchoEndTells
    PROVE  /\ up.sent = Taken(rd, steps)
           /\ FirstSent + Len(rd.echoed) = Len(Pieces) + 1
<1>1. Shape /\ Ordering /\ Ends
    BY DEF Streaming, Turning, Echoes, Ordering
<1>2. rd.buf = <<>> /\ rd.recs = <<>> /\ up.phase # "more" /\ (steps # <<>> => rd.held # <<>>) /\ ~p.host
      /\ Streamed
    BY <1>1 DEF Ends, Shape, Control, Resting, Streamed
<1>3. up.sent = Taken(rd, steps)
    BY <1>1, <1>2, FetchedOf, NothingLeft
<1>4. /\ steps # <<>> \/ rd.held # <<>> => FirstSent + Len(rd.echoed) = Len(Pieces) + 1
      /\ http.body.echo => FirstSent + Len(rd.echoed) <= Len(Pieces) + 1
      /\ ~http.body.echo => FirstSent = Len(Pieces) + 1 /\ rd.echoed = <<>>
    BY EchoedNow
<1>5. CASE rd.held # <<>>
    BY <1>3, <1>4, <1>5
<1>6. CASE rd.held = <<>>
    <2> DEFINE e == Len(rd.echoed)
               f == FirstSent
               n == Len(Pieces)
    <2>1. FirstSent + up.sent > Len(Pieces)
        BY <1>1, <1>2 DEF Shape, Control, PromptSent
    <2>2. Len(<<>>) = 0
        OBVIOUS
    <2>3. up.sent = e + 0 + 0
        BY <1>2, <1>3, <1>6, <2>2 DEF Taken
    <2>4. e \in Nat /\ f \in Nat /\ n \in Nat
        BY <1>1, StreamFacts
    <2>5. f + e <= n + 1
        <3>1. CASE http.body.echo
            BY <1>4, <3>1
        <3>2. CASE ~http.body.echo
            BY <1>4, <2>2, <2>4, <3>2
        <3> QED
            BY <3>1, <3>2
    <2>6. f + up.sent > n
        BY <2>1
    <2> HIDE DEF e, f, n
    <2>7. f + e = n + 1
        BY <2>3, <2>4, <2>5, <2>6
    <2> QED
        BY <1>3, <2>7 DEF e, f, n
<1> QED
    BY <1>5, <1>6

LEMMA JustOne ==
    ASSUME NEW S, NEW s \in Seq(S), s # <<>>, Len(s) <= 1
    PROVE  1 \in DOMAIN s /\ Len(s) = 1
<1>1. 1 \in DOMAIN s /\ Len(s) \in Nat
    BY TakenOff
<1>2. DOMAIN s = 1 .. Len(s)
    OBVIOUS
<1> DEFINE l == Len(s)
<1>3. l \in Nat /\ 1 \in 1 .. l /\ l <= 1
    BY <1>1, <1>2
<1> HIDE DEF l
<1>4. l = 1
    BY <1>3
<1> QED
    BY <1>1, <1>4 DEF l

\* The last position is held back until the stream is over.
LEMMA HeldIsLast ==
    ASSUME Ordering, at = "flush", rd.held # <<>>
    PROVE  /\ rd.held[1] = Position(FirstSent + Len(rd.echoed) + Len(steps))
           /\ Taken(rd, steps) = Len(rd.echoed) + Len(steps) + 1
<1> DEFINE e == Len(rd.echoed)
           n == Len(steps)
           f == FirstSent
           h == Len(rd.held)
<1>1. /\ e \in Nat /\ n \in Nat /\ f \in Nat /\ rd.held \in Seq(Positions(Nat)) /\ h <= 1 /\ h \in Nat
      /\ FromTo(Places, f + e + n, rd.held)
    BY StreamFacts DEF Ordering, Order, TakenInOrder
<1>2. 1 \in DOMAIN rd.held /\ h = 1
    <2>1. rd.held \in Seq(Positions(Nat)) /\ Len(rd.held) <= 1
        BY <1>1
    <2> QED
        BY <2>1, JustOne
<1>3. rd.held[1] = Places[f + e + n + 1 - 1]
    BY <1>1, <1>2 DEF FromTo
<1>4. Taken(rd, steps) = e + n + 1
    BY <1>2 DEF Taken
<1> HIDE DEF e, n, f
<1>5. f + e + n + 1 - 1 = f + e + n /\ f + e + n \in Nat
    BY <1>1
<1>6. rd.held[1] = Position(f + e + n)
    BY <1>3, <1>5, PlaceFields
<1> QED
    BY <1>4, <1>6 DEF e, n, f

LEMMA EmptyFlushInOrder ==
    ASSUME Streaming, Flush, rd.held = <<>>
    PROVE  StreamIsInOrder'
<1>1. Shape /\ Ordering /\ Ends
    BY DEF Streaming, Turning, Echoes, Ordering
<1>2. /\ at = "flush" /\ UNCHANGED <<p, q, http, up, rd, inst, steps>>
      /\ rows' = IF q.way = "combined" THEN rd.echoed ELSE rows
    BY <1>1, FlushSteps
<1>3. steps = <<>>
    BY <1>1, <1>2 DEF Ends, Shape, Control, Resting
<1>4. EndIsReal' = EndIsReal
    BY <1>2 DEF EndIsReal, Ready
<1>5. ASSUME http.body.echo => EchoEndTells
      PROVE  InOrder(Len(Pieces), FirstSent, http.body.echo, up.sent, Tell(up.reason), rd.echoed, rows', steps,
                     EndIsReal, EndedWell')
    <2>1. up.sent = Taken(rd, steps) /\ FirstSent + Len(rd.echoed) = Len(Pieces) + 1
        BY <1>2, <1>5, FlushCounts
    <2>2. /\ FirstSent \in Nat /\ Len(Pieces) \in Nat /\ Len(rd.echoed) \in Nat /\ steps \in Seq(Steps)
          /\ up.sent \in Nat
        BY <1>1, <1>2, StreamFacts
    <2>3. /\ TakenInOrder(Places, FirstSent, rd, steps) /\ (EndIsReal => rd.before = Len(Pieces))
          /\ http.body.echo <=> q.way = "combined"
        BY <1>2, <1>5, EchoedNow
    <2>4. Len(<<>>) = 0 /\ DOMAIN <<>> = {}
        OBVIOUS
    <2>5. up.sent = Len(rd.echoed) + Len(steps)
        <3>1. Len(rd.held) = 0
            BY <2>4
        <3> HIDE DEF Streaming
        <3> QED
            BY <2>1, <2>2, <3>1 DEF Taken
    <2>6. http.body.echo => Len(rows') = Len(rd.echoed)
        BY <1>2, <2>3
    <2>7. \A j \in DOMAIN steps : j < Len(steps) => steps[j].reason = None
        BY <1>3, <2>4
    <2> QED
        BY <1>3, <2>1, <2>2, <2>3, <2>5, <2>6, <2>7, StepsInOrder
<1> QED
    BY <1>2, <1>4, <1>5, OrderStays

LEMMA HeldFlushInOrder ==
    ASSUME Streaming, Flush, rd.held # <<>>
    PROVE  StreamIsInOrder'
<1> DEFINE rec == rd.held[1]
           r2 == [echoed |-> rd.echoed, before |-> rd.before, emitting |-> TRUE, held |-> <<>>]
           l == Len(steps)
<1>1. Shape /\ Ordering /\ Ends
    BY DEF Streaming, Turning, Echoes, Ordering
<1>2. /\ at = "flush" /\ ~p.host /\ UNCHANGED <<p, q, http, up, rd>>
      /\ rows' = IF q.way = "combined" THEN rd.echoed ELSE rows
      /\ StepOf(rec, FinishReasonToStop(rd.finish))
    BY <1>1, FlushSteps
<1>3. steps \in Seq(Steps) /\ l \in Nat /\ up.sent \in Nat /\ FirstSent \in Nat
      /\ Len(Pieces) \in Nat /\ Len(rd.echoed) \in Nat
    BY <1>1, <1>2, StreamFacts
<1>4. /\ rec = Position(FirstSent + Len(rd.echoed) + Len(steps))
      /\ Taken(rd, steps) = Len(rd.echoed) + l + 1
    BY <1>1, <1>2, HeldIsLast
<1>5. r2.echoed = rd.echoed /\ r2.before = rd.before /\ r2.emitting = TRUE /\ r2.held = <<>>
    OBVIOUS
<1> HIDE DEF r2, rec
<1>6. TakenInOrder(Places, FirstSent, r2, steps')
    BY <1>1, <1>2, <1>4, <1>5, LastTaken
<1>7. steps' \in Seq(Steps) /\ Len(steps') = l + 1 /\ Ready(inst') = Ready(inst)
    BY <1>2 DEF StepOf, Grows, Ready
<1>8. /\ DOMAIN steps' = 1 .. l + 1 /\ DOMAIN steps = 1 .. l
      /\ \A j \in DOMAIN steps : steps'[j] = steps[j]
      /\ steps'[l + 1].reason = FinishReasonToStop(rd.finish)
    BY <1>2, <1>3, StepAppended
<1>9. EndIsReal' = EndIsReal
    BY <1>2, <1>7 DEF EndIsReal
<1>10. \A j \in DOMAIN steps' : j < Len(steps') => steps'[j].reason = None
    <2>1. \A j \in DOMAIN steps : steps[j].reason = None
        BY <1>1, <1>2 DEF Ends
    <2>2. ASSUME NEW j \in 1 .. l + 1, j < l + 1 PROVE j \in 1 .. l
        BY <1>3, <2>2
    <2> QED
        BY <1>7, <1>8, <2>1, <2>2
<1>11. Last(steps').reason = Tell(up.reason)
    <2>1. rd.finish = up.reason
        BY <1>1, <1>2 DEF Ends
    <2>2. Last(steps') = steps'[l + 1]
        BY <1>7 DEF Last
    <2> QED
        BY <1>2, <1>8, <2>1, <2>2 DEF Tell
<1>12. ASSUME http.body.echo => EchoEndTells
      PROVE  InOrder(Len(Pieces), FirstSent, http.body.echo, up.sent, Tell(up.reason), r2.echoed, rows', steps',
                     EndIsReal, EndedWell')
    <2>1. up.sent = Taken(rd, steps) /\ FirstSent + Len(rd.echoed) = Len(Pieces) + 1
        BY <1>2, <1>12, FlushCounts
    <2>2. /\ (EndIsReal => rd.before = Len(Pieces)) /\ (http.body.echo <=> q.way = "combined")
        BY <1>2, <1>12, EchoedNow
    <2>3. up.sent = Len(rd.echoed) + Len(steps')
        <3> DEFINE e == Len(rd.echoed)
        <3>1. up.sent = e + l + 1 /\ Len(steps') = l + 1 /\ e \in Nat /\ l \in Nat
            BY <1>3, <1>4, <1>7, <2>1
        <3> HIDE DEF e, l
        <3>2. up.sent = e + Len(steps')
            BY <3>1
        <3> QED
            BY <3>2 DEF e
    <2>4. http.body.echo => Len(rows') = Len(rd.echoed)
        BY <1>2, <2>2
    <2>5. Len(rd.echoed) = Len(r2.echoed) /\ (EndIsReal => r2.before = Len(Pieces))
        BY <1>5, <2>2
    <2> QED
        BY <1>3, <1>6, <1>7, <1>10, <1>11, <2>1, <2>3, <2>4, <2>5, StepsInOrder
<1>13. InOrder(Len(Pieces), FirstSent, http.body.echo, up.sent, Tell(up.reason), r2.echoed, rows', steps',
                     EndIsReal, EndedWell') =>
       InOrder(Len(Pieces), FirstSent, http.body.echo, up.sent, Tell(up.reason), rd'.echoed, rows', steps',
                     EndIsReal', EndedWell')
    BY <1>2, <1>5, <1>9
<1> QED
    BY <1>2, <1>12, <1>13, OrderStays

\* The flush is where the whole stream is compared with the rows and the steps.
LEMMA FlushInOrder == ASSUME Streaming, Flush PROVE StreamIsInOrder'
BY EmptyFlushInOrder, HeldFlushInOrder

\* A call ends in the middle of its stream, or has had none.
LEMMA EndsOf ==
    ASSUME Shape, [Next]_vars, at' = "over"
    PROVE  \/ UNCHANGED vars
           \/ up'.phase = "closed"
           \/ Cut \/ (Leave /\ at = "read")
           \/ ReadDone /\ p.host
           \/ Flush
<1>1. at \in {"idle", "score", "step", "open"} => up.phase = "closed"
    BY DEF Shape, Control, Resting
<1>2. ASSUME NEW i, NEW call, NEW s, EnterDecoding(i, call, s) PROVE at' # "over"
    BY <1>2 DEF EnterDecoding, Decoding
<1>3. ASSUME Ask \/ Refuse \/ Busy \/ Fail \/ Scored \/ NextToken \/ NoCandidates \/ Restart
      PROVE  up'.phase = "closed"
    BY <1>1, <1>3 DEF Ask, Refuse, Busy, Fail, Scored, NextToken, NoCandidates, Restart, Asking
<1>4. ~Opened /\ ~Pull /\ ~EndOfBody /\ ~ReadFrame /\ ~ReadEcho /\ ~ReadToken /\ ~Forget
    BY DEF Opened, Pull, EndOfBody, ReadFrame, ReadEcho, ReadToken, Forget, Reading
<1>5. ReadDone => p.host
    BY DEF ReadDone
<1>6. Leave => at = "read" \/ up'.phase = "closed"
    BY <1>1 DEF Leave
<1> QED
    BY <1>3, <1>4, <1>5, <1>6 DEF Next

\* The steps after the flush and the failures keep the property.
LEMMA OverInOrder ==
    ASSUME Streaming, at = "over" => StreamIsInOrder, [Next]_vars, at' = "over"
    PROVE  StreamIsInOrder'
<1>1. Shape
    BY DEF Streaming, Turning, Echoes, Ordering
<1>2. CASE UNCHANGED vars
    <2>1. at = "over" /\ StreamIsInOrder
        BY <1>2 DEF vars
    <2>2. UNCHANGED <<p, inst, q, at, http, up, rd, rows, steps, outcome>>
        BY <1>2 DEF vars
    <2>3. (http.body.echo => EchoEndTells) /\ Streamed => OrderHolds(EndedWell)
        BY <2>1 DEF StreamIsInOrder, OrderHolds, InOrder, Tell, EndIsReal, EndedWell
    <2>4. CASE Streamed
        <3>1. EndIsReal' = EndIsReal /\ EndedWell' = EndedWell
            BY <2>2 DEF EndIsReal, Ready, EndedWell
        <3>2. (http.body.echo => EchoEndTells) =>
                 InOrder(Len(Pieces), FirstSent, http.body.echo, up.sent, Tell(up.reason), rd'.echoed, rows', steps',
                         EndIsReal', EndedWell')
            BY <2>2, <2>3, <2>4, <3>1 DEF OrderHolds
        <3> QED
            BY <2>2, <3>2, OrderStays
    <2>5. CASE ~Streamed
        BY <2>2, <2>5, NotStreamed DEF Streamed
    <2> QED
        BY <2>4, <2>5
<1>3. CASE Cut
    BY <1>3, LeftInOrder DEF Cut, Reading
<1>4. CASE Leave /\ at = "read"
    BY <1>4, LeftInOrder DEF Leave
<1> QED
    BY <1>1, <1>2, <1>3, <1>4, EndsOf, NotStreamed, HostEndsInOrder, FlushInOrder

\* The invariant of StreamIsInOrder: afterwards the reader is gone, and the
\* property itself is carried on.
Delivering == Streaming /\ (at = "over" => StreamIsInOrder)

LEMMA DeliveringInit == Init => Delivering
<1> SUFFICES ASSUME Init PROVE Delivering
    OBVIOUS
<1>1. Shape
    BY ShapeInit
<1>2. at = "idle"
    BY DEF Init
<1> QED
    BY <1>1, <1>2 DEF Delivering, Streaming, Turning, Echoes, Ordering, Order, EchoFits, EchoEndFits, Ends

\* Every step keeps Delivering.
LEMMA DeliveringNext == ASSUME Delivering, [Next]_vars PROVE Delivering'
<1>1. Turning /\ Telling /\ Streaming
    BY DEF Delivering, Streaming, Turning, Echoes, Telling
<1>2. Turning'
    BY <1>1, TurningNext
<1>3. Telling'
    BY <1>1, TellingNext
<1>4. at' = "over" => StreamIsInOrder'
    BY <1>1, OverInOrder DEF Delivering
<1> QED
    BY <1>2, <1>3, <1>4 DEF Delivering, Streaming, Telling

LEMMA DeliveringOrdered == Delivering => StreamIsInOrder
<1> SUFFICES ASSUME Delivering PROVE StreamIsInOrder
    OBVIOUS
<1>1. Shape
    BY DEF Delivering, Streaming, Turning, Echoes, Ordering
<1>2. CASE at \in {"read", "flush"}
    BY <1>2, OrderlyNow DEF Delivering
<1>3. CASE at = "over"
    BY <1>3 DEF Delivering
<1>4. CASE at \in {"idle", "score", "step", "open"}
    BY <1>1, <1>4 DEF Shape, Control, Resting, StreamIsInOrder, Streamed
<1> QED
    BY <1>1, <1>2, <1>3, <1>4 DEF Shape, Control, Types

\* The rows and the steps of a stream are the positions that were sent, each once,
\* in their order and at their places in the context; when the call ends well none
\* is missing and the last step has the reason.
THEOREM StreamOrdered == Spec => []StreamIsInOrder
<1>1. Init => Delivering
    BY DeliveringInit
<1>2. Delivering /\ [Next]_vars => Delivering'
    BY DeliveringNext
<1>3. Delivering => StreamIsInOrder
    BY DeliveringOrdered
<1> QED
    BY <1>1, <1>2, <1>3, PTL DEF Spec

-----------------------------------------------------------------------------
(***************************************************************************)
(* The log entry of the stream.                                            *)
(***************************************************************************)
Splits(w, s, t) == w = s \o t

\* A part at the start is a prefix.
LEMMA PrefixOf ==
    ASSUME NEW S, NEW s \in Seq(S), NEW t \in Seq(S), NEW w, Splits(w, s, t)
    PROVE  IsPrefix(s, w) /\ (t = <<>> => w = s)
<1>1. w = s \o t
    BY DEF Splits
<1>2. Len(s) \in Nat /\ Len(t) \in Nat /\ Len(s \o t) = Len(s) + Len(t) /\ s \o t \in Seq(S)
    OBVIOUS
<1>3. \A j \in 1 .. Len(s) : (s \o t)[j] = s[j]
    OBVIOUS
<1> DEFINE l == Len(s)
           a == SubSeq(s, 1, l)
           b == SubSeq(w, 1, l)
<1>4. a = [j \in 1 .. l |-> s[j]]
    BY <1>2
<1>5. b = [j \in 1 .. l |-> w[j]]
    BY <1>2
<1>6. l <= Len(w)
    BY <1>1, <1>2
<1>7. \A j \in 1 .. l : w[j] = s[j]
    BY <1>1, <1>3
<1> HIDE DEF a, b
<1>8. a = b
    BY <1>4, <1>5, <1>7
<1>9. t = <<>> => w = s
    BY <1>1
<1> QED
    BY <1>6, <1>8, <1>9 DEF IsPrefix, a, b

\* The text of a concatenation, as a fact about Splits.
LEMMA TextSplits ==
    ASSUME NEW s \in Seq(Nat), NEW t \in Seq(Nat), NEW w, Splits(w, s, t)
    PROVE  /\ Splits(Text(w), Text(s), Text(t))
           /\ w \in Seq(Nat) /\ Text(w) \in Seq(Nat) /\ Text(s) \in Seq(Nat) /\ Text(t) \in Seq(Nat)
<1>1. w = s \o t /\ s \o t \in Seq(Nat)
    BY DEF Splits
<1>2. Text(s \o t) = Text(s) \o Text(t)
    BY TextConcat
<1>3. Text(w) = Text(s) \o Text(t)
    BY <1>1, <1>2
<1>4. w \in Seq(Nat)
    BY <1>1
<1> QED
    BY <1>3, <1>4, TextLength DEF Splits

\* The text of what was taken of the positions A.
TextTaken(P, ech, ss) ==
    Text([j \in DOMAIN ech |-> P[ech[j].k].piece]) \o Text([j \in DOMAIN ss |-> ss[j].piece])

\* The pieces of a sequence of positions.
PiecesOf(A) == [j \in DOMAIN A |-> A[j].piece]

\* A part of a sequence.
Slice(z, m, n) == [j \in 1 .. n |-> z[m + j]]

LEMMA SliceType ==
    ASSUME NEW z \in Seq(Nat), NEW m \in Nat, NEW n \in Nat, m + n <= Len(z)
    PROVE  Slice(z, m, n) \in Seq(Nat) /\ Len(Slice(z, m, n)) = n /\ \A j \in 1 .. n : Slice(z, m, n)[j] = z[m + j]
<1> DEFINE u == Slice(z, m, n)
           k == Len(z)
<1>1. k \in Nat /\ DOMAIN z = 1 .. k /\ (\A j \in 1 .. k : z[j] \in Nat) /\ m + n <= k
    OBVIOUS
<1> HIDE DEF k
<1>2. \A j \in 1 .. n : m + j \in 1 .. k
    BY <1>1
<1>3. u \in [1 .. n -> Nat]
    BY <1>1, <1>2 DEF Slice
<1>4. \A j \in 1 .. n : u[j] = z[m + j]
    BY DEF Slice
<1> HIDE DEF u
<1>5. u \in Seq(Nat) /\ Len(u) = n
    BY <1>3
<1> QED
    BY <1>4, <1>5 DEF u

\* The elements of a concatenation.
Parts(w, s, t) ==
    /\ w \in Seq(Nat) /\ Len(w) = Len(s) + Len(t)
    /\ \A j \in 1 .. Len(s) + Len(t) : w[j] = IF j <= Len(s) THEN s[j] ELSE t[j - Len(s)]

LEMMA TwoParts == \A s, t \in Seq(Nat) : \A w : Splits(w, s, t) => Parts(w, s, t)
<1> SUFFICES ASSUME NEW s \in Seq(Nat), NEW t \in Seq(Nat), NEW w, Splits(w, s, t) PROVE Parts(w, s, t)
    BY Zenon
<1> QED
    BY DEF Splits, Parts

\* A sequence is cut into its first elements and the rest.
LEMMA CutOnce ==
    ASSUME NEW z \in Seq(Nat), NEW m \in Nat, NEW e \in Nat, NEW l \in Nat, m + (e + l) <= Len(z)
    PROVE  Splits(Slice(z, m, e + l), Slice(z, m, e), Slice(z, m + e, l))
<1> DEFINE w == Slice(z, m, e + l)
           a == Slice(z, m, e)
           b == Slice(z, m + e, l)
           k == Len(z)
<1>1. k \in Nat /\ m + (e + l) <= k
    OBVIOUS
<1> HIDE DEF k
<1>2. m + e <= k /\ (m + e) + l <= k /\ e + l \in Nat /\ m + e \in Nat
    BY <1>1
<1>3. w \in Seq(Nat) /\ Len(w) = e + l /\ \A j \in 1 .. e + l : w[j] = z[m + j]
    BY <1>1, <1>2, SliceType DEF k
<1>4. a \in Seq(Nat) /\ Len(a) = e /\ \A j \in 1 .. e : a[j] = z[m + j]
    BY <1>2, SliceType DEF k
<1>5. b \in Seq(Nat) /\ Len(b) = l /\ \A j \in 1 .. l : b[j] = z[m + e + j]
    BY <1>2, SliceType DEF k
<1> HIDE DEF w, a, b
<1> DEFINE y == a \o b
<1>0. Splits(y, a, b)
    BY DEF Splits
<1> HIDE DEF y
<1>6. y \in Seq(Nat) /\ Len(y) = e + l /\ \A j \in 1 .. e + l : y[j] = IF j <= e THEN a[j] ELSE b[j - e]
    <2>1. a \in Seq(Nat) /\ b \in Seq(Nat) /\ Len(a) = e /\ Len(b) = l
        BY <1>4, <1>5
    <2>2. Parts(y, a, b)
        BY <1>0, <2>1, TwoParts, Zenon
    <2>3. Len(a) = e /\ Len(b) = l
        BY <2>1
    <2> QED
        BY <2>2, <2>3, Zenon DEF Parts
<1>7. ASSUME NEW j \in 1 .. e + l PROVE y[j] = w[j]
    <2>1. CASE j <= e
        <3>1. j \in 1 .. e
            BY <2>1
        <3> QED
            BY <1>3, <1>4, <1>6, <2>1, <3>1
    <2>2. CASE ~(j <= e)
        <3>1. j - e \in 1 .. l /\ m + e + (j - e) = m + j
            BY <2>2
        <3>2. b[j - e] = z[m + j]
            BY <1>5, <3>1
        <3> QED
            BY <1>3, <1>6, <2>2, <3>2
    <2> QED
        BY <2>1, <2>2
<1>8. w = y
    BY <1>3, <1>6, <1>7
<1> QED
    BY <1>8 DEF Splits, y, w, a, b

LEMMA SliceAll ==
    ASSUME NEW z \in Seq(Nat)
    PROVE  Slice(z, 0, Len(z)) = z
<1>1. Len(z) \in Nat /\ z = [j \in 1 .. Len(z) |-> z[j]] /\ \A j \in 1 .. Len(z) : 0 + j = j
    OBVIOUS
<1> QED
    BY <1>1 DEF Slice

LEMMA PiecesType ==
    ASSUME NEW A \in Seq(Positions(Nat))
    PROVE  PiecesOf(A) \in Seq(Nat) /\ Len(PiecesOf(A)) = Len(A) /\ Joined(A) = Text(PiecesOf(A))
<1>0. \A j \in DOMAIN A : A[j] \in Positions(Nat)
    OBVIOUS
<1>1. DOMAIN A = 1 .. Len(A) /\ Len(A) \in Nat /\ \A j \in DOMAIN A : A[j].piece \in Nat
    BY <1>0 DEF Positions
<1> DEFINE z == PiecesOf(A)
<1>2. z \in [1 .. Len(A) -> Nat]
    BY <1>1 DEF PiecesOf
<1>3. Joined(A) = Text(PiecesOf(A))
    BY JoinedType DEF PiecesOf
<1> HIDE DEF z
<1>4. z \in Seq(Nat) /\ Len(z) = Len(A)
    BY <1>1, <1>2
<1> QED
    BY <1>3, <1>4 DEF z

\* A part that is inside of a whole.
Within(z, e, l) == e \in Nat /\ l \in Nat /\ e + l <= Len(z)

\* The text of two parts that follow one another is a prefix of the text of the
\* whole, and the text when they are the whole.
LEMMA CutText ==
    ASSUME NEW z \in Seq(Nat), NEW e, NEW l, Within(z, e, l),
           NEW x, Splits(x, Text(Slice(z, 0, e)), Text(Slice(z, e, l)))
    PROVE  IsPrefix(x, Text(z)) /\ (e + l = Len(z) => Text(z) = x)
<1> DEFINE n == Len(z)
           m == n - (e + l)
           u == Slice(z, 0, e)
           v == Slice(z, 0 + e, l)
           y == Slice(z, 0, e + l)
           t == Slice(z, 0 + (e + l), m)
           zz == Slice(z, 0, (e + l) + m)
<1>1. n \in Nat /\ e \in Nat /\ l \in Nat /\ e + l \in Nat /\ e + l <= n
    BY DEF Within
<1> HIDE DEF n
<1>2. m \in Nat /\ 0 + (e + l) <= n /\ 0 + ((e + l) + m) <= n /\ (e + l) + m = n /\ 0 + e = e
      /\ 0 + e <= n /\ 0 + e + l <= n /\ 0 + (e + l) + m <= n /\ 0 + e \in Nat /\ 0 + (e + l) \in Nat
    BY <1>1
<1> HIDE DEF m
<1>3. Splits(y, u, v) /\ Splits(zz, y, t) /\ zz = z
    BY <1>1, <1>2, CutOnce, SliceAll DEF n
<1>4. u \in Seq(Nat) /\ v \in Seq(Nat) /\ y \in Seq(Nat) /\ t \in Seq(Nat) /\ Len(t) = m
    BY <1>1, <1>2, SliceType DEF n
<1>5. Splits(x, Text(u), Text(v))
    BY <1>2
<1> HIDE DEF u, v, y, t, zz
<1>6. Splits(Text(y), Text(u), Text(v)) /\ Splits(Text(z), Text(y), Text(t))
      /\ Text(y) \in Seq(Nat) /\ Text(t) \in Seq(Nat)
    BY <1>3, <1>4, TextSplits
<1>7. x = Text(y)
    BY <1>5, <1>6 DEF Splits
<1>8. IsPrefix(x, Text(z)) /\ (Text(t) = <<>> => Text(z) = x)
    BY <1>6, <1>7, PrefixOf
<1>9. e + l = n => Text(t) = <<>>
    <2> SUFFICES ASSUME e + l = n PROVE Text(t) = <<>>
        OBVIOUS
    <2>1. m = 0
        BY <1>1, <1>2
    <2>2. t = <<>>
        BY <1>4, <2>1
    <2> QED
        BY <2>2, TextEmpty
<1> QED
    BY <1>8, <1>9 DEF n

\* The text that was delivered is that of the first positions that were sent.
LEMMA TakenText ==
    ASSUME NEW P, NEW f \in Nat, NEW r, NEW ss \in Seq(Steps), TakenInOrder(P, f, r, ss),
           r.echoed \in Seq([pos : Nat, k : Nat]), NEW A \in Seq(Positions(Nat)), FromTo(P, f, A),
           Within(A, Len(r.echoed), Len(ss))
    PROVE  /\ IsPrefix(TextTaken(P, r.echoed, ss), Joined(A))
           /\ Len(r.echoed) + Len(ss) = Len(A) => Joined(A) = TextTaken(P, r.echoed, ss)
<1> DEFINE ech == r.echoed
           e == Len(ech)
           l == Len(ss)
           n == Len(A)
           z == PiecesOf(A)
           u == [j \in DOMAIN ech |-> P[ech[j].k].piece]
           v == [j \in DOMAIN ss |-> ss[j].piece]
<1>1. e \in Nat /\ l \in Nat /\ n \in Nat /\ e + l <= n /\ DOMAIN ech = 1 .. e /\ DOMAIN ss = 1 .. l /\ DOMAIN A = 1 .. n
    BY DEF Within
<1>2. z \in Seq(Nat) /\ Len(z) = n /\ Joined(A) = Text(z)
    BY PiecesType
<1>0. Within(z, e, l)
    BY <1>1, <1>2 DEF Within
<1>3. \A j \in DOMAIN A : z[j] = P[f + j - 1].piece
    BY DEF PiecesOf, FromTo
<1>4. \A j \in DOMAIN ech : ech[j].k = f + j - 1
    BY DEF TakenInOrder
<1>5. \A j \in DOMAIN ss : ss[j].k = f + e + j - 1 /\ ss[j].piece = P[ss[j].k].piece
    BY DEF TakenInOrder
<1> HIDE DEF z, e, l, n, ech
<1>6. u = Slice(z, 0, e)
    <2>1. ASSUME NEW j \in 1 .. e PROVE u[j] = z[j]
        <3>1. j \in 1 .. n /\ j \in DOMAIN ech
            BY <1>1, <2>1
        <3> QED
            BY <1>1, <1>3, <1>4, <3>1
    <2>2. u = [j \in 1 .. e |-> u[j]]
        BY <1>1
    <2>3. \A j \in 1 .. e : 0 + j = j
        OBVIOUS
    <2> HIDE DEF u
    <2> QED
        BY <2>1, <2>2, <2>3 DEF Slice
<1>7. v = Slice(z, e, l)
    <2>1. ASSUME NEW j \in 1 .. l PROVE v[j] = z[e + j]
        <3>1. e + j \in 1 .. n /\ j \in DOMAIN ss /\ f + e + j - 1 = f + (e + j) - 1
            BY <1>1, <2>1
        <3>2. z[e + j] = P[f + (e + j) - 1].piece
            BY <1>1, <1>3, <3>1
        <3>3. v[j] = P[f + e + j - 1].piece
            BY <1>5, <3>1
        <3> QED
            BY <3>1, <3>2, <3>3
    <2>2. v = [j \in 1 .. l |-> v[j]]
        BY <1>1
    <2> HIDE DEF v
    <2> QED
        BY <2>1, <2>2 DEF Slice
<1>8. TextTaken(P, r.echoed, ss) = Text(u) \o Text(v)
    BY DEF TextTaken, ech
<1> DEFINE x == TextTaken(P, r.echoed, ss)
<1> HIDE DEF u, v, x
<1>9. Splits(x, Text(Slice(z, 0, e)), Text(Slice(z, e, l)))
    BY <1>6, <1>7, <1>8 DEF x, Splits
<1>10. IsPrefix(x, Text(z)) /\ (e + l = Len(z) => Text(z) = x)
    BY <1>0, <1>2, <1>9, CutText
<1> QED
    BY <1>2, <1>10 DEF x, e, l, n, ech

LEMMA LastAppended ==
    ASSUME NEW T, NEW s \in Seq(T), NEW x \in T
    PROVE  Last(Append(s, x)) = x
BY DEF Last

LEMMA Element ==
    ASSUME NEW S, NEW s \in Seq(S)
    PROVE  \A j \in DOMAIN s : s[j] \in S
OBVIOUS

LEMMA RowsHave ==
    ASSUME NEW s \in Seq([pos : Nat, k : Nat])
    PROVE  \A j \in DOMAIN s : s[j].k \in Nat
<1> DEFINE S == [pos : Nat, k : Nat]
<1>1. \A x \in S : x.k \in Nat
    OBVIOUS
<1>2. s \in Seq(S)
    OBVIOUS
<1> HIDE DEF S
<1>3. \A j \in DOMAIN s : s[j] \in S
    BY <1>2, Element
<1> QED
    BY <1>1, <1>3

\* What the property calls Delivered.
LEMMA DeliveredIs ==
    ASSUME rd.echoed \in Seq([pos : Nat, k : Nat])
    PROVE  Delivered = TextTaken(Places, rd.echoed, steps)
<1>1. \A j \in DOMAIN rd.echoed : rd.echoed[j].k \in Nat
    BY RowsHave
<1>2. \A j \in DOMAIN rd.echoed : Places[rd.echoed[j].k].piece = Position(rd.echoed[j].k).piece
    BY <1>1, PlaceFields
<1>3. [j \in DOMAIN rd.echoed |-> Places[rd.echoed[j].k].piece] =
      [j \in DOMAIN rd.echoed |-> Position(rd.echoed[j].k).piece]
    BY <1>2
<1> QED
    BY <1>3 DEF Delivered, TextTaken

\* What the log entry of the stream has to say.
Tells(e, delivered, ech, ss, how, why) ==
    /\ IsPrefix(delivered, e.text)
    /\ how = "error" => e.error
    /\ how = "ok" =>
          /\ e.text = delivered /\ e.finish = why /\ ~e.error
          /\ e.positions = Len(ech) + Len(ss)

\* The property as an operator of the entry, the rows and the steps.
LEMMA LogIs ==
    (Streamed /\ at = "over" => Tells(Last(entries), Delivered, rd.echoed, steps, outcome, up.reason))
    <=> LogHoldsTheStream
BY DEF LogHoldsTheStream, Tells

\* A step that leaves the stream and the entry alone leaves the property alone.
LEMMA LogStays ==
    ASSUME UNCHANGED <<p, http>>, up'.style = up.style, up'.reason = up.reason,
           rd.echoed \in Seq([pos : Nat, k : Nat]), rd'.echoed = rd.echoed,
           Tells(Last(entries'), TextTaken(Places, rd.echoed, steps'), rd.echoed, steps', outcome', up.reason)
    PROVE  LogHoldsTheStream'
<1>1. \A k : Position(k)' = Position(k)
    BY PositionsStay
<1>2. \A j \in DOMAIN rd.echoed : rd.echoed[j].k \in Nat
    BY RowsHave
<1>3. \A j \in DOMAIN rd.echoed : Places[rd.echoed[j].k].piece = Position(rd.echoed[j].k).piece
    BY <1>2, PlaceFields
<1>4. [j \in DOMAIN rd.echoed |-> Places[rd.echoed[j].k].piece] =
      [j \in DOMAIN rd.echoed |-> Position(rd.echoed[j].k).piece]
    BY <1>3
<1> DEFINE u == [j \in DOMAIN rd.echoed |-> Position(rd.echoed[j].k).piece]
           v == [j \in DOMAIN steps |-> steps[j].piece]
<1>5. u' = u
    BY <1>1
<1>6. Delivered' = Text(u') \o Text(v')
    BY DEF Delivered
<1>7. Delivered' = TextTaken(Places, rd.echoed, steps')
    BY <1>4, <1>5, <1>6 DEF TextTaken
<1> QED
    BY <1>7 DEF LogHoldsTheStream, Tells

\* The text of the entry.
LEMMA AggregateText ==
    ASSUME Shape, wire \in Seq(Frames)
    PROVE  /\ AggregateStream(wire).text = Joined(Fetched(wire))
           /\ AggregateStream(wire).positions = Len(Fetched(wire))
           /\ ~p.host => AggregateStream(wire).finish = Latest(Finishes(wire)) /\ ~AggregateStream(wire).error
<1>1. \A k \in DOMAIN wire : FrameOK(wire[k])
    BY DEF Shape, FramesFit
<1>2. CASE p.host
    <2>1. \A k \in DOMAIN wire : HostFrame(wire[k])
        BY <1>1, <1>2 DEF FrameOK
    <2> QED
        BY <1>2, <2>1, AggregateOfHost DEF Fetched
<1>3. CASE ~p.host
    <2>1. \A k \in DOMAIN wire : ProviderFrame(wire[k])
        BY <1>1, <1>3 DEF FrameOK
    <2>2. AggregateStream(wire) =
              [text |-> Joined(Join(RecsOf, wire)), positions |-> Len(Join(RecsOf, wire)),
               finish |-> Latest(Join(FinishOf, wire)), usage |-> Latest(Join(UsageOf, wire)),
               error |-> FALSE]
        BY <2>1, AggregateOfProvider
    <2> QED
        BY <2>2 DEF Fetched, Finishes
<1> QED
    BY <1>2, <1>3

\* The text of the entry starts with the delivered text, and is the delivered
\* text when nothing is left.
LEMMA EntryText ==
    ASSUME Ordering, at \in {"read", "flush"}, NEW broken \in BOOLEAN, NEW r2, r2.echoed = rd.echoed,
           NEW ss \in Seq(Steps), TakenInOrder(Places, FirstSent, r2, ss),
           Within(Fetched(wire), Len(rd.echoed), Len(ss))
    PROVE  /\ IsPrefix(TextTaken(Places, rd.echoed, ss), StreamedEntry(wire, broken).text)
           /\ Len(rd.echoed) + Len(ss) = up.sent =>
                 /\ StreamedEntry(wire, broken).text = TextTaken(Places, rd.echoed, ss)
                 /\ StreamedEntry(wire, broken).positions = Len(rd.echoed) + Len(ss)
           /\ StreamedEntry(wire, broken) \in Entries
<1> DEFINE A == Fetched(wire)
<1>1. /\ Shape /\ wire \in Seq(Frames) /\ r2.echoed \in Seq([pos : Nat, k : Nat]) /\ FirstSent \in Nat
      /\ A \in Seq(Positions(Nat))
    BY StreamFacts, FetchedOf DEF Ordering
<1>2. FromTo(Places, FirstSent, A) /\ Len(A) = up.sent
    BY DEF Ordering, Order, SentInOrder
<1>3. /\ StreamedEntry(wire, broken).text = Joined(A)
      /\ StreamedEntry(wire, broken).positions = Len(A)
      /\ StreamedEntry(wire, broken) \in Entries
    BY <1>1, StreamedFields, AggregateText
<1> HIDE DEF A
<1>4. Within(A, Len(r2.echoed), Len(ss))
    BY DEF A
<1>5. /\ IsPrefix(TextTaken(Places, r2.echoed, ss), Joined(A))
      /\ Len(r2.echoed) + Len(ss) = Len(A) => Joined(A) = TextTaken(Places, r2.echoed, ss)
    BY <1>1, <1>2, <1>4, TakenText
<1> QED
    BY <1>2, <1>3, <1>5

LEMMA SentWithin ==
    ASSUME NEW e \in Nat, NEW l \in Nat, NEW h \in Nat, NEW a \in Nat, NEW b \in Nat,
           NEW n, n = e + l + h + a + b
    PROVE  e + l <= n
OBVIOUS

\* What was taken was sent.
LEMMA TakenWithin ==
    ASSUME Ordering, at \in {"read", "flush"}
    PROVE  Within(Fetched(wire), Len(rd.echoed), Len(steps))
<1> DEFINE e == Len(rd.echoed)
           l == Len(steps)
           h == Len(rd.held)
           a == Len(rd.recs)
           b == Len(Fetched(rd.buf))
           n == Len(Fetched(wire))
<1>1. /\ rd.held \in Seq(Positions(Nat)) /\ rd.recs \in Seq(Positions(Nat)) /\ rd.buf \in Seq(Frames)
      /\ e \in Nat /\ l \in Nat
    BY StreamFacts DEF Ordering
<1>2. h \in Nat /\ a \in Nat /\ b \in Nat
    BY <1>1, FetchedOf
<1>3. n = e + l + h + a + b
    BY DEF Ordering, Order, SentInOrder, Taken
<1> HIDE DEF e, l, h, a, b, n
<1>4. e + l <= n
    BY <1>1, <1>2, <1>3, SentWithin
<1> QED
    BY <1>1, <1>4 DEF Within, e, l, n

\* A stream that breaks off, or that nobody reads any more.
LEMMA BrokenLogged ==
    ASSUME Streaming, at = "read", NEW broken \in BOOLEAN, Logged(broken), UNCHANGED <<p, http, up, rd, steps>>,
           outcome' = IF broken THEN "error" ELSE "left"
    PROVE  LogHoldsTheStream'
<1> DEFINE e == StreamedEntry(wire, broken)
           d == TextTaken(Places, rd.echoed, steps)
<1>1. Shape /\ Ordering /\ TakenInOrder(Places, FirstSent, rd, steps)
    BY DEF Streaming, Turning, Echoes, Ordering, Order
<1>2. /\ steps \in Seq(Steps) /\ wire \in Seq(Frames) /\ rd.echoed \in Seq([pos : Nat, k : Nat])
      /\ entries \in Seq(Entries)
    BY <1>1, StreamFacts DEF Shape, Control, Types
<1>3. IsPrefix(d, e.text) /\ e \in Entries
    BY <1>1, <1>2, TakenWithin, EntryText
<1>4. broken => e.error
    BY <1>2, StreamedFields
<1>5. Last(entries') = e
    BY <1>2, <1>3, LastAppended DEF Logged
<1> HIDE DEF e, d
<1>6. Tells(e, d, rd.echoed, steps, outcome', up.reason)
    BY <1>3, <1>4 DEF Tells
<1>7. Tells(Last(entries'), TextTaken(Places, rd.echoed, steps'), rd.echoed, steps', outcome', up.reason)
    BY <1>5, <1>6 DEF d
<1> QED
    BY <1>2, <1>7, LogStays

\* The response of a GPU host, logged at its done event.
LEMMA HostLogged ==
    ASSUME Streaming, ReadDone, p.host
    PROVE  LogHoldsTheStream'
<1> DEFINE e == StreamedEntry(wire, FALSE)
           d == TextTaken(Places, rd.echoed, steps)
           f == Head(rd.buf)
<1>1. /\ Shape /\ Ordering /\ Telling /\ at = "read" /\ TakenInOrder(Places, FirstSent, rd, steps)
      /\ UNCHANGED <<p, http, up, steps>> /\ entries' = Append(entries, e)
      /\ outcome' = IF f.error THEN "error" ELSE "ok"
    BY DEF Streaming, Turning, Echoes, Ordering, Order, Telling, ReadDone, Reading, Logged
<1>2. rd'.echoed = rd.echoed /\ rd.recs = <<>> /\ rd.buf # <<>> /\ IsDone(f)
    BY <1>1, ReadDoneReader DEF Untaken
<1>3. /\ up.sent = Taken(rd, steps) /\ rd.buf = <<f>> /\ f \in Frames /\ FrameOK(f)
    BY <1>1, <1>2, DoneTaken
<1>4. /\ steps \in Seq(Steps) /\ wire \in Seq(Frames) /\ rd.echoed \in Seq([pos : Nat, k : Nat])
      /\ entries \in Seq(Entries) /\ Len(rd.echoed) \in Nat /\ Len(steps) \in Nat
    BY <1>1, StreamFacts DEF Shape, Control, Types
<1>5. f.event = "done"
    BY <1>2, <1>3 DEF FrameOK, HostFrame, IsDone
<1>6. HostTold(up, FirstSent, wire, rd.buf, rd.recs, rd.finish, steps)
    BY <1>1 DEF Telling, Ends
<1>7. f.finish = up.reason
    <2>1. 1 \in DOMAIN rd.buf /\ rd.buf[1] = f
        BY <1>3
    <2> QED
        BY <1>5, <1>6, <2>1 DEF HostTold
<1>8. Join(DoneOf, wire) = <<f>>
    <2>1. Join(DoneOf, <<f>>) = DoneOf[f]
        BY <1>3, FrameMaps, JoinOne
    <2>2. DoneOf[f] = <<f>>
        BY <1>3, <1>5 DEF DoneOf
    <2> QED
        BY <1>3, <1>6, <2>1, <2>2 DEF HostTold
<1>9. AggregateStream(wire).finish = f.finish /\ AggregateStream(wire).error = f.error
    <2>1. \A k \in DOMAIN wire : HostFrame(wire[k])
        BY <1>1 DEF Shape, FramesFit, FrameOK
    <2> QED
        BY <1>3, <1>4, <1>8, <2>1, AggregateOfHost
<1>10. Len(rd.echoed) + Len(steps) = up.sent
    <2>1. rd.held = <<>> /\ Len(<<>>) = 0
        BY <1>1 DEF Ordering, Order
    <2>2. Len(rd.held) = 0
        BY <2>1
    <2> QED
        BY <1>3, <1>4, <2>2 DEF Taken
<1>11. /\ IsPrefix(d, e.text) /\ e.text = d /\ e.positions = Len(rd.echoed) + Len(steps) /\ e \in Entries
    BY <1>1, <1>4, <1>10, TakenWithin, EntryText
<1>12. e.finish = AggregateStream(wire).finish /\ (e.error <=> AggregateStream(wire).error)
    BY <1>4, StreamedFields
<1>13. Last(entries') = e
    BY <1>1, <1>4, <1>11, LastAppended
<1> HIDE DEF e, d, f
<1>14. (outcome' = "error" => e.error) /\ (outcome' = "ok" => ~e.error)
    BY <1>1, <1>9, <1>12
<1>15. Tells(e, d, rd.echoed, steps, outcome', up.reason)
    BY <1>7, <1>9, <1>11, <1>12, <1>14 DEF Tells
<1>16. Tells(Last(entries'), TextTaken(Places, rd.echoed, steps'), rd.echoed, steps', outcome', up.reason)
    BY <1>1, <1>13, <1>15 DEF d
<1> QED
    BY <1>1, <1>2, <1>4, <1>16, LogStays

\* What is flushed makes the steps all that was sent after the echo.
LEMMA FlushTakes ==
    ASSUME Ordering, Ends, Flush
    PROVE  \E r2 : /\ r2.echoed = rd.echoed /\ TakenInOrder(Places, FirstSent, r2, steps')
                   /\ steps' \in Seq(Steps) /\ Len(rd.echoed) + Len(steps') = up.sent
<1>1. Shape /\ TakenInOrder(Places, FirstSent, rd, steps) /\ at = "flush"
    BY DEF Ordering, Order, Flush
<1>2. rd.buf = <<>> /\ rd.recs = <<>>
    BY <1>1 DEF Ends
<1>3. up.sent = Taken(rd, steps)
    BY <1>1, <1>2, FetchedOf, NothingLeft
<1>4. steps \in Seq(Steps) /\ Len(steps) \in Nat /\ Len(rd.echoed) \in Nat
    BY <1>1, StreamFacts
<1>5. CASE rd.held = <<>>
    <2>1. Len(<<>>) = 0
        OBVIOUS
    <2>2. Len(rd.echoed) + Len(steps) = up.sent
        BY <1>3, <1>4, <1>5, <2>1 DEF Taken
    <2>3. steps' = steps
        BY <1>1, <1>5, FlushSteps
    <2> QED
        BY <1>1, <1>4, <2>2, <2>3
<1>6. CASE rd.held # <<>>
    <2> DEFINE rec == rd.held[1]
               r2 == [echoed |-> rd.echoed, before |-> rd.before, emitting |-> TRUE, held |-> <<>>]
               l == Len(steps)
               e == Len(rd.echoed)
    <2>1. StepOf(rec, FinishReasonToStop(rd.finish))
        BY <1>1, <1>6, FlushSteps
    <2>2. rec = Position(FirstSent + Len(rd.echoed) + Len(steps)) /\ up.sent = e + l + 1
        BY <1>1, <1>3, <1>6, HeldIsLast
    <2>3. r2.echoed = rd.echoed /\ r2.before = rd.before /\ r2.emitting = TRUE /\ r2.held = <<>>
        OBVIOUS
    <2> HIDE DEF r2, rec
    <2>4. TakenInOrder(Places, FirstSent, r2, steps')
        BY <1>1, <2>1, <2>2, <2>3, LastTaken
    <2>5. steps' \in Seq(Steps) /\ Len(steps') = l + 1
        BY <2>1 DEF StepOf
    <2>7. e \in Nat /\ l \in Nat
        BY <1>4
    <2> HIDE DEF e, l
    <2>6. e + Len(steps') = up.sent
        BY <2>2, <2>5, <2>7
    <2> QED
        BY <2>3, <2>4, <2>5, <2>6 DEF e
<1> QED
    BY <1>5, <1>6

\* The flush, where the entry was written and the last step follows.
LEMMA FlushLogged ==
    ASSUME Streaming, Flush
    PROVE  LogHoldsTheStream'
<1> DEFINE e == StreamedEntry(wire, FALSE)
           d == TextTaken(Places, rd.echoed, steps')
<1>1. /\ Shape /\ Ordering /\ Ends /\ at = "flush" /\ ~p.host
      /\ UNCHANGED <<p, http, up, rd, entries, outcome>>
    BY FlushSteps DEF Streaming, Turning, Echoes, Ordering
<1>2. PICK r2 : /\ r2.echoed = rd.echoed /\ TakenInOrder(Places, FirstSent, r2, steps')
                /\ steps' \in Seq(Steps) /\ Len(rd.echoed) + Len(steps') = up.sent
    BY <1>1, FlushTakes
<1>3. /\ wire \in Seq(Frames) /\ rd.echoed \in Seq([pos : Nat, k : Nat]) /\ Len(rd.echoed) \in Nat
      /\ up.sent \in Nat
    BY <1>1, StreamFacts
<1>4. Within(Fetched(wire), Len(rd.echoed), Len(steps'))
    <2>1. Len(Fetched(wire)) = up.sent
        BY <1>1 DEF Ordering, Order, SentInOrder
    <2> DEFINE a == Len(rd.echoed)
               b == Len(steps')
    <2>2. a \in Nat /\ b \in Nat /\ a + b = up.sent
        BY <1>2, <1>3
    <2> HIDE DEF a, b
    <2>3. a + b <= up.sent
        BY <1>3, <2>2
    <2> QED
        BY <2>1, <2>2, <2>3 DEF Within, a, b
<1>5. IsPrefix(d, e.text) /\ e.text = d /\ e.positions = Len(rd.echoed) + Len(steps')
    BY <1>1, <1>2, <1>4, EntryText
<1>6. e.finish = up.reason /\ ~e.error
    <2>1. AggregateStream(wire).finish = Latest(Finishes(wire)) /\ ~AggregateStream(wire).error
        BY <1>1, <1>3, AggregateText
    <2>2. Finishes(wire) = (IF up.reason = None THEN <<>> ELSE <<up.reason>>)
        BY <1>1 DEF Ends
    <2>3. Latest(Finishes(wire)) = up.reason
        <3>1. CASE up.reason = None
            BY <2>2, <3>1 DEF Latest
        <3>2. CASE up.reason # None
            <4>1. Finishes(wire) = <<up.reason>> /\ <<up.reason>> # <<>> /\ Last(<<up.reason>>) = up.reason
                BY <2>2, <3>2 DEF Last
            <4> QED
                BY <4>1 DEF Latest
        <3> QED
            BY <3>1, <3>2
    <2> QED
        BY <1>3, <2>1, <2>3, StreamedFields
<1>7. Last(entries') = e /\ outcome' = "ok"
    BY <1>1 DEF Ends, Shape, Control, Resting
<1> HIDE DEF e, d
<1>8. Tells(e, d, rd.echoed, steps', outcome', up.reason)
    BY <1>5, <1>6, <1>7 DEF Tells
<1>9. Tells(Last(entries'), TextTaken(Places, rd.echoed, steps'), rd.echoed, steps', outcome', up.reason)
    BY <1>7, <1>8 DEF d
<1> QED
    BY <1>1, <1>3, <1>9, LogStays

\* Of a call that opened no stream the property has nothing to say.
LEMMA NotLogged == ASSUME up'.phase = "closed" PROVE LogHoldsTheStream'
BY DEF LogHoldsTheStream, Streamed

\* The steps after the flush and the failures keep the property.
LEMMA OverLogged ==
    ASSUME Streaming, at = "over" => LogHoldsTheStream, [Next]_vars, at' = "over"
    PROVE  LogHoldsTheStream'
<1>1. Shape
    BY DEF Streaming, Turning, Echoes, Ordering
<1>2. CASE UNCHANGED vars
    <2>1. at = "over" /\ LogHoldsTheStream
        BY <1>2 DEF vars
    <2>2. UNCHANGED <<p, at, http, up, rd, steps, entries, outcome>>
        BY <1>2 DEF vars
    <2>3. CASE Streamed
        <3>1. rd.echoed \in Seq([pos : Nat, k : Nat])
            BY <1>1 DEF Shape, Control, Types, Readers
        <3>2. Tells(Last(entries), Delivered, rd.echoed, steps, outcome, up.reason)
            BY <2>1, <2>3, LogIs
        <3>3. Tells(Last(entries), TextTaken(Places, rd.echoed, steps), rd.echoed, steps, outcome, up.reason)
            BY <3>1, <3>2, DeliveredIs
        <3> QED
            BY <2>2, <3>1, <3>3, LogStays
    <2>4. CASE ~Streamed
        BY <2>2, <2>4, NotLogged DEF Streamed
    <2> QED
        BY <2>3, <2>4
<1>3. CASE Cut
    <2>1. at = "read" /\ Logged(TRUE) /\ UNCHANGED <<p, http, up, rd, steps>> /\ outcome' = "error"
        BY <1>3 DEF Cut, Reading
    <2> QED
        BY <2>1, BrokenLogged
<1>4. CASE Leave /\ at = "read"
    <2>1. Logged(FALSE) /\ UNCHANGED <<p, http, up, rd, steps>> /\ outcome' = "left"
        BY <1>4 DEF Leave
    <2> QED
        BY <1>4, <2>1, BrokenLogged
<1> QED
    BY <1>1, <1>2, <1>3, <1>4, EndsOf, NotLogged, HostLogged, FlushLogged

\* The invariant of LogHoldsTheStream.
Logging == Streaming /\ (at = "over" => LogHoldsTheStream)

\* The log entry of a stream has the text that was delivered: that text and its
\* reason when the call ended well, at least that text when it was cut or left.
THEOREM StreamLogged == Spec => []LogHoldsTheStream
<1>1. Init => Logging
    BY DeliveringInit DEF Delivering, Logging, Init
<1>2. Logging /\ [Next]_vars => Logging'
    <2> SUFFICES ASSUME Logging, [Next]_vars PROVE Logging'
        OBVIOUS
    <2>1. Turning /\ Telling /\ Streaming
        BY DEF Logging, Streaming, Turning, Echoes, Telling
    <2>2. Turning' /\ Telling'
        BY <2>1, TurningNext, TellingNext
    <2>3. at' = "over" => LogHoldsTheStream'
        BY <2>1, OverLogged DEF Logging
    <2> QED
        BY <2>2, <2>3 DEF Logging, Streaming, Telling
<1>3. Logging => LogHoldsTheStream
    BY DEF Logging, LogHoldsTheStream
<1> QED
    BY <1>1, <1>2, <1>3, PTL DEF Spec

=============================================================================
