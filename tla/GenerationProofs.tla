-------------------------- MODULE GenerationProofs --------------------------
(***************************************************************************)
(* For any number of runs over any backends, with a browser that begins,   *)
(* stops and loses them at any time: runs on one backend stay apart and    *)
(* each run's usage is its own (GInv); what the page shows, stops and      *)
(* picks from is what it says it is (PInv); every variable keeps its type  *)
(* (TInv); and the frames of a run are those of its tokens (FInv).         *)
(***************************************************************************)
EXTENDS GeneratePage, TLAPS

\* Positions at which a generator has the backend.
Bound == {"score", "open", "stream", "close"}
Working == Bound \cup {"done"}

IsSequence(f) == \E S : f \in Seq(S)

\* A run has the lock of its backend's name from Acquire to its last frame.
Locks ==
    /\ DOMAIN lock = Backends
    /\ \A r \in Runs, b \in Backends :
          (at[r] \in Working /\ req[r].backend = b) <=> lock[b] = r

\* A provider's sink is the run's that has the lock, until it is unbound.
Sinks ==
    /\ DOMAIN sink = Backends
    /\ \A b \in Backends : sink[b] # None => lock[b] = sink[b] /\ b \in Providers
    /\ \A r \in Runs : at[r] \in Bound /\ Provider(r) => sink[req[r].backend] = r
    /\ \A r \in Runs : at[r] = "done" => sink[req[r].backend] = None

\* No run's attempts are in another one's usage.
Counts ==
    /\ requests \in [Runs -> SUBSET Runs] /\ uncounted \in [Runs -> BOOLEAN]
    /\ \A r \in Runs : requests[r] \subseteq {r} /\ ~uncounted[r]

Sent ==
    /\ DOMAIN frames = Runs
    /\ \A r \in Runs : IsSequence(frames[r])
    /\ \A r \in Runs : at[r] = "done" =>
          Len(frames[r]) >= 2 /\ frames[r][Len(frames[r]) - 1].requests \subseteq {r}

Shape ==
    /\ at \in [Runs -> {"none", "check", "queued"} \cup Working \cup Ended]
    /\ DOMAIN req = Runs /\ DOMAIN paused = Runs /\ DOMAIN gone = Runs
    /\ \A r \in Runs : at[r] \notin {"none"} \cup Ended => req[r].backend \in Backends
    /\ \A r \in Runs : paused[r] => at[r] \in Working
    /\ paused \in [Runs -> BOOLEAN]
    /\ sel \in Backends /\ cancelFn \in Runs \cup {None} /\ reading \subseteq Runs

GInv == Locks /\ Sinks /\ Counts /\ Sent /\ Shape

-----------------------------------------------------------------------------
LEMMA GInvImplies == GInv => RunsStayApart
<1> SUFFICES ASSUME GInv PROVE RunsStayApart
    OBVIOUS
<1> USE StreamAssumption DEF GInv
<1>1. \A r \in Runs, b \in Backends :
          (at[r] \in {"score", "open", "stream", "close", "done"} /\ req[r].backend = b) <=> lock[b] = r
    BY DEF Locks, Working, Bound
<1>2. \A r \in Runs : at[r] = "done" =>
          frames[r][Len(frames[r]) - 1].requests \subseteq {r} /\ ~uncounted[r]
    BY DEF Sent, Counts
<1>3. \A b \in Backends : sink[b] # None => lock[b] = sink[b]
    BY DEF Sinks
<1> QED
    BY <1>1, <1>2, <1>3 DEF RunsStayApart

LEMMA SequencesGrow ==
    ASSUME NEW f, IsSequence(f), NEW x, NEW y
    PROVE  /\ IsSequence(f \o <<>>) /\ IsSequence(f \o <<x>>)
           /\ IsSequence(f \o <<x, y>>)
           /\ Len(f \o <<x, y>>) = Len(f) + 2 /\ Len(f) \in Nat
           /\ (f \o <<x, y>>)[Len(f) + 1] = x
<1>1. PICK S : f \in Seq(S)
    BY DEF IsSequence
<1> DEFINE T == S \cup {x, y}
<1>2. f \in Seq(T) /\ <<>> \in Seq(T) /\ <<x>> \in Seq(T) /\ <<x, y>> \in Seq(T)
    BY <1>1
<1>3. f \o <<>> \in Seq(T) /\ f \o <<x>> \in Seq(T) /\ f \o <<x, y>> \in Seq(T)
    BY <1>2
<1>4. Len(f \o <<x, y>>) = Len(f) + 2 /\ Len(f) \in Nat
    BY <1>2
<1>5. (f \o <<x, y>>)[Len(f) + 1] = x
    BY <1>2
<1> QED
    BY <1>3, <1>4, <1>5 DEF IsSequence

LEMMA GInvInit == Init => GInv
<1> SUFFICES ASSUME Init PROVE GInv
    OBVIOUS
<1> USE StreamAssumption DEF Init, StreamInit
<1>1. Locks /\ Sinks
    BY DEF Locks, Sinks, Working, Bound, Backends
<1>2. Counts
    BY DEF Counts
<1>3. Sent
    <2>1. IsSequence(<<>>)
        <3>1. <<>> \in Seq({})
            OBVIOUS
        <3> QED
            BY <3>1 DEF IsSequence
    <2> QED
        BY <2>1 DEF Sent
<1>4. Shape
    BY DEF Shape, Ended
<1> QED
    BY <1>1, <1>2, <1>3, <1>4 DEF GInv

-----------------------------------------------------------------------------
(***************************************************************************)
(* Steps of a run that has the backend and keeps it.                       *)
(***************************************************************************)
\* An attempt counts in the usage of the run that makes it.
LEMMA CountedOwn ==
    ASSUME GInv, NEW r \in Runs, at[r] \in Bound, Counted(r) \/ UNCHANGED <<requests, uncounted>>
    PROVE  Counts'
<1> USE StreamAssumption DEF GInv
<1>1. CASE UNCHANGED <<requests, uncounted>>
    BY <1>1 DEF Counts
<1>2. CASE Counted(r) /\ ~Provider(r)
    BY <1>2 DEF Counted, Counts
<1>3. CASE Counted(r) /\ Provider(r)
    <2>1. sink[req[r].backend] = r /\ r # None
        BY <1>3 DEF Sinks
    <2>2. /\ requests' = [requests EXCEPT ![r] = requests[r] \cup {r}]
          /\ uncounted' = [uncounted EXCEPT ![r] = uncounted[r]]
        BY <1>3, <2>1, Zenon DEF Counted, Counts
    <2> QED
        BY <2>2 DEF Counts
<1> QED
    BY <1>1, <1>2, <1>3

\* The run may have new frames, no other run has.
FramesGrow(r) ==
    /\ DOMAIN frames' = Runs
    /\ IsSequence(frames'[r])
    /\ \A u \in Runs \ {r} : frames'[u] = frames[u]

LEMMA WorkInv ==
    ASSUME GInv, NEW r \in Runs, at[r] \in Bound, NEW where \in Bound,
           at' = [at EXCEPT ![r] = where],
           UNCHANGED <<req, gone, lock, sink, sel, cancelFn, reading>>, Counts',
           NEW p \in BOOLEAN, paused' = [paused EXCEPT ![r] = p],
           FramesGrow(r)
    PROVE  GInv'
<1> USE StreamAssumption DEF GInv
<1>1. /\ at'[r] = where /\ IsSequence(frames'[r])
      /\ \A u \in Runs \ {r} : at'[u] = at[u] /\ frames'[u] = frames[u]
      /\ DOMAIN at' = Runs /\ DOMAIN frames' = Runs
    BY DEF Shape, Sent, FramesGrow
<1>2. where \in Working /\ at[r] \in Working /\ where # "done" /\ where \notin {"none"} \cup Ended
      /\ at[r] \notin {"none"} \cup Ended
    BY DEF Working, Bound, Ended
<1>3. Locks'
    BY <1>1, <1>2 DEF Locks
<1>4. Sinks'
    BY <1>1, <1>2 DEF Sinks, Provider
<1>5. Sent'
    BY <1>1, <1>2 DEF Sent
<1>6. Shape'
    BY <1>1, <1>2 DEF Shape
<1> QED
    BY <1>3, <1>4, <1>5, <1>6

LEMMA SilentGrows ==
    ASSUME GInv, NEW r \in Runs, Silent(r)
    PROVE  FramesGrow(r) /\ paused' = [paused EXCEPT ![r] = FALSE]
BY DEF GInv, Sent, Silent, FramesGrow

LEMMA YieldGrows ==
    ASSUME GInv, NEW r \in Runs, NEW S, NEW fs \in Seq(S), Yield(r, fs)
    PROVE  /\ FramesGrow(r) /\ paused' = [paused EXCEPT ![r] = TRUE]
           /\ frames'[r] = frames[r] \o fs
<1>1. frames' = [frames EXCEPT ![r] = frames[r] \o fs] /\ paused' = [paused EXCEPT ![r] = TRUE]
    BY DEF Yield
<1>2. IsSequence(frames[r]) /\ DOMAIN frames = Runs
    BY DEF GInv, Sent
<1>3. PICK T : frames[r] \in Seq(T)
    BY <1>2 DEF IsSequence
<1> DEFINE U == S \cup T
<1>4. frames[r] \in Seq(U) /\ fs \in Seq(U)
    BY <1>3
<1>5. frames[r] \o fs \in Seq(U)
    BY <1>4
<1>6. IsSequence(frames[r] \o fs)
    BY <1>5 DEF IsSequence
<1> QED
    BY <1>1, <1>2, <1>6 DEF FramesGrow

\* The steps of the table of ways to generate.
LEMMA ServeInv ==
    ASSUME GInv, NEW r \in Runs, UNCHANGED pageVars,
           \/ Retry(r) \/ ScorePrompt(r) \/ OpenStream(r) \/ Break(r) \/ Decode(r)
           \/ DecodeEnds(r) \/ Token(r) \/ StreamEnds(r)
    PROVE  GInv'
<1>1. UNCHANGED <<sel, cancelFn, reading>>
    BY DEF pageVars, controlVars
<1>2. at[r] \in Bound
    BY DEF Retry, Asking, ScorePrompt, OpenStream, Break, Decode, DecodeEnds, Token, StreamEnds, Bound
<1>3. UNCHANGED <<req, gone, lock, sink>>
    BY DEF Retry, ScorePrompt, OpenStream, Break, Decode, DecodeEnds, Token, StreamEnds, callVars
<1>4. Counted(r) \/ UNCHANGED <<requests, uncounted>>
    BY DEF Retry, ScorePrompt, OpenStream, Break, Decode, DecodeEnds, Token, StreamEnds, callVars
<1>5. Counts'
    BY <1>2, <1>4, CountedOwn
<1>6. PICK where \in Bound : at' = [at EXCEPT ![r] = where]
    <2>1. CASE Retry(r) \/ Token(r)
        <3>1. at' = at /\ at = [at EXCEPT ![r] = at[r]]
            BY <2>1 DEF Retry, Token, GInv, Shape
        <3> QED
            BY <1>2, <3>1
    <2>2. CASE ScorePrompt(r) \/ OpenStream(r)
        BY <2>2 DEF ScorePrompt, OpenStream, Goto, Bound
    <2>3. CASE Break(r) \/ Decode(r) \/ DecodeEnds(r) \/ StreamEnds(r)
        BY <2>3 DEF Break, Decode, DecodeEnds, StreamEnds, Goto, Bound
    <2> QED
        BY <2>1, <2>2, <2>3
<1>7. Silent(r) \/ \E S : \E fs \in Seq(S) : Yield(r, fs)
    <2>1. CASE Retry(r) \/ OpenStream(r) \/ Break(r) \/ DecodeEnds(r)
        BY <2>1 DEF Retry, OpenStream, Break, DecodeEnds
    <2>2. CASE ScorePrompt(r)
        <3>1. PICK rows \in BOOLEAN : Yield(r, <<Score(rows)>>)
            BY <2>2 DEF ScorePrompt
        <3>2. <<Score(rows)>> \in Seq({Score(rows)})
            OBVIOUS
        <3> QED
            BY <3>1, <3>2
    <2>3. CASE Decode(r)
        <3>1. PICK reason \in Reasons : Yield(r, <<Step(got'[r], reason)>>)
            BY <2>3 DEF Decode
        <3>2. <<Step(got'[r], reason)>> \in Seq({Step(got'[r], reason)})
            OBVIOUS
        <3> QED
            BY <3>1, <3>2
    <2>4. CASE Token(r) \/ StreamEnds(r)
        <3>1. Silent(r) \/ \E reason : Yield(r, Held(r, reason))
            BY <2>4 DEF Token, StreamEnds
        <3>2. ASSUME NEW reason PROVE \E S : Held(r, reason) \in Seq(S)
            <4> DEFINE x == Score(TRUE)
                       y == Step(got[r], reason)
            <4>1. <<>> \in Seq({x, y}) /\ <<x>> \in Seq({x, y}) /\ <<y>> \in Seq({x, y})
                OBVIOUS
            <4> DEFINE a == IF req[r].way = "combined" /\ frames[r] = <<>> THEN <<x>> ELSE <<>>
                       b == IF got[r] > 0 THEN <<y>> ELSE <<>>
            <4>2. Held(r, reason) = a \o b
                BY DEF Held
            <4>3. a \in Seq({x, y}) /\ b \in Seq({x, y})
                BY <4>1
            <4> HIDE DEF a, b
            <4>4. a \o b \in Seq({x, y})
                BY <4>3
            <4> QED
                BY <4>2, <4>4
        <3> QED
            BY <3>1, <3>2
    <2> QED
        BY <2>1, <2>2, <2>3, <2>4
<1>8. FramesGrow(r) /\ \E p \in BOOLEAN : paused' = [paused EXCEPT ![r] = p]
    BY <1>7, SilentGrows, YieldGrows
<1> QED
    BY <1>1, <1>2, <1>3, <1>5, <1>6, <1>8, WorkInv

-----------------------------------------------------------------------------
(***************************************************************************)
(* A run takes the backend, closes its stream, and lets the backend go.    *)
(***************************************************************************)
LEMMA AcquireInv == ASSUME GInv, NEW r \in Runs, UNCHANGED pageVars, Acquire(r) PROVE GInv'
<1> USE StreamAssumption DEF GInv
<1> DEFINE b == req[r].backend
<1>1. PICK where \in Bound : at' = [at EXCEPT ![r] = where]
    BY DEF Acquire, Goto, Bound
<1>2. /\ at[r] = "queued" /\ lock[b] = None
      /\ lock' = [lock EXCEPT ![b] = r]
      /\ sink' = IF Provider(r) THEN [sink EXCEPT ![b] = r] ELSE sink
      /\ UNCHANGED <<req, gone, requests, uncounted, sel, cancelFn, reading>>
    BY DEF Acquire, Lock, pageVars, controlVars
<1>3. FramesGrow(r) /\ paused' = [paused EXCEPT ![r] = FALSE]
    BY SilentGrows DEF Acquire
<1>4. b \in Backends
    BY <1>2 DEF Shape, Ended
<1> HIDE DEF b
<1>5. /\ at'[r] = where /\ where \in Working /\ where # "done"
      /\ \A u \in Runs \ {r} : at'[u] = at[u] /\ frames'[u] = frames[u]
      /\ at[r] \notin Working
    BY <1>1, <1>2, <1>3 DEF Shape, Working, Bound, FramesGrow
<1>6. /\ lock'[b] = r /\ \A c \in Backends \ {b} : lock'[c] = lock[c]
      /\ DOMAIN lock' = Backends /\ r # None
    BY <1>2, <1>4 DEF Locks
<1>7. \A u \in Runs : ~(at[u] \in Working /\ req[u].backend = b)
    BY <1>2, <1>4 DEF Locks
<1>8. sink[b] = None
    BY <1>2, <1>4 DEF Sinks
<1>9. /\ DOMAIN sink' = Backends /\ \A c \in Backends \ {b} : sink'[c] = sink[c]
      /\ sink'[b] = IF Provider(r) THEN r ELSE None
    BY <1>2, <1>4, <1>8 DEF Sinks
<1>10. Locks'
    BY <1>2, <1>5, <1>6, <1>7 DEF Locks, b
<1>11. Sinks'
    <2>1. \A u \in Runs : Provider(u)' = Provider(u)
        BY <1>2 DEF Provider
    <2>2. Provider(r) => b \in Providers
        BY DEF Provider, b
    <2>3. \A c \in Backends : sink'[c] # None => lock'[c] = sink'[c] /\ c \in Providers
        BY <1>6, <1>9, <2>2 DEF Sinks
    <2>4. \A u \in Runs \ {r} : at[u] \in Working => req[u].backend # b /\ req[u].backend \in Backends
        BY <1>7 DEF Shape, Working, Bound, Ended
    <2>5. ASSUME NEW u \in Runs, at'[u] \in Bound, Provider(u) PROVE sink'[req'[u].backend] = u
        BY <1>2, <1>5, <1>9, <2>4, <2>5 DEF Sinks, b, Working
    <2>6. ASSUME NEW u \in Runs, at'[u] = "done" PROVE sink'[req'[u].backend] = None
        BY <1>2, <1>5, <1>9, <2>4, <2>6 DEF Sinks, Working
    <2> QED
        BY <1>9, <2>1, <2>3, <2>5, <2>6 DEF Sinks
<1>12. Counts'
    BY <1>2 DEF Counts
<1>13. Sent'
    BY <1>3, <1>5 DEF Sent, FramesGrow
<1>14. Shape'
    BY <1>1, <1>2, <1>3, <1>4, <1>5 DEF Shape, b
<1> QED
    BY <1>10, <1>11, <1>12, <1>13, <1>14

LEMMA CloseInv == ASSUME GInv, NEW r \in Runs, UNCHANGED pageVars, Close(r) PROVE GInv'
<1> USE StreamAssumption DEF GInv
<1> DEFINE b == req[r].backend
           x == Usage(requests[r])
           y == Done(LastReason(r), failed[r])
<1>1. /\ at[r] = "close" /\ at' = [at EXCEPT ![r] = "done"]
      /\ sink' = IF Provider(r) THEN [sink EXCEPT ![b] = None] ELSE sink
      /\ UNCHANGED <<req, gone, lock, requests, uncounted, sel, cancelFn, reading>>
    BY DEF Close, Goto, Unbind, pageVars, controlVars
<1>2. Yield(r, <<x, y>>) /\ x.requests = requests[r]
    BY DEF Close, Usage
<1> HIDE DEF x, y
<1>3. <<x, y>> \in Seq({x, y})
    OBVIOUS
<1>4. FramesGrow(r) /\ paused' = [paused EXCEPT ![r] = TRUE] /\ frames'[r] = frames[r] \o <<x, y>>
    BY <1>2, <1>3, YieldGrows
<1>5. b \in Backends /\ lock[b] = r
    BY <1>1 DEF Shape, Ended, Locks, Working, Bound
<1> HIDE DEF b
<1>6. /\ at'[r] = "done" /\ at[r] \in Working /\ "done" \in Working /\ at[r] \in Bound
      /\ "done" \notin Bound
      /\ \A u \in Runs \ {r} : at'[u] = at[u] /\ frames'[u] = frames[u]
    BY <1>1, <1>4 DEF Shape, Working, Bound, FramesGrow
<1>7. sink'[b] = None /\ DOMAIN sink' = Backends /\ \A c \in Backends \ {b} : sink'[c] = sink[c]
    <2>1. ~Provider(r) => sink[b] = None
        BY <1>5 DEF Sinks, Provider, b
    <2> QED
        BY <1>1, <1>5, <2>1 DEF Sinks
<1>8. Locks'
    BY <1>1, <1>6 DEF Locks
<1>9. Sinks'
    <2>1. \A u \in Runs \ {r} : at[u] \in Working => req[u].backend # b /\ req[u].backend \in Backends
        BY <1>5 DEF Locks, Shape, Working, Bound, Ended
    <2>2. ASSUME NEW u \in Runs, at'[u] \in Bound, Provider(u)' PROVE sink'[req'[u].backend] = u
        <3>1. u # r /\ at[u] \in Working /\ at[u] \in Bound /\ Provider(u)
            BY <1>1, <1>6, <2>2 DEF Working, Provider
        <3> QED
            BY <1>1, <1>7, <2>1, <3>1 DEF Sinks
    <2>3. ASSUME NEW u \in Runs, at'[u] = "done" PROVE sink'[req'[u].backend] = None
        <3>1. CASE u = r
            BY <1>1, <1>7, <3>1 DEF b
        <3>2. CASE u # r
            BY <1>1, <1>6, <1>7, <2>1, <2>3, <3>2 DEF Sinks
        <3> QED
            BY <3>1, <3>2
    <2>4. \A c \in Backends : sink'[c] # None => lock'[c] = sink'[c] /\ c \in Providers
        BY <1>1, <1>7 DEF Sinks
    <2> QED
        BY <1>7, <2>2, <2>3, <2>4 DEF Sinks
<1>10. Counts'
    BY <1>1 DEF Counts
<1>11. Sent'
    <2>1. IsSequence(frames[r])
        BY DEF Sent
    <2>2. /\ Len(frames'[r]) = Len(frames[r]) + 2 /\ Len(frames[r]) \in Nat
          /\ frames'[r][Len(frames[r]) + 1] = x
        BY <1>4, <2>1, SequencesGrow
    <2>3. Len(frames'[r]) >= 2 /\ Len(frames'[r]) - 1 = Len(frames[r]) + 1
        BY <2>2
    <2>4. frames'[r][Len(frames'[r]) - 1].requests \subseteq {r}
        BY <1>2, <2>2, <2>3 DEF Counts
    <2> QED
        BY <1>4, <1>6, <2>3, <2>4 DEF Sent, FramesGrow
<1>12. Shape'
    BY <1>1, <1>4, <1>6 DEF Shape, Ended, Working
<1> QED
    BY <1>8, <1>9, <1>10, <1>11, <1>12

\* What a side that leaves does to a run.
LEMMA GoneDoes ==
    ASSUME GInv, NEW r \in Runs, NEW where, NEW left, Gone(r, where, left)
    PROVE  /\ at' = [at EXCEPT ![r] = where]
           /\ DOMAIN req' = Runs /\ DOMAIN gone' = Runs
           /\ \A u \in Runs : req'[u].backend = req[u].backend
           /\ FramesGrow(r) /\ (where # "none" => frames' = frames)
<1> USE DEF GInv
<1>1. DOMAIN gone' = Runs /\ at' = [at EXCEPT ![r] = where]
    BY DEF Gone, Shape
<1>2. Remains(r).backend = req[r].backend
    BY DEF Remains, Blank
<1>3. DOMAIN req' = Runs /\ \A u \in Runs : req'[u].backend = req[u].backend
    <2>1. CASE where = "none"
        <3>1. req' = [req EXCEPT ![r] = Remains(r)]
            BY <2>1 DEF Gone
        <3> QED
            BY <1>2, <3>1 DEF Shape
    <2>2. CASE where # "none"
        BY <2>2 DEF Gone, Shape
    <2> QED
        BY <2>1, <2>2
<1>4. FramesGrow(r) /\ (where # "none" => frames' = frames)
    <2>1. CASE where = "none"
        <3>1. frames' = [frames EXCEPT ![r] = <<>>]
            BY <2>1 DEF Gone
        <3>2. IsSequence(<<>>)
            <4>1. <<>> \in Seq({})
                OBVIOUS
            <4> QED
                BY <4>1 DEF IsSequence
        <3> QED
            BY <2>1, <3>1, <3>2 DEF Sent, FramesGrow
    <2>2. CASE where # "none"
        BY <2>2 DEF Gone, Sent, FramesGrow
    <2> QED
        BY <2>1, <2>2
<1> QED
    BY <1>1, <1>3, <1>4

\* A run ends, and lets go of the backend if it has it.
LEMMA LetGoInv ==
    ASSUME GInv, NEW r \in Runs, NEW where \in {"none"} \cup Ended, NEW left, Gone(r, where, left),
           paused' = [paused EXCEPT ![r] = FALSE], Counts',
           DOMAIN lock' = Backends, DOMAIN sink' = Backends,
           \A c \in Backends :
               /\ lock'[c] = IF at[r] \in Working /\ c = req[r].backend THEN None ELSE lock[c]
               /\ sink'[c] = IF at[r] \in Working /\ c = req[r].backend THEN None ELSE sink[c],
           sel' \in Backends, cancelFn' \in Runs \cup {None}, reading' \subseteq Runs
    PROVE  GInv'
<1> USE StreamAssumption DEF GInv
<1>1. /\ at' = [at EXCEPT ![r] = where]
      /\ DOMAIN req' = Runs /\ DOMAIN gone' = Runs
      /\ \A u \in Runs : req'[u].backend = req[u].backend
      /\ FramesGrow(r)
    BY GoneDoes
<1>2. /\ at'[r] = where /\ where \notin Working
      /\ \A u \in Runs \ {r} : at'[u] = at[u]
    BY <1>1 DEF Shape, Working, Bound, Ended
<1>3. \A u \in Runs : Provider(u)' = Provider(u)
    BY <1>1 DEF Provider
<1>4. \A u \in Runs \ {r} : at[u] \in Working =>
          /\ req[u].backend \in Backends
          /\ ~(at[r] \in Working /\ req[u].backend = req[r].backend)
    BY DEF Locks, Shape, Working, Bound, Ended
<1>5. Locks'
    <2>1. ASSUME NEW u \in Runs, NEW c \in Backends
          PROVE  (at'[u] \in Working /\ req'[u].backend = c) <=> lock'[c] = u
        <3>1. CASE u = r
            BY <1>1, <1>2, <3>1 DEF Locks
        <3>2. CASE u # r
            BY <1>1, <1>2, <1>4, <3>2 DEF Locks
        <3> QED
            BY <3>1, <3>2
    <2> QED
        BY <2>1 DEF Locks
<1>6. Sinks'
    <2>1. \A c \in Backends : sink'[c] # None => lock'[c] = sink'[c] /\ c \in Providers
        BY DEF Sinks
    <2>2. ASSUME NEW u \in Runs, at'[u] \in Working
          PROVE  u # r /\ at'[u] = at[u] /\ sink'[req'[u].backend] = sink[req[u].backend]
        BY <1>1, <1>2, <1>4, <2>2
    <2>3. ASSUME NEW u \in Runs, at'[u] \in Bound, Provider(u) PROVE sink'[req'[u].backend] = u
        BY <2>2, <2>3 DEF Sinks, Working
    <2>4. ASSUME NEW u \in Runs, at'[u] = "done" PROVE sink'[req'[u].backend] = None
        BY <2>2, <2>4 DEF Sinks, Working
    <2> QED
        BY <1>3, <2>1, <2>3, <2>4 DEF Sinks
<1>7. Sent'
    BY <1>1, <1>2 DEF Sent, FramesGrow, Working
<1>8. Shape'
    BY <1>1, <1>2 DEF Shape
<1> QED
    BY <1>5, <1>6, <1>7, <1>8

\* The finally clause, at the end of the stream or at a yield.
LEMMA ReturnInv == ASSUME GInv, NEW r \in Runs, UNCHANGED pageVars, Return(r) \/ Abandon(r) PROVE GInv'
<1> USE StreamAssumption DEF GInv
<1>1. PICK where \in {"none"} \cup Ended, left \in BOOLEAN : Gone(r, where, left)
    BY DEF Return, Abandon, End, Ended
<1>2. /\ requests' = [requests EXCEPT ![r] = {}] /\ uncounted' = [uncounted EXCEPT ![r] = FALSE]
      /\ paused' = [paused EXCEPT ![r] = FALSE]
    BY DEF Return, Abandon, Forget
<1>3. Counts'
    BY <1>2 DEF Counts
<1>4. UNCHANGED <<sel, cancelFn, reading>>
    BY DEF pageVars, controlVars
<1>5. sel' \in Backends /\ cancelFn' \in Runs \cup {None} /\ reading' \subseteq Runs
    BY <1>4 DEF Shape
<1> DEFINE b == req[r].backend
<1>6. CASE Return(r)
    <2>1. at[r] = "done" /\ lock' = [lock EXCEPT ![b] = None] /\ sink' = sink
        BY <1>6 DEF Return
    <2>2. at[r] \in Working /\ sink[b] = None
        BY <2>1 DEF Working, Sinks
    <2> QED
        BY <1>1, <1>2, <1>3, <1>5, <2>1, <2>2, LetGoInv DEF Locks, Sinks
<1>7. CASE Abandon(r) /\ at[r] = "queued"
    <2>1. lock' = lock /\ sink' = sink /\ at[r] \notin Working
        BY <1>7 DEF Abandon, Working, Bound
    <2> QED
        BY <1>1, <1>2, <1>3, <1>5, <2>1, LetGoInv DEF Locks, Sinks
<1>8. CASE Abandon(r) /\ at[r] # "queued"
    <2>1. at[r] \in Working /\ lock' = [lock EXCEPT ![b] = None]
        BY <1>8 DEF Abandon, Shape
    <2>2. b \in Backends
        BY <2>1 DEF Shape, Working, Bound, Ended
    <2>3. DOMAIN sink' = Backends /\ \A c \in Backends : sink'[c] = IF c = b THEN None ELSE sink[c]
        <3>1. CASE at[r] = "done"
            BY <1>8, <3>1 DEF Abandon, Sinks
        <3>2. CASE at[r] # "done" /\ Provider(r)
            <4>1. sink' = [sink EXCEPT ![b] = None]
                BY <1>8, <3>2 DEF Abandon, Unbind
            <4> QED
                BY <4>1 DEF Sinks
        <3>3. CASE at[r] # "done" /\ ~Provider(r)
            <4>1. sink' = sink
                BY <1>8, <3>3 DEF Abandon, Unbind
            <4>2. sink[b] = None
                BY <2>2, <3>3 DEF Sinks, Provider
            <4> QED
                BY <4>1, <4>2 DEF Sinks
        <3> QED
            BY <3>1, <3>2, <3>3
    <2>4. DOMAIN lock' = Backends /\ \A c \in Backends : lock'[c] = IF c = b THEN None ELSE lock[c]
        BY <2>1, <2>2 DEF Locks
    <2>5. \A c \in Backends :
               /\ lock'[c] = IF at[r] \in Working /\ c = req[r].backend THEN None ELSE lock[c]
               /\ sink'[c] = IF at[r] \in Working /\ c = req[r].backend THEN None ELSE sink[c]
        BY <2>1, <2>3, <2>4
    <2> HIDE DEF b
    <2> QED
        BY <1>1, <1>2, <1>3, <1>5, <2>3, <2>4, <2>5, LetGoInv
<1> QED
    BY <1>6, <1>7, <1>8

\* Before a run has the backend.
LEMMA CheckInv == ASSUME GInv, NEW r \in Runs, UNCHANGED pageVars, Check(r) PROVE GInv'
<1> USE StreamAssumption DEF GInv
<1>1. /\ at[r] = "check" /\ UNCHANGED <<paused, lock, sink, requests, uncounted, sel, cancelFn, reading>>
      /\ at[r] \notin Working
    BY DEF Check, callVars, pageVars, controlVars, Working, Bound
<1>2. Counts'
    BY <1>1 DEF Counts
<1>3. CASE Goto(r, "queued") /\ UNCHANGED <<req, gone, frames>>
    <2>1. at' = [at EXCEPT ![r] = "queued"] /\ "queued" \notin Working /\ "queued" \notin {"none"} \cup Ended
          /\ req[r].backend \in Backends
        BY <1>1, <1>3 DEF Goto, Working, Bound, Ended, Shape
    <2>2. at'[r] = "queued" /\ \A u \in Runs \ {r} : at'[u] = at[u]
        BY <2>1 DEF Shape
    <2>3. Locks'
        BY <1>1, <1>3, <2>1, <2>2 DEF Locks
    <2>4. Sinks'
        BY <1>1, <1>3, <2>1, <2>2 DEF Sinks, Provider, Working
    <2>5. Sent'
        BY <1>3, <2>2 DEF Sent
    <2>6. Shape'
        BY <1>1, <1>3, <2>1, <2>2 DEF Shape
    <2> QED
        BY <1>2, <2>3, <2>4, <2>5, <2>6
<1>4. CASE End(r, "refused")
    <2>1. PICK where \in {"none"} \cup Ended : Gone(r, where, FALSE)
        BY <1>4 DEF End, Ended
    <2>2. paused' = [paused EXCEPT ![r] = FALSE]
        BY <1>1 DEF Shape
    <2> QED
        BY <1>1, <1>2, <2>1, <2>2, LetGoInv DEF Locks, Sinks, Shape
<1> QED
    BY <1>3, <1>4 DEF Check

-----------------------------------------------------------------------------
(***************************************************************************)
(* The page.                                                               *)
(***************************************************************************)
\* A request takes the place of a run that nothing is left of.
LEMMA PostInv ==
    ASSUME GInv, NEW r \in Fresh, NEW q, q.backend \in Backends, Post(r, q),
           UNCHANGED <<paused, gone, callVars, frames, sel>>,
           cancelFn' \in Runs \cup {None}, reading' \subseteq Runs
    PROVE  GInv'
<1> USE StreamAssumption DEF GInv, callVars
<1>1. r \in Runs /\ at[r] = "none" /\ at' = [at EXCEPT ![r] = "check"] /\ req' = [req EXCEPT ![r] = q]
    BY DEF Fresh, Post, Goto
<1>2. at[r] \notin Working /\ "check" \notin Working /\ "check" \notin {"none"} \cup Ended
    BY <1>1 DEF Working, Bound, Ended
<1>3. /\ at'[r] = "check" /\ req'[r] = q
      /\ \A u \in Runs \ {r} : at'[u] = at[u] /\ req'[u] = req[u]
    BY <1>1 DEF Shape
<1>4. Locks'
    BY <1>1, <1>2, <1>3 DEF Locks
<1>5. Sinks'
    BY <1>1, <1>2, <1>3 DEF Sinks, Provider, Working
<1>6. Counts' /\ Sent'
    BY <1>2, <1>3 DEF Counts, Sent
<1>7. Shape'
    BY <1>1, <1>2, <1>3 DEF Shape
<1> QED
    BY <1>4, <1>5, <1>6, <1>7

LEMMA BeginInv ==
    ASSUME GInv, NEW manual, NEW want, NEW include, NEW prefix, NEW reset, NEW others,
           Begin(manual, want, include, prefix, reset, others)
    PROVE  GInv'
<1>1. PICK r \in Fresh, support \in Supports :
          /\ Post(r, [backend |-> sel, way |-> Way(sel, include, support),
                      include |-> include, want |-> want,
                      prefix |-> prefix, manual |-> manual])
          /\ cancelFn' = r
          /\ reading' = reading \cup {r}
    BY DEF Begin
<1>2. UNCHANGED <<paused, gone, callVars, frames, sel>>
    BY DEF Begin
<1>3. r \in Runs /\ reading' \subseteq Runs /\ cancelFn' \in Runs \cup {None} /\ sel \in Backends
    BY <1>1 DEF Fresh, GInv, Shape
<1> QED
    BY <1>1, <1>2, <1>3, PostInv

\* The page lets a connection go.
LEMMA LeaveInv ==
    ASSUME GInv, NEW r \in Runs, Leave(r), UNCHANGED <<paused, callVars>>,
           sel' \in Backends, cancelFn' \in Runs \cup {None}, reading' \subseteq Runs
    PROVE  GInv'
<1> USE DEF GInv, callVars
<1>1. Counts'
    BY DEF Counts
<1>2. CASE at[r] \in {"none"} \cup Ended
    <2>1. PICK left \in BOOLEAN : Gone(r, "none", left)
        BY <1>2 DEF Leave
    <2>2. at[r] \notin Working
        BY <1>2 DEF Working, Bound, Ended
    <2>3. paused' = [paused EXCEPT ![r] = FALSE]
        BY <2>2 DEF Shape
    <2> QED
        BY <1>1, <2>1, <2>2, <2>3, LetGoInv DEF Locks, Sinks
<1>3. CASE at[r] \notin {"none"} \cup Ended
    <2>1. Gone(r, at[r], TRUE)
        BY <1>3 DEF Leave
    <2>2. at' = at /\ UNCHANGED <<req, frames>> /\ DOMAIN gone' = Runs
        BY <1>3, <2>1 DEF Gone, Shape
    <2> QED
        BY <1>1, <2>2 DEF Locks, Sinks, Sent, Shape, Provider
<1> QED
    BY <1>2, <1>3

\* Nothing of the streams changes.
LEMMA StillInv ==
    ASSUME GInv, UNCHANGED <<req, at, paused, gone, callVars, frames>>,
           sel' \in Backends, cancelFn' \in Runs \cup {None}, reading' \subseteq Runs
    PROVE  GInv'
BY DEF GInv, Locks, Sinks, Counts, Sent, Shape, Provider, callVars

LEMMA AbortInv ==
    ASSUME GInv, Abort, UNCHANGED <<paused, callVars>>, sel' \in Backends
    PROVE  GInv'
<1>1. CASE cancelFn = None
    <2>1. UNCHANGED <<req, at, gone, frames, reading, cancelFn>>
        BY <1>1 DEF Abort, connection
    <2> QED
        BY <2>1, StillInv DEF GInv, Shape
<1>2. CASE cancelFn # None
    <2>1. Leave(cancelFn) /\ cancelFn' = None /\ reading' \subseteq reading
        BY <1>2 DEF Abort, Disconnect, Finally
    <2>2. cancelFn \in Runs /\ reading' \subseteq Runs
        BY <1>2, <2>1 DEF GInv, Shape
    <2> QED
        BY <2>1, <2>2, LeaveInv
<1> QED
    BY <1>1, <1>2

LEMMA PageInv ==
    ASSUME GInv,
           \/ Generate \/ EnterManual \/ ExitManual \/ Pick \/ Undo
           \/ ForceText \/ ForceTextArrives \/ ForceTextFails \/ Cancel \/ Switch
    PROVE  GInv'
<1>1. CASE Generate \/ EnterManual \/ Pick \/ Undo \/ ForceTextArrives
    BY <1>1, BeginInv DEF Generate, EnterManual, Pick, Undo, ForceTextArrives, FetchNext
<1>2. CASE ExitManual \/ ForceText \/ ForceTextFails
    BY <1>2, StillInv DEF ExitManual, ForceText, ForceTextFails, streamVars, controlVars, GInv, Shape
<1>3. CASE Cancel
    BY <1>3, AbortInv DEF Cancel, GInv, Shape
<1>4. CASE Switch
    <2>1. sel' \in Backends /\ UNCHANGED <<paused, callVars>>
        BY <1>4 DEF Switch
    <2>2. Abort \/ UNCHANGED <<req, at, gone, frames, cancelFn, reading>>
        BY <1>4 DEF Switch, connection
    <2> QED
        BY <2>1, <2>2, AbortInv, StillInv DEF GInv, Shape
<1> QED
    BY <1>1, <1>2, <1>3, <1>4

LEMMA ReadingInv == ASSUME GInv, NEW r \in Runs, Read(r) \/ ReadEnd(r) \/ Drop(r) PROVE GInv'
<1>1. CASE Read(r)
    BY <1>1, StillInv DEF Read, streamVars, GInv, Shape
<1>2. CASE ReadEnd(r) \/ Drop(r)
    <2>1. /\ Leave(r) /\ UNCHANGED <<paused, callVars, sel>>
          /\ cancelFn' = None /\ reading' \subseteq reading
        BY <1>2 DEF ReadEnd, Drop, Disconnect, Finally
    <2> QED
        BY <2>1, LeaveInv DEF GInv, Shape
<1> QED
    BY <1>1, <1>2

LEMMA GInvNext == GInv /\ [Next]_vars => GInv'
<1> SUFFICES ASSUME GInv, [Next]_vars PROVE GInv'
    OBVIOUS
<1>1. CASE UNCHANGED vars
    BY <1>1, StillInv DEF vars, streamVars, pageVars, controlVars, GInv, Shape
<1>2. ASSUME NEW r \in Runs, Serves(r) PROVE GInv'
    BY <1>2, CheckInv, AcquireInv, ServeInv, CloseInv, ReturnInv DEF Serves, Serve
<1>3. ASSUME NEW r \in Runs, Read(r) \/ ReadEnd(r) \/ Drop(r) PROVE GInv'
    BY <1>3, ReadingInv
<1> QED
    BY <1>1, <1>2, <1>3, PageInv DEF Next

-----------------------------------------------------------------------------
\* Of generate_stream, stream_generate and the page together.
THEOREM StreamsInvariant == Spec => []GInv
<1> QED
    BY GInvInit, GInvNext, PTL DEF Spec

\* One run at a time uses a backend, under the lock of its name; a run that is
\* over, stopped at a yield or was never served has no lock; and the usage frame
\* of a run counts its own HTTP attempts and no other's (generate_stream,
\* stream_generate 124-136, core/usage.py).
THEOREM RunsAreApart == Spec => []RunsStayApart
<1> QED
    BY StreamsInvariant, GInvImplies, PTL

-----------------------------------------------------------------------------
(***************************************************************************)
(* What the page shows.                                                    *)
(***************************************************************************)
\* A run that the page reads is known to the middleware, and the page has let
\* go of no other one that it reads from.
Readable ==
    /\ DOMAIN taken = Runs
    /\ \A r \in reading : at[r] # "none" /\ ~gone[r]
    /\ \A r \in Runs : at[r] = "none" => ~gone[r]

Button ==
    /\ cancelFn # None => cancelFn \in reading
    /\ busy => UnderWay
    /\ ~overlapped => (\A r \in reading : busy /\ cancelFn = r) /\ (forcing > 0 => reading = {})

\* Once the selection is not the last run's any more, nothing of it is left.
Owners ==
    /\ ~strayed => \A r \in reading \cup Shown : req[r].backend = sel
    /\ ~strayed /\ sel # producedKey => reading = {} /\ Shown = {}

\* Without overlaps the tables are a manual session's, or those of one run.
Tables ==
    ~mixed => \/ steps = {} /\ \A r \in reading : req[r].manual
              \/ /\ ~manualMode /\ forcing = 0 /\ latest # None
                 /\ reading \subseteq {latest} /\ steps \subseteq {latest}
                 /\ promptSteps \in {None, latest}

Picker == manualMode => latest # None /\ req[latest].prefix = picks

Names ==
    /\ steps \subseteq Runs /\ promptSteps \in Runs \cup {None}
    /\ dist \in Runs \cup {None} /\ latest \in Runs \cup {None}
    /\ forcing \in Nat

PInv == Names /\ Readable /\ Button /\ Owners /\ Tables /\ Picker

LEMMA PInvImplies == PInv => ScreenIsOwn /\ StopWorks /\ PickerIsCurrent
<1> SUFFICES ASSUME PInv PROVE ScreenIsOwn /\ StopWorks /\ PickerIsCurrent
    OBVIOUS
<1> USE StreamAssumption DEF PInv
<1>1. ScreenIsOwn
    <2>1. ~strayed => \A r \in Shown : req[r].backend = sel
        BY DEF Owners
    <2>2. ASSUME ~mixed, steps # {} PROVE \E r \in Runs : Shown = {r}
        <3>1. ~manualMode /\ latest # None /\ steps \subseteq {latest} /\ promptSteps \in {None, latest}
            BY <2>2 DEF Tables
        <3>2. Shown = {latest} /\ latest \in Runs
            BY <2>2, <3>1 DEF Shown, Names
        <3> QED
            BY <3>2
    <2> QED
        BY <2>1, <2>2 DEF ScreenIsOwn
<1>2. StopWorks
    BY DEF Button, StopWorks, UnderWay
<1>3. PickerIsCurrent
    BY DEF Picker, PickerIsCurrent
<1> QED
    BY <1>1, <1>2, <1>3

LEMMA PInvInit == Init => PInv
<1> SUFFICES ASSUME Init PROVE PInv
    OBVIOUS
<1> USE StreamAssumption DEF Init, StreamInit
<1>1. Shown = {}
    BY DEF Shown
<1>2. Names /\ Readable /\ Button /\ Tables /\ Picker
    BY DEF Names, Readable, Button, Tables, Picker, UnderWay
<1>3. Owners
    BY <1>1 DEF Owners
<1> QED
    BY <1>2, <1>3 DEF PInv

\* The backend and the prefix of a run outlive it.
Kept(r) == req'[r].backend = req[r].backend /\ req'[r].prefix = req[r].prefix

\* What a step of the middleware, or a connection that is let go, does to r.
Moves(r) ==
    /\ \A u \in Runs \ {r} : at'[u] = at[u] /\ gone'[u] = gone[u] /\ req'[u] = req[u]
    /\ Kept(r)
    /\ at'[r] = "none" => ~gone'[r]

LEMMA GoneMoves ==
    ASSUME GInv, NEW r \in Runs, NEW where, NEW left, Gone(r, where, left), where = "none" => ~left
    PROVE  Moves(r) /\ at'[r] = where /\ (gone'[r] <=> left) /\ (where # "none" => req' = req)
<1>1. at' = [at EXCEPT ![r] = where] /\ gone' = [gone EXCEPT ![r] = left]
      /\ req' = IF where = "none" THEN [req EXCEPT ![r] = Remains(r)] ELSE req
    BY DEF Gone
<1>2. DOMAIN at = Runs /\ DOMAIN gone = Runs /\ DOMAIN req = Runs
    BY DEF GInv, Shape
<1>3. Remains(r).backend = req[r].backend /\ Remains(r).prefix = req[r].prefix
    BY DEF Remains, Blank
<1> QED
    BY <1>1, <1>2, <1>3 DEF Moves, Kept

LEMMA ServeMoves ==
    ASSUME GInv, NEW r \in Runs, Serve(r)
    PROVE  /\ Moves(r) /\ at[r] # "none"
           /\ ~gone[r] => at'[r] # "none" /\ ~gone'[r] /\ req'[r] = req[r]
<1> USE DEF GInv
<1>1. CASE \/ Acquire(r) \/ Retry(r) \/ ScorePrompt(r) \/ OpenStream(r)
           \/ Break(r) \/ Decode(r) \/ DecodeEnds(r) \/ Token(r) \/ StreamEnds(r) \/ Close(r)
    <2>1. UNCHANGED <<req, gone>> /\ at[r] # "none"
        BY <1>1 DEF Acquire, Retry, Asking, ScorePrompt, OpenStream, Break, Decode, DecodeEnds, Token, StreamEnds, Close
    <2>2. \E where : where # "none" /\ at' = [at EXCEPT ![r] = where]
        <3>1. CASE Retry(r) \/ Token(r)
            <4>1. at' = at /\ at = [at EXCEPT ![r] = at[r]]
                BY <3>1 DEF Retry, Token, GInv, Shape
            <4> QED
                BY <2>1, <4>1
        <3>2. CASE ScorePrompt(r) \/ OpenStream(r) \/ Acquire(r) \/ Close(r)
            BY <3>2 DEF ScorePrompt, OpenStream, Acquire, Close, Goto
        <3>3. CASE Break(r) \/ Decode(r) \/ DecodeEnds(r) \/ StreamEnds(r)
            BY <3>3 DEF Break, Decode, DecodeEnds, StreamEnds, Goto
        <3> QED
            BY <1>1, <3>1, <3>2, <3>3
    <2> QED
        BY <2>1, <2>2 DEF Shape, Moves, Kept
<1>2. CASE Check(r) /\ Goto(r, "queued") /\ UNCHANGED <<req, gone, frames>>
    BY <1>2 DEF Check, Goto, Shape, Moves, Kept
<1>3. CASE (Check(r) /\ End(r, "refused")) \/ Return(r) \/ Abandon(r)
    <2>1. PICK where \in Ended : End(r, where)
        BY <1>3 DEF Check, Return, Abandon, Ended
    <2>2. at[r] # "none"
        BY <1>3 DEF Check, Return, Abandon, Shape, Working, Bound
    <2>3. where # "none"
        BY DEF Ended
    <2>4. CASE gone[r]
        <3>1. Gone(r, "none", FALSE)
            BY <2>1, <2>4 DEF End
        <3> QED
            BY <2>2, <2>4, <3>1, GoneMoves
    <2>5. CASE ~gone[r]
        <3>1. Gone(r, where, FALSE)
            BY <2>1, <2>5 DEF End
        <3> QED
            BY <2>2, <2>3, <3>1, GoneMoves
    <2> QED
        BY <2>4, <2>5
<1> QED
    BY <1>1, <1>2, <1>3 DEF Serve, Check

LEMMA ServePInv == ASSUME GInv, PInv, NEW r \in Runs, Serves(r) PROVE PInv'
<1>1. /\ Moves(r) /\ at[r] # "none"
      /\ ~gone[r] => at'[r] # "none" /\ ~gone'[r] /\ req'[r] = req[r]
    BY ServeMoves DEF Serves
<1>2. /\ UNCHANGED <<sel, taken, steps, promptSteps, dist, manualMode, picks, forcing>>
      /\ UNCHANGED <<producedKey, busy, cancelFn, reading, latest, overlapped, mixed, strayed>>
    BY DEF Serves, pageVars, outputVars, manualVars, controlVars, ghosts
<1>3. Shown' = Shown /\ UnderWay' = UnderWay
    BY <1>2 DEF Shown, UnderWay
<1>4. reading \subseteq Runs /\ Shown \subseteq Runs
    BY DEF GInv, Shape, PInv, Names, Shown
<1>5. \A u \in Runs : Kept(u)
    BY <1>1 DEF Moves, Kept
<1>6. \A u \in reading : req'[u] = req[u]
    BY <1>1, <1>4 DEF Moves, PInv, Readable
<1>7. Names' /\ Button'
    BY <1>2, <1>3 DEF PInv, Names, Button
<1>8. Readable'
    BY <1>1, <1>2, <1>4 DEF PInv, Readable, Moves
<1>9. Owners'
    BY <1>2, <1>3, <1>4, <1>5 DEF PInv, Owners, Kept
<1>10. Tables'
    BY <1>2, <1>6 DEF PInv, Tables
<1>11. Picker'
    BY <1>2, <1>5 DEF PInv, Picker, Kept, Names
<1> QED
    BY <1>7, <1>8, <1>9, <1>10, <1>11 DEF PInv

\* The handlers that begin a run; others tells what else is under way.
LEMMA BeginPInv ==
    ASSUME GInv, PInv, NEW manual \in BOOLEAN, NEW want, NEW include, NEW prefix,
           NEW reset \in BOOLEAN, NEW others \in BOOLEAN,
           Begin(manual, want, include, prefix, reset, others),
           ~others => reading = {} /\ forcing' = 0, forcing' \in Nat,
           manual => manualMode \/ forcing > 0 \/ reset,
           ~manual => reset /\ ~manualMode',
           manualMode' => prefix = picks' /\ (dist' = None \/ (manualMode /\ dist' = dist)),
           dist' \in {dist, None}
    PROVE  PInv'
<1> USE StreamAssumption DEF PInv
<1>1. PICK r \in Fresh, support \in Supports :
          /\ Post(r, [backend |-> sel, way |-> Way(sel, include, support),
                      include |-> include, want |-> want,
                      prefix |-> prefix, manual |-> manual])
          /\ cancelFn' = r /\ latest' = r
          /\ reading' = reading \cup {r}
    BY DEF Begin
<1> DEFINE q == [backend |-> sel, way |-> Way(sel, include, support),
                 include |-> include, want |-> want, prefix |-> prefix, manual |-> manual]
<1>2. q.backend = sel /\ q.prefix = prefix /\ q.manual = manual
    OBVIOUS
<1>3. r \in Runs /\ at[r] = "none" /\ r \notin steps \cup {promptSteps, dist, latest}
    BY <1>1 DEF Fresh
<1>4. /\ at' = [at EXCEPT ![r] = "check"] /\ req' = [req EXCEPT ![r] = q]
    BY <1>1 DEF Post, Goto
<1> HIDE DEF q
<1>5. /\ at'[r] = "check" /\ req'[r] = q
      /\ \A u \in Runs \ {r} : at'[u] = at[u] /\ req'[u] = req[u]
    BY <1>3, <1>4 DEF GInv, Shape
<1>6. /\ UNCHANGED <<gone, sel, taken>> /\ busy' = TRUE /\ producedKey' = sel
      /\ overlapped' = others
      /\ mixed' = (others \/ (mixed /\ Shown' # {}))
      /\ strayed' = (strayed /\ (others \/ Shown' # {}))
    BY DEF Begin
<1>7. \/ reset /\ steps' = {} /\ promptSteps' = None
      \/ ~reset /\ steps' = steps /\ promptSteps' = promptSteps
    BY DEF Begin
<1>8. reading \subseteq Runs /\ r \notin reading /\ r # None /\ Shown \subseteq Runs /\ r \notin Shown
    BY <1>3 DEF GInv, Shape, Readable, Names, Shown
<1>9. Shown' \subseteq Shown
    BY <1>7 DEF Shown
<1>10. Names'
    BY <1>1, <1>3, <1>7 DEF Names
<1>11. Readable'
    BY <1>1, <1>3, <1>5, <1>6, <1>8 DEF Readable
<1>12. Button'
    BY <1>1, <1>6, <1>8 DEF Button, UnderWay
<1>13. Owners'
    <2>1. ASSUME ~strayed' PROVE \A u \in reading' \cup Shown' : req'[u].backend = sel'
        <3>1. CASE ~strayed
            BY <1>1, <1>2, <1>5, <1>6, <1>8, <1>9, <3>1 DEF Owners
        <3>2. CASE ~others /\ Shown' = {}
            BY <1>1, <1>2, <1>5, <1>6, <3>2
        <3> QED
            BY <1>6, <2>1, <3>1, <3>2
    <2> QED
        BY <1>6, <2>1 DEF Owners
<1>14. Tables'
    <2>1. SUFFICES ASSUME ~mixed'
          PROVE  \/ steps' = {} /\ \A u \in reading' : req'[u].manual
                 \/ /\ ~manualMode' /\ forcing' = 0 /\ latest' # None
                    /\ reading' \subseteq {latest'} /\ steps' \subseteq {latest'}
                    /\ promptSteps' \in {None, latest'}
        BY DEF Tables
    <2>2. ~others /\ reading' = {r} /\ forcing' = 0 /\ (~mixed \/ Shown' = {})
        BY <1>1, <1>6, <2>1
    <2>3. CASE manual
        <3>1. steps' = {}
            <4>1. CASE Shown' = {}
                BY <4>1 DEF Shown
            <4>2. CASE ~mixed /\ (manualMode \/ forcing > 0)
                BY <1>7, <4>2 DEF Tables
            <4>3. CASE reset
                BY <1>7, <4>3
            <4> QED
                BY <2>2, <2>3, <4>1, <4>2, <4>3
        <3> QED
            BY <1>2, <1>5, <2>2, <2>3, <3>1
    <2>4. CASE ~manual
        BY <1>1, <1>7, <1>8, <2>2, <2>4
    <2> QED
        BY <2>3, <2>4
<1>15. Picker'
    BY <1>1, <1>2, <1>5, <1>8 DEF Picker
<1> QED
    BY <1>10, <1>11, <1>12, <1>13, <1>14, <1>15

LEMMA BeginsPInv ==
    ASSUME GInv, PInv, Generate \/ EnterManual \/ Pick \/ Undo \/ ForceTextArrives
    PROVE  PInv'
<1>0. forcing \in Nat /\ UnderWay \in BOOLEAN /\ (~UnderWay => reading = {} /\ forcing = 0)
    BY DEF PInv, Names, UnderWay
<1>1. CASE Generate
    <2>1. PICK want \in 1 .. MaxTokens, include \in BOOLEAN :
              Begin(FALSE, want, include, <<>>, TRUE, UnderWay)
        BY <1>1 DEF Generate
    <2>2. ~manualMode' /\ dist' \in {dist, None} /\ forcing' = forcing
        BY <1>1 DEF Generate
    <2> QED
        BY <1>0, <2>1, <2>2, BeginPInv
<1>2. CASE EnterManual
    <2>1. picks' = <<>> /\ Begin(TRUE, 1, TRUE, <<>>, TRUE, UnderWay)
        BY <1>2 DEF EnterManual, FetchNext
    <2>2. dist' = None /\ forcing' = forcing
        BY <1>2 DEF EnterManual
    <2> QED
        BY <1>0, <2>1, <2>2, BeginPInv
<1>3. CASE Pick \/ Undo
    <2>1. PICK p : FetchNext(p, UnderWay)
        BY <1>3 DEF Pick, Undo
    <2>2. manualMode /\ UNCHANGED <<manualMode, forcing, dist>>
        BY <1>3 DEF Pick, Undo
    <2>3. picks' = p /\ Begin(TRUE, 1, p = <<>>, p, p = <<>>, UnderWay)
        BY <2>1 DEF FetchNext
    <2> QED
        BY <1>0, <2>2, <2>3, BeginPInv
<1>4. CASE ForceTextArrives
    <2> DEFINE others == reading # {} \/ forcing > 1
    <2>1. PICK p : FetchNext(p, others)
        BY <1>4 DEF ForceTextArrives
    <2>2. /\ forcing > 0 /\ forcing' = forcing - 1 /\ forcing \in Nat
          /\ UNCHANGED <<manualMode, dist>>
        BY <1>4 DEF ForceTextArrives, PInv, Names
    <2>3. others \in BOOLEAN /\ (~others => reading = {} /\ forcing' = 0) /\ forcing' \in Nat
        BY <2>2
    <2>4. picks' = p /\ Begin(TRUE, 1, p = <<>>, p, p = <<>>, others)
        BY <2>1 DEF FetchNext
    <2> HIDE DEF others
    <2> QED
        BY <2>2, <2>3, <2>4, BeginPInv
<1> QED
    BY <1>1, <1>2, <1>3, <1>4

\* The page lets go of a run it reads.
LEMMA DisconnectMoves ==
    ASSUME GInv, PInv, NEW r \in reading, Disconnect(r)
    PROVE  Moves(r) /\ DOMAIN taken' = Runs
<1>1. r \in Runs /\ at[r] # "none"
    BY DEF GInv, Shape, PInv, Readable
<1>2. DOMAIN taken' = Runs
    BY DEF Disconnect, PInv, Readable
<1>3. CASE at[r] \in Ended
    <2>1. Gone(r, "none", FALSE)
        BY <1>3 DEF Disconnect, Leave
    <2> QED
        BY <1>1, <1>2, <2>1, GoneMoves
<1>4. CASE at[r] \notin Ended
    <2>1. Gone(r, at[r], TRUE)
        BY <1>4 DEF Disconnect, Leave
    <2> QED
        BY <1>1, <1>2, <2>1, GoneMoves
<1> QED
    BY <1>3, <1>4

\* It was read to its end, broke, or was stopped; of what is shown nothing, or
\* everything, is cleared.
LEMMA LetGoPInv ==
    ASSUME GInv, PInv, NEW r \in reading, NEW error \in BOOLEAN, Disconnect(r), Finally(r, error),
           UNCHANGED <<producedKey, latest, overlapped, mixed, forcing>>,
           \/ UNCHANGED <<sel, steps, promptSteps, dist, manualMode, picks, strayed>>
           \/ /\ steps' = {} /\ promptSteps' = None /\ dist' = None /\ ~manualMode'
              /\ ~strayed' => ~strayed /\ forcing = 0 /\ reading \subseteq {r}
    PROVE  PInv'
<1> USE StreamAssumption DEF PInv
<1>1. Moves(r) /\ DOMAIN taken' = Runs
    BY DisconnectMoves
<1>2. reading' = reading \ {r} /\ ~busy' /\ cancelFn' = None
    BY DEF Finally
<1>3. reading \subseteq Runs /\ Shown \subseteq Runs
    BY DEF GInv, Shape, Names, Shown
<1>4. \A u \in reading' : u \in reading /\ at'[u] = at[u] /\ gone'[u] = gone[u] /\ req'[u] = req[u]
    BY <1>1, <1>2, <1>3 DEF Moves
<1>5. \A u \in Runs : Kept(u)
    BY <1>1 DEF Moves, Kept
<1>6. Shown' \subseteq Shown
    BY DEF Shown
<1>7. Names'
    BY DEF Names
<1>8. Readable'
    BY <1>1, <1>3, <1>4 DEF Readable, Moves
<1>9. Button'
    <2>1. ASSUME ~overlapped' PROVE reading' = {}
        BY <1>2, <2>1 DEF Button
    <2> QED
        BY <1>2, <2>1 DEF Button
<1>10. Owners'
    <2>1. CASE UNCHANGED <<sel, steps, promptSteps, dist, manualMode, picks, strayed>>
        BY <1>2, <1>3, <1>5, <1>6, <2>1 DEF Owners, Kept
    <2>2. CASE /\ steps' = {} /\ promptSteps' = None /\ dist' = None /\ ~manualMode'
               /\ ~strayed' => ~strayed /\ forcing = 0 /\ reading \subseteq {r}
        <3>1. Shown' = {}
            BY <2>2 DEF Shown
        <3>2. ~strayed' => reading' = {}
            BY <1>2, <2>2
        <3> QED
            BY <3>1, <3>2 DEF Owners
    <2> QED
        BY <2>1, <2>2
<1>11. Tables'
    <2>1. reading' \subseteq reading /\ steps' \subseteq steps /\ (manualMode' => manualMode)
          /\ promptSteps' \in {None, promptSteps}
        BY <1>2
    <2> QED
        BY <1>4, <2>1 DEF Tables
<1>12. Picker'
    BY <1>5 DEF Picker, Kept, Names
<1> QED
    BY <1>7, <1>8, <1>9, <1>10, <1>11, <1>12

\* A frame is shown.
LEMMA ReadPInv == ASSUME GInv, PInv, NEW r \in Runs, Read(r) PROVE PInv'
<1> USE StreamAssumption DEF PInv
<1>1. /\ r \in reading /\ taken' = [taken EXCEPT ![r] = taken[r] + 1]
      /\ UNCHANGED <<req, at, gone, sel, forcing, manualMode, picks>>
      /\ UNCHANGED <<producedKey, busy, cancelFn, reading, latest, overlapped, mixed, strayed>>
    BY DEF Read, streamVars, manualVars, ghosts
<1>2. /\ steps' = steps \/ (~req[r].manual /\ steps' = steps \cup {r})
      /\ dist' \in {dist, r} /\ promptSteps' \in {promptSteps, r, None}
    <2> DEFINE f == frames[r][taken'[r]]
    <2>1. /\ steps' = IF f.event = "step" /\ ~req[r].manual THEN steps \cup {r} ELSE steps
          /\ dist' = IF f.event = "step" /\ req[r].manual THEN r ELSE dist
          /\ promptSteps' = IF f.event # "prompt_score" THEN promptSteps
                            ELSE IF f.rows THEN r ELSE None
        BY Zenon DEF Read
    <2>2. steps' = steps \/ (~req[r].manual /\ steps' = steps \cup {r})
        <3>1. CASE f.event = "step" /\ ~req[r].manual
            BY <2>1, <3>1
        <3>2. CASE ~(f.event = "step" /\ ~req[r].manual)
            BY <2>1, <3>2
        <3> QED
            BY <3>1, <3>2
    <2>3. dist' \in {dist, r}
        BY <2>1, Zenon
    <2>4. promptSteps' \in {promptSteps, r, None}
        BY <2>1, Zenon
    <2> QED
        BY <2>2, <2>3, <2>4
<1>3. Shown' \subseteq Shown \cup {r}
    BY <1>1, <1>2 DEF Shown
<1>4. UnderWay' = UnderWay
    BY <1>1 DEF UnderWay
<1>5. Names' /\ Readable' /\ Button' /\ Picker'
    BY <1>1, <1>2, <1>4 DEF Names, Readable, Button, Picker
<1>6. Owners'
    BY <1>1, <1>3 DEF Owners
<1>7. Tables'
    BY <1>1, <1>2 DEF Tables
<1> QED
    BY <1>5, <1>6, <1>7

LEMMA QuietPInv ==
    ASSUME GInv, PInv, UNCHANGED <<req, at, gone, taken, latest, cancelFn, reading, producedKey>>,
           UNCHANGED <<steps, promptSteps, dist, mixed, picks>>,
           manualMode' => manualMode, forcing' \in Nat, forcing' > 0 => forcing > 0 \/ manualMode,
           busy' => reading # {} \/ forcing' > 0,
           ~overlapped' => /\ ~overlapped /\ (busy' \/ reading = {})
                           /\ (forcing' > 0 => reading = {}),
           ~strayed' => ~strayed,
           \/ sel' = sel
           \/ ~strayed' => reading = {} /\ Shown' = {}
    PROVE  PInv'
<1> USE DEF PInv
<1>1. Shown' \subseteq Shown
    BY DEF Shown
<1>2. Names' /\ Readable'
    BY DEF Names, Readable
<1>3. Button' /\ Picker'
    BY DEF Button, Picker, UnderWay
<1>4. Owners'
    BY <1>1 DEF Owners
<1>5. Tables'
    BY DEF Tables
<1> QED
    BY <1>2, <1>3, <1>4, <1>5

LEMMA AbortPInv ==
    ASSUME GInv, PInv, Abort,
           UNCHANGED <<producedKey, latest, overlapped, mixed, forcing>>,
           \/ UNCHANGED <<sel, steps, promptSteps, dist, manualMode, picks, strayed>>
           \/ /\ steps' = {} /\ promptSteps' = None /\ dist' = None /\ ~manualMode'
              /\ ~strayed' => ~strayed /\ forcing = 0 /\ reading \subseteq {cancelFn}
    PROVE  PInv'
<1> USE StreamAssumption
<1>0. forcing \in Nat
    BY DEF PInv, Names
<1>1. CASE cancelFn # None
    <2>1. cancelFn \in reading /\ Disconnect(cancelFn) /\ Finally(cancelFn, TRUE)
        BY <1>1 DEF PInv, Button, Abort
    <2> QED
        BY <2>1, LetGoPInv
<1>2. CASE cancelFn = None
    <2>1. UNCHANGED <<req, at, gone, taken, reading, cancelFn>> /\ ~busy'
        BY <1>2 DEF Abort, connection
    <2>2. ~overlapped => reading = {}
        BY <1>2 DEF PInv, Button, GInv, Shape
    <2>3. reading \subseteq {cancelFn} => reading = {}
        BY <1>2 DEF GInv, Shape
    <2>4. CASE UNCHANGED <<sel, steps, promptSteps, dist, manualMode, picks, strayed>>
        BY <1>0, <2>1, <2>2, <2>4, QuietPInv
    <2>5. CASE /\ steps' = {} /\ promptSteps' = None /\ dist' = None /\ ~manualMode'
               /\ ~strayed' => ~strayed /\ forcing = 0 /\ reading \subseteq {cancelFn}
        <3>1. Shown' = {}
            BY <2>5 DEF Shown
        <3> QED
            BY <2>1, <2>2, <2>3, <2>5, <3>1 DEF PInv, Names, Readable, Button, Owners, Tables, Picker, UnderWay
    <2> QED
        BY <2>4, <2>5
<1> QED
    BY <1>1, <1>2

LEMMA SwitchPInv == ASSUME GInv, PInv, Switch PROVE PInv'
<1> USE StreamAssumption
<1>0. forcing \in Nat
    BY DEF PInv, Names
<1>1. PICK b \in Backends \ {sel} :
          /\ sel' = b
          /\ IF HasOutput /\ b # producedKey
             THEN /\ Abort
                  /\ steps' = {} /\ promptSteps' = None /\ dist' = None
                  /\ manualMode' = FALSE /\ picks' = <<>>
             ELSE UNCHANGED <<connection, taken, outputVars, manualMode, picks, busy,
                              cancelFn, reading, streamError>>
          /\ strayed' = (strayed \/ (b # producedKey /\ Strays))
    BY DEF Switch
<1>2. UNCHANGED <<producedKey, latest, overlapped, mixed, forcing>>
    BY DEF Switch
<1>3. CASE HasOutput /\ b # producedKey
    <2>1. ~strayed' => ~strayed /\ forcing = 0 /\ reading \subseteq {cancelFn}
        <3>1. ~strayed' => ~strayed /\ ~Strays
            BY <1>1, <1>3
        <3>2. ~Strays => forcing = 0 /\ reading \subseteq {cancelFn}
            BY <1>0, <1>3 DEF Strays
        <3> QED
            BY <3>1, <3>2
    <2> QED
        BY <1>1, <1>2, <1>3, <2>1, AbortPInv
<1>4. CASE ~(HasOutput /\ b # producedKey)
    <2>1. /\ UNCHANGED <<req, at, gone, taken, steps, promptSteps, dist, manualMode, picks>>
          /\ UNCHANGED <<busy, cancelFn, reading>>
        BY <1>1, <1>4 DEF connection, outputVars
    <2>2. ~strayed' => reading = {} /\ Shown' = {}
        <3>1. CASE ~HasOutput /\ b # producedKey
            BY <1>1, <2>1, <3>1 DEF HasOutput, Strays, Shown
        <3>2. CASE b = producedKey
            BY <1>1, <2>1, <3>2 DEF PInv, Owners, Shown
        <3> QED
            BY <1>4, <3>1, <3>2
    <2>3. /\ busy' => reading # {} \/ forcing' > 0
          /\ ~overlapped' => /\ ~overlapped /\ (busy' \/ reading = {})
                             /\ (forcing' > 0 => reading = {})
        BY <1>2, <2>1 DEF PInv, Button, UnderWay
    <2>4. ~strayed' => ~strayed
        BY <1>1
    <2> QED
        BY <1>0, <1>2, <2>1, <2>2, <2>3, <2>4, QuietPInv
<1> QED
    BY <1>3, <1>4

LEMMA PagePInv ==
    ASSUME GInv, PInv, ExitManual \/ ForceText \/ ForceTextFails \/ Cancel
    PROVE  PInv'
<1>0. forcing \in Nat
    BY DEF PInv, Names
<1>1. CASE ExitManual
    <2>1. /\ UNCHANGED <<req, at, gone, taken, latest, cancelFn, reading, producedKey>>
          /\ UNCHANGED <<steps, promptSteps, dist, mixed, picks, forcing, busy, overlapped, strayed, sel>>
          /\ ~manualMode'
        BY <1>1 DEF ExitManual, streamVars, outputVars, controlVars, ghosts
    <2> QED
        BY <1>0, <2>1, QuietPInv DEF PInv, Button, UnderWay
<1>2. CASE ForceText
    <2>1. /\ UNCHANGED <<req, at, gone, taken, latest, cancelFn, reading, producedKey>>
          /\ UNCHANGED <<steps, promptSteps, dist, mixed, picks, manualMode, strayed, sel>>
          /\ manualMode /\ forcing' = forcing + 1 /\ busy' = TRUE
          /\ overlapped' = (overlapped \/ UnderWay)
        BY <1>2 DEF ForceText, streamVars, outputVars
    <2>2. forcing' \in Nat /\ forcing' > 0
        BY <1>0, <2>1
    <2>3. ~overlapped' => ~overlapped /\ reading = {}
        BY <2>1 DEF UnderWay
    <2> QED
        BY <2>1, <2>2, <2>3, QuietPInv
<1>3. CASE ForceTextFails
    <2>1. /\ UNCHANGED <<req, at, gone, taken, latest, cancelFn, reading, producedKey>>
          /\ UNCHANGED <<steps, promptSteps, dist, mixed, picks, manualMode, overlapped, strayed, sel>>
          /\ forcing > 0 /\ forcing' = forcing - 1 /\ ~busy'
        BY <1>3 DEF ForceTextFails, streamVars, outputVars, ghosts
    <2>2. forcing' \in Nat /\ forcing > 0
        BY <1>0, <2>1
    <2> QED
        BY <2>1, <2>2, QuietPInv DEF PInv, Button
<1>4. CASE Cancel
    BY <1>4, AbortPInv DEF Cancel, outputVars, manualVars
<1> QED
    BY <1>1, <1>2, <1>3, <1>4

LEMMA PInvNext == GInv /\ PInv /\ [Next]_vars => PInv'
<1> SUFFICES ASSUME GInv, PInv, [Next]_vars PROVE PInv'
    OBVIOUS
<1>0. forcing \in Nat
    BY DEF PInv, Names
<1>1. CASE UNCHANGED vars
    <2>1. /\ UNCHANGED <<req, at, gone, taken, latest, cancelFn, reading, producedKey>>
          /\ UNCHANGED <<steps, promptSteps, dist, mixed, picks, forcing, busy, overlapped, strayed, sel, manualMode>>
        BY <1>1 DEF vars, pageVars, streamVars, outputVars, manualVars, controlVars, ghosts
    <2> QED
        BY <1>0, <2>1, QuietPInv DEF PInv, Button, UnderWay
<1>2. ASSUME NEW r \in Runs, Serves(r) PROVE PInv'
    BY <1>2, ServePInv
<1>3. ASSUME NEW r \in Runs, ReadEnd(r) \/ Drop(r) PROVE PInv'
    <2>1. /\ r \in reading /\ Disconnect(r) /\ \E error \in BOOLEAN : Finally(r, error)
          /\ UNCHANGED <<producedKey, latest, overlapped, mixed, forcing>>
          /\ UNCHANGED <<sel, steps, promptSteps, dist, manualMode, picks, strayed>>
        BY <1>3 DEF ReadEnd, Drop, outputVars, manualVars, ghosts
    <2> QED
        BY <2>1, LetGoPInv
<1>4. ASSUME NEW r \in Runs, Read(r) PROVE PInv'
    BY <1>4, ReadPInv
<1> QED
    BY <1>1, <1>2, <1>3, <1>4, BeginsPInv, SwitchPInv, PagePInv DEF Next

\* Of the page's buttons, tables and picker, whatever the streams do.
THEOREM PageInvariant == Spec => []PInv
<1> QED
    BY StreamsInvariant, PInvInit, PInvNext, PTL DEF Spec

\* What is shown came from what is selected, unless a switch left a run under
\* way, and the tables show one run, unless runs overlapped (clearRun,
\* maybeClearForSwitch, streamRun).
THEOREM ScreenIsTrue == Spec => []ScreenIsOwn
<1> QED
    BY PageInvariant, PInvImplies, PTL

\* The stop button aborts the run that is open, and goes away with it (streamRun
\* 649-708, cancel).
THEOREM StopIsTrue == Spec => []StopWorks
<1> QED
    BY PageInvariant, PInvImplies, PTL

\* The distribution of the last run that was begun is the one after the picks
\* (fetchManualNext 756-779).
THEOREM PickerIsTrue == Spec => []PickerIsCurrent
<1> QED
    BY PageInvariant, PInvImplies, PTL

-----------------------------------------------------------------------------
(***************************************************************************)
(* The types of the streams.                                               *)
(***************************************************************************)
\* What StreamTypeOK adds to GInv.
StreamTypes ==
    /\ req \in [Runs -> Requests \cup Remainders]
    /\ gone \in [Runs -> BOOLEAN]
    /\ lock \in [Backends -> Runs \cup {None}] /\ sink \in [Backends -> Runs \cup {None}]
    /\ tries \in [Runs -> 0 .. MaxRetries]
    /\ got \in [Runs -> 0 .. MaxTokens]
    /\ finish \in [Runs -> Reasons] /\ failed \in [Runs -> BOOLEAN]
    /\ frames \in [Runs -> Seq(Frames)]

LEMMA StreamTypesImply == GInv /\ StreamTypes => StreamTypeOK
<1> SUFFICES ASSUME GInv, StreamTypes PROVE StreamTypeOK
    OBVIOUS
<1>1. /\ at \in [Runs -> {"none", "check", "queued", "score", "open", "stream",
                        "close", "done"} \cup Ended]
      /\ paused \in [Runs -> BOOLEAN]
    BY DEF GInv, Shape, Working, Bound
<1>2. requests \in [Runs -> SUBSET Runs] /\ uncounted \in [Runs -> BOOLEAN]
    BY DEF GInv, Counts
<1> QED
    BY <1>1, <1>2 DEF StreamTypes, StreamTypeOK

LEMMA FrameTypes ==
    /\ \A rows \in BOOLEAN : Score(rows) \in Frames
    /\ \A n \in 1 .. MaxTokens, reason \in Reasons : Step(n, reason) \in Frames
    /\ \A owners \in SUBSET Runs : Usage(owners) \in Frames
    /\ \A reason \in Reasons, error \in BOOLEAN : Done(reason, error) \in Frames
BY DEF Frames, Score, Step, Usage, Done

LEMMA FramesAppend ==
    ASSUME NEW r \in Runs, frames \in [Runs -> Seq(Frames)], NEW fs \in Seq(Frames), Yield(r, fs)
    PROVE  /\ frames' \in [Runs -> Seq(Frames)] /\ Len(frames'[r]) >= Len(frames[r])
           /\ frames'[r] = frames[r] \o fs /\ \A u \in Runs \ {r} : frames'[u] = frames[u]
<1>1. frames' = [frames EXCEPT ![r] = frames[r] \o fs]
    BY DEF Yield
<1>2. frames[r] \in Seq(Frames)
    OBVIOUS
<1> DEFINE g == frames[r] \o fs
<1>3. g \in Seq(Frames) /\ Len(g) >= Len(frames[r])
    BY <1>2
<1> HIDE DEF g
<1> QED
    BY <1>1, <1>3 DEF g

LEMMA LastReasonType ==
    ASSUME StreamTypes, NEW r \in Runs
    PROVE  LastReason(r) \in Reasons
<1>1. frames[r] \in Seq(Frames)
    BY DEF StreamTypes
<1>2. frames[r] # <<>> => Last(frames[r]) \in Frames
    BY <1>1 DEF Last
<1>3. \A f \in Frames : f.event = "step" => f.reason \in Reasons
    BY DEF Frames
<1>4. "none" \in Reasons
    BY DEF Reasons
<1> QED
    BY <1>2, <1>3, <1>4 DEF LastReason

LEMMA WantType == ASSUME StreamTypes, NEW r \in Runs PROVE req[r].want \in 0 .. MaxTokens
<1> USE StreamAssumption
<1>1. req[r] \in Requests \cup Remainders
    BY DEF StreamTypes
<1>2. CASE req[r] \in Requests
    <2>1. req[r].want \in 1 .. MaxTokens
        BY <1>2 DEF Requests
    <2> QED
        BY <2>1
<1>3. CASE req[r] \in Remainders
    <2>1. CASE req[r] = NoRequest
        BY <2>1 DEF NoRequest, Blank
    <2>2. CASE req[r] # NoRequest
        <3>1. req[r] \in [backend : Backends, way : {"none"}, include : {FALSE}, want : {0},
                          manual : {FALSE}, prefix : Seq(Ids)]
            BY <1>3, <2>2 DEF Remainders
        <3>2. req[r].want \in {0}
            BY <3>1, Zenon
        <3> QED
            BY <3>2
    <2> QED
        BY <2>1, <2>2
<1> QED
    BY <1>1, <1>2, <1>3

LEMMA HeldType ==
    ASSUME StreamTypes, NEW r \in Runs, NEW reason \in Reasons
    PROVE  Held(r, reason) \in Seq(Frames)
<1>1. <<Score(TRUE)>> \in Seq(Frames) /\ <<>> \in Seq(Frames)
    <2> DEFINE x == Score(TRUE)
    <2>1. x \in Frames
        BY FrameTypes, Zenon
    <2> HIDE DEF x
    <2>2. <<x>> \in Seq(Frames) /\ <<>> \in Seq(Frames)
        BY <2>1
    <2> QED
        BY <2>2 DEF x
<1>2. got[r] > 0 => <<Step(got[r], reason)>> \in Seq(Frames)
    <2>1. got[r] > 0 => got[r] \in 1 .. MaxTokens
        BY StreamAssumption DEF StreamTypes
    <2> QED
        BY <2>1, FrameTypes
<1> DEFINE a == IF req[r].way = "combined" /\ frames[r] = <<>> THEN <<Score(TRUE)>> ELSE <<>>
           b == IF got[r] > 0 THEN <<Step(got[r], reason)>> ELSE <<>>
<1>3. a \in Seq(Frames) /\ b \in Seq(Frames)
    BY <1>1, <1>2
<1> HIDE DEF a, b
<1>4. a \o b \in Seq(Frames)
    BY <1>3
<1> QED
    BY <1>4 DEF Held, a, b

\* The frames a step yields, if any.
LEMMA YieldsFrames ==
    ASSUME GInv, StreamTypes, NEW r \in Runs, UNCHANGED pageVars, Serve(r)
    PROVE  \/ \E fs \in Seq(Frames) : Yield(r, fs)
           \/ UNCHANGED frames
           \/ (Check(r) /\ End(r, "refused")) \/ Return(r) \/ Abandon(r)
<1>1. CASE ScorePrompt(r)
    <2>1. PICK rows \in BOOLEAN : Yield(r, <<Score(rows)>>)
        BY <1>1 DEF ScorePrompt
    <2>2. Score(rows) \in Frames
        BY FrameTypes, Zenon
    <2>3. <<Score(rows)>> \in Seq(Frames)
        BY <2>2
    <2> QED
        BY <2>1, <2>3
<1>2. CASE Decode(r)
    <2>1. got[r] < req[r].want /\ got' = [got EXCEPT ![r] = @ + 1]
        BY <1>2 DEF Decode
    <2>2. req[r].want \in 0 .. MaxTokens
        BY WantType
    <2>3. got'[r] \in 1 .. MaxTokens
        BY <2>1, <2>2, StreamAssumption DEF StreamTypes
    <2>4. PICK reason \in Reasons : Yield(r, <<Step(got'[r], reason)>>)
        BY <1>2 DEF Decode
    <2>5. <<Step(got'[r], reason)>> \in Seq(Frames)
        BY <2>3, FrameTypes
    <2> QED
        BY <2>4, <2>5
<1>3. CASE Token(r) \/ StreamEnds(r)
    <2>1. Silent(r) \/ \E reason \in Reasons : Yield(r, Held(r, reason))
        BY <1>3 DEF Token, StreamEnds, Reasons
    <2> QED
        BY <2>1, HeldType DEF Silent
<1>4. CASE Close(r)
    <2>1. Usage(requests[r]) \in Frames
        BY FrameTypes DEF GInv, Counts
    <2>2. Done(LastReason(r), failed[r]) \in Frames
        BY FrameTypes, LastReasonType DEF StreamTypes
    <2>3. <<Usage(requests[r]), Done(LastReason(r), failed[r])>> \in Seq(Frames)
        BY <2>1, <2>2
    <2> QED
        BY <1>4, <2>3 DEF Close
<1>5. CASE \/ Acquire(r) \/ Retry(r) \/ OpenStream(r) \/ Break(r) \/ DecodeEnds(r)
           \/ (Check(r) /\ ~End(r, "refused"))
    BY <1>5 DEF Acquire, Retry, OpenStream, Break, DecodeEnds, Check, Silent
<1> QED
    BY <1>1, <1>2, <1>3, <1>4, <1>5 DEF Serve, Check

LEMMA GoneTypes ==
    ASSUME StreamTypes, NEW r \in Runs, NEW where, NEW left \in BOOLEAN, Gone(r, where, left)
    PROVE  /\ req' \in [Runs -> Requests \cup Remainders] /\ gone' \in [Runs -> BOOLEAN]
           /\ frames' \in [Runs -> Seq(Frames)]
<1>1. Remains(r) \in Requests \cup Remainders
    <2>1. /\ Remains(r) = [backend |-> req[r].backend, way |-> "none", include |-> FALSE,
                           want |-> 0, manual |-> FALSE, prefix |-> req[r].prefix]
        BY DEF Remains, Blank
    <2>2. \/ req[r].backend \in Backends /\ req[r].prefix \in Seq(Ids)
          \/ req[r] = NoRequest
        BY DEF StreamTypes, Requests, Remainders
    <2>3. CASE req[r].backend \in Backends /\ req[r].prefix \in Seq(Ids)
        BY <2>1, <2>3 DEF Remainders
    <2>4. CASE req[r] = NoRequest
        BY <2>1, <2>4 DEF Remainders, NoRequest, Blank
    <2> QED
        BY <2>2, <2>3, <2>4
<1>2. <<>> \in Seq(Frames)
    OBVIOUS
<1> QED
    BY <1>1, <1>2 DEF Gone, StreamTypes

LEMMA ServeTypes ==
    ASSUME GInv, StreamTypes, NEW r \in Runs, UNCHANGED pageVars, Serve(r)
    PROVE  StreamTypes'
<1>1. CASE (Check(r) /\ End(r, "refused")) \/ Return(r) \/ Abandon(r)
    <2>1. PICK where \in {"none"} \cup Ended : Gone(r, where, FALSE)
        BY <1>1 DEF Check, Return, Abandon, End, Ended
    <2>2. req' \in [Runs -> Requests \cup Remainders] /\ gone' \in [Runs -> BOOLEAN]
          /\ frames' \in [Runs -> Seq(Frames)]
        BY <2>1, GoneTypes
    <2>3. lock' \in [Backends -> Runs \cup {None}] /\ sink' \in [Backends -> Runs \cup {None}]
        BY <1>1 DEF Check, Return, Abandon, Unbind, callVars, StreamTypes
    <2>4. CASE Check(r)
        BY <2>2, <2>3, <2>4 DEF Check, callVars, runVars, StreamTypes
    <2>5. CASE Return(r) \/ Abandon(r)
        <3>1. Forget(r)
            BY <2>5 DEF Return, Abandon
        <3>2. tries' \in [Runs -> 0 .. MaxRetries] /\ got' \in [Runs -> 0 .. MaxTokens]
            BY <3>1, StreamAssumption DEF Forget, StreamTypes
        <3>3. finish' \in [Runs -> Reasons] /\ failed' \in [Runs -> BOOLEAN]
            BY <3>1 DEF Forget, StreamTypes, Reasons
        <3> QED
            BY <2>2, <2>3, <3>2, <3>3 DEF StreamTypes
    <2> QED
        BY <1>1, <2>4, <2>5
<1>2. CASE \/ Retry(r) \/ ScorePrompt(r) \/ OpenStream(r) \/ Break(r) \/ Decode(r)
           \/ DecodeEnds(r) \/ Token(r) \/ StreamEnds(r) \/ Close(r) \/ Acquire(r)
           \/ (Check(r) /\ ~End(r, "refused"))
    <2>1. UNCHANGED <<req, gone>>
        BY <1>2 DEF Retry, ScorePrompt, OpenStream, Break, Decode, DecodeEnds, Token, StreamEnds, Close, Acquire, Check
    <2>2. lock' \in [Backends -> Runs \cup {None}] /\ sink' \in [Backends -> Runs \cup {None}]
        BY <1>2 DEF Retry, ScorePrompt, OpenStream, Break, Decode, DecodeEnds, Token, StreamEnds, Close, Acquire, Check, Unbind, callVars, StreamTypes
    <2>3. tries' \in [Runs -> 0 .. MaxRetries]
        <3>1. CASE Retry(r)
            BY <3>1, StreamAssumption DEF Retry, StreamTypes
        <3>2. CASE \/ ScorePrompt(r) \/ OpenStream(r) \/ Break(r) \/ Decode(r) \/ DecodeEnds(r)
            <4>1. tries' = [tries EXCEPT ![r] = 0]
                BY <3>2 DEF ScorePrompt, OpenStream, Break, Decode, DecodeEnds
            <4> QED
                BY <4>1, StreamAssumption DEF StreamTypes
        <3>3. CASE Token(r) \/ StreamEnds(r) \/ Close(r) \/ Acquire(r) \/ Check(r)
            BY <3>3 DEF Token, StreamEnds, Close, Acquire, Check, callVars, StreamTypes
        <3> QED
            BY <1>2, <3>1, <3>2, <3>3
    <2>4. got' \in [Runs -> 0 .. MaxTokens]
        <3>1. CASE Decode(r) \/ Token(r)
            <4>1. got[r] < req[r].want /\ got' = [got EXCEPT ![r] = got[r] + 1]
                BY <3>1 DEF Decode, Token
            <4>2. req[r].want \in 0 .. MaxTokens
                BY WantType
            <4> QED
                BY <4>1, <4>2, StreamAssumption DEF StreamTypes
        <3>2. CASE got' = got
            BY <3>2 DEF StreamTypes
        <3> QED
            BY <1>2, <3>1, <3>2 DEF Retry, ScorePrompt, OpenStream, Break, DecodeEnds, StreamEnds, Close, Acquire, Check, runVars
    <2>5. finish' \in [Runs -> Reasons]
        BY <1>2 DEF Retry, ScorePrompt, OpenStream, Break, Decode, DecodeEnds, Token, StreamEnds, Close, Acquire, Check, runVars, Reasons, StreamTypes
    <2>6. failed' \in [Runs -> BOOLEAN]
        BY <1>2 DEF Retry, ScorePrompt, OpenStream, Break, Decode, DecodeEnds, Token, StreamEnds, Close, Acquire, Check, runVars, StreamTypes
    <2>7. frames' \in [Runs -> Seq(Frames)]
        <3>1. CASE \E fs \in Seq(Frames) : Yield(r, fs)
            BY <3>1, FramesAppend DEF StreamTypes
        <3>2. CASE UNCHANGED frames
            BY <3>2 DEF StreamTypes
        <3>3. CASE (Check(r) /\ End(r, "refused")) \/ Return(r) \/ Abandon(r)
            <4>1. PICK where \in {"none"} \cup Ended : Gone(r, where, FALSE)
                BY <3>3 DEF Check, Return, Abandon, End, Ended
            <4> QED
                BY <4>1, GoneTypes
        <3> QED
            BY <3>1, <3>2, <3>3, YieldsFrames
    <2> QED
        BY <2>1, <2>2, <2>3, <2>4, <2>5, <2>6, <2>7 DEF StreamTypes
<1> QED
    BY <1>1, <1>2 DEF Serve

\* The page's part of TypeOK; nothing of a run it let go of is read.
PageTypes ==
    /\ producedKey \in Backends \cup {None}
    /\ taken \in [Runs -> Nat]
    /\ \A r \in Runs : taken[r] <= Len(frames[r]) /\ (gone[r] => taken[r] = 0)
    /\ picks \in Seq(Ids) /\ Len(picks) <= MaxPicks
    /\ troubles \in 0 .. MaxTroubles
    /\ busy \in BOOLEAN /\ streamError \in BOOLEAN /\ manualMode \in BOOLEAN
    /\ forcing \in 0 .. troubles + 1 /\ overlapped \in BOOLEAN /\ mixed \in BOOLEAN /\ strayed \in BOOLEAN

TInv == StreamTypes /\ PageTypes

LEMMA BoundedSequences ==
    ASSUME NEW S, NEW n \in Nat, NEW s
    PROVE  s \in BoundedSeq(S, n) <=> s \in Seq(S) /\ Len(s) <= n
<1>1. ASSUME s \in BoundedSeq(S, n) PROVE s \in Seq(S) /\ Len(s) <= n
    <2>1. PICK m \in 0 .. n : s \in [1 .. m -> S]
        BY <1>1 DEF BoundedSeq, SeqOf
    <2> QED
        BY <2>1
<1>2. ASSUME s \in Seq(S), Len(s) <= n PROVE s \in BoundedSeq(S, n)
    <2>1. Len(s) \in 0 .. n /\ s \in [1 .. Len(s) -> S]
        BY <1>2
    <2> QED
        BY <2>1 DEF BoundedSeq, SeqOf
<1> QED
    BY <1>1, <1>2

LEMMA TInvImplies == GInv /\ PInv /\ TInv => TypeOK
<1> SUFFICES ASSUME GInv, PInv, TInv PROVE TypeOK
    OBVIOUS
<1>1. StreamTypeOK
    BY StreamTypesImply DEF TInv
<1>2. picks \in BoundedSeq(Ids, MaxPicks)
    BY BoundedSequences, PageAssumption DEF TInv, PageTypes
<1>3. \A r \in Runs : taken[r] \in 0 .. Len(frames[r])
    <2>1. \A r \in Runs : frames[r] \in Seq(Frames) /\ taken[r] \in Nat /\ taken[r] <= Len(frames[r])
        BY DEF TInv, PageTypes, StreamTypes
    <2> QED
        BY <2>1
<1>4. sel \in Backends /\ cancelFn \in Runs \cup {None} /\ reading \subseteq Runs
    BY DEF GInv, Shape
<1>5. steps \subseteq Runs /\ promptSteps \in Runs \cup {None} /\ {dist, latest} \subseteq Runs \cup {None}
    BY DEF PInv, Names
<1>6. /\ producedKey \in Backends \cup {None} /\ busy \in BOOLEAN /\ troubles \in 0 .. MaxTroubles
      /\ forcing \in 0 .. MaxTroubles + 1
      /\ {streamError, manualMode, overlapped, mixed, strayed} \subseteq BOOLEAN
    BY PageAssumption DEF TInv, PageTypes
<1> QED
    BY <1>1, <1>2, <1>3, <1>4, <1>5, <1>6 DEF TypeOK

LEMMA TInvInit == Init => TInv
<1> SUFFICES ASSUME Init PROVE TInv
    OBVIOUS
<1> USE StreamAssumption, PageAssumption DEF Init, StreamInit
<1>1. StreamTypes
    <2>1. NoRequest \in Remainders /\ <<>> \in Seq(Frames) /\ "none" \in Reasons
        BY DEF Remainders, Reasons
    <2> QED
        BY <2>1 DEF StreamTypes
<1>2. PageTypes
    <2>1. picks \in Seq(Ids) /\ Len(picks) <= MaxPicks
        <3>1. Len(<<>>) = 0 /\ <<>> \in Seq(Ids)
            OBVIOUS
        <3> QED
            BY <3>1
    <2>2. ASSUME NEW r \in Runs PROVE taken[r] <= Len(frames[r]) /\ (gone[r] => taken[r] = 0)
        <3>1. frames[r] = <<>> /\ Len(<<>>) = 0 /\ taken[r] = 0
            OBVIOUS
        <3> QED
            BY <3>1
    <2>3. taken \in [Runs -> Nat] /\ troubles \in 0 .. MaxTroubles /\ forcing \in 0 .. troubles + 1
        OBVIOUS
    <2> QED
        BY <2>1, <2>2, <2>3 DEF PageTypes
<1> QED
    BY <1>1, <1>2 DEF TInv

\* Troubles are only forgotten at rest, where no text is being forced.
LEMMA TroubleGrows ==
    ASSUME PageTypes, NEW is, Trouble(is)
    PROVE  /\ troubles \in Nat /\ forcing \in Nat /\ forcing <= troubles + 1
           /\ troubles' \in Nat /\ troubles' \in 0 .. MaxTroubles
           /\ forcing = 0 \/ troubles' >= troubles
<1>1. /\ troubles \in Nat /\ forcing \in Nat /\ forcing <= troubles + 1
      /\ troubles' \in Nat /\ troubles' \in 0 .. MaxTroubles
    BY PageAssumption DEF Trouble, PageTypes
<1>2. CASE AtRest
    <2>1. ~(forcing > 0)
        BY <1>2 DEF AtRest, UnderWay
    <2>2. forcing = 0
        BY <1>1, <2>1
    <2> QED
        BY <1>1, <2>2
<1>3. CASE ~AtRest
    <2>1. troubles' = troubles \/ troubles' = troubles + 1
        BY <1>3 DEF Trouble
    <2>2. troubles' >= troubles
        BY <1>1, <2>1
    <2> QED
        BY <1>1, <2>2
<1> QED
    BY <1>2, <1>3

LEMMA TroubleType ==
    ASSUME PageTypes, NEW is, Trouble(is), forcing' \in Nat, forcing' <= forcing
    PROVE  troubles' \in 0 .. MaxTroubles /\ forcing' \in 0 .. troubles' + 1
BY TroubleGrows

LEMMA OneText == \A n \in Nat : 1 \in 0 .. n + 1
OBVIOUS

\* A text that is forced while anything else is under way is a trouble.
LEMMA ForcedTrouble ==
    ASSUME PageTypes, ForceText
    PROVE  troubles' \in 0 .. MaxTroubles /\ forcing' \in 0 .. troubles' + 1
<1>0. /\ troubles \in Nat /\ troubles <= MaxTroubles /\ MaxTroubles \in Nat
      /\ forcing \in Nat /\ forcing <= troubles + 1
    BY PageAssumption DEF PageTypes
<1>1. troubles' \in 0 .. MaxTroubles
    <2>1. CASE AtRest
        <3>1. troubles' = 0
            BY <2>1 DEF ForceText, Trouble
        <3> QED
            BY <1>0, <3>1
    <2>2. CASE ~AtRest
        <3>1. \/ troubles < MaxTroubles /\ troubles' = troubles + 1
              \/ troubles' = troubles
            BY <2>2 DEF ForceText, Trouble
        <3> QED
            BY <1>0, <3>1
    <2> QED
        BY <2>1, <2>2
<1>2. forcing' = forcing + 1
    BY DEF ForceText
<1>3. CASE forcing = 0
    <2>1. forcing' = 1
        BY <1>2, <1>3
    <2>2. troubles' \in Nat
        BY <1>0, <1>1
    <2>3. forcing' \in 0 .. troubles' + 1
        BY <2>1, <2>2, OneText
    <2> QED
        BY <1>1, <2>3
<1>4. CASE forcing > 0
    <2>1. UnderWay
        BY <1>4 DEF UnderWay
    <2>2. ~AtRest
        BY <2>1 DEF AtRest
    <2>3. Trouble(UnderWay)
        BY DEF ForceText
    <2>4. troubles' = troubles + 1
        BY <2>1, <2>2, <2>3 DEF Trouble
    <2> QED
        BY <1>0, <1>1, <1>2, <2>4
<1> QED
    BY <1>0, <1>1, <1>3, <1>4

\* The same where no text is forced.
LEMMA TroubleStays ==
    ASSUME PageTypes, NEW is, Trouble(is), forcing' = forcing
    PROVE  troubles' \in 0 .. MaxTroubles /\ forcing' \in 0 .. troubles' + 1
<1>1. forcing \in Nat /\ forcing' <= forcing
    BY PageAssumption DEF PageTypes
<1> QED
    BY <1>1, TroubleType

LEMMA ServeTInv == ASSUME GInv, TInv, NEW r \in Runs, Serves(r) PROVE TInv'
<1>1. UNCHANGED pageVars /\ Serve(r)
    BY DEF Serves
<1>2. StreamTypes'
    BY <1>1, ServeTypes DEF TInv
<1>3. UNCHANGED <<taken, producedKey, picks, troubles, busy, streamError, manualMode, forcing>>
      /\ UNCHANGED <<overlapped, mixed, strayed>>
    BY <1>1 DEF pageVars, manualVars, controlVars, ghosts
<1>4. \A u \in Runs : gone'[u] => gone[u]
    BY <1>1, ServeMoves DEF Moves
<1>5. ASSUME NEW u \in Runs PROVE Len(frames'[u]) >= Len(frames[u]) \/ (gone[u] /\ Len(frames'[u]) = 0)
    <2>1. frames[u] \in Seq(Frames) /\ frames \in [Runs -> Seq(Frames)]
        BY DEF TInv, StreamTypes
    <2>2. CASE \E fs \in Seq(Frames) : Yield(r, fs)
        <3>1. Len(frames'[r]) >= Len(frames[r]) /\ \A v \in Runs \ {r} : frames'[v] = frames[v]
            BY <2>1, <2>2, FramesAppend
        <3>2. Len(frames[u]) >= Len(frames[u])
            BY <2>1
        <3> QED
            BY <3>1, <3>2
    <2>3. CASE UNCHANGED frames
        BY <2>1, <2>3
    <2>4. CASE (Check(r) /\ End(r, "refused")) \/ Return(r) \/ Abandon(r)
        <3>1. PICK where \in Ended : End(r, where)
            BY <2>4 DEF Check, Return, Abandon, Ended
        <3>2. where # "none"
            BY DEF Ended
        <3>3. frames' = IF gone[r] THEN [frames EXCEPT ![r] = <<>>] ELSE frames
            BY <3>1, <3>2 DEF End, Gone
        <3> QED
            BY <2>1, <3>3
    <2> QED
        BY <1>1, <2>2, <2>3, <2>4, YieldsFrames DEF TInv
<1>6. \A u \in Runs : taken[u] <= Len(frames'[u])
    <2>1. \A u \in Runs : /\ Len(frames[u]) \in Nat /\ Len(frames'[u]) \in Nat /\ taken[u] \in Nat
                          /\ taken[u] <= Len(frames[u]) /\ (gone[u] => taken[u] = 0)
        BY <1>2 DEF TInv, PageTypes, StreamTypes
    <2> QED
        BY <1>5, <2>1
<1>7. PageTypes'
    BY <1>3, <1>4, <1>6 DEF TInv, PageTypes
<1> QED
    BY <1>2, <1>7 DEF TInv

LEMMA WayTypes ==
    ASSUME NEW b \in Backends, NEW include \in BOOLEAN, NEW support \in Supported
    PROVE  Way(b, include, support) \in {"remote", "native", "combined", "steps"}
BY DEF Way

LEMMA BeginTInv ==
    ASSUME GInv, TInv, NEW manual \in BOOLEAN, NEW want \in 1 .. MaxTokens, NEW include \in BOOLEAN,
           NEW prefix \in Seq(Ids), NEW reset, NEW others \in BOOLEAN,
           Begin(manual, want, include, prefix, reset, others),
           picks' \in Seq(Ids), Len(picks') <= MaxPicks, manualMode' \in BOOLEAN,
           forcing' \in Nat, forcing' <= forcing
    PROVE  TInv'
<1> USE DEF TInv
<1>1. PICK r \in Fresh, support \in Supports :
          Post(r, [backend |-> sel, way |-> Way(sel, include, support),
                   include |-> include, want |-> want,
                   prefix |-> prefix, manual |-> manual])
    BY DEF Begin
<1> DEFINE q == [backend |-> sel, way |-> Way(sel, include, support),
                 include |-> include, want |-> want, prefix |-> prefix, manual |-> manual]
<1>2. q \in Requests
    <2>1. sel \in Backends /\ support \in Supported
        BY PageAssumption DEF GInv, Shape
    <2>2. Way(sel, include, support) \in {"remote", "native", "combined", "steps"}
        BY <2>1, WayTypes
    <2> QED
        BY <2>1, <2>2 DEF Requests
<1>3. req' = [req EXCEPT ![r] = q] /\ r \in Runs
    BY <1>1 DEF Post, Fresh
<1> HIDE DEF q
<1>4. UNCHANGED <<gone, callVars, runVars, frames, taken>>
    BY DEF Begin
<1>5. StreamTypes'
    BY <1>2, <1>3, <1>4 DEF StreamTypes, callVars, runVars
<1>6. /\ busy' = TRUE /\ streamError' = FALSE /\ overlapped' = others /\ producedKey' = sel
      /\ mixed' \in BOOLEAN /\ strayed' \in BOOLEAN
      /\ troubles' \in 0 .. MaxTroubles /\ forcing' \in 0 .. troubles' + 1
    BY TroubleType DEF Begin
<1>7. PageTypes'
    BY <1>4, <1>6 DEF PageTypes, GInv, Shape
<1> QED
    BY <1>5, <1>7

LEMMA BeginsTInv ==
    ASSUME GInv, TInv, Generate \/ EnterManual \/ Pick \/ Undo \/ ForceTextArrives
    PROVE  TInv'
<1>1. /\ picks \in Seq(Ids) /\ Len(picks) \in Nat /\ Len(picks) <= MaxPicks /\ MaxPicks \in Nat
      /\ manualMode \in BOOLEAN /\ forcing \in Nat /\ 1 \in 1 .. MaxTokens
    BY PageAssumption, StreamAssumption DEF TInv, PageTypes
<1> DEFINE more == reading # {} \/ forcing > 1
<1>2. UnderWay \in BOOLEAN /\ more \in BOOLEAN
    BY DEF UnderWay
<1>3. \A p \in Seq(Ids) : (p = <<>>) \in BOOLEAN
    OBVIOUS
<1>4. CASE Generate
    <2>1. PICK want \in 1 .. MaxTokens, include \in BOOLEAN :
              Begin(FALSE, want, include, <<>>, TRUE, UnderWay)
        BY <1>4 DEF Generate
    <2>2. manualMode' = FALSE /\ UNCHANGED <<picks, forcing>> /\ <<>> \in Seq(Ids)
        BY <1>4 DEF Generate
    <2>3. forcing' \in Nat /\ forcing' <= forcing
        BY <1>1, <2>2
    <2> QED
        BY <1>1, <1>2, <2>1, <2>2, <2>3, BeginTInv
<1>5. CASE EnterManual \/ Pick \/ Undo \/ ForceTextArrives
    <2>1. PICK p \in Seq(Ids), others \in BOOLEAN : Len(p) <= MaxPicks /\ FetchNext(p, others)
        <3>1. CASE EnterManual
            <4>1. FetchNext(<<>>, UnderWay) /\ <<>> \in Seq(Ids) /\ Len(<<>>) <= MaxPicks
                BY <1>1, <3>1 DEF EnterManual
            <4> QED
                BY <1>2, <4>1
        <3>2. CASE Pick
            <4>1. PICK id \in Ids : FetchNext(Append(picks, id), UnderWay)
                BY <3>2 DEF Pick
            <4>2. Append(picks, id) \in Seq(Ids) /\ Len(Append(picks, id)) = Len(picks) + 1
                BY <1>1
            <4>3. Len(picks) < MaxPicks
                BY <3>2 DEF Pick
            <4>4. Append(picks, id) \in Seq(Ids) /\ Len(Append(picks, id)) <= MaxPicks
                BY <1>1, <4>2, <4>3
            <4> QED
                BY <1>2, <4>1, <4>4
        <3>3. CASE Undo
            <4>1. PICK n \in 0 .. Len(picks) - 1 : FetchNext(SubSeq(picks, 1, n), UnderWay)
                BY <3>3 DEF Undo
            <4>2. SubSeq(picks, 1, n) \in Seq(Ids) /\ Len(SubSeq(picks, 1, n)) = n
                BY <1>1
            <4>3. SubSeq(picks, 1, n) \in Seq(Ids) /\ Len(SubSeq(picks, 1, n)) <= MaxPicks
                BY <1>1, <4>2
            <4> QED
                BY <1>2, <4>1, <4>3
        <3>4. CASE ForceTextArrives
            <4>1. PICK ids \in BoundedSeq(Ids, MaxPicks - Len(picks)) : FetchNext(picks \o ids, more)
                BY <3>4 DEF ForceTextArrives
            <4>2. MaxPicks - Len(picks) \in Nat
                BY <1>1
            <4>3. ids \in Seq(Ids) /\ Len(ids) <= MaxPicks - Len(picks)
                BY <4>2, BoundedSequences
            <4>4. picks \o ids \in Seq(Ids) /\ Len(picks \o ids) = Len(picks) + Len(ids) /\ Len(ids) \in Nat
                BY <1>1, <4>3
            <4>5. picks \o ids \in Seq(Ids) /\ Len(picks \o ids) <= MaxPicks
                BY <1>1, <4>3, <4>4
            <4> QED
                BY <1>2, <4>1, <4>5
        <3> QED
            BY <1>5, <3>1, <3>2, <3>3, <3>4
    <2> DEFINE empty == p = <<>>
    <2>2. picks' = p /\ Begin(TRUE, 1, empty, p, empty, others)
        BY <2>1 DEF FetchNext
    <2>3. manualMode' \in BOOLEAN /\ forcing' \in Nat /\ forcing' <= forcing
        <3>1. CASE ForceTextArrives
            BY <1>1, <3>1 DEF ForceTextArrives
        <3>2. CASE EnterManual \/ Pick \/ Undo
            <4>1. (manualMode' = manualMode \/ manualMode' = TRUE) /\ forcing' = forcing
                BY <3>2 DEF EnterManual, Pick, Undo
            <4>2. manualMode' \in BOOLEAN
                BY <1>1, <4>1, Zenon
            <4> QED
                BY <1>1, <4>1, <4>2
        <3> QED
            BY <1>5, <3>1, <3>2
    <2>4. TRUE \in BOOLEAN /\ empty \in BOOLEAN /\ 1 \in 1 .. MaxTokens
        BY <1>1, <1>3, <2>1
    <2>5. picks' \in Seq(Ids) /\ Len(picks') <= MaxPicks
        BY <2>1, <2>2
    <2> HIDE DEF empty
    <2> QED
        BY <2>1, <2>2, <2>3, <2>4, <2>5, BeginTInv
<1> QED
    BY <1>4, <1>5

\* Nothing of the streams changes, or a connection is let go.
LEMMA ReadingTInv ==
    ASSUME GInv, PInv, TInv,
           \/ UNCHANGED <<req, gone, frames, taken>>
           \/ \E r \in reading : Disconnect(r)
           \/ \E r \in Runs : Read(r),
           UNCHANGED <<callVars, runVars>>,
           producedKey' = producedKey, picks' \in {picks, <<>>}, troubles' \in 0 .. MaxTroubles,
           busy' \in BOOLEAN, streamError' \in BOOLEAN, manualMode' \in BOOLEAN, forcing' \in 0 .. troubles' + 1,
           overlapped' \in BOOLEAN, mixed' \in BOOLEAN, strayed' \in BOOLEAN
    PROVE  TInv'
<1> USE PageAssumption DEF TInv
<1>1. picks' \in Seq(Ids) /\ Len(picks') <= MaxPicks
    <2>1. CASE picks' = <<>>
        <3>1. Len(<<>>) = 0 /\ <<>> \in Seq(Ids)
            OBVIOUS
        <3> QED
            BY <2>1, <3>1
    <2>2. CASE picks' = picks
        BY <2>2 DEF PageTypes
    <2> QED
        BY <2>1, <2>2
<1>2. \A u \in Runs : frames[u] \in Seq(Frames) /\ Len(frames[u]) \in Nat
    BY DEF StreamTypes
<1>3. CASE UNCHANGED <<req, gone, frames, taken>>
    BY <1>1, <1>3 DEF StreamTypes, PageTypes, callVars, runVars
<1>4. ASSUME NEW r \in reading, Disconnect(r) PROVE TInv'
    <2>1. r \in Runs
        BY DEF GInv, Shape
    <2>2. taken' = [taken EXCEPT ![r] = 0]
        BY <1>4 DEF Disconnect
    <2>3. PICK where \in {"none", at[r]}, left \in BOOLEAN : Gone(r, where, left)
        BY <1>4 DEF Disconnect, Leave
    <2>4. /\ req' \in [Runs -> Requests \cup Remainders] /\ gone' \in [Runs -> BOOLEAN]
          /\ frames' \in [Runs -> Seq(Frames)]
        BY <2>1, <2>3, GoneTypes
    <2>5. \A u \in Runs \ {r} : frames'[u] = frames[u] /\ gone'[u] = gone[u]
        BY <2>3 DEF Gone, StreamTypes
    <2>6. StreamTypes'
        BY <2>4 DEF StreamTypes, callVars, runVars
    <2>7. taken' \in [Runs -> Nat]
        BY <2>2 DEF PageTypes
    <2>8. ASSUME NEW u \in Runs PROVE taken'[u] <= Len(frames'[u]) /\ (gone'[u] => taken'[u] = 0)
        <3>1. CASE u = r
            <4>1. taken'[u] = 0 /\ Len(frames'[u]) \in Nat
                BY <2>1, <2>2, <2>4, <3>1 DEF PageTypes
            <4> QED
                BY <4>1
        <3>2. CASE u # r
            BY <2>2, <2>5, <3>2 DEF PageTypes
        <3> QED
            BY <3>1, <3>2
    <2> QED
        BY <1>1, <2>6, <2>7, <2>8 DEF PageTypes
<1>5. ASSUME NEW r \in Runs, Read(r) PROVE TInv'
    <2>1. /\ taken' = [taken EXCEPT ![r] = taken[r] + 1] /\ taken[r] < Len(frames[r])
          /\ UNCHANGED <<req, gone, frames>> /\ r \in reading
        BY <1>5 DEF Read, streamVars
    <2>2. taken' \in [Runs -> Nat] /\ ~gone[r]
        BY <2>1 DEF PageTypes, PInv, Readable
    <2>3. \A u \in Runs : taken'[u] <= Len(frames'[u]) /\ (gone'[u] => taken'[u] = 0)
        BY <1>2, <2>1, <2>2 DEF PageTypes
    <2> QED
        BY <1>1, <2>1, <2>2, <2>3 DEF PageTypes, StreamTypes, callVars, runVars
<1> QED
    BY <1>3, <1>4, <1>5

LEMMA TInvNext == GInv /\ PInv /\ TInv /\ [Next]_vars => TInv'
<1> SUFFICES ASSUME GInv, PInv, TInv, [Next]_vars PROVE TInv'
    OBVIOUS
<1>1. PageTypes
    BY DEF TInv
<1>2. CASE UNCHANGED vars
    BY <1>1, <1>2, ReadingTInv DEF vars, pageVars, streamVars, manualVars, controlVars, ghosts, PageTypes
<1>3. ASSUME NEW r \in Runs, Serves(r) PROVE TInv'
    BY <1>3, ServeTInv
<1>4. ASSUME NEW r \in Runs, Read(r) PROVE TInv'
    <2>1. /\ UNCHANGED <<callVars, runVars, producedKey, picks, troubles, busy, manualMode, forcing>>
          /\ UNCHANGED <<overlapped, mixed, strayed>> /\ streamError' \in BOOLEAN
        BY <1>4 DEF Read, streamVars, manualVars, ghosts
    <2> QED
        BY <1>1, <1>4, <2>1, ReadingTInv DEF PageTypes
<1>5. ASSUME NEW r \in Runs, ReadEnd(r) \/ Drop(r) PROVE TInv'
    <2>1. /\ UNCHANGED <<callVars, runVars, producedKey, picks, manualMode, forcing>>
          /\ UNCHANGED <<overlapped, mixed, strayed>>
          /\ r \in reading /\ Disconnect(r)
          /\ \E error \in BOOLEAN : Finally(r, error)
        BY <1>5 DEF ReadEnd, Drop, manualVars, ghosts
    <2>2. busy' \in BOOLEAN /\ streamError' \in BOOLEAN
        BY <2>1 DEF Finally
    <2>3. troubles' \in 0 .. MaxTroubles /\ forcing' \in 0 .. troubles' + 1
        <3>1. CASE Drop(r)
            BY <1>1, <2>1, <3>1, TroubleStays DEF Drop
        <3>2. CASE ReadEnd(r)
            <4>1. troubles' = troubles /\ forcing' = forcing
                BY <2>1, <3>2 DEF ReadEnd, ghosts
            <4> QED
                BY <1>1, <4>1 DEF PageTypes
        <3> QED
            BY <1>5, <3>1, <3>2
    <2> QED
        BY <1>1, <2>1, <2>2, <2>3, ReadingTInv DEF PageTypes
<1>6. CASE ExitManual \/ ForceText \/ ForceTextFails
    <2>1. /\ UNCHANGED <<req, gone, frames, taken, callVars, runVars, producedKey, picks>>
          /\ UNCHANGED <<mixed, strayed>>
        BY <1>6 DEF ExitManual, ForceText, ForceTextFails, streamVars, controlVars, ghosts
    <2>2. /\ busy' \in BOOLEAN /\ streamError' \in BOOLEAN /\ manualMode' \in BOOLEAN
          /\ overlapped' \in BOOLEAN
        BY <1>1, <1>6 DEF ExitManual, ForceText, ForceTextFails, controlVars, ghosts, PageTypes
    <2>3. troubles' \in 0 .. MaxTroubles /\ forcing' \in 0 .. troubles' + 1
        <3>1. CASE ForceText
            BY <1>1, <3>1, ForcedTrouble
        <3>2. CASE ExitManual \/ ForceTextFails
            BY <1>1, <3>2, PageAssumption DEF ExitManual, ForceTextFails, ghosts, PageTypes
        <3> QED
            BY <1>6, <3>1, <3>2
    <2> QED
        BY <1>1, <2>1, <2>2, <2>3, ReadingTInv DEF PageTypes
<1>7. ASSUME Abort
      PROVE  /\ UNCHANGED <<req, gone, frames, taken>> \/ \E r \in reading : Disconnect(r)
             /\ busy' \in BOOLEAN /\ streamError' \in BOOLEAN
    BY <1>1, <1>7 DEF Abort, connection, Finally, PInv, Button, PageTypes
<1>8. CASE Cancel
    <2>1. /\ UNCHANGED <<callVars, runVars, producedKey, picks, manualMode, forcing>>
          /\ UNCHANGED <<overlapped, mixed, strayed>> /\ Abort
        BY <1>8 DEF Cancel, manualVars
    <2>2. troubles' \in 0 .. MaxTroubles /\ forcing' \in 0 .. troubles' + 1
        BY <1>1, <1>8, <2>1, TroubleStays DEF Cancel
    <2> QED
        BY <1>1, <1>7, <2>1, <2>2, ReadingTInv DEF PageTypes
<1>9. CASE Switch
    <2>1. /\ UNCHANGED <<callVars, runVars, producedKey, forcing, overlapped, mixed>>
          /\ picks' \in {picks, <<>>} /\ manualMode' \in {manualMode, FALSE} /\ strayed' \in BOOLEAN
        BY <1>9 DEF Switch
    <2>2. Abort \/ UNCHANGED <<req, gone, frames, taken, busy, streamError>>
        BY <1>9 DEF Switch, connection
    <2>3. troubles' \in 0 .. MaxTroubles /\ forcing' \in 0 .. troubles' + 1
        BY <1>1, <1>9, <2>1, TroubleStays DEF Switch
    <2> QED
        BY <1>1, <1>7, <2>1, <2>2, <2>3, ReadingTInv DEF PageTypes
<1> QED
    BY <1>2, <1>3, <1>4, <1>5, <1>6, <1>8, <1>9, BeginsTInv DEF Next

\* Of the streams' variables and the page's.
THEOREM TypesInvariant == Spec => []TInv
<1> QED
    BY StreamsInvariant, PageInvariant, TInvInit, TInvNext, PTL DEF Spec

\* No variable leaves its type: retries, tokens and picks keep their bounds, and
\* the page has never read a frame that was not sent.
THEOREM TypesCorrect == Spec => []TypeOK
<1> QED
    BY StreamsInvariant, PageInvariant, TypesInvariant, TInvImplies, PTL

-----------------------------------------------------------------------------
(***************************************************************************)
(* The order of the frames.                                                *)
(***************************************************************************)
\* A stream that is not closed: the prompt's rows, if any, and n steps, of which
\* the last one's reason is last.
Rows(f) == IF f # <<>> /\ f[1].event = "prompt_score" THEN 1 ELSE 0
StepsIn(f) == Len(f) - Rows(f)
LastOf(f) == IF StepsIn(f) = 0 THEN "none" ELSE f[Len(f)].reason
InOrder(f) ==
    /\ f \in Seq(Frames) /\ StepsIn(f) \in Nat
    /\ \A i \in 1 .. StepsIn(f) :
          /\ f[Rows(f) + i].event = "step" /\ f[Rows(f) + i].n = i
          /\ i < StepsIn(f) => f[Rows(f) + i].reason = "none"

LEMMA EmptyInOrder == InOrder(<<>>) /\ Rows(<<>>) = 0 /\ StepsIn(<<>>) = 0 /\ LastOf(<<>>) = "none"
<1>1. <<>> \in Seq(Frames) /\ Len(<<>>) = 0 /\ Rows(<<>>) = 0
    BY DEF Rows
<1>2. StepsIn(<<>>) = 0
    BY <1>1 DEF StepsIn
<1> QED
    BY <1>1, <1>2 DEF InOrder, LastOf

LEMMA RowsInOrder ==
    ASSUME NEW x \in Frames, x.event = "prompt_score"
    PROVE  InOrder(<<x>>) /\ Rows(<<x>>) = 1 /\ StepsIn(<<x>>) = 0 /\ LastOf(<<x>>) = "none"
<1>1. <<x>> \in Seq(Frames) /\ Len(<<x>>) = 1 /\ <<x>>[1] = x /\ <<x>> # <<>>
    OBVIOUS
<1>2. Rows(<<x>>) = 1
    BY <1>1 DEF Rows
<1>3. StepsIn(<<x>>) = 0
    BY <1>1, <1>2 DEF StepsIn
<1> QED
    BY <1>1, <1>2, <1>3 DEF InOrder, LastOf

LEMMA StepInOrder ==
    ASSUME NEW f, InOrder(f), LastOf(f) = "none", NEW x \in Frames,
           x.event = "step", x.n = StepsIn(f) + 1
    PROVE  /\ InOrder(f \o <<x>>) /\ Rows(f \o <<x>>) = Rows(f)
           /\ StepsIn(f \o <<x>>) = StepsIn(f) + 1 /\ LastOf(f \o <<x>>) = x.reason
<1> DEFINE g == f \o <<x>>
<1>1. f \in Seq(Frames) /\ Len(f) \in Nat /\ StepsIn(f) \in Nat /\ Rows(f) \in {0, 1}
    BY DEF InOrder, Rows
<1>2. /\ g \in Seq(Frames) /\ Len(g) = Len(f) + 1 /\ g[Len(f) + 1] = x
      /\ \A i \in 1 .. Len(f) : g[i] = f[i]
    BY <1>1
<1>3. g # <<>> /\ (f # <<>> => Len(f) >= 1)
    BY <1>1, <1>2
<1> HIDE DEF g
<1>4. Rows(g) = Rows(f)
    <2>1. CASE f = <<>>
        <3>1. g[1] = x /\ Rows(f) = 0
            BY <1>2, <2>1 DEF Rows
        <3> QED
            BY <3>1 DEF Rows
    <2>2. CASE f # <<>>
        <3>1. g[1] = f[1]
            BY <1>1, <1>2, <1>3, <2>2
        <3> QED
            BY <1>3, <2>2, <3>1 DEF Rows
    <2> QED
        BY <2>1, <2>2
<1>5. StepsIn(g) = StepsIn(f) + 1 /\ Len(f) = Rows(f) + StepsIn(f)
    BY <1>1, <1>2, <1>4 DEF StepsIn
<1>6. LastOf(g) = x.reason
    BY <1>1, <1>2, <1>5 DEF LastOf
<1>7. ASSUME NEW i \in 1 .. StepsIn(g)
      PROVE  /\ g[Rows(g) + i].event = "step" /\ g[Rows(g) + i].n = i
             /\ i < StepsIn(g) => g[Rows(g) + i].reason = "none"
    <2>1. CASE i = StepsIn(g)
        <3>1. g[Rows(g) + i] = x
            BY <1>1, <1>2, <1>4, <1>5, <2>1
        <3> QED
            BY <1>5, <2>1, <3>1
    <2>2. CASE i # StepsIn(g)
        <3>1. i \in 1 .. StepsIn(f) /\ g[Rows(g) + i] = f[Rows(f) + i]
            BY <1>1, <1>2, <1>4, <1>5, <2>2
        <3>2. i = StepsIn(f) => f[Rows(f) + i].reason = "none"
            BY <1>1, <1>5, <3>1 DEF LastOf
        <3>3. i < StepsIn(f) \/ i = StepsIn(f)
            BY <1>1, <3>1
        <3> QED
            BY <3>1, <3>2, <3>3 DEF InOrder
    <2> QED
        BY <2>1, <2>2
<1>8. InOrder(g)
    BY <1>1, <1>2, <1>5, <1>7 DEF InOrder
<1> QED
    BY <1>4, <1>5, <1>6, <1>8 DEF g

\* What Delivered says of a run, closed or not.
Clean(r) ==
    /\ StepsOf(r) >= 0
    /\ \A i \in 1 .. StepsOf(r) :
          /\ NthStep(r, i).event = "step" /\ NthStep(r, i).n = i
          /\ i < StepsOf(r) => NthStep(r, i).reason = "none"
    /\ Closed(r) => frames[r][Len(frames[r]) - 1].event = "usage"
    /\ Scored(r) => req[r].include

LEMMA OpenClean ==
    ASSUME NEW r \in Runs, InOrder(frames[r]), Rows(frames[r]) = 1 => req[r].include
    PROVE  Clean(r) /\ ~Closed(r)
<1> DEFINE f == frames[r]
<1>1. f \in Seq(Frames) /\ Len(f) \in Nat /\ StepsIn(f) \in Nat /\ Rows(f) \in {0, 1}
    BY DEF InOrder, Rows
<1>2. Before(r) = Rows(f) /\ (Scored(r) <=> Rows(f) = 1)
    BY DEF Before, Scored, Rows
<1>3. ~Closed(r)
    <2>1. CASE f = <<>>
        BY <2>1 DEF Closed
    <2>2. CASE f # <<>> /\ StepsIn(f) = 0
        <3>1. Len(f) = 1 /\ Rows(f) = 1
            <4>1. Len(f) >= 1
                BY <1>1, <2>2
            <4>2. Len(f) = Rows(f)
                BY <1>1, <2>2 DEF StepsIn
            <4> QED
                BY <1>1, <4>1, <4>2
        <3>2. Last(f) = f[1] /\ f[1].event = "prompt_score"
            BY <3>1 DEF Rows, Last
        <3> QED
            BY <3>2 DEF Closed
    <2>3. CASE StepsIn(f) # 0
        <3>1. StepsIn(f) \in 1 .. StepsIn(f) /\ Rows(f) + StepsIn(f) = Len(f)
            BY <1>1, <2>3 DEF StepsIn
        <3>2. Last(f).event = "step"
            BY <3>1 DEF InOrder, Last
        <3> QED
            BY <3>2 DEF Closed
    <2> QED
        BY <2>1, <2>2, <2>3
<1>4. StepsOf(r) = StepsIn(f)
    BY <1>1, <1>2, <1>3 DEF StepsOf, StepsIn
<1>5. \A i : NthStep(r, i) = f[Rows(f) + i]
    BY <1>2 DEF NthStep
<1>6. Scored(r) => req[r].include
    BY <1>2
<1>7. InOrder(f)
    OBVIOUS
<1> HIDE DEF f
<1>8. \A i \in 1 .. StepsOf(r) :
          /\ NthStep(r, i).event = "step" /\ NthStep(r, i).n = i
          /\ i < StepsOf(r) => NthStep(r, i).reason = "none"
    BY <1>4, <1>5, <1>7 DEF InOrder
<1>9. StepsOf(r) >= 0
    BY <1>1, <1>4
<1> QED
    BY <1>3, <1>6, <1>8, <1>9 DEF Clean

LEMMA CloseClean ==
    ASSUME NEW r \in Runs, NEW f, InOrder(f), NEW owners, NEW reason, NEW error,
           frames[r] = f \o <<Usage(owners), Done(reason, error)>>,
           Usage(owners) \in Frames, Done(reason, error) \in Frames,
           Rows(f) = 1 => req[r].include
    PROVE  /\ Clean(r) /\ StepsOf(r) = StepsIn(f) /\ (Scored(r) <=> Rows(f) = 1)
           /\ Last(frames[r]) = Done(reason, error)
           /\ StepsIn(f) > 0 => NthStep(r, StepsIn(f)).reason = LastOf(f)
<1> DEFINE x == Usage(owners)
           y == Done(reason, error)
           g == frames[r]
<1>1. f \in Seq(Frames) /\ Len(f) \in Nat /\ StepsIn(f) \in Nat /\ Rows(f) \in {0, 1}
      /\ x \in Frames /\ y \in Frames
    BY DEF InOrder, Rows
<1>2. x.event = "usage" /\ y.event = "done"
    BY DEF Usage, Done
<1>3. g = f \o <<x, y>>
    OBVIOUS
<1> HIDE DEF x, y, g
<1>4. /\ g \in Seq(Frames) /\ Len(g) = Len(f) + 2 /\ g[Len(f) + 1] = x /\ g[Len(f) + 2] = y
      /\ \A i \in 1 .. Len(f) : g[i] = f[i]
    <2>1. <<x, y>> \in Seq(Frames) /\ Len(<<x, y>>) = 2 /\ <<x, y>>[1] = x /\ <<x, y>>[2] = y
        BY <1>1
    <2> QED
        BY <1>1, <1>3, <2>1
<1>5. g # <<>> /\ (f # <<>> => Len(f) >= 1)
    BY <1>1, <1>4
<1>6. Last(g) = y /\ Len(g) - 1 = Len(f) + 1
    BY <1>1, <1>4 DEF Last
<1>7. Scored(r) <=> Rows(f) = 1
    <2>1. CASE f = <<>>
        <3>1. g[1] = x /\ Rows(f) = 0
            BY <1>4, <2>1 DEF Rows
        <3> QED
            BY <1>2, <3>1 DEF Scored, g
    <2>2. CASE f # <<>>
        <3>1. g[1] = f[1]
            BY <1>1, <1>4, <1>5, <2>2
        <3> QED
            BY <1>5, <2>2, <3>1 DEF Scored, Rows, g
    <2> QED
        BY <2>1, <2>2
<1>8. Closed(r)
    BY <1>2, <1>5, <1>6 DEF Closed, g
<1>9. Before(r) = Rows(f) /\ StepsOf(r) = StepsIn(f) /\ Len(f) = Rows(f) + StepsIn(f)
    <2>1. Before(r) = Rows(f)
        BY <1>1, <1>7 DEF Before
    <2>2. StepsOf(r) = Len(g) - Before(r) - 2
        BY <1>8 DEF StepsOf, g
    <2> QED
        BY <1>1, <1>4, <2>1, <2>2 DEF StepsIn
<1>10. \A i \in 1 .. StepsIn(f) : NthStep(r, i) = f[Rows(f) + i]
    <2>1. ASSUME NEW i \in 1 .. StepsIn(f) PROVE NthStep(r, i) = f[Rows(f) + i]
        <3>1. Rows(f) + i \in 1 .. Len(f)
            BY <1>1, <1>9
        <3>2. NthStep(r, i) = g[Rows(f) + i]
            BY <1>9 DEF NthStep, g
        <3> QED
            BY <1>4, <3>1, <3>2
    <2> QED
        BY <2>1
<1>11. StepsIn(f) > 0 => NthStep(r, StepsIn(f)).reason = LastOf(f)
    BY <1>1, <1>9, <1>10 DEF LastOf
<1>12. frames[r][Len(frames[r]) - 1].event = "usage"
    BY <1>2, <1>4, <1>6 DEF g
<1>13. Clean(r)
    <2>1. \A i \in 1 .. StepsIn(f) :
              /\ f[Rows(f) + i].event = "step" /\ f[Rows(f) + i].n = i
              /\ i < StepsIn(f) => f[Rows(f) + i].reason = "none"
        BY DEF InOrder
    <2>2. \A i \in 1 .. StepsOf(r) :
              /\ NthStep(r, i).event = "step" /\ NthStep(r, i).n = i
              /\ i < StepsOf(r) => NthStep(r, i).reason = "none"
        BY <1>9, <1>10, <2>1
    <2>3. StepsOf(r) >= 0
        BY <1>1, <1>9
    <2>4. Scored(r) => req[r].include
        BY <1>7
    <2> QED
        BY <1>12, <2>2, <2>3, <2>4 DEF Clean
<1>14. Last(frames[r]) = Done(reason, error)
    BY <1>6 DEF y, g
<1> QED
    BY <1>7, <1>9, <1>11, <1>13, <1>14

-----------------------------------------------------------------------------
(***************************************************************************)
(* What has been sent, and what the upstream has said, at each position.   *)
(***************************************************************************)
\* The frames h, up to the closing ones, of a request q with g tokens, which
\* ended with reason, or broke.
Ending(q, h, g, reason, error) ==
    /\ InOrder(h) /\ (Rows(h) = 1 => q.include)
    /\ q.include => Rows(h) = 1 \/ (error /\ q.way = "combined")
    /\ ~error => StepsIn(h) = g /\ (StepsIn(h) > 0 => LastOf(h) = reason)
    /\ g - 1 <= StepsIn(h)

Closing(h, owners, error) == h \o <<Usage(owners), Done(LastOf(h), error)>>

\* A request that was asked for, and all before its stream.
Early(q, a, f, g, error) ==
    /\ a # "none" => /\ q.way \in {"remote", "native", "combined", "steps"}
                     /\ q.way = "combined" => q.include
    /\ a \in {"none", "check", "queued", "refused"} => f = <<>>
    /\ a \in {"none", "check", "queued", "refused", "over"} => g = 0 /\ ~error
    /\ a = "score" => f = <<>> /\ q.include /\ q.way # "combined" /\ g = 0 /\ ~error
    /\ a = "open" => /\ q.way \in {"native", "combined"} /\ g = 0 /\ ~error
                     /\ InOrder(f) /\ StepsIn(f) = 0
                     /\ Rows(f) = 1 <=> (q.include /\ q.way # "combined")

\* Its stream: a provider's is one token behind, and a combined one sends the
\* prompt's rows with the first step.
Streaming(q, a, f, g, reason, error) ==
    a = "stream" =>
        /\ InOrder(f) /\ ~error
        /\ q.way \in {"remote", "steps"} =>
              /\ StepsIn(f) = g /\ (g > 0 => LastOf(f) = reason)
              /\ Rows(f) = 1 <=> q.include
        /\ q.way \in {"native", "combined"} =>
              /\ StepsIn(f) = (IF g = 0 THEN 0 ELSE g - 1) /\ LastOf(f) = "none"
              /\ Rows(f) = 1 <=> (q.include /\ (q.way = "combined" => f # <<>>))

Late(q, a, f, g, reason, error) ==
    /\ a = "close" => Ending(q, f, g, reason, error)
    /\ a = "done" => \E h, owners : /\ owners \subseteq Runs /\ f = Closing(h, owners, error)
                                    /\ Ending(q, h, g, reason, error)
    /\ a = "over" => \E h, owners, err : /\ owners \subseteq Runs /\ f = Closing(h, owners, err)
                                         /\ err \in BOOLEAN
                                         /\ InOrder(h) /\ (Rows(h) = 1 => q.include)

Flow(q, a, f, g, reason, error) ==
    /\ Early(q, a, f, g, error)
    /\ Streaming(q, a, f, g, reason, error)
    /\ Late(q, a, f, g, reason, error)

FInv == \A r \in Runs : Flow(req[r], at[r], frames[r], got[r], finish[r], failed[r])

LEMMA LastOfType ==
    ASSUME NEW f, InOrder(f)
    PROVE  LastOf(f) \in Reasons
<1>1. CASE StepsIn(f) = 0
    BY <1>1 DEF LastOf, Reasons
<1>2. CASE StepsIn(f) # 0
    <2>1. f \in Seq(Frames) /\ Len(f) \in Nat /\ StepsIn(f) \in Nat /\ Rows(f) \in {0, 1}
        BY DEF InOrder, Rows
    <2>2. StepsIn(f) \in 1 .. StepsIn(f) /\ Rows(f) + StepsIn(f) = Len(f)
        BY <1>2, <2>1 DEF StepsIn
    <2>3. f[Len(f)].event = "step" /\ f[Len(f)] \in Frames
        BY <2>1, <2>2 DEF InOrder
    <2>4. f[Len(f)].reason \in Reasons
        BY <2>3 DEF Frames
    <2> QED
        BY <1>2, <2>4 DEF LastOf
<1> QED
    BY <1>1, <1>2

\* last_reason is right at the end of an open stream.
LEMMA LastReasonOfOpen ==
    ASSUME NEW r \in Runs, InOrder(frames[r])
    PROVE  LastReason(r) = LastOf(frames[r])
<1> DEFINE f == frames[r]
<1>1. f \in Seq(Frames) /\ Len(f) \in Nat /\ StepsIn(f) \in Nat /\ Rows(f) \in {0, 1}
    BY DEF InOrder, Rows
<1>2. CASE StepsIn(f) # 0
    <2>1. StepsIn(f) \in 1 .. StepsIn(f) /\ Rows(f) + StepsIn(f) = Len(f) /\ f # <<>>
        BY <1>1, <1>2 DEF StepsIn
    <2>2. f[Len(f)].event = "step"
        BY <2>1 DEF InOrder
    <2> QED
        BY <1>2, <2>1, <2>2 DEF LastReason, LastOf, Last
<1>3. CASE StepsIn(f) = 0
    <2>1. CASE f = <<>>
        BY <1>3, <2>1 DEF LastReason, LastOf
    <2>2. CASE f # <<>>
        <3>1. Len(f) >= 1 /\ Len(f) = Rows(f)
            BY <1>1, <1>3, <2>2 DEF StepsIn
        <3>2. Len(f) = 1 /\ Rows(f) = 1
            BY <1>1, <3>1
        <3>3. Last(f).event = "prompt_score"
            BY <3>2 DEF Rows, Last
        <3> QED
            BY <1>3, <3>3 DEF LastReason, LastOf
    <2> QED
        BY <2>1, <2>2
<1> QED
    BY <1>2, <1>3

-----------------------------------------------------------------------------
(***************************************************************************)
(* Every step keeps it.                                                    *)
(***************************************************************************)
FlowOf(r) == Flow(req[r], at[r], frames[r], got[r], finish[r], failed[r])

LEMMA ClosingFrames ==
    ASSUME NEW r \in Runs, NEW h, NEW owners \in SUBSET Runs, NEW error \in BOOLEAN,
           frames[r] = Closing(h, owners, error), InOrder(h), Rows(h) = 1 => req[r].include
    PROVE  /\ Clean(r) /\ StepsOf(r) = StepsIn(h) /\ (Scored(r) <=> Rows(h) = 1)
           /\ Last(frames[r]) = Done(LastOf(h), error)
           /\ StepsIn(h) > 0 => NthStep(r, StepsIn(h)).reason = LastOf(h)
<1>1. LastOf(h) \in Reasons
    BY LastOfType
<1>2. Usage(owners) \in Frames /\ Done(LastOf(h), error) \in Frames
    BY <1>1, FrameTypes
<1>3. frames[r] = h \o <<Usage(owners), Done(LastOf(h), error)>>
    BY DEF Closing
<1> QED
    BY <1>2, <1>3, CloseClean

LEMMA FInvImplies == GInv /\ TInv /\ FInv => Delivered
<1> SUFFICES ASSUME GInv, TInv, FInv PROVE Delivered
    OBVIOUS
<1>1. ASSUME NEW r \in Runs
      PROVE  Clean(r) /\ (at[r] = "done" =>
                  /\ Last(frames[r]) = Done(IF StepsOf(r) = 0 THEN "none" ELSE NthStep(r, StepsOf(r)).reason, failed[r])
                  /\ req[r].include => Scored(r) \/ (failed[r] /\ req[r].way = "combined")
                  /\ ~failed[r] => /\ StepsOf(r) = got[r]
                                   /\ StepsOf(r) > 0 => NthStep(r, StepsOf(r)).reason = finish[r]
                  /\ got[r] - 1 <= StepsOf(r))
    <2>1. FlowOf(r)
        BY DEF FInv, FlowOf
    <2>2. at[r] \in {"none", "check", "queued", "score", "open", "stream", "close", "done", "over", "refused"}
        BY DEF GInv, Shape, Working, Bound, Ended
    <2>3. failed[r] \in BOOLEAN
        BY DEF TInv, StreamTypes
    <2>4. CASE at[r] \in {"none", "check", "queued", "refused", "score"}
        <3>1. frames[r] = <<>>
            BY <2>1, <2>4 DEF FlowOf, Flow, Early
        <3>2. InOrder(frames[r]) /\ (Rows(frames[r]) = 1 => req[r].include)
            BY <3>1, EmptyInOrder
        <3> QED
            BY <2>4, <3>2, OpenClean
    <2>5. CASE at[r] \in {"open", "stream", "close"}
        <3>1. InOrder(frames[r])
            BY <2>1, <2>5 DEF FlowOf, Flow, Early, Streaming, Late, Ending
        <3>2. Rows(frames[r]) = 1 => req[r].include
            <4>1. CASE at[r] = "stream"
                BY <2>1, <4>1 DEF FlowOf, Flow, Early, Streaming
            <4>2. CASE at[r] \in {"open", "close"}
                BY <2>1, <4>2 DEF FlowOf, Flow, Early, Late, Ending
            <4> QED
                BY <2>5, <4>1, <4>2
        <3> QED
            BY <2>5, <3>1, <3>2, OpenClean
    <2>6. CASE at[r] = "done"
        <3>1. PICK h, owners : /\ owners \subseteq Runs /\ frames[r] = Closing(h, owners, failed[r])
                               /\ Ending(req[r], h, got[r], finish[r], failed[r])
            BY <2>1, <2>6 DEF FlowOf, Flow, Late
        <3>2. InOrder(h) /\ (Rows(h) = 1 => req[r].include)
            BY <3>1 DEF Ending
        <3>3. /\ Clean(r) /\ StepsOf(r) = StepsIn(h) /\ (Scored(r) <=> Rows(h) = 1)
              /\ Last(frames[r]) = Done(LastOf(h), failed[r])
              /\ StepsIn(h) > 0 => NthStep(r, StepsIn(h)).reason = LastOf(h)
            BY <2>3, <3>1, <3>2, ClosingFrames
        <3>4. LastOf(h) = IF StepsOf(r) = 0 THEN "none" ELSE NthStep(r, StepsOf(r)).reason
            BY <3>2, <3>3 DEF LastOf, InOrder
        <3>5. req[r].include => Scored(r) \/ (failed[r] /\ req[r].way = "combined")
            BY <3>1, <3>3 DEF Ending
        <3>6. ~failed[r] => /\ StepsOf(r) = got[r]
                            /\ StepsOf(r) > 0 => NthStep(r, StepsOf(r)).reason = finish[r]
            BY <3>1, <3>3 DEF Ending
        <3>7. got[r] - 1 <= StepsOf(r)
            BY <3>1, <3>3 DEF Ending
        <3> QED
            BY <3>3, <3>4, <3>5, <3>6, <3>7
    <2>7. CASE at[r] = "over"
        <3>1. PICK h, owners, err : /\ owners \subseteq Runs /\ frames[r] = Closing(h, owners, err)
                                    /\ err \in BOOLEAN
                                    /\ InOrder(h) /\ (Rows(h) = 1 => req[r].include)
            BY <2>1, <2>7 DEF FlowOf, Flow, Late
        <3> QED
            BY <2>7, <3>1, ClosingFrames
    <2> QED
        BY <2>2, <2>4, <2>5, <2>6, <2>7
<1> QED
    BY <1>1 DEF Delivered, Clean

LEMMA FInvInit == Init => FInv
<1> SUFFICES ASSUME Init, NEW r \in Runs PROVE FlowOf(r)
    BY DEF FInv, FlowOf
<1> QED
    BY DEF Init, StreamInit, FlowOf, Flow, Early, Streaming, Late

\* Of the other runs nothing changes.
Others(r) ==
    \A u \in Runs \ {r} :
        /\ req'[u] = req[u] /\ at'[u] = at[u] /\ frames'[u] = frames[u]
        /\ got'[u] = got[u] /\ finish'[u] = finish[u] /\ failed'[u] = failed[u]

LEMMA FlowStep ==
    ASSUME FInv, NEW r \in Runs, Others(r), FlowOf(r)'
    PROVE  FInv'
BY DEF FInv, FlowOf, Others

\* A side leaves a run.
LEMMA GoneFlow ==
    ASSUME GInv, TInv, FInv, NEW r \in Runs, NEW where, NEW left, Gone(r, where, left),
           \/ UNCHANGED runVars /\ where = at[r]
           \/ UNCHANGED runVars /\ at[r] \in {"check", "refused", "over"} /\ where = "none"
           \/ UNCHANGED runVars /\ at[r] = "check" /\ where = "refused"
           \/ Forget(r) /\ where = "none"
           \/ Forget(r) /\ at[r] = "done" /\ where = "over"
    PROVE  FInv'
<1>1. /\ at' = [at EXCEPT ![r] = where] /\ DOMAIN at = Runs /\ DOMAIN req = Runs /\ DOMAIN frames = Runs
      /\ DOMAIN got = Runs /\ DOMAIN failed = Runs /\ DOMAIN finish = Runs
      /\ req' = (IF where = "none" THEN [req EXCEPT ![r] = Remains(r)] ELSE req)
      /\ frames' = (IF where = "none" THEN [frames EXCEPT ![r] = <<>>] ELSE frames)
    BY DEF Gone, GInv, Shape, Sent, TInv, StreamTypes
<1>2. at'[r] = where /\ (where # "none" => req' = req /\ frames' = frames)
      /\ (where = "none" => frames'[r] = <<>>)
    BY <1>1
<1>3. Others(r)
    BY <1>1 DEF Others, Forget, runVars
<1>4. FlowOf(r)
    BY DEF FInv, FlowOf
<1>5. Forget(r) => got'[r] = 0 /\ failed'[r] = FALSE
    BY <1>1 DEF Forget
<1>6. CASE where = "none"
    <2>1. got'[r] = 0 /\ ~failed'[r]
        BY <1>4, <1>5, <1>6 DEF FlowOf, Flow, Early, runVars
    <2>2. FlowOf(r)'
        BY <1>2, <1>6, <2>1 DEF FlowOf, Flow, Early, Streaming, Late
    <2> QED
        BY <1>3, <2>2, FlowStep
<1>7. CASE where # "none" /\ where = at[r] /\ UNCHANGED runVars
    <2>1. FlowOf(r)'
        BY <1>2, <1>4, <1>7 DEF FlowOf, runVars
    <2> QED
        BY <1>3, <2>1, FlowStep
<1>8. CASE at[r] = "check" /\ where = "refused" /\ UNCHANGED runVars
    <2>1. FlowOf(r)'
        BY <1>2, <1>4, <1>8 DEF FlowOf, Flow, Early, Streaming, Late, runVars
    <2> QED
        BY <1>3, <2>1, FlowStep
<1>9. CASE Forget(r) /\ at[r] = "done" /\ where = "over"
    <2>1. PICK h, owners : /\ owners \subseteq Runs /\ frames[r] = Closing(h, owners, failed[r])
                           /\ Ending(req[r], h, got[r], finish[r], failed[r])
        BY <1>4, <1>9 DEF FlowOf, Flow, Late
    <2>2. failed[r] \in BOOLEAN
        BY DEF TInv, StreamTypes
    <2>3. InOrder(h) /\ (Rows(h) = 1 => req[r].include)
        BY <2>1 DEF Ending
    <2>4. Late(req'[r], at'[r], frames'[r], got'[r], finish'[r], failed'[r])
        BY <1>2, <1>9, <2>1, <2>2, <2>3 DEF Late
    <2>5. Early(req'[r], at'[r], frames'[r], got'[r], failed'[r])
        BY <1>2, <1>4, <1>5, <1>9 DEF FlowOf, Flow, Early
    <2>6. FlowOf(r)'
        BY <1>2, <1>9, <2>4, <2>5 DEF FlowOf, Flow, Streaming
    <2> QED
        BY <1>3, <2>6, FlowStep
<1> QED
    BY <1>6, <1>7, <1>8, <1>9

LEMMA BeginFlow ==
    ASSUME GInv, TInv, FInv, NEW manual, NEW want, NEW include, NEW prefix, NEW reset, NEW others,
           Begin(manual, want, include, prefix, reset, others)
    PROVE  FInv'
<1>1. PICK r \in Fresh, support \in Supports :
          Post(r, [backend |-> sel, way |-> Way(sel, include, support),
                   include |-> include, want |-> want, prefix |-> prefix, manual |-> manual])
    BY DEF Begin
<1>2. /\ r \in Runs /\ at[r] = "none"
      /\ UNCHANGED <<frames, got, finish, failed>>
    BY <1>1 DEF Begin, runVars, Fresh
<1>3. /\ Others(r) /\ at'[r] = "check"
      /\ req'[r].way = Way(sel, include, support) /\ req'[r].include = include
    BY <1>1, <1>2 DEF Post, Goto, Others, GInv, Shape
<1>4. /\ Way(sel, include, support) \in {"remote", "native", "combined", "steps"}
      /\ Way(sel, include, support) = "combined" => include
    BY DEF Way
<1>5. FlowOf(r)
    BY <1>2 DEF FInv, FlowOf
<1>6. FlowOf(r)'
    BY <1>2, <1>3, <1>4, <1>5 DEF FlowOf, Flow, Early, Streaming, Late
<1> QED
    BY <1>2, <1>3, <1>6, FlowStep

\* Steps that leave the tokens, and the frames, as they are.
LEMMA QuietFlow ==
    ASSUME GInv, TInv, FInv, NEW r \in Runs,
           \/ Check(r) /\ Goto(r, "queued") /\ UNCHANGED <<req, gone, frames>>
           \/ Acquire(r) \/ Retry(r) \/ OpenStream(r) \/ DecodeEnds(r)
    PROVE  FInv'
<1>1. UNCHANGED <<req, frames, got, finish, failed>>
    BY DEF Check, Acquire, Retry, OpenStream, DecodeEnds, Silent, runVars
<1>2. FlowOf(r)
    BY DEF FInv, FlowOf
<1>3. at \in [Runs -> {"none", "check", "queued"} \cup Working \cup Ended]
    BY DEF GInv, Shape
<1>4. CASE Check(r) /\ Goto(r, "queued")
    <2>1. at[r] = "check" /\ at' = [at EXCEPT ![r] = "queued"]
        BY <1>4 DEF Check, Goto
    <2>2. at'[r] = "queued" /\ Others(r)
        BY <1>1, <1>3, <2>1 DEF Others
    <2>3. FlowOf(r)'
        BY <1>1, <1>2, <2>1, <2>2 DEF FlowOf, Flow, Early, Streaming, Late
    <2> QED
        BY <2>2, <2>3, FlowStep
<1>5. CASE Acquire(r)
    <2>1. /\ at[r] = "queued"
          /\ at' = [at EXCEPT ![r] = IF req[r].way = "combined" THEN "open"
                                     ELSE IF req[r].include THEN "score"
                                     ELSE IF req[r].way = "native" THEN "open" ELSE "stream"]
        BY <1>5 DEF Acquire, Goto
    <2>2. /\ at'[r] = (IF req[r].way = "combined" THEN "open"
                      ELSE IF req[r].include THEN "score"
                      ELSE IF req[r].way = "native" THEN "open" ELSE "stream")
          /\ Others(r)
        BY <1>1, <1>3, <2>1 DEF Others
    <2>3. /\ frames[r] = <<>> /\ got[r] = 0 /\ ~failed[r]
          /\ req[r].way \in {"remote", "native", "combined", "steps"}
          /\ req[r].way = "combined" => req[r].include
        BY <1>2, <2>1 DEF FlowOf, Flow, Early
    <2>4. InOrder(<<>>) /\ Rows(<<>>) = 0 /\ StepsIn(<<>>) = 0 /\ LastOf(<<>>) = "none"
        BY EmptyInOrder
    <2>5. FlowOf(r)'
        <3>1. Early(req[r], at'[r], frames[r], got[r], failed[r])
            BY <2>2, <2>3, <2>4 DEF Early
        <3>2. Streaming(req[r], at'[r], frames[r], got[r], finish[r], failed[r])
            BY <2>2, <2>3, <2>4 DEF Streaming
        <3>3. Late(req[r], at'[r], frames[r], got[r], finish[r], failed[r])
            BY <2>2 DEF Late
        <3> QED
            BY <1>1, <3>1, <3>2, <3>3 DEF FlowOf, Flow
    <2> QED
        BY <2>2, <2>5, FlowStep
<1>6. CASE Retry(r)
    <2>1. at' = at
        BY <1>6 DEF Retry
    <2> QED
        BY <1>1, <1>2, <2>1 DEF FInv
<1>7. CASE OpenStream(r)
    <2>1. at[r] = "open" /\ at' = [at EXCEPT ![r] = "stream"]
        BY <1>7 DEF OpenStream, Goto
    <2>2. at'[r] = "stream" /\ Others(r)
        BY <1>1, <1>3, <2>1 DEF Others
    <2>3. /\ req[r].way \in {"native", "combined"} /\ got[r] = 0 /\ ~failed[r]
          /\ InOrder(frames[r]) /\ StepsIn(frames[r]) = 0
          /\ Rows(frames[r]) = 1 <=> (req[r].include /\ req[r].way # "combined")
          /\ req[r].way = "combined" => req[r].include
        BY <1>2, <2>1 DEF FlowOf, Flow, Early
    <2>4. LastOf(frames[r]) = "none"
        BY <2>3 DEF LastOf
    <2>5. req[r].way = "combined" => frames[r] = <<>>
        <3>1. frames[r] \in Seq(Frames) /\ Rows(frames[r]) \in {0, 1}
            BY <2>3 DEF InOrder, Rows
        <3>2. req[r].way = "combined" => Len(frames[r]) = 0
            BY <2>3, <3>1 DEF StepsIn
        <3> QED
            BY <3>1, <3>2
    <2>6. Streaming(req[r], at'[r], frames[r], got[r], finish[r], failed[r])
        BY <2>2, <2>3, <2>4, <2>5 DEF Streaming
    <2>7. FlowOf(r)'
        BY <1>1, <1>2, <2>1, <2>2, <2>6 DEF FlowOf, Flow, Early, Late
    <2> QED
        BY <2>2, <2>7, FlowStep
<1>8. CASE DecodeEnds(r)
    <2>1. at[r] = "stream" /\ at' = [at EXCEPT ![r] = "close"] /\ req[r].way \in {"remote", "steps"}
        BY <1>8 DEF DecodeEnds, Goto
    <2>2. at'[r] = "close" /\ Others(r)
        BY <1>1, <1>3, <2>1 DEF Others
    <2>3. Ending(req[r], frames[r], got[r], finish[r], failed[r])
        <3>1. got[r] \in Nat
            BY StreamAssumption DEF TInv, StreamTypes
        <3> QED
            BY <1>2, <2>1, <3>1 DEF FlowOf, Flow, Streaming, Ending
    <2>4. FlowOf(r)'
        BY <1>1, <1>2, <2>1, <2>2, <2>3 DEF FlowOf, Flow, Early, Streaming, Late
    <2> QED
        BY <2>2, <2>4, FlowStep
<1> QED
    BY <1>4, <1>5, <1>6, <1>7, <1>8

LEMMA BreakFlow == ASSUME GInv, TInv, FInv, NEW r \in Runs, Break(r) PROVE FInv'
<1>1. /\ UNCHANGED <<req, frames, got, finish>> /\ at[r] \in {"open", "stream"}
      /\ at' = [at EXCEPT ![r] = "close"] /\ failed' = [failed EXCEPT ![r] = TRUE]
    BY DEF Break, Silent, Goto
<1>2. at'[r] = "close" /\ failed'[r] = TRUE /\ Others(r)
    BY <1>1 DEF Others, GInv, Shape, TInv, StreamTypes
<1>3. FlowOf(r)
    BY DEF FInv, FlowOf
<1>4. got[r] \in Nat
    BY StreamAssumption DEF TInv, StreamTypes
<1>5. InOrder(frames[r]) /\ (Rows(frames[r]) = 1 => req[r].include) /\ got[r] - 1 <= StepsIn(frames[r])
    <2>1. CASE at[r] = "open"
        BY <1>3, <1>4, <2>1 DEF FlowOf, Flow, Early
    <2>2. CASE at[r] = "stream"
        <3>1. req[r].way \in {"remote", "native", "combined", "steps"}
            BY <1>3, <2>2 DEF FlowOf, Flow, Early
        <3> QED
            BY <1>3, <1>4, <2>2, <3>1 DEF FlowOf, Flow, Streaming
    <2> QED
        BY <1>1, <2>1, <2>2
<1>6. req[r].include => Rows(frames[r]) = 1 \/ req[r].way = "combined"
    <2>1. CASE at[r] = "open"
        BY <1>3, <2>1 DEF FlowOf, Flow, Early
    <2>2. CASE at[r] = "stream"
        <3>1. req[r].way \in {"remote", "native", "combined", "steps"}
            BY <1>3, <2>2 DEF FlowOf, Flow, Early
        <3> QED
            BY <1>3, <2>2, <3>1 DEF FlowOf, Flow, Streaming
    <2> QED
        BY <1>1, <2>1, <2>2
<1>7. Ending(req[r], frames[r], got[r], finish[r], failed'[r])
    BY <1>2, <1>5, <1>6 DEF Ending
<1>8. FlowOf(r)'
    BY <1>1, <1>2, <1>3, <1>7 DEF FlowOf, Flow, Early, Streaming, Late
<1> QED
    BY <1>2, <1>8, FlowStep

LEMMA ScoreFlow == ASSUME GInv, TInv, FInv, NEW r \in Runs, ScorePrompt(r) PROVE FInv'
<1>1. /\ UNCHANGED <<req, got, finish, failed>> /\ at[r] = "score"
      /\ at' = [at EXCEPT ![r] = IF req[r].way = "native" THEN "open" ELSE "stream"]
    BY DEF ScorePrompt, runVars, Goto
<1>2. PICK rows \in BOOLEAN : Yield(r, <<Score(rows)>>)
    BY DEF ScorePrompt
<1> DEFINE x == Score(rows)
<1>3. x \in Frames /\ x.event = "prompt_score"
    <2>1. x \in Frames
        BY FrameTypes, Zenon
    <2> QED
        BY <2>1 DEF Score
<1> HIDE DEF x
<1>4. frames' = [frames EXCEPT ![r] = frames[r] \o <<x>>]
    BY <1>2 DEF Yield, x
<1>5. FlowOf(r)
    BY DEF FInv, FlowOf
<1>6. frames[r] = <<>> /\ req[r].include /\ req[r].way # "combined" /\ got[r] = 0 /\ ~failed[r]
      /\ req[r].way \in {"remote", "native", "combined", "steps"}
    BY <1>1, <1>5 DEF FlowOf, Flow, Early
<1>7. frames'[r] = <<x>>
    BY <1>3, <1>4, <1>6 DEF TInv, StreamTypes
<1>8. at'[r] = (IF req[r].way = "native" THEN "open" ELSE "stream") /\ Others(r)
    BY <1>1, <1>4 DEF Others, GInv, Shape, TInv, StreamTypes
<1>9. InOrder(<<x>>) /\ Rows(<<x>>) = 1 /\ StepsIn(<<x>>) = 0 /\ LastOf(<<x>>) = "none"
    BY <1>3, RowsInOrder
<1>10. Early(req[r], at'[r], <<x>>, got[r], failed[r])
    BY <1>6, <1>8, <1>9 DEF Early
<1>11. Streaming(req[r], at'[r], <<x>>, got[r], finish[r], failed[r])
    BY <1>6, <1>8, <1>9 DEF Streaming
<1>12. FlowOf(r)'
    BY <1>1, <1>7, <1>8, <1>10, <1>11 DEF FlowOf, Flow, Late
<1> QED
    BY <1>8, <1>12, FlowStep

LEMMA DecodeFlow == ASSUME GInv, TInv, FInv, NEW r \in Runs, Decode(r) PROVE FInv'
<1>1. /\ UNCHANGED <<req, failed>> /\ at[r] = "stream" /\ req[r].way \in {"remote", "steps"}
      /\ LastReason(r) = "none" /\ got[r] < req[r].want /\ got' = [got EXCEPT ![r] = got[r] + 1]
    BY DEF Decode
<1>2. PICK reason \in Reasons :
          /\ finish' = [finish EXCEPT ![r] = reason]
          /\ Yield(r, <<Step(got'[r], reason)>>)
          /\ Goto(r, IF req[r].way = "steps" /\ reason # "none" THEN "close" ELSE "stream")
    BY DEF Decode
<1> DEFINE f == frames[r]
           x == Step(got'[r], reason)
<1>3. got[r] \in Nat /\ got'[r] = got[r] + 1 /\ got'[r] \in 1 .. MaxTokens
    <2>1. req[r].want \in 0 .. MaxTokens /\ got[r] \in 0 .. MaxTokens
        BY WantType DEF TInv, StreamTypes
    <2>2. got'[r] = got[r] + 1
        BY <1>1 DEF TInv, StreamTypes
    <2> QED
        BY <1>1, <2>1, <2>2, StreamAssumption
<1>4. x \in Frames /\ x.event = "step" /\ x.n = got'[r] /\ x.reason = reason
    <2>1. x \in Frames
        BY <1>3, FrameTypes
    <2> QED
        BY <2>1 DEF Step
<1>5. frames' = [frames EXCEPT ![r] = f \o <<x>>]
    BY <1>2 DEF Yield
<1>6. FlowOf(r)
    BY DEF FInv, FlowOf
<1>7. /\ InOrder(f) /\ ~failed[r] /\ StepsIn(f) = got[r] /\ (Rows(f) = 1 <=> req[r].include)
      /\ req[r].way # "combined"
    BY <1>1, <1>6 DEF FlowOf, Flow, Streaming
<1>8. LastOf(f) = "none"
    BY <1>1, <1>7, LastReasonOfOpen
<1> HIDE DEF x, f
<1>9. /\ InOrder(f \o <<x>>) /\ Rows(f \o <<x>>) = Rows(f)
      /\ StepsIn(f \o <<x>>) = got'[r] /\ LastOf(f \o <<x>>) = reason
    BY <1>3, <1>4, <1>7, <1>8, StepInOrder
<1>10. /\ at'[r] \in {"close", "stream"} /\ frames'[r] = f \o <<x>> /\ finish'[r] = reason /\ Others(r)
    BY <1>1, <1>2, <1>5 DEF Goto, Others, GInv, Shape, TInv, StreamTypes
<1>11. Streaming(req[r], at'[r], f \o <<x>>, got'[r], reason, failed[r])
    BY <1>1, <1>7, <1>9 DEF Streaming
<1>12. Late(req[r], at'[r], f \o <<x>>, got'[r], reason, failed[r])
    <2>1. Ending(req[r], f \o <<x>>, got'[r], reason, failed[r])
        BY <1>3, <1>7, <1>9 DEF Ending
    <2> QED
        BY <1>10, <2>1 DEF Late
<1>13. Early(req[r], at'[r], f \o <<x>>, got'[r], failed[r])
    BY <1>1, <1>7, <1>10 DEF Early
<1>14. FlowOf(r)'
    BY <1>1, <1>10, <1>11, <1>12, <1>13 DEF FlowOf, Flow
<1> QED
    BY <1>10, <1>14, FlowStep

\* The frames of a stream that holds back a token, with that token's step and
\* the prompt's rows if they are due.
LEMMA HeldInOrder ==
    ASSUME GInv, TInv, FInv, NEW r \in Runs, at[r] = "stream", req[r].way \in {"native", "combined"},
           NEW reason \in Reasons
    PROVE  LET f == frames[r] \o Held(r, reason)
           IN  /\ InOrder(f) /\ StepsIn(f) = got[r]
               /\ LastOf(f) = (IF got[r] = 0 THEN "none" ELSE reason)
               /\ Rows(f) = 1 <=> req[r].include
<1> DEFINE f == frames[r]
           x == Score(TRUE)
           y == Step(got[r], reason)
<1>1. FlowOf(r)
    BY DEF FInv, FlowOf
<1>2. /\ InOrder(f) /\ StepsIn(f) = (IF got[r] = 0 THEN 0 ELSE got[r] - 1) /\ LastOf(f) = "none"
      /\ Rows(f) = 1 <=> (req[r].include /\ (req[r].way = "combined" => f # <<>>))
      /\ req[r].way = "combined" => req[r].include
    BY <1>1 DEF FlowOf, Flow, Early, Streaming
<1>3. x \in Frames /\ x.event = "prompt_score"
    <2>1. x \in Frames
        BY FrameTypes, Zenon
    <2> QED
        BY <2>1 DEF Score
<1>4. got[r] \in 0 .. MaxTokens /\ MaxTokens \in Nat
    BY StreamAssumption DEF TInv, StreamTypes
<1>5. got[r] > 0 => y \in Frames
    BY <1>4, FrameTypes
<1>6. y.event = "step" /\ y.n = got[r] /\ y.reason = reason
    BY DEF Step
<1> DEFINE h == f \o (IF req[r].way = "combined" /\ f = <<>> THEN <<x>> ELSE <<>>)
<1>7. /\ InOrder(h) /\ StepsIn(h) = StepsIn(f) /\ LastOf(h) = "none"
      /\ Rows(h) = 1 <=> req[r].include
    <2>1. f \in Seq(Frames)
        BY <1>2 DEF InOrder
    <2> HIDE DEF f, x
    <2>2. CASE req[r].way = "combined" /\ f = <<>>
        <3>1. h = <<>> \o <<x>>
            BY <2>2
        <3>2. h = <<x>>
            BY <1>3, <3>1
        <3>3. InOrder(<<x>>) /\ Rows(<<x>>) = 1 /\ StepsIn(<<x>>) = 0 /\ LastOf(<<x>>) = "none"
            BY <1>3, RowsInOrder
        <3>4. StepsIn(f) = 0 /\ req[r].include
            BY <1>2, <2>2, EmptyInOrder
        <3> HIDE DEF h
        <3> QED
            BY <3>2, <3>3, <3>4
    <2>3. CASE ~(req[r].way = "combined" /\ f = <<>>)
        <3>1. h = f \o <<>>
            BY <2>3
        <3>2. h = f
            BY <2>1, <3>1
        <3>3. Rows(f) = 1 <=> req[r].include
            BY <1>2, <2>3
        <3> HIDE DEF h
        <3> QED
            BY <1>2, <3>2, <3>3
    <2> QED
        BY <2>2, <2>3
<1>8. frames[r] \o Held(r, reason) = h \o (IF got[r] > 0 THEN <<y>> ELSE <<>>)
    <2> DEFINE a == IF req[r].way = "combined" /\ f = <<>> THEN <<x>> ELSE <<>>
               b == IF got[r] > 0 THEN <<y>> ELSE <<>>
    <2>1. f \in Seq(Frames) /\ a \in Seq(Frames) /\ b \in Seq(Frames)
        <3>1. f \in Seq(Frames)
            BY <1>2 DEF InOrder
        <3>2. <<x>> \in Seq(Frames) /\ <<>> \in Seq(Frames) /\ (got[r] > 0 => <<y>> \in Seq(Frames))
            <4> HIDE DEF x, y
            <4> QED
                BY <1>3, <1>5
        <3> HIDE DEF x, y, f
        <3> QED
            BY <3>1, <3>2
    <2>2. Held(r, reason) = a \o b /\ h = f \o a
        BY DEF Held
    <2> HIDE DEF a, b, f, h
    <2>3. f \o (a \o b) = (f \o a) \o b
        BY <2>1
    <2>4. frames[r] \o Held(r, reason) = h \o b
        BY <2>2, <2>3 DEF f
    <2> QED
        BY <2>4 DEF b
<1> HIDE DEF x, y, h, f
<1>9. CASE got[r] = 0
    <2>1. h \in Seq(Frames)
        BY <1>7 DEF InOrder
    <2>2. frames[r] \o Held(r, reason) = h
        BY <1>8, <1>9, <2>1
    <2> QED
        BY <1>2, <1>7, <1>9, <2>2
<1>10. CASE got[r] # 0
    <2>1. got[r] > 0 /\ StepsIn(h) = got[r] - 1 /\ y \in Frames /\ got[r] = StepsIn(h) + 1
        BY <1>2, <1>4, <1>5, <1>7, <1>10
    <2>2. /\ InOrder(h \o <<y>>) /\ Rows(h \o <<y>>) = Rows(h)
          /\ StepsIn(h \o <<y>>) = StepsIn(h) + 1 /\ LastOf(h \o <<y>>) = y.reason
        BY <1>6, <1>7, <2>1, StepInOrder
    <2>3. frames[r] \o Held(r, reason) = h \o <<y>>
        BY <1>8, <2>1
    <2> QED
        BY <1>6, <1>7, <1>10, <2>1, <2>2, <2>3
<1> QED
    BY <1>9, <1>10

LEMMA TokenFlow == ASSUME GInv, TInv, FInv, NEW r \in Runs, Token(r) PROVE FInv'
<1>1. /\ UNCHANGED <<req, at, finish, failed>> /\ at[r] = "stream"
      /\ req[r].way \in {"native", "combined"} /\ got' = [got EXCEPT ![r] = got[r] + 1]
      /\ IF got[r] = 0 THEN Silent(r) ELSE Yield(r, Held(r, "none"))
    BY DEF Token
<1>2. got[r] \in Nat /\ got'[r] = got[r] + 1
    BY <1>1, StreamAssumption DEF TInv, StreamTypes
<1>3. FlowOf(r)
    BY DEF FInv, FlowOf
<1>4. /\ InOrder(frames[r]) /\ ~failed[r]
      /\ StepsIn(frames[r]) = (IF got[r] = 0 THEN 0 ELSE got[r] - 1) /\ LastOf(frames[r]) = "none"
      /\ Rows(frames[r]) = 1 <=> (req[r].include /\ (req[r].way = "combined" => frames[r] # <<>>))
    BY <1>1, <1>3 DEF FlowOf, Flow, Streaming
<1>5. Early(req[r], at[r], frames'[r], got'[r], failed[r]) /\ Late(req[r], at[r], frames'[r], got'[r], finish[r], failed[r])
    BY <1>1, <1>3 DEF FlowOf, Flow, Early, Late
<1>6. CASE got[r] = 0
    <2>1. frames' = frames
        BY <1>1, <1>6 DEF Silent
    <2>2. Others(r)
        BY <1>1, <2>1 DEF Others, TInv, StreamTypes
    <2>3. Streaming(req[r], at[r], frames[r], got'[r], finish[r], failed[r])
        BY <1>1, <1>2, <1>4, <1>6 DEF Streaming
    <2>4. FlowOf(r)'
        BY <1>1, <1>5, <2>1, <2>3 DEF FlowOf, Flow
    <2> QED
        BY <2>2, <2>4, FlowStep
<1>7. CASE got[r] # 0
    <2> DEFINE f == frames[r] \o Held(r, "none")
    <2>1. frames' = [frames EXCEPT ![r] = f]
        BY <1>1, <1>7 DEF Yield
    <2>2. frames'[r] = f /\ Others(r)
        BY <1>1, <2>1 DEF Others, TInv, StreamTypes
    <2>3. /\ InOrder(f) /\ StepsIn(f) = got[r] /\ LastOf(f) = "none"
          /\ Rows(f) = 1 <=> req[r].include
        BY <1>1, HeldInOrder DEF Reasons
    <2> HIDE DEF f
    <2>4. f # <<>>
        BY <1>7, <2>3, EmptyInOrder
    <2>5. Streaming(req[r], at[r], f, got'[r], finish[r], failed[r])
        BY <1>1, <1>2, <1>4, <1>7, <2>3, <2>4 DEF Streaming
    <2>6. FlowOf(r)'
        BY <1>1, <1>5, <2>2, <2>5 DEF FlowOf, Flow
    <2> QED
        BY <2>2, <2>6, FlowStep
<1> QED
    BY <1>6, <1>7

LEMMA StreamEndsFlow == ASSUME GInv, TInv, FInv, NEW r \in Runs, StreamEnds(r) PROVE FInv'
<1>1. /\ UNCHANGED <<req, got, failed>> /\ at[r] = "stream" /\ req[r].way \in {"native", "combined"}
      /\ at' = [at EXCEPT ![r] = "close"]
    BY DEF StreamEnds, Goto
<1>2. PICK reason \in Reasons :
          /\ finish' = [finish EXCEPT ![r] = reason]
          /\ IF Held(r, reason) = <<>> THEN Silent(r) ELSE Yield(r, Held(r, reason))
    BY DEF StreamEnds, Reasons
<1> DEFINE f == frames[r] \o Held(r, reason)
<1>3. FlowOf(r)
    BY DEF FInv, FlowOf
<1>4. InOrder(frames[r]) /\ ~failed[r] /\ got[r] \in Nat
    BY <1>1, <1>3, StreamAssumption DEF FlowOf, Flow, Streaming, TInv, StreamTypes
<1>5. /\ InOrder(f) /\ StepsIn(f) = got[r]
      /\ LastOf(f) = (IF got[r] = 0 THEN "none" ELSE reason)
      /\ Rows(f) = 1 <=> req[r].include
    BY <1>1, HeldInOrder
<1>6. frames'[r] = f /\ \A u \in Runs \ {r} : frames'[u] = frames[u]
    <2>1. CASE Held(r, reason) = <<>>
        <3>1. frames' = frames
            BY <1>2, <2>1 DEF Silent
        <3>2. frames[r] \in Seq(Frames)
            BY <1>4 DEF InOrder
        <3>3. frames[r] \o <<>> = frames[r]
            BY <3>2
        <3> QED
            BY <2>1, <3>1, <3>3
    <2>2. CASE Held(r, reason) # <<>>
        <3>1. frames' = [frames EXCEPT ![r] = f]
            BY <1>2, <2>2 DEF Yield
        <3> QED
            BY <3>1 DEF TInv, StreamTypes
    <2> QED
        BY <2>1, <2>2
<1>7. at'[r] = "close" /\ finish'[r] = reason /\ Others(r)
    BY <1>1, <1>2, <1>6 DEF Others, GInv, Shape, TInv, StreamTypes
<1> HIDE DEF f
<1>8. Ending(req[r], f, got[r], reason, failed[r])
    BY <1>4, <1>5 DEF Ending
<1>9. FlowOf(r)'
    BY <1>1, <1>3, <1>6, <1>7, <1>8 DEF FlowOf, Flow, Early, Streaming, Late
<1> QED
    BY <1>7, <1>9, FlowStep

LEMMA CloseFlow == ASSUME GInv, TInv, FInv, NEW r \in Runs, Close(r) PROVE FInv'
<1>1. /\ UNCHANGED <<req, got, finish, failed>> /\ at[r] = "close"
      /\ at' = [at EXCEPT ![r] = "done"]
      /\ frames' = [frames EXCEPT ![r] = frames[r] \o <<Usage(requests[r]), Done(LastReason(r), failed[r])>>]
    BY DEF Close, Goto, Yield, runVars
<1>2. FlowOf(r)
    BY DEF FInv, FlowOf
<1>3. Ending(req[r], frames[r], got[r], finish[r], failed[r])
    BY <1>1, <1>2 DEF FlowOf, Flow, Late
<1>4. LastReason(r) = LastOf(frames[r])
    BY <1>3, LastReasonOfOpen DEF Ending
<1>5. /\ frames'[r] = Closing(frames[r], requests[r], failed[r]) /\ requests[r] \subseteq Runs
      /\ at'[r] = "done" /\ Others(r)
    BY <1>1, <1>4 DEF Closing, Others, GInv, Shape, Counts, TInv, StreamTypes
<1>6. Late(req[r], at'[r], frames'[r], got[r], finish[r], failed[r])
    BY <1>3, <1>5 DEF Late
<1>7. FlowOf(r)'
    BY <1>1, <1>2, <1>5, <1>6 DEF FlowOf, Flow, Early, Streaming
<1> QED
    BY <1>5, <1>7, FlowStep

LEMMA ServeFlow == ASSUME GInv, TInv, FInv, NEW r \in Runs, Serve(r) PROVE FInv'
<1>1. CASE Check(r) /\ End(r, "refused")
    <2>1. at[r] = "check" /\ UNCHANGED runVars
        BY <1>1 DEF Check
    <2>2. \E where \in {"none", "refused"} : Gone(r, where, FALSE)
        BY <1>1 DEF End
    <2> QED
        BY <2>1, <2>2, GoneFlow
<1>2. CASE Return(r)
    <2>1. at[r] = "done" /\ Forget(r)
        BY <1>2 DEF Return
    <2>2. \E where \in {"none", "over"} : Gone(r, where, FALSE)
        BY <1>2 DEF Return, End
    <2> QED
        BY <2>1, <2>2, GoneFlow
<1>3. CASE Abandon(r)
    <2>1. Forget(r) /\ Gone(r, "none", FALSE)
        BY <1>3 DEF Abandon, End
    <2> QED
        BY <2>1, GoneFlow
<1>4. CASE Check(r) /\ ~End(r, "refused")
    BY <1>4, QuietFlow DEF Check
<1> QED
    BY <1>1, <1>2, <1>3, <1>4, QuietFlow, BreakFlow, ScoreFlow, DecodeFlow, TokenFlow,
       StreamEndsFlow, CloseFlow DEF Serve

LEMMA DisconnectFlow ==
    ASSUME GInv, TInv, FInv, NEW r \in Runs, Disconnect(r), UNCHANGED runVars
    PROVE  FInv'
<1>1. \/ at[r] \in {"refused", "over"} /\ Gone(r, "none", FALSE)
      \/ Gone(r, at[r], TRUE)
    BY DEF Disconnect, Leave, Ended
<1> QED
    BY <1>1, GoneFlow

LEMMA FInvNext == GInv /\ PInv /\ TInv /\ FInv /\ [Next]_vars => FInv'
<1> SUFFICES ASSUME GInv, PInv, TInv, FInv, [Next]_vars PROVE FInv'
    OBVIOUS
<1>1. ASSUME UNCHANGED <<req, at, frames, runVars>> PROVE FInv'
    BY <1>1 DEF FInv, runVars
<1>2. ASSUME NEW r \in Runs, Serves(r) PROVE FInv'
    BY <1>2, ServeFlow DEF Serves
<1>3. ASSUME NEW r \in Runs, ReadEnd(r) \/ Drop(r) PROVE FInv'
    BY <1>3, DisconnectFlow DEF ReadEnd, Drop
<1>4. CASE UNCHANGED vars \/ ExitManual \/ ForceText \/ ForceTextFails \/ \E r \in Runs : Read(r)
    BY <1>1, <1>4 DEF vars, streamVars, ExitManual, ForceText, ForceTextFails, Read
<1>5. CASE Generate \/ EnterManual \/ Pick \/ Undo \/ ForceTextArrives
    BY <1>5, BeginFlow DEF Generate, EnterManual, Pick, Undo, ForceTextArrives, FetchNext
<1>6. CASE Cancel \/ Switch
    <2>1. UNCHANGED runVars
        BY <1>6 DEF Cancel, Switch
    <2>2. UNCHANGED <<req, at, frames>> \/ \E r \in Runs : Disconnect(r)
        BY <1>6 DEF Cancel, Switch, Abort, connection, GInv, Shape
    <2> QED
        BY <1>1, <2>1, <2>2, DisconnectFlow
<1> QED
    BY <1>2, <1>3, <1>4, <1>5, <1>6 DEF Next

\* Of the frames sent and the tokens received, at each position of a generator.
THEOREM FramesInvariant == Spec => []FInv
<1> QED
    BY StreamsInvariant, PageInvariant, TypesInvariant, FInvInit, FInvNext, PTL DEF Spec

\* In every way to generate, whatever breaks and whoever leaves: prompt's rows,
\* steps 1, 2, ..., usage, done; without an error each token of the upstream is
\* a step, and the last reason is the upstream's (stream_generate 164-165).
THEOREM FramesAreDelivered == Spec => []Delivered
<1> QED
    BY StreamsInvariant, TypesInvariant, FramesInvariant, FInvImplies, PTL
=============================================================================
