---------------------------- MODULE GeneratePage ----------------------------
(***************************************************************************)
(* The generate page of the browser (frontend/src/routes/generate/         *)
(* +page.svelte, with apiStream of lib/api.ts and the parser of            *)
(* lib/sse.ts) over the streams of the middleware: it begins runs, reads   *)
(* their frames, stops them, throws their output away when another backend *)
(* is chosen, and decodes by hand, one run for each pick.                  *)
(*                                                                         *)
(* The page is one thread: a step is a handler up to its next await.  When *)
(* a stream is aborted the rejected read and the catch and finally of      *)
(* streamRun run before any other event, so they belong to the same step.  *)
(*                                                                         *)
(* sel stands for the chosen backend and model; a run's output for the     *)
(* run's number.                                                           *)
(***************************************************************************)
EXTENDS GenerationStream

CONSTANTS
    Supports,   \* bound: what the chosen model and sampler get of a provider
    MaxPicks,   \* bound: tokens picked or forced by hand
    MaxTroubles, \* bound: troubles while anything is under way
    MaxAhead    \* bound: frames on their way when the middleware sends more

ASSUME PageAssumption ==
    /\ Supports \subseteq Supported
    /\ MaxPicks \in Nat /\ MaxTroubles \in Nat /\ MaxAhead \in Nat

VARIABLES
    sel,            \* backend and model
    producedKey,    \* what they were when the last run began
    busy,
    cancelFn,       \* the run that stop would abort, or None
    reading,        \* runs whose streamRun has not returned
    taken,          \* frames of each run the page has read
    steps,          \* the runs of the steps in the table
    latest,         \* the last run that was begun, or None
    promptSteps,    \* the run of the prompt's rows, or None
    streamError,
    manualMode,
    picks,          \* pickedIds
    dist,           \* the run of manualDistribution, or None
    forcing,        \* how many forced texts are being tokenized
    troubles,       \* switches, stops, dropped connections and overlapping runs
                    \* since everything was at rest
    overlapped,     \* the last run or forced text began while a run was open
    mixed,          \* one did since the page last began a run, all else at
                    \* rest, with nothing shown
    strayed         \* since then a switch left a run or a forced text under way

outputVars == <<steps, promptSteps, dist>>
manualVars == <<manualMode, picks, forcing>>
connection == <<req, at, gone, frames>>
controlVars == <<producedKey, busy, cancelFn, reading, streamError>>
ghosts == <<latest, overlapped, mixed, strayed, troubles>>
pageVars == <<sel, taken, outputVars, manualVars, controlVars, ghosts>>
vars == <<streamVars, pageVars>>

\* A new request may take the place of a run that was never made, or that both
\* sides have forgotten and the page shows nothing of.
Fresh ==
    {r \in Runs : at[r] = "none" /\ r \notin steps \cup {promptSteps, dist, latest}}

Init ==
    /\ StreamInit
    /\ sel \in Backends
    /\ producedKey = None
    /\ busy = FALSE
    /\ cancelFn = None
    /\ reading = {}
    /\ taken = [r \in Runs |-> 0]
    /\ steps = {}
    /\ promptSteps = None
    /\ streamError = FALSE
    /\ manualMode = FALSE
    /\ picks = <<>>
    /\ dist = None
    /\ forcing = 0
    /\ latest = None
    /\ overlapped = FALSE
    /\ mixed = FALSE
    /\ strayed = FALSE
    /\ troubles = 0

\* The runs whose output the page shows.
Shown ==
    steps \cup ({promptSteps} \ {None})
        \cup (IF manualMode /\ dist # None THEN {dist} ELSE {})

-----------------------------------------------------------------------------
(***************************************************************************)
(* streamRun: from its call to its first await.                            *)
(***************************************************************************)
UnderWay == reading # {} \/ forcing > 0

AtRest == ~UnderWay /\ \A r \in Runs : ~Open(r)

\* Trouble for what is under way, if it is that.
Trouble(is) ==
    IF AtRest THEN troubles' = 0
    ELSE IF is THEN troubles < MaxTroubles /\ troubles' = troubles + 1
    ELSE UNCHANGED troubles

\* The next run begins with max_tokens want after the ids prefix; reset is
\* opts.resetUi, and others says whether anything else is still under way.
Begin(manual, want, include, prefix, reset, others) ==
    /\ \E r \in Fresh :
          /\ \E support \in Supports :
                Post(r, [backend |-> sel, way |-> Way(sel, include, support),
                         include |-> include, want |-> want,
                         prefix |-> prefix, manual |-> manual])
          /\ cancelFn' = r
          /\ latest' = r
          /\ reading' = reading \cup {r}
    /\ streamError' = FALSE
    /\ producedKey' = sel
    /\ busy' = TRUE
    /\ IF reset THEN steps' = {} /\ promptSteps' = None
                ELSE UNCHANGED <<steps, promptSteps>>
    /\ overlapped' = others
    /\ Trouble(others)
    /\ mixed' = (others \/ (mixed /\ Shown' # {}))
    /\ strayed' = (strayed /\ (others \/ Shown' # {}))
    /\ UNCHANGED <<paused, gone, callVars, runVars, frames, sel, taken>>

\* fetchManualNext, with the picks as they are after the handler's change.
FetchNext(newPicks, others) ==
    /\ picks' = newPicks
    /\ Begin(TRUE, 1, newPicks = <<>>, newPicks, newPicks = <<>>, others)

-----------------------------------------------------------------------------
(***************************************************************************)
(* The buttons.                                                            *)
(***************************************************************************)
\* runInspect, which is one token with the prompt's rows, and runGenerate.
Generate ==
    /\ ~busy
    /\ manualMode' = FALSE
    /\ UNCHANGED <<dist, picks, forcing>>
    /\ \E want \in 1 .. MaxTokens, include \in BOOLEAN :
          /\ want = MaxTokens \/ (want = 1 /\ include)
          /\ Begin(FALSE, want, include, <<>>, TRUE, UnderWay)

EnterManual ==
    /\ ~busy
    /\ manualMode' = TRUE
    /\ dist' = None
    /\ FetchNext(<<>>, UnderWay)
    /\ UNCHANGED forcing

ExitManual ==
    /\ manualMode
    /\ manualMode' = FALSE
    /\ UNCHANGED <<streamVars, sel, taken, outputVars, picks, forcing, controlVars, ghosts>>

\* A click on a row of the picker, which has a row for every token here, or
\* enter in the token id's field: busy is not looked at.
Pick ==
    /\ manualMode
    /\ Len(picks) < MaxPicks
    /\ UNCHANGED <<manualMode, forcing, dist>>
    /\ \E id \in Ids : FetchNext(Append(picks, id), UnderWay)

\* A defect: the pick is taken back without another run.
UndoOnly ==
    /\ manualMode
    /\ \E n \in 0 .. Len(picks) - 1 : picks' = SubSeq(picks, 1, n)
    /\ UNCHANGED <<streamVars, sel, taken, outputVars, manualMode, forcing, controlVars, ghosts>>

\* manualUndo, or manualUndoTo by a click on a picked token, busy or not.
Undo ==
    /\ manualMode
    /\ UNCHANGED <<manualMode, forcing, dist>>
    /\ \E n \in 0 .. Len(picks) - 1 : FetchNext(SubSeq(picks, 1, n), UnderWay)

\* pickForceText, up to the answer of /api/v1/tokenize: enter in the text's field
\* does not look at busy, so one text may overtake another.
ForceText ==
    /\ manualMode
    /\ Fresh # {}
    /\ forcing' = forcing + 1
    /\ busy' = TRUE
    /\ overlapped' = (overlapped \/ UnderWay)
    /\ Trouble(UnderWay)
    /\ UNCHANGED <<streamVars, sel, taken, outputVars, manualMode, picks, producedKey,
                   cancelFn, reading, streamError, latest, mixed, strayed>>

\* The text became some tokens, or none, appended to whatever the picks are now.
ForceTextArrives ==
    /\ forcing > 0
    /\ forcing' = forcing - 1
    /\ UNCHANGED <<manualMode, dist>>
    /\ \E ids \in BoundedSeq(Ids, MaxPicks - Len(picks)) :
          FetchNext(picks \o ids, reading # {} \/ forcing > 1)

ForceTextFails ==
    /\ forcing > 0
    /\ forcing' = forcing - 1
    /\ streamError' = TRUE
    /\ busy' = FALSE
    /\ UNCHANGED <<streamVars, sel, taken, outputVars, manualMode, picks, producedKey,
                   cancelFn, reading, ghosts>>

-----------------------------------------------------------------------------
(***************************************************************************)
(* The end of streamRun: its finally clause, after a catch if error.       *)
(***************************************************************************)
\* A defect: busy is only reset where no error was caught.
FinallyAfterSuccess(r, error) ==
    /\ reading' = reading \ {r}
    /\ busy' = (busy /\ error)
    /\ cancelFn' = None
    /\ streamError' = (streamError \/ error)

Finally(r, error) ==
    /\ reading' = reading \ {r}
    /\ busy' = FALSE
    /\ cancelFn' = None
    /\ streamError' = (streamError \/ error)

\* The browser lets go of the connection of r, and of what it has not read.
Disconnect(r) ==
    /\ Leave(r)
    /\ taken' = [taken EXCEPT ![r] = 0]

\* controller.abort() of the run that cancelFn stands for, if any.
Abort ==
    IF cancelFn = None
    THEN busy' = FALSE /\ UNCHANGED <<connection, taken, reading, cancelFn, streamError>>
    ELSE /\ Disconnect(cancelFn)
         /\ Finally(cancelFn, TRUE)


\* The stop button, shown while busy.
Cancel ==
    /\ busy
    /\ Abort
    /\ Trouble(TRUE)
    /\ UNCHANGED <<paused, callVars, runVars, sel, outputVars, manualVars, producedKey,
                   latest, overlapped, mixed, strayed>>

\* hasOutput of maybeClearForSwitch.
HasOutput == steps # {} \/ promptSteps # None \/ picks # <<>> \/ manualMode

\* What a switch leaves running: everything if there is no output yet,
\* otherwise everything but the run that cancelFn stands for.
Strays == forcing > 0 \/ reading \ (IF HasOutput THEN {cancelFn} ELSE {}) # {}

\* A defect: the output is cleared and the stream goes on.
SwitchOnlyClears ==
    /\ \E b \in Backends \ {sel} :
          /\ sel' = b
          /\ IF HasOutput /\ b # producedKey
             THEN /\ steps' = {} /\ promptSteps' = None /\ dist' = None
                  /\ manualMode' = FALSE /\ picks' = <<>>
             ELSE UNCHANGED <<outputVars, manualMode, picks>>
          /\ strayed' = (strayed \/ (b # producedKey /\ Strays))
          /\ Trouble(TRUE)
    /\ UNCHANGED <<streamVars, taken, forcing, producedKey, busy, cancelFn, reading,
                   streamError, latest, overlapped, mixed>>

\* onBackendChange and the other changes of backend or model, with
\* maybeClearForSwitch: the abort's error shows after clearRun.
Switch ==
    /\ \E b \in Backends \ {sel} :
          /\ sel' = b
          /\ IF HasOutput /\ b # producedKey
             THEN /\ Abort
                  /\ steps' = {} /\ promptSteps' = None /\ dist' = None
                  /\ manualMode' = FALSE /\ picks' = <<>>
             ELSE UNCHANGED <<connection, taken, outputVars, manualMode, picks, busy,
                              cancelFn, reading, streamError>>
          /\ strayed' = (strayed \/ (b # producedKey /\ Strays))
          /\ Trouble(TRUE)
    /\ UNCHANGED <<paused, callVars, runVars, forcing, producedKey, latest, overlapped, mixed>>

-----------------------------------------------------------------------------
(***************************************************************************)
(* The loop of streamRun.                                                  *)
(***************************************************************************)
Read(r) ==
    /\ r \in reading
    /\ taken[r] < Len(frames[r])
    /\ taken' = [taken EXCEPT ![r] = @ + 1]
    /\ LET f == frames[r][taken'[r]]
       IN  /\ steps' = IF f.event = "step" /\ ~req[r].manual THEN steps \cup {r} ELSE steps
           /\ dist' = IF f.event = "step" /\ req[r].manual THEN r ELSE dist
           /\ promptSteps' = IF f.event # "prompt_score" THEN promptSteps
                             ELSE IF f.rows THEN r ELSE None
           /\ streamError' = (streamError \/ (f.event = "done" /\ f.error))
    /\ UNCHANGED <<streamVars, sel, manualVars, producedKey, busy, cancelFn, reading, ghosts>>

\* The body ends, or the answer was an error.
ReadEnd(r) ==
    /\ r \in reading
    /\ at[r] \in {"over", "refused"}
    /\ taken[r] = Len(frames[r])
    /\ Finally(r, at[r] = "refused")
    /\ Disconnect(r)
    /\ UNCHANGED <<paused, callVars, runVars, sel, outputVars, manualVars,
                   producedKey, ghosts>>

\* The network between the browser and the middleware fails.
Drop(r) ==
    /\ r \in reading
    /\ Disconnect(r)
    /\ Finally(r, TRUE)
    /\ Trouble(TRUE)
    /\ UNCHANGED <<paused, callVars, runVars, sel, outputVars, manualVars, producedKey,
                   latest, overlapped, mixed, strayed>>

-----------------------------------------------------------------------------
\* The middleware sends no more than MaxAhead frames ahead of the page.
Serves(r) ==
    /\ gone[r] \/ Len(frames[r]) - taken[r] <= MaxAhead
    /\ Serve(r)
    /\ UNCHANGED pageVars

Next ==
    \/ Generate \/ EnterManual \/ ExitManual \/ Pick \/ Undo
    \/ ForceText \/ ForceTextArrives \/ ForceTextFails
    \/ Cancel \/ Switch
    \/ \E r \in Runs : Serves(r) \/ Read(r) \/ ReadEnd(r) \/ Drop(r)

Spec == Init /\ [][Next]_vars

-----------------------------------------------------------------------------
(***************************************************************************)
(* Properties.                                                             *)
(***************************************************************************)
\* Each variable keeps its type, in the page and in the streams.
TypeOK ==
    /\ StreamTypeOK
    /\ sel \in Backends /\ producedKey \in Backends \cup {None}
    /\ busy \in BOOLEAN /\ cancelFn \in Runs \cup {None}
    /\ reading \subseteq Runs
    /\ \A r \in Runs : taken[r] \in 0 .. Len(frames[r])
    /\ steps \subseteq Runs /\ promptSteps \in Runs \cup {None}
    /\ {dist, latest} \subseteq Runs \cup {None}
    /\ picks \in BoundedSeq(Ids, MaxPicks)
    /\ troubles \in 0 .. MaxTroubles /\ forcing \in 0 .. MaxTroubles + 1
    /\ {streamError, manualMode, overlapped, mixed, strayed} \subseteq BOOLEAN

\* "Stale output never looks like it came from the newly-selected
\* model/provider" (clearRun, +page.svelte 282-284): what is shown came from
\* what is selected, unless a switch left a run under way; and the tables show
\* one run, unless runs overlapped, in both cases since the page was last clear.
ScreenIsOwn ==
    /\ ~strayed => \A r \in Shown : req[r].backend = sel
    /\ (~mixed /\ steps # {}) => \E r \in Runs : Shown = {r}

\* The stop button works and goes away: an open run that overlaps no other is
\* the one that stop aborts and the button is shown for it, and a page with
\* nothing under way is not busy (streamRun 649-708).
StopWorks ==
    /\ ~overlapped => \A r \in reading : busy /\ cancelFn = r
    /\ ~UnderWay => ~busy /\ cancelFn = None

\* Whenever the picker shows the distribution of the run that was begun last, it
\* is the one after the picks as they are now, after any picking, forcing and
\* undoing, at rest or not (fetchManualNext 756-779).
PickerIsCurrent ==
    (manualMode /\ dist = latest) => req[dist].prefix = picks
=============================================================================
