---------------------------- MODULE ModelControl ----------------------------
(***************************************************************************)
(* Loading a model on a GPU host from the Decode page: the control in the  *)
(* browser (RemoteModelControl.svelte with stores/info.ts), the registry   *)
(* and routes of the middleware between them (dsbx/web/backends.py,        *)
(* web/app.py), and its handle on each host (dsbx/backends/remote.py).     *)
(*                                                                         *)
(* A host's model slot is the machine that ServedModel describes and       *)
(* ModelSlot implements, without its threads.  A model is named after the  *)
(* load of its host that brings it, 0 being the first.  The page is        *)
(* one thread: a step is what runs between two awaits, and the async       *)
(* functions it has under way are its flows.                               *)
(***************************************************************************)
EXTENDS Integers, FiniteSets

CONSTANTS
    Hosts,        \* the remote backends
    Flows,        \* async functions of the page that can be under way at once
    Read,         \* hosts of which requests want the piece of a token
    MaxActs,      \* bound: what the user does
    MaxTroubles,  \* bound: requests that fail
    None          \* null

\* What a slot says of itself.
Models == 0 .. MaxActs
OptModel == Models \cup {None}
States == {"empty", "loading", "ready", "error"}
SlotType == [state : States, model : OptModel]

ASSUME NamesAssumption ==
    /\ None \notin Hosts \cup Nat \cup SlotType \cup [of : Hosts, state : States, model : OptModel]
    /\ IsFiniteSet(Flows) /\ Flows = 1 .. Cardinality(Flows)
    /\ Read \subseteq Hosts
    /\ MaxActs \in Nat /\ MaxTroubles \in Nat

VARIABLES
    slot,       \* each host's slot, as /v1/status and /v1/info report it
    want,       \* the model of the last load each host accepted
    handle,     \* _state and _loaded_model of each RemoteBackend
    pieces,     \* the model whose piece each _piece_cache holds
    asked,      \* the model whose piece a host served and nobody keeps yet
    host,       \* the page: backend.name
    status,
    busy,
    timer,      \* a poll is scheduled
    field,      \* the page's `model'
    store,      \* stores/info.ts: what it says of each host
    flow,       \* the page's flows and their requests
    acts,
    troubles,
    upset,      \* history: what the page does not make up for happened, that is
                \* an action before it was at rest, a host out of reach, a lost
                \* request other than a poll, a reload answered after its load
    followed,   \* history: hosts the page saw loading, or loaded or unloaded
    overtaken   \* history: hosts last refreshed while a piece was being asked for

hostVars == <<slot, want>>
handleVars == <<handle, pieces, asked, overtaken>>
pageVars == <<host, status, busy, timer, field, store, followed>>
bounds == <<acts, troubles>>
vars == <<hostVars, handleVars, pageVars, flow, bounds, upset>>

Slot(state, model) == [state |-> state, model |-> model]
From(h, s) == [of |-> h, state |-> s.state, model |-> s.model]
Unreachable == Slot("error", None)

\* A flow: the function and where it stands, the host it asked about, how far
\* its request is in the middleware, the answer, the info under way, whether
\* it waits for the catalogue too, and the local `s' of the poll.
Idle ==
    [at |-> "free", of |-> None, call |-> "none", reply |-> None,
     news |-> None, listing |-> FALSE, s |-> "unknown"]
Begin(at, h) ==
    [Idle EXCEPT !.at = at, !.of = h, !.call = "sent", !.listing = (at = "mount")]

Free(f) == flow[f].at = "free"
Rest == ~timer /\ \A f \in Flows : Free(f)

\* A new flow takes the first number that is free.
FirstFree(of, f) == of[f].at = "free" /\ \A g \in 1 .. f - 1 : of[g].at # "free"
Unused(f) == FirstFree(flow, f)
Put(f, new) == flow' = [flow EXCEPT ![f] = new]

\* One more request fails.
Trouble == troubles < MaxTroubles /\ troubles' = troubles + 1

Init ==
    /\ \E h \in Hosts :
          \E s \in {Slot("ready", 0), Slot("empty", None), Slot("loading", None)} :
              slot = [g \in Hosts |-> IF g = h THEN s ELSE Slot("ready", 0)]
    /\ want = [h \in Hosts |-> 0]
    /\ handle = slot
    /\ pieces = [h \in Read |-> None]
    /\ asked = [h \in Read |-> None]
    /\ host \in Hosts
    /\ status = None
    /\ busy = FALSE
    /\ timer = FALSE
    /\ field = None
    /\ store = handle
    /\ flow = [f \in Flows |-> IF f = 1 THEN Begin("mount", host) ELSE Idle]
    /\ acts = 0
    /\ troubles = 0
    /\ upset = FALSE
    /\ followed = {}
    /\ overtaken = {}

-----------------------------------------------------------------------------
(***************************************************************************)
(* The host.                                                               *)
(***************************************************************************)
\* A defect: a load that succeeded leaves the name of the model before.
LoadEndsUnnamed(h) ==
    /\ slot[h].state = "loading"
    /\ \/ slot' = [slot EXCEPT ![h].state = "ready"]
       \/ slot' = [slot EXCEPT ![h] = Unreachable]
    /\ UNCHANGED <<want, handleVars, pageVars, flow, bounds, upset>>

\* The load comes to its end.
LoadEnds(h) ==
    /\ slot[h].state = "loading"
    /\ \/ slot' = [slot EXCEPT ![h] = Slot("ready", want[h])]
       \/ slot' = [slot EXCEPT ![h] = Unreachable]
    /\ UNCHANGED <<want, handleVars, pageVars, flow, bounds, upset>>

-----------------------------------------------------------------------------
(***************************************************************************)
(* The middleware.                                                         *)
(***************************************************************************)
Answered(f, s) == [flow[f] EXCEPT !.call = "answered", !.reply = s]

\* A defect: only a ready host has its handle refreshed.
ServeStatusReadyOnly(f) ==
    /\ flow[f].at \in {"mount", "tick"} /\ flow[f].call = "sent"
    /\ LET s == slot[flow[f].of]
       IN  \/ /\ IF s.state = "ready"
                 THEN Put(f, [flow[f] EXCEPT !.call = "refresh", !.reply = s])
                 ELSE Put(f, Answered(f, s))
              /\ UNCHANGED <<upset, bounds>>
           \/ /\ Trouble
              /\ Put(f, Answered(f, Unreachable))
              /\ upset' = TRUE
              /\ UNCHANGED acts
    /\ UNCHANGED <<hostVars, handleVars, pageVars>>

\* remote_status: GET /v1/status, and a settled state refreshes the handle.  A
\* host that cannot be reached is answered like one whose load failed.
ServeStatus(f) ==
    /\ flow[f].at \in {"mount", "tick"} /\ flow[f].call = "sent"
    /\ LET s == slot[flow[f].of]
       IN  \/ /\ IF s.state \in {"ready", "empty", "error"}
                 THEN Put(f, [flow[f] EXCEPT !.call = "refresh", !.reply = s])
                 ELSE Put(f, Answered(f, s))
              /\ UNCHANGED <<upset, bounds>>
           \/ /\ Trouble
              /\ Put(f, Answered(f, Unreachable))
              /\ upset' = TRUE
              /\ UNCHANGED acts
    /\ UNCHANGED <<hostVars, handleVars, pageVars>>

\* refresh_info asks /v1/info; if that fails it is only logged.
FetchInfo(f) ==
    /\ flow[f].call = "refresh"
    /\ \/ /\ Put(f, [flow[f] EXCEPT !.call = "apply", !.news = slot[flow[f].of]])
          /\ UNCHANGED <<upset, bounds>>
       \/ /\ Trouble
          /\ Put(f, [flow[f] EXCEPT !.call = "answered"])
          /\ upset' = TRUE
          /\ UNCHANGED acts
    /\ UNCHANGED <<hostVars, handleVars, pageVars>>

\* A defect: the pieces of the model before are kept.
ApplyInfoKeepingPieces(f) ==
    /\ flow[f].call = "apply"
    /\ handle' = [handle EXCEPT ![flow[f].of] = flow[f].news]
    /\ Put(f, [flow[f] EXCEPT !.call = "answered", !.news = None])
    /\ UNCHANGED <<hostVars, pieces, asked, overtaken, pageVars, bounds, upset>>

\* refresh_info adopts the answer, then drops what it remembered of tokens.
ApplyInfo(f) ==
    LET h == flow[f].of
    IN  /\ flow[f].call = "apply"
        /\ handle' = [handle EXCEPT ![h] = flow[f].news]
        /\ pieces' = [r \in Read |-> IF r = h THEN None ELSE pieces[r]]
        /\ overtaken' = IF h \in Read /\ asked[h] # None
                        THEN overtaken \cup {h} ELSE overtaken \ {h}
        /\ Put(f, [flow[f] EXCEPT !.call = "answered", !.news = None])
        /\ UNCHANGED <<hostVars, asked, pageVars, bounds, upset>>

\* reload_remote: the host accepts, unless it is loading already (409).
ServeReload(f) ==
    LET h == flow[f].of
    IN  /\ flow[f].at = "load" /\ flow[f].call = "sent"
        /\ IF slot[h].state = "loading"
           THEN /\ Put(f, Answered(f, None))
                /\ UNCHANGED hostVars
           ELSE /\ want' = [want EXCEPT ![h] = @ + 1]
                /\ slot' = [slot EXCEPT ![h].state = "loading"]
                /\ Put(f, [flow[f] EXCEPT !.call = "accepted"])
        /\ UNCHANGED <<handleVars, pageVars, bounds, upset>>

\* The host answers with its status after start_load, when a quick load may be
\* over.
AnswerReload(f) ==
    LET s == slot[flow[f].of]
    IN  /\ flow[f].call = "accepted"
        /\ Put(f, Answered(f, s))
        /\ upset' = (upset \/ s.state # "loading")
        /\ UNCHANGED <<hostVars, handleVars, pageVars, bounds>>

\* unload_remote: the host refuses while it loads; else the handle is refreshed.
ServeUnload(f) ==
    LET h == flow[f].of
    IN  /\ flow[f].at = "unload" /\ flow[f].call = "sent"
        /\ IF slot[h].state = "loading"
           THEN /\ Put(f, Answered(f, None))
                /\ UNCHANGED slot
           ELSE /\ slot' = [slot EXCEPT ![h] = Slot("empty", None)]
                /\ Put(f, [flow[f] EXCEPT !.call = "refresh", !.reply = slot'[h]])
        /\ UNCHANGED <<want, handleVars, pageVars, bounds, upset>>

\* The host of a reload or an unload cannot be reached: 502.
ServeFails(f) ==
    /\ flow[f].at \in {"load", "unload"} /\ flow[f].call = "sent"
    /\ Trouble
    /\ Put(f, Answered(f, None))
    /\ upset' = TRUE
    /\ UNCHANGED <<hostVars, handleVars, pageVars, acts>>

\* list_public, from what the handles know.
ServeInfo(f) ==
    /\ flow[f].at \in {"tick_info", "load_info", "unload_info"} /\ flow[f].call = "sent"
    /\ Put(f, Answered(f, handle))
    /\ UNCHANGED <<hostVars, handleVars, pageVars, bounds, upset>>

\* piece: unless the memo answers, the host is asked, and what it served kept.
AskPiece(h) ==
    /\ pieces[h] = None /\ asked[h] = None
    /\ slot[h].state = "ready"
    /\ asked' = [asked EXCEPT ![h] = slot[h].model]
    /\ UNCHANGED <<hostVars, handle, pieces, overtaken, pageVars, flow, bounds, upset>>

KeepPiece(h) ==
    /\ asked[h] # None
    /\ pieces' = [pieces EXCEPT ![h] = asked[h]]
    /\ asked' = [asked EXCEPT ![h] = None]
    /\ UNCHANGED <<hostVars, handle, overtaken, pageVars, flow, bounds, upset>>

-----------------------------------------------------------------------------
(***************************************************************************)
(* The page.                                                               *)
(***************************************************************************)
\* The answer of a flow arrives, or the request fails on the way.  Only the
\* answers to a poll are asked for again.
Arrives(f) == flow[f].call = "answered" /\ UNCHANGED <<troubles, upset>>
Lost(f) == flow[f].call = "answered" /\ Trouble

\* The effect on `backend': the page forgets what it showed, and refreshAll
\* asks for the status and the catalogue of host h.
Reset(h) ==
    /\ host' = h
    /\ status' = None
    /\ busy' = FALSE
    /\ timer' = FALSE

\* refreshStatus keeps what there was if the request failed, and does not look
\* at which host the answer is of.
TakeStatus(f, answer) == status' = IF answer THEN From(flow[f].of, flow[f].reply) ELSE status
Shown == IF status' = None THEN "unknown" ELSE status'.state
Note == followed' = IF Shown = "loading" THEN followed \cup {status'.of} ELSE followed

\* onReady: the page's model follows the host's.
OnReady(m) == field' = m

\* After Promise.all: a loading slot is followed, a ready one announced.
Mounted ==
    /\ IF Shown = "loading"
       THEN busy' = TRUE /\ timer' = TRUE
       ELSE UNCHANGED <<busy, timer>>
    /\ IF Shown = "ready" THEN OnReady(status'.model) ELSE UNCHANGED field

MountStatus(f) ==
    /\ flow[f].at = "mount"
    /\ \/ Arrives(f) /\ TakeStatus(f, TRUE)
       \/ Lost(f) /\ TakeStatus(f, FALSE) /\ UNCHANGED upset
    /\ Note
    /\ IF flow[f].listing
       THEN /\ Put(f, [flow[f] EXCEPT !.call = "none", !.reply = None])
            /\ UNCHANGED <<busy, timer, field>>
       ELSE Mounted /\ Put(f, Idle)
    /\ UNCHANGED <<hostVars, handleVars, host, store, acts>>

MountModels(f) ==
    /\ flow[f].at = "mount" /\ flow[f].listing
    /\ UNCHANGED status
    /\ IF flow[f].call # "none"
       THEN /\ Put(f, [flow[f] EXCEPT !.listing = FALSE])
            /\ UNCHANGED <<busy, timer, field>>
       ELSE Mounted /\ Put(f, Idle)
    /\ UNCHANGED <<hostVars, handleVars, host, store, followed, bounds, upset>>

\* The poll's timer.
Poll(f) ==
    /\ timer /\ Unused(f)
    /\ timer' = FALSE
    /\ Put(f, Begin("tick", host))
    /\ UNCHANGED <<hostVars, handleVars, host, status, busy, field, store, followed, bounds, upset>>

\* A defect: a poll that failed ends the polling, with the page still busy.
TickForgetting(f) ==
    /\ flow[f].at = "tick"
    /\ \/ Arrives(f) /\ TakeStatus(f, TRUE)
       \/ Lost(f) /\ TakeStatus(f, FALSE) /\ UNCHANGED upset
    /\ Note
    /\ IF Shown = "loading"
       THEN /\ timer' = (status' # status)
            /\ Put(f, Idle)
            /\ UNCHANGED busy
       ELSE /\ busy' = FALSE
            /\ Put(f, [Begin("tick_info", host) EXCEPT !.s = Shown])
            /\ UNCHANGED timer
    /\ UNCHANGED <<hostVars, handleVars, host, field, store, acts>>

\* While the slot is loading, polls follow each other; then the store of every
\* page is refreshed.
Tick(f) ==
    /\ flow[f].at = "tick"
    /\ \/ Arrives(f) /\ TakeStatus(f, TRUE)
       \/ Lost(f) /\ TakeStatus(f, FALSE) /\ UNCHANGED upset
    /\ Note
    /\ IF Shown = "loading"
       THEN /\ timer' = TRUE
            /\ Put(f, Idle)
            /\ UNCHANGED busy
       ELSE /\ busy' = FALSE
            /\ Put(f, [Begin("tick_info", host) EXCEPT !.s = Shown])
            /\ UNCHANGED timer
    /\ UNCHANGED <<hostVars, handleVars, host, field, store, acts>>

\* doReload, once the request is answered: 409 and 502 are errors.
LoadAnswer(f) ==
    /\ flow[f].at = "load"
    /\ \/ /\ Arrives(f)
          /\ IF flow[f].reply = None
             THEN /\ busy' = FALSE
                  /\ Put(f, Idle)
                  /\ UNCHANGED <<status, timer>>
             ELSE /\ TakeStatus(f, TRUE)
                  /\ IF Shown = "loading"
                     THEN /\ timer' = TRUE
                          /\ Put(f, Idle)
                          /\ UNCHANGED busy
                     ELSE /\ busy' = FALSE
                          /\ Put(f, Begin("load_info", host))
                          /\ UNCHANGED timer
          /\ Note
       \/ /\ Lost(f)
          /\ upset' = TRUE
          /\ busy' = FALSE
          /\ Put(f, Idle)
          /\ UNCHANGED <<status, timer, followed>>
    /\ UNCHANGED <<hostVars, handleVars, host, field, store, acts>>

\* doUnload, once the request is answered.
UnloadAnswer(f) ==
    /\ flow[f].at = "unload"
    /\ busy' = FALSE
    /\ \/ /\ Arrives(f)
          /\ IF flow[f].reply = None
             THEN /\ Put(f, Idle)
                  /\ UNCHANGED <<status, followed>>
             ELSE /\ TakeStatus(f, TRUE)
                  /\ followed' = followed \cup {flow[f].of}
                  /\ Put(f, Begin("unload_info", host))
       \/ /\ Lost(f)
          /\ upset' = TRUE
          /\ Put(f, Idle)
          /\ UNCHANGED <<status, followed>>
    /\ UNCHANGED <<hostVars, handleVars, host, timer, field, store, acts>>

\* What a flow does when info.refresh() returns: the poll announces the model
\* the page now shows; doReload reads the status of a page that was reset,
\* and its catch shows an error; doUnload asks for the catalogue.
AfterInfo(f) ==
    CASE flow[f].at = "tick_info" -> Idle
      [] flow[f].at = "load_info" -> Idle
      [] flow[f].at = "unload_info" ->
            [Idle EXCEPT !.at = "unload_models", !.of = host, !.listing = TRUE]

\* A refreshed store gives the page a new `backend' object, on which the effect
\* runs before the flow that asked goes on.
InfoAnswer(f, g) ==
    LET after == [flow EXCEPT ![f] = AfterInfo(f)]
    IN  /\ flow[f].at \in {"tick_info", "load_info", "unload_info"}
        /\ Arrives(f)
        /\ FirstFree(after, g)
        /\ store' = flow[f].reply
        /\ Reset(host)
        /\ flow' = [after EXCEPT ![g] = Begin("mount", host)]
        /\ IF flow[f].at = "tick_info" /\ flow[f].s = "ready"
           THEN OnReady(None) ELSE UNCHANGED field
        /\ UNCHANGED <<hostVars, handleVars, followed, acts>>

\* The refresh failed: the store and the status stay, and the flow goes on.
InfoLost(f) ==
    LET was == IF status = None THEN Unreachable ELSE Slot(status.state, status.model)
        ready == \/ flow[f].at = "tick_info" /\ flow[f].s = "ready"
                 \/ flow[f].at = "load_info" /\ was.state = "ready"
    IN  /\ flow[f].at \in {"tick_info", "load_info", "unload_info"}
        /\ Lost(f)
        /\ upset' = TRUE
        /\ Put(f, AfterInfo(f))
        /\ IF ready THEN OnReady(was.model) ELSE UNCHANGED field
        /\ UNCHANGED <<hostVars, handleVars, host, status, busy, timer, store, followed, acts>>

\* The end of doUnload, if the status is there again by then.
UnloadModels(f) ==
    /\ flow[f].at = "unload_models"
    /\ Put(f, Idle)
    /\ IF status # None /\ status.state = "empty" THEN OnReady(None) ELSE UNCHANGED field
    /\ UNCHANGED <<hostVars, handleVars, host, status, busy, timer, store, followed, bounds, upset>>

\* The user acts; one who does not wait until the page is at rest is upset.
Act == acts < MaxActs /\ acts' = acts + 1 /\ upset' = (upset \/ ~Rest)

ChooseHost(h, f) ==
    /\ Act
    /\ h # host
    /\ Unused(f)
    /\ Reset(h)
    /\ field' = store[h].model
    /\ Put(f, Begin("mount", h))
    /\ UNCHANGED <<hostVars, handleVars, store, followed, troubles>>

\* A model is selected once the catalogue is there.
Listed == \A f \in Flows : flow[f].at = "mount" => ~flow[f].listing

ClickLoad(f) ==
    /\ Act
    /\ ~busy /\ Listed /\ Unused(f)
    /\ busy' = TRUE
    /\ Put(f, Begin("load", host))
    /\ UNCHANGED <<hostVars, handleVars, host, status, timer, field, store, followed, troubles>>

ClickUnload(f) ==
    /\ Act
    /\ ~busy /\ Unused(f)
    /\ status # None => status.state # "empty"
    /\ busy' = TRUE
    /\ Put(f, Begin("unload", host))
    /\ UNCHANGED <<hostVars, handleVars, host, status, timer, field, store, followed, troubles>>

-----------------------------------------------------------------------------
Serve(f) ==
    \/ ServeStatus(f) \/ FetchInfo(f) \/ ApplyInfo(f) \/ ServeReload(f)
    \/ AnswerReload(f) \/ ServeUnload(f) \/ ServeInfo(f)

Deliver(f) ==
    \/ MountStatus(f) \/ MountModels(f) \/ Tick(f) \/ LoadAnswer(f) \/ UnloadAnswer(f)
    \/ InfoLost(f) \/ UnloadModels(f)
    \/ \E g \in Flows : InfoAnswer(f, g)

User(f) == ClickLoad(f) \/ ClickUnload(f) \/ \E h \in Hosts : ChooseHost(h, f)

Next ==
    \/ \E h \in Hosts : LoadEnds(h)
    \/ \E f \in Flows : Serve(f) \/ ServeFails(f) \/ Poll(f) \/ Deliver(f) \/ User(f)
    \/ \E h \in Read : AskPiece(h) \/ KeepPiece(h)

Spec == Init /\ [][Next]_vars

\* A load ends, a request is answered, the timer fires; users do as they like.
Fairness ==
    /\ \A h \in Hosts : WF_vars(LoadEnds(h))
    /\ \A f \in Flows : WF_vars(Serve(f)) /\ WF_vars(Deliver(f))
    /\ WF_vars(\E f \in Flows : Poll(f))

FairSpec == Spec /\ Fairness

-----------------------------------------------------------------------------
(***************************************************************************)
(* Properties.                                                             *)
(***************************************************************************)
\* Each variable keeps its type; a slot that is ready serves a model.
TypeOK ==
    /\ slot \in [Hosts -> SlotType]
    /\ \A h \in Hosts : slot[h].state = "ready" => slot[h].model = want[h]
    /\ handle \in [Hosts -> SlotType] /\ store \in [Hosts -> SlotType]
    /\ pieces \in [Read -> OptModel] /\ asked \in [Read -> OptModel]
    /\ host \in Hosts
    /\ status # None => Slot(status.state, status.model) \in SlotType /\ status.of \in Hosts
    /\ busy \in BOOLEAN /\ timer \in BOOLEAN
    /\ field \in OptModel
    /\ followed \subseteq Hosts /\ overtaken \subseteq Read

\* A remembered piece is never of a model before the one the handle stands
\* for, however refreshes, loads and requests follow each other, unless the last
\* refresh overtook a piece that was being asked for (refresh_info 167).
PieceIsCurrent ==
    \A h \in Read \ overtaken :
        (pieces[h] # None /\ handle[h].model # None) => pieces[h] >= handle[h].model

\* With a user who waits for the page, no host out of reach and no request but
\* a poll lost, a page at rest tells the truth: the status is the chosen
\* host's, the store knows what the load or unload it followed came to, and the
\* model of a ready host is the page's model (schedulePoll 172-177, remote_status
\* 728-733, the component's comment 8-21).
PageSettles ==
    (Rest /\ ~upset) =>
        /\ status # None => status = From(host, slot[host])
        /\ \A h \in followed : store[h] = slot[h]
        /\ status # None /\ status.state = "ready" => field = status.model

\* Whatever the user does and whichever requests fail, the controls of the page
\* are released and it does not go on showing a load.  As long as nothing has
\* happened that the page does not make up for (upset), a load that it shows of
\* its host, polls that are lost included, is followed until it shows what the
\* load came to, with the controls released (schedulePoll 163-171).  One thing
\* of upset is a host out of reach: its poll is answered "error" and the page
\* does not "keep polling" it, as remote_status (233-236) would have it.
LoadIsFollowed ==
    /\ (busy \/ (status # None /\ status.state = "loading"))
           ~> (~busy /\ (status # None => status.state # "loading"))
    /\ (status # None /\ status.of = host /\ status.state = "loading")
           ~> (upset \/ (~busy /\ slot[host].state # "loading" /\ status = From(host, slot[host])))
=============================================================================
