------------------------------ MODULE ModelSlot ------------------------------
(***************************************************************************)
(* The model slot of the GPU host's server (dsbx/server/app.py): one heavy *)
(* backend, swapped by background loads and by unloads while sync handlers *)
(* and SSE generators run on other threads.                                *)
(*                                                                         *)
(* Two locks protect the slot.  `lock' serializes inference and the swaps  *)
(* of the backend and is a variable here, because handlers block on it and *)
(* a stream keeps it across its yields.  `_state_lock' protects short runs *)
(* of assignments that never block, so a section under it is one step.     *)
(*                                                                         *)
(* A backend instance is named after the load that built it (Adopted for   *)
(* the one handed to make_app), and stands for the model it serves.        *)
(***************************************************************************)
EXTENDS Integers, FiniteSets

CONSTANTS
    Calls,      \* one-shot inference requests (tokenize, piece, verify_greedy...)
    Streams,    \* POST /v1/generate/stream requests
    Loads,      \* POST /v1/reload requests, each with the load thread it starts
    Unloads,    \* POST /v1/unload requests
    Shutdowns,  \* the lifespan's final close(): at most one
    MaxSteps,   \* bound: step events one stream yields
    Adopted,    \* the instance make_app adopts
    NoBackend,  \* Python's None in slot.backend, and in the model's name
    Free        \* the lock is not held

Requests == Calls \cup Streams \cup Loads \cup Unloads
Threads == Requests \cup Shutdowns
Instances == Loads \cup {Adopted}
OptInstance == Instances \cup {NoBackend}

ASSUME StepsAssumption == MaxSteps \in Nat

ASSUME NamesAssumption ==
    /\ Free \notin Threads
    /\ NoBackend \notin Instances
    /\ Adopted \notin Loads

\* A request plays one role only.
ASSUME RolesAssumption ==
    /\ Calls \cap (Streams \cup Loads \cup Unloads \cup Shutdowns) = {}
    /\ Streams \cap (Loads \cup Unloads \cup Shutdowns) = {}
    /\ Loads \cap (Unloads \cup Shutdowns) = {}
    /\ Unloads \cap Shutdowns = {}

VARIABLES
    state,      \* slot.state
    backend,    \* slot.backend
    loaded,     \* slot.loaded_model, as the instance that serves it
    error,      \* slot.error is set
    lock,       \* who holds slot.lock
    pc,         \* where each request or load thread is
    own,        \* the instance in a thread's local: old, new_backend or backend
    built,      \* instances whose constructor returned
    closed,     \* instances whose close() was called
    steps,      \* step events each stream has yielded
    dones       \* done events each stream has yielded

slotVars == <<state, backend, loaded, error>>
instVars == <<built, closed>>
sseVars == <<steps, dones>>
vars == <<slotVars, lock, pc, own, instVars, sseVars>>

\* Instances that occupy the GPU.
Resident == built \ closed

Ended == {"done", "refused", "aborted"}
InFlight(t) == pc[t] \notin {"new"} \cup Ended

\* Positions at which a thread runs backend code on its `backend' local, and
\* those at which it holds the lock; a failed stream still holds it at the
\* yield of its done event.
Using == {"call", "decode", "yielded"}
Holding == Using \cup {"failed"}
Closing == {"close", "unload_close", "final_close"}

Goto(t, where) == pc' = [pc EXCEPT ![t] = where]
Serving == state = "ready" /\ backend # NoBackend

\* Requests are accepted until the server begins to shut down.
Open == \A z \in Shutdowns : pc[z] = "new"

Init ==
    /\ \E adopt \in BOOLEAN :
          /\ backend = IF adopt THEN Adopted ELSE NoBackend
          /\ loaded = backend
          /\ state = IF adopt THEN "ready" ELSE "empty"
          /\ built = IF adopt THEN {Adopted} ELSE {}
    /\ error = FALSE
    /\ lock = Free
    /\ pc = [t \in Threads |-> "new"]
    /\ own = [t \in Threads |-> NoBackend]
    /\ closed = {}
    /\ steps = [s \in Streams |-> 0]
    /\ dones = [s \in Streams |-> 0]

-----------------------------------------------------------------------------
(***************************************************************************)
(* start_load and the thread it starts.                                    *)
(***************************************************************************)
StartLoad(l) ==
    /\ Open
    /\ pc[l] = "new"
    /\ IF state = "loading"
       THEN /\ Goto(l, "refused")
            /\ UNCHANGED <<state, error>>
       ELSE /\ state' = "loading"
            /\ error' = FALSE
            /\ Goto(l, "take")
    /\ UNCHANGED <<backend, loaded, lock, own, instVars, sseVars>>

\* A defect: the slot keeps pointing at the instance that is about to close.
TakeBackendKept(t, ifSome, ifNone) ==
    /\ lock = Free
    /\ own' = [own EXCEPT ![t] = backend]
    /\ Goto(t, IF backend = NoBackend THEN ifNone ELSE ifSome)
    /\ UNCHANGED <<slotVars, lock, instVars, sseVars>>

\* A defect: the swap does not wait for the inference lock.
TakeBackendUnlocked(t, ifSome, ifNone) ==
    /\ own' = [own EXCEPT ![t] = backend]
    /\ backend' = NoBackend
    /\ Goto(t, IF backend = NoBackend THEN ifNone ELSE ifSome)
    /\ UNCHANGED <<state, loaded, error, lock, instVars, sseVars>>

\* with self.lock: old, self.backend = self.backend, None
TakeBackend(t, ifSome, ifNone) ==
    /\ lock = Free
    /\ own' = [own EXCEPT ![t] = backend]
    /\ backend' = NoBackend
    /\ Goto(t, IF backend = NoBackend THEN ifNone ELSE ifSome)
    /\ UNCHANGED <<state, loaded, error, lock, instVars, sseVars>>

\* old.close(), whose exceptions are swallowed; the thread drops the local.
CloseOld(t, next) ==
    /\ closed' = closed \cup {own[t]}
    /\ own' = [own EXCEPT ![t] = NoBackend]
    /\ Goto(t, next)
    /\ UNCHANGED <<slotVars, lock, built, sseVars>>

LoadTake(l) == pc[l] = "take" /\ TakeBackend(l, "close", "build")

LoadClose(l) == pc[l] = "close" /\ CloseOld(l, "build")

LoadBuild(l) ==
    /\ pc[l] = "build"
    /\ built' = built \cup {l}
    /\ own' = [own EXCEPT ![l] = l]
    /\ Goto(l, "install")
    /\ UNCHANGED <<slotVars, lock, closed, sseVars>>

\* A defect: the except branch logs and returns.
LoadFailSilent(l) ==
    /\ pc[l] = "build"
    /\ Goto(l, "done")
    /\ UNCHANGED <<slotVars, lock, own, instVars, sseVars>>

\* A defect: the failed load reports a state outside the machine.
LoadFailUnknown(l) ==
    /\ pc[l] = "build"
    /\ state' = "failed"
    /\ error' = TRUE
    /\ loaded' = NoBackend
    /\ Goto(l, "done")
    /\ UNCHANGED <<backend, lock, own, instVars, sseVars>>

LoadFail(l) ==
    /\ pc[l] = "build"
    /\ state' = "error"
    /\ error' = TRUE
    /\ loaded' = NoBackend
    /\ Goto(l, "done")
    /\ UNCHANGED <<backend, lock, own, instVars, sseVars>>

\* Whatever the slot held is overwritten, not closed.
LoadInstall(l) ==
    /\ pc[l] = "install"
    /\ lock = Free
    /\ backend' = own[l]
    /\ own' = [own EXCEPT ![l] = NoBackend]
    /\ Goto(l, "publish")
    /\ UNCHANGED <<state, loaded, error, lock, instVars, sseVars>>

LoadPublish(l) ==
    /\ pc[l] = "publish"
    /\ state' = "ready"
    /\ loaded' = l
    /\ error' = FALSE
    /\ Goto(l, "done")
    /\ UNCHANGED <<backend, lock, own, instVars, sseVars>>

-----------------------------------------------------------------------------
(***************************************************************************)
(* unload: the state is checked, the state lock released, and only then is *)
(* the backend taken, closed and the state written.                        *)
(***************************************************************************)
UnloadCheck(u) ==
    /\ Open
    /\ pc[u] = "new"
    /\ Goto(u, IF state = "loading" THEN "refused" ELSE "unload_take")
    /\ UNCHANGED <<slotVars, lock, own, instVars, sseVars>>

UnloadTake(u) ==
    /\ pc[u] = "unload_take"
    /\ TakeBackend(u, "unload_close", "clear")

UnloadClose(u) == pc[u] = "unload_close" /\ CloseOld(u, "clear")

\* A defect: the state is left as it was before the unload.
UnloadClearState(u) ==
    /\ pc[u] = "clear"
    /\ loaded' = NoBackend
    /\ error' = FALSE
    /\ Goto(u, "done")
    /\ UNCHANGED <<state, backend, lock, own, instVars, sseVars>>

UnloadClear(u) ==
    /\ pc[u] = "clear"
    /\ state' = "empty"
    /\ loaded' = NoBackend
    /\ error' = FALSE
    /\ Goto(u, "done")
    /\ UNCHANGED <<backend, lock, own, instVars, sseVars>>

-----------------------------------------------------------------------------
(***************************************************************************)
(* close(), run by the lifespan once uvicorn has drained its requests.  A  *)
(* load thread is a daemon the drain does not wait for.                    *)
(***************************************************************************)
Drained ==
    /\ \A r \in Requests \ Loads : ~InFlight(r)

CloseMark(z) ==
    /\ pc[z] = "new"
    /\ Drained
    /\ state' = "empty"
    /\ Goto(z, "final_take")
    /\ UNCHANGED <<backend, loaded, error, lock, own, instVars, sseVars>>

CloseTake(z) ==
    /\ pc[z] = "final_take"
    /\ TakeBackend(z, "final_close", "done")

CloseFinish(z) == pc[z] = "final_close" /\ CloseOld(z, "done")

-----------------------------------------------------------------------------
(***************************************************************************)
(* One-shot handlers: with lock: backend = _require_ready(slot); call.     *)
(***************************************************************************)
\* A defect: any backend will do, whatever the state.
CallBeginAnyState(c) ==
    /\ Open
    /\ pc[c] = "new"
    /\ lock = Free
    /\ backend # NoBackend
    /\ lock' = c
    /\ own' = [own EXCEPT ![c] = backend]
    /\ Goto(c, "call")
    /\ UNCHANGED <<slotVars, instVars, sseVars>>

CallBegin(c) ==
    /\ Open
    /\ pc[c] = "new"
    /\ lock = Free
    /\ IF Serving
       THEN /\ lock' = c
            /\ own' = [own EXCEPT ![c] = backend]
            /\ Goto(c, "call")
       ELSE /\ Goto(c, "refused")
            /\ UNCHANGED <<lock, own>>
    /\ UNCHANGED <<slotVars, instVars, sseVars>>

\* The call returned or raised: either way the with block is left.
CallEnd(c) ==
    /\ pc[c] = "call"
    /\ lock' = Free
    /\ own' = [own EXCEPT ![c] = NoBackend]
    /\ Goto(c, "done")
    /\ UNCHANGED <<slotVars, instVars, sseVars>>

-----------------------------------------------------------------------------
(***************************************************************************)
(* generate_stream: the handler checks the slot under the lock and lets    *)
(* the lock go; the body takes it again and keeps it at every yield.       *)
(***************************************************************************)
StreamCheck(s) ==
    /\ Open
    /\ pc[s] = "new"
    /\ lock = Free
    /\ Goto(s, IF Serving THEN "body" ELSE "refused")
    /\ UNCHANGED <<slotVars, lock, own, instVars, sseVars>>

\* The done event of an error is yielded inside the with block.
YieldError(s) ==
    /\ dones' = [dones EXCEPT ![s] = @ + 1]
    /\ Goto(s, "failed")
    /\ UNCHANGED steps

StreamBegin(s) ==
    /\ pc[s] = "body"
    /\ lock = Free
    /\ lock' = s
    /\ IF Serving
       THEN /\ own' = [own EXCEPT ![s] = backend]
            /\ Goto(s, "decode")
            /\ UNCHANGED sseVars
       ELSE /\ YieldError(s)
            /\ UNCHANGED own
    /\ UNCHANGED <<slotVars, instVars>>

StreamStep(s) ==
    /\ pc[s] = "decode"
    /\ steps[s] < MaxSteps
    /\ steps' = [steps EXCEPT ![s] = @ + 1]
    /\ Goto(s, "yielded")
    /\ UNCHANGED <<slotVars, lock, own, instVars, dones>>

\* The client took the event and the pool calls next() again.
StreamPull(s) ==
    /\ pc[s] = "yielded"
    /\ Goto(s, "decode")
    /\ UNCHANGED <<slotVars, lock, own, instVars, sseVars>>

StreamFail(s) ==
    /\ pc[s] = "decode"
    /\ YieldError(s)
    /\ own' = [own EXCEPT ![s] = NoBackend]
    /\ UNCHANGED <<slotVars, lock, instVars>>

\* generate() is exhausted: the lock is released before the done event.
StreamFinish(s) ==
    /\ pc[s] = "decode"
    /\ lock' = Free
    /\ own' = [own EXCEPT ![s] = NoBackend]
    /\ dones' = [dones EXCEPT ![s] = @ + 1]
    /\ Goto(s, "done")
    /\ UNCHANGED <<slotVars, instVars, steps>>

\* next() after the error event runs the return.
StreamReturn(s) ==
    /\ pc[s] = "failed"
    /\ lock' = Free
    /\ Goto(s, "done")
    /\ UNCHANGED <<slotVars, own, instVars, sseVars>>

\* The client is gone: GeneratorExit at the yield, which except Exception
\* does not catch, or a body that never started.
StreamAbort(s) ==
    /\ pc[s] \in {"body", "yielded", "failed"}
    /\ lock' = IF pc[s] = "body" THEN lock ELSE Free
    /\ own' = [own EXCEPT ![s] = NoBackend]
    /\ Goto(s, "aborted")
    /\ UNCHANGED <<slotVars, instVars, sseVars>>

-----------------------------------------------------------------------------
Load(l) ==
    \/ StartLoad(l) \/ LoadTake(l) \/ LoadClose(l) \/ LoadBuild(l)
    \/ LoadFail(l) \/ LoadInstall(l) \/ LoadPublish(l)

Unload(u) ==
    UnloadCheck(u) \/ UnloadTake(u) \/ UnloadClose(u) \/ UnloadClear(u)

Shutdown(z) == CloseMark(z) \/ CloseTake(z) \/ CloseFinish(z)

Call(c) == CallBegin(c) \/ CallEnd(c)

Stream(s) ==
    \/ StreamCheck(s) \/ StreamBegin(s) \/ StreamStep(s) \/ StreamPull(s)
    \/ StreamFail(s) \/ StreamFinish(s) \/ StreamReturn(s) \/ StreamAbort(s)

Next ==
    \/ \E l \in Loads : Load(l)
    \/ \E u \in Unloads : Unload(u)
    \/ \E z \in Shutdowns : Shutdown(z)
    \/ \E c \in Calls : Call(c)
    \/ \E s \in Streams : Stream(s)

Spec == Init /\ [][Next]_vars

(***************************************************************************)
(* A thread that was started runs, a forward pass and a build return, and  *)
(* a client takes its events or goes away.  No request has to be made.     *)
(* Every thread serves one request, so the lock is wanted finitely often   *)
(* and weak fairness of its waiters is enough.                             *)
(***************************************************************************)
Fairness ==
    /\ \A l \in Loads : WF_vars(Load(l) /\ pc[l] # "new")
    /\ \A u \in Unloads : WF_vars(Unload(u) /\ pc[u] # "new")
    /\ \A c \in Calls : WF_vars(CallEnd(c))
    /\ \A s \in Streams : WF_vars(Stream(s) /\ pc[s] # "new")
    /\ \A z \in Shutdowns : WF_vars(Shutdown(z) /\ pc[z] # "new")

-----------------------------------------------------------------------------
(***************************************************************************)
(* Properties.                                                             *)
(***************************************************************************)
SlotStates == {"empty", "loading", "ready", "error"}

\* Each variable keeps its type (BackendSlot.__init__ and the SSE frames).
TypeOK ==
    /\ state \in SlotStates
    /\ backend \in OptInstance
    /\ loaded \in OptInstance
    /\ error \in BOOLEAN
    /\ lock \in Threads \cup {Free}
    /\ pc \in [Threads -> {"new", "take", "close", "build", "install", "publish",
                           "unload_take", "unload_close", "clear",
                           "final_take", "final_close", "call", "body",
                           "decode", "yielded", "failed"} \cup Ended]
    /\ own \in [Threads -> OptInstance]
    /\ built \subseteq Instances
    /\ closed \subseteq Instances
    /\ steps \in [Streams -> 0 .. MaxSteps]
    /\ dones \in [Streams -> Nat]

\* An in-flight call, or a stream anywhere between its first and last event,
\* works alone and on the instance the slot holds, which no reload, unload or
\* shutdown has closed meanwhile (app.py 13-20, _require_ready 473-478).
SafeUse ==
    \A t \in Threads : pc[t] \in Using =>
        /\ lock = t
        /\ own[t] = backend
        /\ own[t] \in Resident

\* An instance is closed by one thread, once, and never while the slot can
\* still hand it out: whoever takes it out of the slot under the lock is its
\* only closer (_load 124-131, unload 154-161, close 171-176).
SoleCloser ==
    \A t \in Threads : pc[t] \in Closing =>
        /\ own[t] \in Resident
        /\ own[t] # backend
        /\ \A u \in Threads \ {t} : own[u] # own[t]

\* A stream that ran to its end sent exactly one done event, and one that is
\* still decoding sent none (generate_stream 397-402, _run_generate_stream).
EndsOnce ==
    \A s \in Streams :
        /\ pc[s] = "done" => dones[s] = 1
        /\ pc[s] \in {"new", "refused", "body", "decode", "yielded"} => dones[s] = 0

\* `_state_lock' "ensures only one load runs at a time" (app.py 76-77).
OneLoad ==
    \A l, m \in Loads : InFlight(l) /\ InFlight(m) => l = m

\* The GPU holds one model: none is resident while another is being built,
\* and no instance is forgotten without being closed (_load 120-123).
OneResident ==
    /\ \A i, j \in Resident : i = j
    /\ \A l \in Loads : pc[l] = "build" => Resident = {}

\* No reload, unload or shutdown is under way.
Quiet == \A t \in Loads \cup Unloads \cup Shutdowns : ~InFlight(t)

\* What /v1/status reports at rest is what the slot serves: ready means the
\* named instance is there, any other state means the GPU is free
\* (BackendSlot's docstring, 68-74).
StatusTellsTruth ==
    Quiet => /\ state = "ready" => backend # NoBackend /\ loaded = backend
             /\ state # "ready" => backend = NoBackend
             /\ Resident = {backend} \ {NoBackend}
             /\ Open => (error <=> state = "error")
=============================================================================
