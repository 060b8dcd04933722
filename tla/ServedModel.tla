---------------------------- MODULE ServedModel ----------------------------
(***************************************************************************)
(* What the GPU host promises its clients, without threads or locks: the   *)
(* documented machine empty -> loading -> ready/error of BackendSlot       *)
(* (dsbx/server/app.py 68-81 and docs/architecture.md), at most one model  *)
(* serving, at most one client using it, and no swap under a client.       *)
(***************************************************************************)
CONSTANTS Clients, Models, None

VARIABLES
    phase,      \* what /v1/status says
    serving,    \* the model that would answer, or None
    using       \* clients in the middle of a call or of a stream

avars == <<phase, serving, using>>

Init ==
    /\ serving \in Models \cup {None}
    /\ phase = IF serving = None THEN "empty" ELSE "ready"
    /\ using = {}

\* A reload is accepted: from here on nobody is served.
Accept ==
    /\ phase # "loading"
    /\ phase' = "loading"
    /\ UNCHANGED <<serving, using>>

\* The model leaves, once no client is using it.
Retire ==
    /\ using = {}
    /\ serving' = None
    /\ UNCHANGED <<phase, using>>

\* A new model arrives, only into an empty slot.
Provide ==
    /\ phase = "loading"
    /\ serving = None
    /\ serving' \in Models
    /\ UNCHANGED <<phase, using>>

Publish ==
    /\ phase = "loading"
    /\ serving # None
    /\ phase' = "ready"
    /\ UNCHANGED <<serving, using>>

Fail ==
    /\ phase = "loading"
    /\ serving = None
    /\ phase' = "error"
    /\ UNCHANGED <<serving, using>>

\* An unload or a shutdown, never in the middle of a load.
Clear ==
    /\ phase # "loading"
    /\ using = {}
    /\ phase' = "empty"
    /\ UNCHANGED <<serving, using>>

Use(c) ==
    /\ phase = "ready"
    /\ serving # None
    /\ using = {}
    /\ using' = {c}
    /\ UNCHANGED <<phase, serving>>

Leave(c) ==
    /\ using = {c}
    /\ using' = {}
    /\ UNCHANGED <<phase, serving>>

Next ==
    \/ Accept \/ Retire \/ Provide \/ Publish \/ Fail \/ Clear
    \/ \E c \in Clients : Use(c) \/ Leave(c)

Spec == Init /\ [][Next]_avars
=============================================================================
