--------------------------- MODULE ModelCatalogue ---------------------------
(***************************************************************************)
(* The model catalogue of one backend name as the web middleware caches it *)
(* (BackendRegistry.list_models, reload_remote, unload_remote and          *)
(* invalidate_models_cache in dsbx/web/backends.py).                       *)
(*                                                                         *)
(* _models_lock covers one read or one write of the cache, each a step     *)
(* here.  The upstream is asked between them, without a lock, so listings, *)
(* reloads and the arrival of new models interleave freely.                *)
(*                                                                         *)
(* A catalogue is represented by the number of models that had arrived     *)
(* upstream when it was fetched; Fallback is the list known without        *)
(* asking.  The clock is the number of time units passed; an entry older   *)
(* than TTL is cold.                                                       *)
(***************************************************************************)
EXTENDS Integers

CONSTANTS
    Lists,      \* requests for the catalogue
    Reloads,    \* reloads and unloads of the host
    MaxModels,  \* bound: models that arrive upstream
    TTL,        \* MODEL_LIST_TTL_S
    MaxTime,    \* bound: time units
    NoEntry     \* nothing cached

ASSUME CatalogueAssumption ==
    /\ MaxModels \in Nat
    /\ MaxTime \in Nat
    /\ TTL \in Nat \ {0}
    /\ Lists \cap Reloads = {}

Fallback == -1

VARIABLES
    upstream,   \* models that have arrived upstream
    now,        \* time.time()
    cache,      \* _models_cache[name]
    stage,
    list,       \* a listing's locals and, once it is done, its answer
    announced,  \* models upstream when the last reload was answered
    overtaken   \* listings a reload invalidated under

catalogueVars == <<upstream, now, cache, stage, list, announced, overtaken>>

Catalogue == Fallback .. MaxModels
NoAnswer == [models |-> Fallback, source |-> "none", at |-> 0, refresh |-> FALSE, known |-> 0]

CatalogueInit ==
    /\ upstream = 0
    /\ now = 0
    /\ cache = NoEntry
    /\ stage = [t \in Lists \cup Reloads |-> "new"]
    /\ list = [t \in Lists |-> NoAnswer]
    /\ announced = 0
    /\ overtaken = {}

Enter(t, where) == stage' = [stage EXCEPT ![t] = where]

-----------------------------------------------------------------------------
(***************************************************************************)
(* The world: a file is dropped on the host or a provider publishes a      *)
(* model, and time passes.                                                 *)
(***************************************************************************)
Arrive ==
    /\ upstream < MaxModels
    /\ upstream' = upstream + 1
    /\ UNCHANGED <<now, cache, stage, list, announced, overtaken>>

Tick ==
    /\ now < MaxTime
    /\ now' = now + 1
    /\ UNCHANGED <<upstream, cache, stage, list, announced, overtaken>>

-----------------------------------------------------------------------------
(***************************************************************************)
(* list_models                                                             *)
(***************************************************************************)
\* A defect: the age of the entry is not looked at.
WarmForEver == cache # NoEntry

Warm == cache # NoEntry /\ now - cache.at < TTL

\* `now' is read before the lock and becomes the entry's fetched_at.
ListBegin(t) ==
    /\ stage[t] = "new"
    /\ \E refresh \in BOOLEAN :
          LET hit == Warm /\ ~refresh
          IN  /\ list' = [list EXCEPT ![t] =
                    [models |-> IF hit THEN cache.models ELSE Fallback,
                     source |-> IF hit THEN "cached" ELSE "none",
                     at |-> IF hit THEN cache.at ELSE now,
                     refresh |-> refresh, known |-> upstream]]
              /\ Enter(t, IF hit THEN "done" ELSE "fetch")
    /\ UNCHANGED <<upstream, now, cache, announced, overtaken>>

\* The remote host's /v1/models, or the provider's catalogue through a probe
\* of its own that is closed again; any failure falls back.
Fetch(t) ==
    /\ stage[t] = "fetch"
    /\ \E m \in {upstream, Fallback} :
          list' = [list EXCEPT ![t].models = m,
                               ![t].source = IF m = Fallback THEN "fallback" ELSE "live"]
    /\ Enter(t, "keep")
    /\ UNCHANGED <<upstream, now, cache, announced, overtaken>>

\* A defect: the time the entry expires is stored as the time it was fetched.
KeepExpiry(t) ==
    /\ stage[t] = "keep"
    /\ cache' = [models |-> list[t].models, at |-> list[t].at + TTL, clean |-> t \notin overtaken]
    /\ Enter(t, "done")
    /\ UNCHANGED <<upstream, now, list, announced, overtaken>>

Keep(t) ==
    /\ stage[t] = "keep"
    /\ cache' = [models |-> list[t].models, at |-> list[t].at, clean |-> t \notin overtaken]
    /\ Enter(t, "done")
    /\ UNCHANGED <<upstream, now, list, announced, overtaken>>

-----------------------------------------------------------------------------
(***************************************************************************)
(* reload_remote and unload_remote: the host answers, then the cached      *)
(* catalogue is dropped.  A failed call drops nothing.                     *)
(***************************************************************************)
AskHost(r) ==
    /\ stage[r] = "new"
    /\ \E ok \in BOOLEAN : Enter(r, IF ok THEN "invalidate" ELSE "done")
    /\ UNCHANGED <<upstream, now, cache, list, announced, overtaken>>

\* A defect: the reload is answered without dropping the catalogue.
InvalidateNothing(r) ==
    /\ stage[r] = "invalidate"
    /\ announced' = upstream
    /\ overtaken' = overtaken \cup {t \in Lists : stage[t] \in {"fetch", "keep"}}
    /\ Enter(r, "done")
    /\ UNCHANGED <<upstream, now, cache, list>>

Invalidate(r) ==
    /\ stage[r] = "invalidate"
    /\ cache' = NoEntry
    /\ announced' = upstream
    /\ overtaken' = overtaken \cup {t \in Lists : stage[t] \in {"fetch", "keep"}}
    /\ Enter(r, "done")
    /\ UNCHANGED <<upstream, now, list>>

CatalogueNext ==
    \/ Arrive
    \/ Tick
    \/ \E t \in Lists : ListBegin(t) \/ Fetch(t) \/ Keep(t)
    \/ \E r \in Reloads : AskHost(r) \/ Invalidate(r)

CatalogueSpec == CatalogueInit /\ [][CatalogueNext]_catalogueVars

-----------------------------------------------------------------------------
(***************************************************************************)
(* Properties.                                                             *)
(***************************************************************************)
\* Each variable keeps its type.
CatalogueTypeOK ==
    /\ upstream \in 0 .. MaxModels
    /\ now \in 0 .. MaxTime
    /\ cache \in [models : Catalogue, at : 0 .. MaxTime, clean : BOOLEAN] \cup {NoEntry}
    /\ stage \in [Lists \cup Reloads -> {"new", "fetch", "keep", "invalidate", "done"}]
    /\ list \in [Lists -> [models : Catalogue, at : 0 .. MaxTime, refresh : BOOLEAN,
                           source : {"none", "cached", "live", "fallback"},
                           known : 0 .. MaxModels]]
    /\ announced \in 0 .. MaxModels
    /\ overtaken \subseteq Lists

\* A cached catalogue shows every model that was there when the last reload
\* was answered, unless that reload overtook the listing that stored it, or
\* the fetch had failed (reload_remote 739-742).
CatalogueSeesReload ==
    cache # NoEntry =>
        \/ cache.models >= announced
        \/ cache.models = Fallback
        \/ ~cache.clean

\* refresh=true never answers from before the request: it shows every model
\* that had arrived when it began, or the fallback (list_models 456-457); and
\* an answer from the cache was asked for upstream less than TTL ago.
AnswersAreCurrent ==
    /\ [](\A t \in Lists :
          (stage[t] = "done" /\ list[t].refresh) =>
              \/ list[t].source = "live" /\ list[t].models >= list[t].known
              \/ list[t].source = "fallback")
    /\ [][\A t \in Lists :
          (list'[t] # list[t] /\ list'[t].source = "cached") => now - list'[t].at < TTL]_catalogueVars
=============================================================================
