# dsbx: a verification development

dsbx runs a language model one token at a time: a GPU host serves one heavy
model over HTTP, a web middleware puts named backends (GPU hosts, llama.cpp,
hosted providers) behind one API and one browser interface, and a core package
holds the decoding loop, the samplers, manual and speculative decoding. Paths
below are relative to `src/` unless they name a `.tla` or `.cfg` file.

The development models the parts of dsbx whose correctness depends on order:
threads that share a model, a lock that is held across the yields of a stream,
caches that outlive what they were read from, a context that is reused between
calls, a queue that is flushed at shutdown. TLC checks each model on a small
instance; TLAPS proves every safety invariant of these runs for every value of
the constants, and for the slot that its threads and locks implement the state
machine its documentation draws.

    tlc -workers 2 -config slot.cfg MCModelSlot     model-check a run
    tlapm SlotHistoryProofs.tla                     check the proofs

## 1. Inventory

### 1.1 Components

| component | source | state it keeps | operations |
|---|---|---|---|
| model slot | `dsbx/server/app.py` | `state`, `backend`, `loaded_model`, `error`, an inference lock, a state lock | reload (a thread per load), unload, shutdown, ~12 one-shot handlers, one SSE stream |
| backend registry | `dsbx/web/backends.py`, `dsbx/web/app.py` | per name: `instance`, `cloud_variants`, a lock | first use, locked call, two-lock stream, host calls without lock, `close_all` |
| model catalogue | `dsbx/web/backends.py` | `_models_cache` with fetch times | `list_models`, reload, unload |
| embedded context | `dsbx/backends/llamacpp_py.py` | `_cached_ids`, the library's context and score rows | every forward pass, reset, failure |
| speculative decoding | `dsbx/core/speculative.py`, `dsbx/web/streaming.py` | the text, the round's drafts, totals | propose, verify, closing frame |
| request log | `dsbx/web/logging/` | a bounded queue, the batch in flight, the SQLite table | emit, enqueue, flush, stop |
| manual sessions | `dsbx/web/sessions.py`, `dsbx/core/manual.py` | sessions with ids, probabilities, time of last use | create, pick, force, undo, load, read, delete, expire |
| decoding loop | `dsbx/core/engine.py`, `dsbx/core/samplers.py` | the text, Mirostat's `mu` | one distribution, one decision, one step |
| streamed generation | `dsbx/web/streaming.py`, `dsbx/core/usage.py` | frames sent, usage counters | the four ways to generate, closing frame |
| remote client | `dsbx/backends/remote.py` | capabilities, piece and special-token caches | one HTTP call per method, a stream |
| provider client | `dsbx/backends/openai_compat/`, `dsbx/core/config.py` | a tokenizer, the synthetic ids of an instance, a held-back token, retry counters | native stream, echo and stream, scoring, one-token calls |
| generate page | `frontend/src/routes/generate/` | the page's stream, its steps and picks | run, stop, pick, undo, switch backend |
| model control | `frontend/src/lib/components/RemoteModelControl.svelte`, `stores/info.ts` | a host's polled status, a timer, the shared info store | load, unload, poll, switch backend |
| log aggregation | `dsbx/web/logging/aggregator.py`, `masking.py` | none of its own | folds over captured bytes |
| log store and its pages | `dsbx/web/logs_api.py`, `dsbx/web/logging/db.py` | the SQLite table | queries, deletes |
| command line, configuration, schemas | `dsbx/cli/`, `dsbx/core/config.py`, ... | none that outlives a command | parsing, printing |

### 1.2 How they interact

The browser calls the middleware; the middleware's worker threads call backends
under a lock per backend name; a remote backend is a GPU host's HTTP API, whose
handlers call the one loaded model under the slot's inference lock. A stream is
a generator: it holds the host's lock (and the middleware's lock of that name)
from its first token to its last, across every `yield`, until the client pulls
the next event or goes away. Loads run on threads of their own and take the
inference lock only to swap. Every upstream HTTP call of the middleware passes
through `LoggingTransport`, which hands one entry to the event loop.

### 1.3 What is hard

- **Check, unlock, act.** `unload` and `generate_stream` of the host check the
  slot, release their lock and act later; `ensure_loaded`, `list_models` and
  `ManualSessionRegistry.get` of the middleware read, let go and write.
- **Locks across yields.** A stream's lock is released by the generator's
  close, not by the handler; an error frame is yielded inside the lock.
- **Two locks at once.** A speculative stream takes the locks of two names.
- **Reuse of state.** The embedded context evaluates only what a new request
  adds to the last one, whoever made it, also after a failed pass.
- **Failure in the middle.** A build that raises, a force that breaks off
  between two lists, a pass that fails between batches, a flush cancelled while
  its transaction commits.
- **Two dialects of everything.** A provider has its own flags, a model
  overrides them, an instance may or may not have a tokenizer, ids may come from
  an instance that is gone; five kinds of request are built from all that.
- **Answers that come late.** A page asks, the user goes on, and the answer is
  taken for whatever is chosen by then.
- **Bounds and clocks.** A full log queue, a full session table, entries that
  expire while they are being looked up.

The hazards are listed one by one, at their lines, in `PROJECT.json`.

### 1.4 What makes each component correct

- *slot*: whoever uses the model uses it alone, it is the slot's and open; each
  instance is closed once; at most one load runs and one model is resident;
  status tells the truth at rest; every stream ends with one done event; every
  load settles, every request ends.
- *registry*: no instance is used by two requests, or after it was closed;
  requests never wait in a circle; shutdown closes what was opened.
- *catalogue*: a refresh is fresh, a warm answer is within the TTL, a reload is
  seen.
- *context, speculation*: reuse changes no answer; the output is the target's
  greedy output; the totals add up.
- *log*: one entry per call, none lost silently or written twice, order kept, a
  stop writes what waits.
- *manual*: the cap and the TTL hold, probabilities stay with their tokens, a
  snapshot shows its own request's change.
- *streamed generation*: frames in order, one done frame with a true reason,
  usage counts every attempt, retries are bounded.
- *provider client*: the upstream is asked about the context the browser shows;
  nothing is sent that the provider refuses; positions of a stream arrive once,
  in order, as prompt or as output; its log entry and its usage tell what was
  received.
- *model control*: a status shown is the chosen host's and true once the page is
  at rest, a load that is shown is followed to its end, a piece that is
  remembered belongs to the loaded model.
- *generate page*: it never shows one run's output as another's, stop stops what
  runs, the picker follows the picks.

## 2. Plan

Modules in the order of what they protect: first the locks around models, then
the state that outlives a request, then what a browser sees of it.

1. **Model slot** (`ModelSlot`, `ServedModel`, `SlotHistory`, proofs in
   `SlotHistoryProofs`) - done.
2. **Registry** (`BackendRegistry`, `BackendsProofs`) - done.
3. **Catalogue cache** (`ModelCatalogue`, `BackendsProofs`) - done.
4. **Context reuse and speculation** (`LlamaContext`, `Speculative`, proofs in
   `SpeculativeProofs`) - done.
5. **Request log** (`RequestLog`, `WebServicesProofs`) - done.
6. **Manual sessions** (`ManualSessions`, `WebServicesProofs`) - done.
7. **Streamed generation and the page that reads it** (`GenerationStream`, and
   `GeneratePage`, which composes with it; `GenerationProofs`) - done.
8. **Model control of the browser** (`ModelControl`, `ModelControlProofs`): the
   page's control, the info store, the routes, the handles with their piece cache,
   and a slot that behaves as `ServedModel` allows - done.
9. **The provider client** (`ProviderCall`, `StreamLog`, `ProviderStream`, proofs
   in `ProviderStreamLemmas` and `ProviderStreamProofs`): how requests are built, how a stream is split and
   logged, what is charged - done.
10. **Samplers**: the filters and Mirostat over small integer weights, each
    against a definition by cases - open.
11. **Log store API**: paging by time beside a writer, statistics of six
    queries, deletes beside queued rows - open.

Abstract specifications: `ServedModel` is what the slot promises. Two more are
worth stating: a stream's frames as a small machine that `GenerationStream`
implements, and a FIFO log with losses counted that `RequestLog` implements.

Theorems: those of section 7 state every safety invariant of the passing runs and
every action property that is not about fairness.

## 3. Modules, and how they correspond to the code

`PROJECT.json` maps each definition to its lines. In every module a step is what
one thread does between two points where another can run: a lock taken or
released, a call that blocks, an `await`, a `yield`. Definitions whose comment
begins "A defect:" are not part of a specification; each is the mutated form of
an action or operator, kept to show which property notices it.

**ModelSlot** (`server/app.py`). `lock` is `BackendSlot.lock`; sections under
`_state_lock` never block and are one step. `state`, `backend`, `loaded`,
`error` are the slot's fields, `pc` is where each request or load thread is.
`StartLoad` is `start_load`; `LoadTake`, `LoadClose`, `LoadBuild`/`LoadFail`,
`LoadInstall`, `LoadPublish` are `_load` in its order; `UnloadCheck` to
`UnloadClear` are `unload`; `CloseMark`, `CloseTake`, `CloseFinish` are `close`.
`CallBegin`/`CallEnd` stand for every one-shot handler; `StreamCheck` to
`StreamReturn` are `generate_stream` and its generator, and `StreamAbort` is
`GeneratorExit` at a yield. An instance is named after the load that built it.

**ServedModel** is the machine empty, loading, ready, error that
`BackendSlot`'s docstring and `docs/architecture.md` describe, without threads.

**SlotHistory** adds one history variable, whether an unload or the shutdown has
been under way beside a load. What the docstrings promise of the slot holds up
to the first such overlap, and its properties say so; `ModelSlot` itself has
every overlap. `KeepsPromise` instantiates `ServedModel` with the slot's state,
its backend, and the threads that are using one.

**BackendRegistry** (`web/backends.py`, routes in `web/app.py`). A slot is where
an instance is cached (`entry.instance` or one of `cloud_variants`). `Lookup`,
`Build`/`BuildFail`, `Store` and `Return` are `ensure_loaded`, which takes no
lock; `Acquire` takes the locks of the names in sorted order, as the speculative
route does; `CallHost` is a poll that takes none; `CloseAll` is `close_all`.

**ModelCatalogue**. `ListBegin`, `Fetch`, `Keep` are `list_models` with the
upstream asked between two short locked sections; `AskHost`, `Invalidate` are a
reload or unload; `Tick` is the clock, `Arrive` a model that appears upstream.

**LlamaContext**, **Speculative**. `cached` is `_cached_ids`; `kv` and `rows`
are the library's context and score rows, external and modelled from their use.
`Forward` and `ForwardFails` are `_logsoftmax_all`. `Propose`, `Verify` and
their failures are `speculative_generate`; `Call` is any other request of the
same target in between. The target's preference is the operator `Greedy`, the
draft proposes anything.

**RequestLog**. `Emit` is `emit` on a worker thread, `Enqueue` the callback on
the event loop; `TakeBatch`, `WriteBatch`, `Cancelled`, `FinalWrite` are
`_flush_loop` between its awaits; `Send`, `BodyEnds`, `Close` are
`LoggingTransport` and `_TeeStream`.

**ManualSessions**. `Evict`, `Lookup`, `Stamp` are `get`, of which only the
second part is under the registry's lock; `Insert` is `create`; `Pick`,
`ForceTokens`, `ForceBreaksOff`, `Undo`, `Load`, `Read` are the routes' work
under the name's lock, `Snapshot` their answer.

**GenerationStream**. `at` is where the route and its generator are, `paused`
that it is suspended at a `yield`, the only place where it can learn of a closed
browser (`Abandon`). `Check` is the part of the route before the stream, under
the lock, which it lets go; `Acquire` is the body. `Way` is the choice among the
ways to generate: "remote", "native", "combined" and "steps". For a provider it
depends on whether the sampler is one it can run and on the capability flag for
prompt rows in the stream (`Supported`); in all ways but "combined" the prompt's
rows are a request of their own before (`ScorePrompt`), also before "native". `Retry` is one
more attempt of `_request` or of the opening of a stream; `Counted` charges an
attempt to the usage dict that is bound then. `End` and `Leave` are the middleware
and the browser finishing with a run; when both have, it is forgotten and its
number is free again. `Token` and `StreamEnds` have the
token that is held back; `Decode` is the loop of `core/engine.py`, here or on
the host. `Close` is the `finally` clause with the two last frames.

**GeneratePage** extends it with `+page.svelte`. `Begin` is `streamRun` up to
its first `await`; `Generate`, `EnterManual`, `Pick`, `Undo`, `ForceText` and
`Switch` are the handlers with their guards, of which only some look at `busy`
(`forcing` counts the forced texts under way, of which one may overtake another);
`Read` is one turn of the `for await` loop; `Finally` its `finally` clause.
`overlapped`, `mixed`, `strayed`, `latest` and `troubles` are history: whether
runs overlapped, whether the tables may hold output of two, whether a switch left
a run or a forced text under way, which run was last. `mixed` and `strayed` are
false again when the page begins a run while nothing else is under way and
nothing is left on the screen, and not before (`Begin`).

**ProviderCall** (`backends/openai_compat`, `core/config.py`) has no variables. A
provider is a record of its flags, what a model overrides, and what it really
takes; some stand for the shipped tables, and `Configured` and `Mapped` for what
a user's configuration may add, without and with a tokenizer. An
instance is what it knows of ids: whether its tokenizer was tried, the pieces it
interned and the ids it saw. `Text` is what a provider sends for a sequence of
tokens, blank for special ones; `Intern`, `Detokenize` and `LearnAll` are the
loops over pieces, ids and positions. `Way` chooses among the ways to generate;
`NativeBody`, `CombinedBody`, `ScoreBody`, `NextBody` and `HostBody` build the
requests; `Accepts` is the upstream's side of it.

**StreamLog** (`web/logging/transport.py`, `aggregator.py`) folds captured
frames into the entry of the log. Each loop over frames is the concatenation of
what the single frames give (`FlattenSeq`), of which the last, the first or all
of it is kept.

**ProviderStream** composes both with `stream_generate`. `Ask` is a request that
arrives, with picks of ids the browser was shown; `Scored`, `NextToken`,
`Opened` are the answers to its requests, `Busy` and `Fail` their retries and
ends; `Pull`, `EndOfBody` and `Cut` are the transport, `ReadFrame` and
`ReadDone`, `ReadEcho`, `ReadToken` the loop over the frames; `Flush` brings out
the token held back, `Leave` is a browser that goes away at a yield, `Restart`
the middleware's. A provider's `reports` say where it tells of its usage: on each
chunk, on the one with the finish reason, or after it in a frame of its own;
`RecordTokens` adds each of them to the sink.

**ModelControl** (`RemoteModelControl.svelte`, `stores/info.ts`, `web/app.py`,
`web/backends.py`, `backends/remote.py`). The page is one thread whose async
functions are flows: `flow[f].at` is the function and where it waits, `.call` how
far its request is in the middleware. `ServeStatus`, `FetchInfo` and `ApplyInfo`
are `remote_status` with `refresh_info`, between which other requests run;
`ServeReload`/`AnswerReload` and `ServeUnload` the other routes, `ServeInfo`
`list_public`. `AskPiece` and `KeepPiece` are `piece` of any request that
decodes. `InfoAnswer` is a refreshed store: it gives the page a new backend
object, on which the component's effect resets it (`Reset`) and asks again before
the flow that refreshed goes on. `upset`, `followed` and `overtaken` are history.

## 4. Runs, and what they show

| run | checks | shows |
|---|---|---|
| `slot` | `TypeOK SafeUse SoleCloser SlotStaysTrue`, `KeepsPromise RequestsSettle` | calls, a stream, two loads, an unload and the shutdown race: a model is used by one request at a time, under the lock, while open and the slot's, and closed once; up to the first overlap of an unload or shutdown with a load one load runs, one model is resident, the status is true at rest and the slot implements `ServedModel`; nothing hangs, and a stream has one done event |
| `slot_two_loads` | `OneLoad` fails | see the findings |
| `registry` | `TypeOK SafeUse`, `RequestsEnd` | one- and two-name requests with polls and shutdown: no instance is shared or used closed, no circular wait |
| `registry_leak` | `AllClosed` fails | see the findings |
| `catalogue` | `CatalogueTypeOK CatalogueSeesReload`, `AnswersAreCurrent` | racing listings, reloads and expiry: refresh asks upstream, a reload is seen, a warm answer is within the TTL |
| `speculative` | `TypeOK ReuseIsExact OutputIsGreedy TotalsAgree` | any draft, failures between batches, other requests in between: reuse is exact and output greedy while the context is not broken, and the totals add up |
| `speculative_broken` | `SameAsGreedy` fails | see the findings |
| `request_log` | `LogTypeOK Accounted`, `NoOvertaking EntriesSettle` | one entry per call; each is written once, waits, or is counted as lost; order is kept; a stop writes what waits, but for a torn write |
| `manual` | `TypeOK Lockstep SnapshotIsOwn NoExpiredSession` | creates, changes and deletes race under a cap of one while sessions expire |
| `generate` | `TypeOK Delivered RunsStayApart ScreenIsOwn StopWorks PickerIsCurrent` | any number of runs with stops, switches, lost connections, retries and broken upstreams: frames in order and complete, each run charged with its own requests, in each way to generate, with the prompt's rows or without; one run per backend, and a page that shows, stops and picks from the right run |
| `provider` | `TypeOK ContextIsSent NeverRefused StreamIsInOrder LogHoldsTheStream UsageIsCharged` | requests of six kinds to providers of six kinds, with retries, junk and error frames, cut streams, browsers that leave and a restart: the context sent is the one shown, nothing is sent that the provider refuses, echoed and generated positions come once and in order, the log tells what came, and the usage adds up all that was reported, on whichever frames |
| `control` | `TypeOK PieceIsCurrent PageSettles`, `LoadIsFollowed` | two hosts, of which one may be empty or loading at first, a user who loads, unloads or switches, and a request that fails: pieces remembered are of the current model, a page at rest shows the truth, controls are released whatever fails, a load shown of a host within reach is followed until the page shows what came of it |

`CHECK_DEADLOCK FALSE` stands where requests are finite in number and the system
comes to rest when they are served. In `generate` requests are reused and a
deadlock would be an error.

### Findings

Three runs end in a counterexample that contradicts a sentence of the code:

- **A second load.** `unload` checks the state, lets `_state_lock` go and writes
  `"empty"` at the end without looking again (`server/app.py:150-166`). A reload
  accepted in between loses its mark, and a second one starts while the first is
  running, against "ensures only one load runs at a time" (`server/app.py:76-77`).
- **A leaked instance.** Two first uses of a name each build an instance; the
  later store drops the earlier (`web/backends.py:681-699`), which `close_all`,
  "Close every backend we ever loaded" (`:769`), never sees.
- **A context behind its cache.** A failed evaluation leaves the library's
  context ahead of `_cached_ids` (`backends/llamacpp_py.py:340-342`), so a later
  speculative output can differ from greedy decoding, to which
  `core/speculative.py:5` says it is identical.

### Observations

What follows was met while modelling and has no run of its own. Where a property
excepts one of these, the exception is named.

*Log.* A cancellation that arrives after a batch was handed to the database
thread inserts the batch again with what is queued; the keys collide and the
queued entries are lost (`web/logging/service.py:106-116`, where the docstring at
`:86` says the flush writes whatever is left). `Accounted` excepts a torn write.

*Generate page.*
- A switch of backend finds no output before the first frame and then neither
  aborts nor clears (`+page.svelte:331-334`); the old stream's steps appear under
  the new selection, against the comment at 282-284 (`strayed` in `ScreenIsOwn`).
- Overlapping runs of the page: the first one's `finally` clears `busy` and
  `cancelFn`, and the stop button is gone while the second runs (`overlapped` in
  `StopWorks`).
- After a switch aborts a run, its error is written after `clearRun`, so the
  new selection shows the old run's abort as an error.
- When a pick's run ends without a step, the picker keeps the older distribution
  (`dist = latest` in `PickerIsCurrent`).

*Model control* (`upset` in `PageSettles` and in the second part of
`LoadIsFollowed`).
- A host out of reach during one poll is answered as state "error", "so the UI
  can keep polling" (`web/app.py:233-234`); the page stops polling on "error" and
  does not learn how the load ended until it is opened or the host chosen again
  (`LoadIsFollowed` promises of such a host that the controls are released, and
  no more).
- A reload that is answered after its load came to its end (a build that fails at
  once) refreshes the store before anything has refreshed the handle.
- The info store's refresh makes a new `backend` object, on which the component
  resets its status before the poll goes on: at the end of every successful load
  `onReady` is called with null, then again with the model once the status has
  been asked anew; `doReload` and `doUnload` may read `state` of null there.
- A status that arrives after a switch is shown under the new host's name; a
  refresh that was overtaken by a later one can set the handle back, and a
  `piece` that was being asked for while the handle was refreshed stays in the
  cache of the new model (`overtaken` in `PieceIsCurrent`).

*Provider client.*
- With an array of ids, the combined stream measures the prompt without the
  picks (`_streaming_echo.py:140-143`, `251`): echoed picks are taken for output
  when the upstream sends no offsets (`EchoEndTells` in `StreamIsInOrder`). The
  same holds for `echo_last` without offsets; its rows are numbered from 0.
- Positions of a step leave out the prepended ids and, in an array, the picks.
- An `{"error": ...}` frame in the middle of a stream ends it like a success.
- Tokens that drop out of the context: tokens of a response without ids get
  synthetic ones (`_parsing.py:36-40`), but once a tokenizer is mapped `detokenize`
  asks it alone (`_tokenizer.py:161-169`), and it knows none of them. For a provider
  configured with an entry in `tokenizers` and without `supports_new_logprobs` the
  picks, and in the decoding loop every token so far, are missing from the next
  prompt, although the ids are there "so the rest of the system, which speaks token
  ids, keeps working unchanged" (`openai_compat/__init__.py:4`). The shipped tables
  have no such provider. `Mapped` is one; TLC finds `ContextIsAlwaysSent` violated
  by it within a few steps (`IdsAreReal` in `ContextIsSent` and `NeverRefused`).
- Synthetic ids of an earlier instance are dropped, or stand for another piece
  of the new one (`StalePick` in `ContextIsSent` and `NeverRefused`).
- Ids to prepend are scored but not generated from in the ways "steps" and
  "remote"; rows of the combined stream count from 0, those of a scoring request
  from 1.
- A provider that reports a running usage on each chunk is charged the sum of its
  reports: `record_tokens` adds each one (`usage.py:102-126`, read from every chunk
  at `_streaming.py:326-333`), while the log keeps the last (`aggregator.py:196`,
  `238-240`). `UsageIsCharged` therefore says that the sink adds up what was reported,
  and that it agrees with the log if a stream reported once.
- A token held back is lost when its stream is cut.
- The handler around `_client.stream(...)` in `_streaming.py` cannot be reached by
  what it names, since the call is lazy; the catalogue's GETs are never retried.

*Sessions.* A snapshot that fails leaves the change made, so a retry repeats it
(`web/app.py:535`); a loaded transcript renames the session's model, which goes
on decoding with its instance (`web/sessions.py:273`). *Registry.* `/info` may
answer 500 once while a first use inserts into the dictionary it iterates
(`web/backends.py:279`).

## 5. Bounds

| run | bounds | why they are enough |
|---|---|---|
| slot | 1 call, 1 stream of `MaxSteps` 1, 2 loads, 1 unload, 1 shutdown | calls and streams only meet at the lock, which one of each contends for with loads; every race of the code is between two loads, or a load and one other; the proofs drop the bound |
| registry | 2 requests, 1 poll, 2 names, one with a variant | a leak needs two first uses, a circular wait two names |
| catalogue | 3 listings, 1 reload, `MaxModels` 1, `TTL` 1, `MaxTime` 2 | one listing to fill, one to race, one to read; time reaches past the TTL |
| speculative | 2 tokens, `NCtx` 4, `NBatch` 2, `MaxTokens` 3, `Gamma` 2, `MaxPrompt` 1, `MaxIds` 5, 4 other contexts, one too long | rejection at each position, an overflow between two batches, a last round that is cut; the proofs drop the bound |
| request_log | 4 calls, `QueueSize` 3, `BatchSize` 2 | a full queue drops one, and a flush takes two batches |
| manual | 2 threads, 2 ids, `MaxSessions` 1, `TTL` 1, `MaxTime` 2, `MaxIds` 2 | the cap and expiry race with a use; each thread serves any number of requests |
| generate | 2 remembered runs, `MaxTokens` 2, `MaxRetries` 1, `MaxPicks` 1, `MaxTroubles` 2, `MaxAhead` 0, all three of `Supports` | a run's number is used again once both sides have forgotten it, so histories have any length; one token held back and one sent; two troubles are a run that is stopped or overlapped, or two forced texts at once, and one event that finds the remains; `MaxAhead` lets frames travel one send at a time |
| provider | 6 providers, 6 asks, prompts of at most 2 and 2 generated tokens, `MaxRetries` 1, `MaxCalls` 2, `MaxRestarts` 1, `MaxNoise` 1 | each way and each flag is asked of a provider with and without it; a second call picks an id the first one showed, across a restart or not; a stream may be cut after any frame. One provider has a tokenizer and no ids. One reports its usage on each chunk and again after them, two with the finish reason, the others in a frame after it. The proofs drop all of these bounds |
| control | 2 hosts, 2 flows, `MaxActs` 1, `MaxTroubles` 1, pieces of 1 host | a host may be loading when the page opens, so the one act can meet a load it did not start; a second flow is the effect that a first one's refresh starts, and a user acts only while one is free |

Runs and calls that are interchangeable are declared symmetric where no liveness
property is checked.

## 6. Fairness

- **slot** (`Fairness`): each load thread, unload, shutdown and begun request goes
  on if it can. A builder returns or raises; a stream's client pulls or goes
  away, and Starlette closes the generator then. Each of finitely many requests
  takes the lock finitely often, so weak fairness is enough for those who wait.
- **registry**: a request goes on if it can: a build or call returns, raises or
  runs into a client's timeout. Nobody has to start a request.
- **request log**: the event loop runs scheduled callbacks and the flush task.
  Nobody has to make a call or stop the service.
- **control**: a load comes to its end, requests are answered or fail, answers
  and the timer reach the page. Users do as they like, and `Trouble` is bounded,
  so a poll does not fail for ever.
- **catalogue, speculation, sessions, generate, provider** check safety only. A run that
  waits for its backend's `threading.Lock` may starve if others keep coming: the
  lock is not fair, and the code does not claim more.

## 7. Proofs

`tlapm` checks eight modules of proofs. They assume only what the modules assume
of their constants: kinds of requests and of backends do not overlap, special
names name no request, bounds are natural numbers, and, for speculation, a
target's choice is a token and prompts fit. For the provider client they assume
that special tokens and the vocabulary are ids below `InternBase` and disjoint
(`CallAssumption`), that null is no value (`LogAssumption`), that the flags of a
provider and a model are true of it (`ProviderAssumption`: one that claims what it
does not take would be refused, and no client can know) and that a request has
tokens for its text and asks for at least one more (`AsksAssumption`). TLC
evaluates all of these on the constants of the runs. The bounds of the runs (time,
lengths, numbers of requests) stay parameters in the proofs.

Every leaf is proved with a tenth of the default time limits too
(`tlapm --stretch 0.1`), so that a slow machine does not decide what holds. A fact
about every set of elements is hidden behind a name for that (`Associative`,
`Splits`, `Parts`): the provers then find the set at once instead of guessing it.

**SlotHistoryProofs.** For the slot itself `TypeOK /\ SafeUse` is not inductive:
that a user of a backend has the lock says nothing about a load that has already
taken the backend out of the slot. `IInv` adds: the lock's holder is exactly
where the code holds it (`LockHeld`); threads that hold an instance in a local do
so only between taking and closing it (`LocalsCleared`, `OwnersApart`: no two
share one, and none shares with the slot); what the slot has is built and open
(`SlotLive`); a user's instance is the slot's (`UsersAgree`); what will be built
has not been (`Fresh`). From `Inductive` follow `TypeCorrect`, `UseIsSafe` and
`ClosedBySoleOwner`.

That one load runs at a time follows from no single field: the state says
"loading" only until an unload writes it. `CarefulInv` holds until the first
overlap and adds, as long as `mixed` is false: which positions of loads, unloads
and shutdown exclude each other (`Alone`); what the state, the backend and the
resident instances are at each position of the one that is under way (`Roles`),
and at rest (`AtRest`, `Over`). `HInductive` proves it together with `IInv`;
`SlotIsTrue` concludes `SlotStaysTrue`, for any number of requests of each kind.
`KeepsItsPromise` is the refinement: `MappedStep` takes each action that stays
careful to the step of `ServedModel` it implements or to a stutter, and the
lemmas `UsersAre`, `UsersStay`, `UsersJoin` and `UsersLeave` say how the mapped
set of users moves.

**SpeculativeProofs.** `SInv` is `TypeOK`, `ReuseIsExact`, `OutputIsGreedy`,
`TotalsAgree` and `RoundBounds` (drafts per round, and the accepted ones, within
gamma and what is left). The heart is two lemmas: `ForwardExact`, that
evaluating only what a context adds to the remembered one leaves exactly that
context and rows computed from their own prefixes; and `RoundIsGreedy`, that a
verified prefix followed by the target's own choice extends a greedy text to a
greedy text, for any draft. No induction over data is needed: greediness of the
text is a statement about each position.

**BackendsProofs** has the registry and, below it, the catalogue cache, which share
no variable. *Registry*: `SafeUse` speaks of requests in use; `RInv` says how
they get there: how far a request is with its plan (`Progress`), that what a slot
holds and what was got from it was built for that slot (`Origin`), that a user
holds the locks of all its names (`Locked`), and that nothing is closed before
the shutdown, which finds no request under way (`Drained`). Two users of one
instance would both hold the lock of its name.

*Catalogue*: the cache is only written by a listing, long after it
asked; `Asked` carries through the listing's positions what it knows: what it
fetched is from after its beginning, and from after the last reload unless that
overtook it. `AnswersAreCurrent` is an invariant and an action property, both
from `CInv`.

**WebServicesProofs** has the request log and the manual sessions, two services that
share no variable. *Request log*: `Accounted` becomes inductive with what it leaves unsaid:
an entry is in exactly one of five places, and in two only after a torn write
(`Apart`); a call has made its entry just when its body is behind it (`Made`);
what the cancelled task holds is what waited (`Batch`). The lemmas on
sequences say what appending, joining and cutting do to elements without
repetition, and to their order: `ConcatPrecedes` turns `NoOvertaking` into
statements about which part of the line an entry is in. No recursion is involved.

*Manual sessions*: `Lockstep` needs `Texts`: probabilities never outgrow
tokens, even where a force broke off, and a session that was not made is empty.
`SnapshotIsOwn` needs `Position`: a thread between its change and its snapshot
has the lock, so `BecomeInv`, the one lemma about changes, finds no other
snapshot to spoil. `NoExpiredSession` needs `Current`: all that a lookup can
find was used since its cutoff, as clocks and uses only grow.

**GenerationProofs** is about the composition with the page, so a browser may
begin, stop and lose runs at any step. Four invariants build on each other.

- `GInv`, for `RunsStayApart`, ties the three things a run has of its backend: the
  lock from Acquire to the last frame (`Locks`), the sink from Acquire to the
  finally clause (`Sinks`), and attempts that are counted only in it (`Counts`).
  `LetGoInv` covers every way out: the end, a refused request, and a generator
  closed at any of its yields.
- `PInv`, for `ScreenIsOwn`, `StopWorks` and `PickerIsCurrent`. The properties
  speak of a page without overlap or stray; `PInv` says what holds of the page in
  between: what its loops read is not yet forgotten (`Readable`); without overlap `busy` and
  `cancelFn` are those of the one run that is read (`Button`); all that is read or
  shown is the selected backend's unless something strayed (`Owners`); the tables
  are a manual session's or the last run's unless they got mixed (`Tables`); and
  the picks are the last manual request's (`Picker`).
- `TInv` is every variable's type, as `TypeOK` needs.
- `FInv`, for `Delivered`. The property describes only frames as they lie between
  the two sides, and says little of the state that will produce the next one.
  `FInv` describes a run's frames together with its position, the tokens it got
  and the reason and error it has noted: before the first frame (`Early`), while
  the loop runs, with a token held back or none (`Streaming`), and from the last
  step to the done frame (`Late`), where the frames are those of the loop
  followed by usage and by a done frame whose reason is the last step's
  (`Ending`, `Closing`). One lemma for each step of the loop takes a stage to the
  next; the page only shortens its own copy.

**ModelControlProofs.** `CInv`, for `TypeOK` and `PieceIsCurrent`, needs to know of
every flow where its request can be and what kind of answer it has (`FlowsOK`).
`Counted` bounds models: the loads a host has accepted and those on their way to
it are never more than the user's acts, by cardinalities, since any number of
flows may carry one. A model named by a slot, a handle or news on its way to a
handle is no later than the host's latest (`Ordered`), so a piece that was asked
for when it was remembered is of the handle's model or of a later one unless a
refresh was overtaken (`Remembered`).

`SInv`, for `PageSettles`, is an invariant of a page left in peace. The property
itself says nothing before the page is at rest, so it is far from inductive.
`Peace` says how rest is reached: one flow at most is at work, and it is about the
chosen host; its `Stage` (`Mounting`, `Listing`, `Ticking`, `Refreshing`,
`Asking`, `Loading`, `Unloading`) says what the page, the store, the handle and
the host agree on already and what the answer under way will still settle; a
timer runs only while the page shows a load; a host followed before a switch has
been settled everywhere (`Elsewhere`). TLC found both invariants to hold on the
run's instance and with two acts before they were proved.

**ProviderStreamLemmas, ProviderStreamProofs** are the largest. What the model computes in a loop is
`FlattenSeq` of the community modules or a recursive function, and the
properties compare results of such loops with each other: the text of a prompt
with the text of the ids it was made of, the sum in a dict with the sum over the
log. The theorems of the library on induction take an operator, which no prover
here can instantiate; so `SetInduction` and `SeqInduction` are stated of a set
instead of a predicate, and rest on the least element that a nonempty set of
naturals has. From them follow that the tables exist that `FlattenSeq` and `Total`
choose (`TablesExist`, `SumGrows`), that a loop over one element more adds what that
element gives (`JoinAppend`, `BillOne`) and that a loop over two parts adds the
parts (`JoinConcat`, `TextConcat`, `BillConcat`). The loops of the code are then instances:
`ParseIsJoin`, `MergeOpenAIIsJoin`, `DetokenizeIsJoin`. All of this, with the types,
is in `ProviderStreamLemmas`.

The invariants are layers.

- `Shape`: the types, what goes with each stage (a request body with a stage that
  asks, frames with a stage that reads), and that each frame is one its upstream
  can send. `NextFramesEmit` reduces all choices of the upstream to the few
  facts of `Emits`, on which every later layer rests.
- `Charging`, for `UsageIsCharged`: a report is added to the sink when its frame is
  read, and is the log's when the body ends. So while frames are read the sink and
  the frames not yet read (`Owed`) make up what the entries before and the frames
  on the wire reported (`BillOK`), and at the end nothing is owed (`LogCharged`). What a run of
  frames reports is a sum (`Bill`), of which `BillConcat` says that a run of two
  parts is charged part by part; where a stream reported once, its last report
  is its sum.
- `Order`, in `Ordering`: the positions sent are on the wire in their order, and
  they are those echoed, then those made steps, the one held back, the rest
  of the frame and the frames not yet read.
- `EchoFits`, in `Echoes`: the text counted of an echo is never longer than its
  positions are many, so that, but for an array of ids, no position of the prompt
  is taken for output. `EchoEndFits`, in `Turning`: where the end can be told at all, the
  first position taken for output is the first after the prompt. This is
  the split that three signals decide, proved for each of them.
- `Naming`, in `Knowing`, for `ContextIsSent`: every id that the browser was shown or a
  step has stands for its piece in this instance (`Spelt`), and goes on doing so
  since instances only grow (`NamesStay`). Detokenizing a context then gives its
  pieces (`IdsSpelt`).
- `Sending`, in `Polite`, for `NeverRefused`: by the flags, and with `Knowing` for the
  ids.
- `Ends`, in `Streaming`: what ends a stream is its last frame; a reason is not lost
  between the wire, the reader and the steps. With `EchoEndFits` it gives
  `StreamIsInOrder` at the flush; `Delivering` carries it on while the call winds
  up. With `Order` it gives `LogHoldsTheStream` (`Logging`): the text delivered is
  that of the first positions sent, and of all of them when the reader is empty.

The proofs changed the model in one way that matters: `Naming` could not be
proved for a provider with a tokenizer and without ids, and TLC showed why
(section 4, observations); `Mapped` is now among the providers of the run. Two
guards of a CASE that overlapped (in `Way` and `BodyAt`) became an order of
choices, and `EchoEndTells` now says that blank pieces are the prepended ones.

An attempt that failed corrected the model of the page. The history variable of `ScreenIsOwn`
was cleared whenever nothing was shown; the proof needed that nothing is on its
way to the screen either, and with three runs and three troubles TLC found the
case: a switch leaves a run under way, an undo to the empty text clears the
tables, and a new run then shares them with the old one. `mixed` and the two
resets of section 3 are the result.

## 8. What is only model-checked

Liveness (`RequestsSettle`, `RequestsEnd`, `EntriesSettle`, `LoadIsFollowed`):
the prover has no rule for fairness with ENABLED; with `RequestsSettle` goes
`EndsOnce`, the one done event of a stream.

Every safety invariant of a passing run has a theorem. What the proofs do not
say: the theorems hold of the models, which abstract the data as section 3
describes; that the findings are reachable is shown by TLC alone.

## 9. What is not modelled

- *Samplers*: pure filters over floating-point weights (step 10 of the plan).
- *Log store and its pages* (step 11): each query is one transaction of SQLite's;
  what is not atomic is a page of results beside a writer (the cursor is a time
  alone, `web/logs_api.py:218-232`), the statistics (six queries, `244-262`), and
  "delete all", which misses queued rows.
- *Slot*: the size of the server's thread pool (a stream that holds the lock may
  find no worker for its next step; listed as a hazard); `drain_for_test`.
- *Speculation*: an empty prompt; the Hugging Face target, which evaluates its
  whole context each time and is the case in which the cache is always empty.
- *Streams*: texts, distributions, `perf` and `raw_output` frames. *Provider
  client*: the candidates of a position, the values of optional fields (only
  whether they are sent), logit bias, the chat call of the probe; `ProviderStream`
  has one call at a time, as the lock of the name sees to. *Log entries*: the
  masking of headers and keys, the fields copied from a request.
- *Control*: the list of models in the picker, a load's progress bar, a component
  that is destroyed (its timer is cleared, its flows go on).
- *Page*: two models of one backend are two backends here, so a switch of model
  does not contend for the old one's lock; the usage panel, which a switch
  without other output does not clear; the token cache and the bias editor.
- *Command line, configuration, schemas, authentication, the provider probe, the
  other pages*: parsing, printing, one comparison or one request, with no state
  that a second actor can touch.
