----------------------------- MODULE SlotHistory -----------------------------
(***************************************************************************)
(* The model slot, with a note of whether its operator has been careful: no *)
(* unload or shutdown has been under way beside a load so far.  start_load *)
(* and unload check the state and let go of `_state_lock' before they act, *)
(* so what the server's docstrings promise of the slot holds up to the     *)
(* first such overlap, and is stated that way here.                        *)
(***************************************************************************)
EXTENDS ModelSlot

VARIABLE mixed  \* history: an unload or a shutdown met a load

hvars == <<vars, mixed>>

Serial ==
    (\E t \in Unloads \cup Shutdowns : InFlight(t)) => ~\E l \in Loads : InFlight(l)

Note == mixed' = (mixed \/ ~Serial')

HInit == Init /\ mixed = FALSE

HNext ==
    \/ \E l \in Loads : Load(l) /\ Note
    \/ \E u \in Unloads : Unload(u) /\ Note
    \/ \E z \in Shutdowns : Shutdown(z) /\ Note
    \/ \E c \in Calls : Call(c) /\ Note
    \/ \E s \in Streams : Stream(s) /\ Note

HSpec == HInit /\ [][HNext]_hvars /\ Fairness

-----------------------------------------------------------------------------
(***************************************************************************)
(* Properties.                                                             *)
(***************************************************************************)
\* Up to the first overlap, and however reloads race each other: one load runs
\* at a time (app.py 76-77), the GPU holds one model and none while another is
\* built (_load 120-123), and the status at rest is true of the slot (68-74).
SlotStaysTrue == mixed \/ (OneLoad /\ OneResident /\ StatusTellsTruth)

\* What is in the slot is what serves, and a client is in the middle of a call
\* exactly while it holds the lock.
Promise == INSTANCE ServedModel WITH
    Clients <- Calls \cup Streams,
    Models <- Instances,
    None <- NoBackend,
    phase <- state,
    serving <- backend,
    using <- {t \in Threads : pc[t] \in Using}

\* Up to the first overlap the threads and locks of the slot implement the
\* documented machine: every step is a step of it or none (app.py 68-81).
KeepsPromise ==
    Promise!Init /\ [][mixed' \/ Promise!Next]_(Promise!avars)

\* Loading is transient: whatever requests hold the lock, and whether the
\* builder returns or raises, the status a client polls after a reload settles
\* (start_load, _load; docs/architecture.md 67-68).  No request waits for the
\* lock for ever, since every path lets it go; and a stream that comes to its
\* end by itself has sent exactly one done event (generate_stream 397-402).
RequestsSettle ==
    /\ state = "loading" ~> state # "loading"
    /\ \A t \in Threads : pc[t] # "new" ~> pc[t] \in Ended
    /\ []<>(lock = Free)
    /\ []EndsOnce
=============================================================================
