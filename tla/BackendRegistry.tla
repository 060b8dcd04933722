--------------------------- MODULE BackendRegistry ---------------------------
(***************************************************************************)
(* The web middleware's registry of named backends (dsbx/web/backends.py)  *)
(* and the requests that go through it (dsbx/web/app.py).                  *)
(*                                                                         *)
(* A slot is a place an instance is cached in: a name's `instance', or one *)
(* of its `cloud_variants'.  ensure_loaded looks the slot up, builds and   *)
(* stores without any lock; the lock of the name is taken afterwards, for  *)
(* the call; requests that only ask a remote host about itself take none.  *)
(*                                                                         *)
(* Names are numbers, so that the code's sorted() is their order.  An      *)
(* instance is named after the thread that built it and the slot it is     *)
(* for.  A generate stream is two requests: the one that resolves stop     *)
(* texts and the one its body makes.                                       *)
(***************************************************************************)
EXTENDS Integers, Sequences, FiniteSets

CONSTANTS
    Users,      \* requests that call backends under their locks
    Polls,      \* status polls, reloads, unloads and listings of remote hosts
    Names,      \* logical backend names, in sorted order
    Slots,      \* cached places
    NameOf,     \* the name a slot belongs to
    Variants,   \* slots of entry.cloud_variants; the others are entry.instance
    Hosts,      \* names of the remote family
    None        \* an empty slot, a free lock

Threads == Users \cup Polls

ASSUME RegistryAssumption ==
    /\ Names \subseteq Int
    /\ NameOf \in [Slots -> Names]
    /\ Variants \subseteq Slots
    /\ Hosts \subseteq Names
    /\ \A k \in Variants : NameOf[k] \notin Hosts
    /\ Users \cap Polls = {}
    /\ None \notin Threads \cup (Threads \X Slots)

Instances == Threads \X Slots

Plans == {<<k>> : k \in Slots}
            \cup {p \in Slots \X Slots : NameOf[p[1]] # NameOf[p[2]]}

VARIABLES
    slot,       \* entry.instance and entry.cloud_variants
    locks,      \* entry.lock of each name: its holder or None
    built,      \* instances constructed
    closed,     \* instances closed
    down,       \* close_all has run
    pc,
    plan,       \* the slots it wants, in the order it loads them
    got         \* the instances ensure_loaded returned to it

vars == <<slot, locks, built, closed, down, pc, plan, got>>

Ended == {"done", "failed"}
Goto(t, where) == pc' = [pc EXCEPT ![t] = where]
Wanted(t) == {NameOf[plan[t][i]] : i \in DOMAIN plan[t]}
Held(t) == {n \in Names : locks[n] = t}
Current(t) == plan[t][Len(got[t]) + 1]

Init ==
    /\ slot = [k \in Slots |-> None]
    /\ locks = [n \in Names |-> None]
    /\ built = {}
    /\ closed = {}
    /\ down = FALSE
    /\ pc = [t \in Threads |-> "new"]
    /\ plan = [t \in Threads |-> <<>>]
    /\ got = [t \in Threads |-> <<>>]

-----------------------------------------------------------------------------
(***************************************************************************)
(* A request begins: a locked call, or a speculative stream over two       *)
(* backends; or a question to a remote host.                               *)
(***************************************************************************)
Begin(t) ==
    /\ ~down
    /\ pc[t] = "new"
    /\ \E p \in Plans :
          /\ t \notin Users => Len(p) = 1 /\ NameOf[p[1]] \in Hosts
          /\ plan' = [plan EXCEPT ![t] = p]
    /\ Goto(t, "load")
    /\ UNCHANGED <<slot, locks, built, closed, down, got>>

-----------------------------------------------------------------------------
(***************************************************************************)
(* ensure_loaded                                                           *)
(***************************************************************************)
\* What follows the last ensure_loaded of a request.
AfterLoad(t) ==
    IF t \in Users THEN "lock" ELSE "call"

Got(t, inst) ==
    /\ got' = [got EXCEPT ![t] = Append(@, inst)]
    /\ Goto(t, IF Len(got[t]) + 1 = Len(plan[t]) THEN AfterLoad(t) ELSE "load")

Lookup(t) ==
    /\ pc[t] = "load"
    /\ IF slot[Current(t)] # None
       THEN Got(t, slot[Current(t)])
       ELSE Goto(t, "build") /\ UNCHANGED got
    /\ UNCHANGED <<slot, locks, built, closed, down, plan>>

Build(t) ==
    /\ pc[t] = "build"
    /\ built' = built \cup {<<t, Current(t)>>}
    /\ Goto(t, "store")
    /\ UNCHANGED <<slot, locks, closed, down, plan, got>>

\* A missing key, an unreachable host: the request ends with an error.
BuildFail(t) ==
    /\ pc[t] = "build"
    /\ Goto(t, "failed")
    /\ UNCHANGED <<slot, locks, built, closed, down, plan, got>>

\* Stored whatever the slot holds by now.  A variant is returned as built, the
\* instance of a name is read again.
Store(t) ==
    /\ pc[t] = "store"
    /\ slot' = [slot EXCEPT ![Current(t)] = <<t, Current(t)>>]
    /\ IF Current(t) \in Variants
       THEN Got(t, <<t, Current(t)>>)
       ELSE Goto(t, "return") /\ UNCHANGED got
    /\ UNCHANGED <<locks, built, closed, down, plan>>

Return(t) ==
    /\ pc[t] = "return"
    /\ Got(t, slot[Current(t)])
    /\ UNCHANGED <<slot, locks, built, closed, down, plan>>

-----------------------------------------------------------------------------
(***************************************************************************)
(* The call: with the name's lock, or with both names' locks in sorted     *)
(* order for a speculative stream; polls take none.                        *)
(***************************************************************************)
\* A defect: the locks are taken in the order the request names the backends.
AcquireAsNamed(t) ==
    /\ pc[t] = "lock"
    /\ LET i == Cardinality(Held(t)) + 1
           n == NameOf[plan[t][i]]
       IN  /\ locks[n] = None
           /\ locks' = [locks EXCEPT ![n] = t]
           /\ Goto(t, IF i = Len(plan[t]) THEN "use" ELSE "lock")
    /\ UNCHANGED <<slot, built, closed, down, plan, got>>

\* A defect: a speculative stream only takes its first lock.
AcquireFirst(t) ==
    /\ pc[t] = "lock"
    /\ \E n \in Wanted(t) :
          /\ \A m \in Wanted(t) : n <= m
          /\ locks[n] = None
          /\ locks' = [locks EXCEPT ![n] = t]
    /\ Goto(t, "use")
    /\ UNCHANGED <<slot, built, closed, down, plan, got>>

Acquire(t) ==
    /\ pc[t] = "lock"
    /\ \E n \in Wanted(t) \ Held(t) :
          /\ \A m \in Wanted(t) \ Held(t) : n <= m
          /\ locks[n] = None
          /\ locks' = [locks EXCEPT ![n] = t]
          /\ Goto(t, IF Wanted(t) \ Held(t) = {n} THEN "use" ELSE "lock")
    /\ UNCHANGED <<slot, built, closed, down, plan, got>>

\* The with block is left, by its end, an error or the client's leaving.
Release(t) ==
    /\ pc[t] = "use"
    /\ locks' = [n \in Names |-> IF locks[n] = t THEN None ELSE locks[n]]
    /\ Goto(t, "done")
    /\ UNCHANGED <<slot, built, closed, down, plan, got>>

\* The upstream's answer, or its absence.
CallHost(t) ==
    /\ pc[t] = "call"
    /\ \E end \in Ended : Goto(t, end)
    /\ UNCHANGED <<slot, locks, built, closed, down, plan, got>>

-----------------------------------------------------------------------------
\* A defect: backends are closed without waiting for the requests.
CloseAllAtOnce ==
    /\ ~down
    /\ closed' = closed \cup {slot[k] : k \in {m \in Slots : slot[m] # None}}
    /\ slot' = [k \in Slots |-> None]
    /\ down' = TRUE
    /\ UNCHANGED <<locks, built, pc, plan, got>>

\* close_all in the lifespan's shutdown, once uvicorn has drained its requests.
CloseAll ==
    /\ ~down
    /\ \A t \in Threads : pc[t] \in Ended \cup {"new"}
    /\ closed' = closed \cup {slot[k] : k \in {m \in Slots : slot[m] # None}}
    /\ slot' = [k \in Slots |-> None]
    /\ down' = TRUE
    /\ UNCHANGED <<locks, built, pc, plan, got>>

Request(t) ==
    \/ Lookup(t) \/ Build(t) \/ BuildFail(t) \/ Store(t) \/ Return(t)
    \/ Acquire(t) \/ Release(t) \/ CallHost(t)

Next ==
    \/ \E t \in Threads : Begin(t) \/ Request(t)
    \/ CloseAll

\* Requests that began run to their end: builds and upstream calls return or
\* time out, and each thread wants each lock once.
Fairness == \A t \in Threads : WF_vars(Request(t))

Spec == Init /\ [][Next]_vars
FairSpec == Spec /\ Fairness

-----------------------------------------------------------------------------
(***************************************************************************)
(* Properties.                                                             *)
(***************************************************************************)
\* Each variable keeps its type; what ensure_loaded returns is an instance of
\* the slot that was asked for, never None.
TypeOK ==
    /\ slot \in [Slots -> Instances \cup {None}]
    /\ locks \in [Names -> Threads \cup {None}]
    /\ built \subseteq Instances
    /\ closed \subseteq built
    /\ \A t \in Threads : \A i \in DOMAIN got[t] : got[t][i] \in Threads \X {plan[t][i]}

\* While a request uses its backends it holds the lock of each of their names,
\* however many instances a name came to have by then, so no two requests ever
\* use one instance at the same time (module docstring 4-8, use 701-711); and a
\* backend is open while a request, a poll or a reload works with it.
SafeUse ==
    LET Mine(t) == {got[t][i] : i \in DOMAIN got[t]}
    IN  /\ \A t \in Threads : pc[t] = "use" => Wanted(t) \subseteq Held(t)
        /\ \A t, u \in Threads :
              (pc[t] = "use" /\ pc[u] = "use" /\ t # u) => Mine(t) \cap Mine(u) = {}
        /\ \A t \in Threads :
              pc[t] \in {"use", "call"} => Mine(t) \subseteq built \ closed

\* Every request ends: with its locks in one order, speculative streams over
\* overlapping pairs never wait for each other in a circle (spec_stream 653-656).
RequestsEnd ==
    \A t \in Threads : pc[t] # "new" ~> pc[t] \in Ended

\* "Close every backend we ever loaded" (close_all 769).
AllClosed == down => built \subseteq closed
=============================================================================
