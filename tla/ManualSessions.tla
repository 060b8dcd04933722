--------------------------- MODULE ManualSessions ---------------------------
(***************************************************************************)
(* Manual decoding sessions of the web middleware: the registry that caps  *)
(* and expires them (dsbx/web/sessions.py), the session each one wraps     *)
(* (dsbx/core/manual.py) and the routes that use them (dsbx/web/app.py).   *)
(*                                                                         *)
(* All sessions here belong to one backend name, whose lock a route holds  *)
(* from before its change until it has its snapshot; the session's own     *)
(* lock is only taken inside it.  A generated token is represented by how  *)
(* it came about (picked with a finite logprob, picked with none, forced), *)
(* its probability by whether there is one.                                *)
(***************************************************************************)
EXTENDS Integers, SequencesExt

CONSTANTS
    Threads,        \* worker threads, each serving one request after another
    Sids,           \* session ids
    MaxSessions,    \* max_sessions
    TTL,            \* ttl_seconds
    MaxTime,        \* bound: time units
    MaxIds,         \* bound: generated tokens of a session
    None            \* a free lock, no session

ASSUME SessionsAssumption ==
    /\ MaxSessions \in Nat \ {0}
    /\ TTL \in Nat \ {0}
    /\ MaxTime \in Nat
    /\ MaxIds \in Nat
    /\ None \notin Threads \cup Sids

VARIABLES
    now,        \* self._now()
    store,      \* the keys of _entries
    made,       \* session ids handed out so far
    used,       \* last_used
    ids,        \* session.generated_ids
    probs,      \* generated_probs
    torn,       \* sessions in which a force broke off
    lock,       \* the backend lock of the name: its holder or None
    pc,
    req         \* what each thread serves

vars == <<now, store, made, used, ids, probs, torn, lock, pc, req>>
entryVars == <<ids, probs, torn>>
tableVars == <<store, made, used>>

Ops == {"create", "use", "delete"}
NoRequest == [op |-> "use", sid |-> None, cutoff |-> 0, mine |-> <<>>]

Goto(t, where) == pc' = [pc EXCEPT ![t] = where]
Sid(t) == req[t].sid
Picked == {"picked", "unrated"}
Tokens == Picked \cup {"forced"}

\* The request is answered, with a snapshot or with an error; the locks are left
\* and the thread is free for its next one.
Answer(t) ==
    /\ Goto(t, "idle")
    /\ req' = [req EXCEPT ![t] = NoRequest]
    /\ lock' = IF lock = t THEN None ELSE lock

Init ==
    /\ now = 0
    /\ store = {}
    /\ made = {}
    /\ used = [s \in Sids |-> 0]
    /\ ids = [s \in Sids |-> <<>>]
    /\ probs = [s \in Sids |-> <<>>]
    /\ torn = {}
    /\ lock = None
    /\ pc = [t \in Threads |-> "idle"]
    /\ req = [t \in Threads |-> NoRequest]

Tick ==
    /\ now < MaxTime
    /\ now' = now + 1
    /\ UNCHANGED <<tableVars, entryVars, lock, pc, req>>

-----------------------------------------------------------------------------
(***************************************************************************)
(* A request arrives.  A new session is made under the backend's lock; the *)
(* others look their session up first, and which change they make is left  *)
(* open until they make it; delete takes no lock.                          *)
(***************************************************************************)
Begin(t) ==
    /\ pc[t] = "idle"
    /\ \E op \in Ops, s \in made \cup {None} :
          /\ (s = None) <=> (op = "create")
          /\ req' = [req EXCEPT ![t].op = op, ![t].sid = s]
          /\ Goto(t, CASE op = "create" -> "lock" [] op = "delete" -> "delete" [] OTHER -> "evict")
    /\ UNCHANGED <<now, tableVars, entryVars, lock>>

Delete(t) ==
    /\ pc[t] = "delete"
    /\ store' = store \ {Sid(t)}
    /\ Answer(t)
    /\ UNCHANGED <<now, made, used, entryVars>>

\* A defect: a lookup does not expire anything.
EvictNothing(t) ==
    /\ pc[t] = "evict"
    /\ req' = [req EXCEPT ![t].cutoff = now - TTL]
    /\ Goto(t, IF req[t].op = "create" THEN "insert" ELSE "lookup")
    /\ UNCHANGED <<now, tableVars, entryVars, lock>>

\* _evict_expired_locked_callers.
Evict(t) ==
    /\ pc[t] = "evict"
    /\ req' = [req EXCEPT ![t].cutoff = now - TTL]
    /\ store' = {s \in store : used[s] >= now - TTL}
    /\ Goto(t, IF req[t].op = "create" THEN "insert" ELSE "lookup")
    /\ UNCHANGED <<now, made, used, entryVars, lock>>

-----------------------------------------------------------------------------
(***************************************************************************)
(* ManualSessionRegistry.get and create.                                   *)
(***************************************************************************)
Lookup(t) ==
    /\ pc[t] = "lookup"
    /\ IF Sid(t) \in store
       THEN Goto(t, "stamp") /\ UNCHANGED <<lock, req>>
       ELSE Answer(t)
    /\ UNCHANGED <<now, tableVars, entryVars>>

\* Outside the registry's lock: the session may be gone from it by now.
Stamp(t) ==
    /\ pc[t] = "stamp"
    /\ used' = [used EXCEPT ![Sid(t)] = now]
    /\ req' = [req EXCEPT ![t].cutoff = 0]
    /\ Goto(t, "lock")
    /\ UNCHANGED <<now, store, made, entryVars, lock>>

\* _use_backend, then the name's lock; the backend may be unavailable.
Lock(t) ==
    /\ pc[t] = "lock"
    /\ \/ /\ lock = None
          /\ lock' = t
          /\ Goto(t, IF req[t].op = "create" THEN "evict" ELSE "apply")
          /\ UNCHANGED req
       \/ Answer(t)
    /\ UNCHANGED <<now, tableVars, entryVars>>

\* A defect: the cap is checked with the new session left out of the count.
InsertOverCap(t) ==
    /\ pc[t] = "insert"
    /\ \E s \in Sids \ made :
          /\ Cardinality(store) <= MaxSessions
          /\ store' = store \cup {s}
          /\ made' = made \cup {s}
          /\ used' = [used EXCEPT ![s] = now]
          /\ req' = [req EXCEPT ![t].sid = s, ![t].cutoff = 0]
    /\ Goto(t, "snapshot")
    /\ UNCHANGED <<now, entryVars, lock>>

\* A new session starts empty; at the cap the one unused longest has to go.
Insert(t) ==
    /\ pc[t] = "insert"
    /\ \E s \in Sids \ made :
          /\ \/ Cardinality(store) < MaxSessions /\ store' = store \cup {s}
             \/ /\ Cardinality(store) = MaxSessions
                /\ \E oldest \in store :
                      /\ \A other \in store : used[oldest] <= used[other]
                      /\ store' = (store \ {oldest}) \cup {s}
          /\ made' = made \cup {s}
          /\ used' = [used EXCEPT ![s] = now]
          /\ req' = [req EXCEPT ![t].sid = s, ![t].cutoff = 0]
    /\ Goto(t, "snapshot")
    /\ UNCHANGED <<now, entryVars, lock>>

\* Tokenising the prompt fails before the session exists.
InsertFails(t) ==
    /\ pc[t] = "insert"
    /\ Answer(t)
    /\ UNCHANGED <<now, tableVars, entryVars>>

-----------------------------------------------------------------------------
(***************************************************************************)
(* The changes, under the backend's lock and the session's.                *)
(***************************************************************************)
\* The session's tokens and probabilities are what they are after t's change.
Become(t, newIds, newProbs) ==
    /\ Len(newIds) <= MaxIds
    /\ ids' = [ids EXCEPT ![Sid(t)] = newIds]
    /\ probs' = [probs EXCEPT ![Sid(t)] = newProbs]

Mine(t) == req' = [req EXCEPT ![t].mine = ids'[Sid(t)]]
None_(n) == [i \in 1 .. n |-> "none"]

\* _prob_from_logprob: an upstream may list a candidate without a logprob.
ProbOf(token) == IF token = "picked" THEN "prob" ELSE "none"

Pick(t) ==
    /\ pc[t] = "apply"
    /\ \E token \in Picked :
          Become(t, Append(ids[Sid(t)], token), Append(probs[Sid(t)], ProbOf(token)))
    /\ Goto(t, "snapshot") /\ Mine(t)
    /\ UNCHANGED <<now, tableVars, torn, lock>>

\* force_id, or force_text of a text of n tokens.
ForceTokens(t) ==
    /\ pc[t] = "apply"
    /\ \E n \in 1 .. 2 :
          Become(t, ids[Sid(t)] \o [i \in 1 .. n |-> "forced"], probs[Sid(t)] \o None_(n))
    /\ Goto(t, "snapshot") /\ Mine(t)
    /\ UNCHANGED <<now, tableVars, torn, lock>>

\* The upstream fails to render a forced token that has been appended.
ForceBreaksOff(t) ==
    /\ pc[t] = "apply"
    /\ \E n \in 1 .. 2 :
          Become(t, ids[Sid(t)] \o [i \in 1 .. n |-> "forced"], probs[Sid(t)])
    /\ torn' = torn \cup {Sid(t)}
    /\ Answer(t)
    /\ UNCHANGED <<now, tableVars>>

\* A defect: only the session's own undo is called.
UndoIdsOnly(t) ==
    /\ pc[t] = "apply"
    /\ ids' = [ids EXCEPT ![Sid(t)] = IF @ = <<>> THEN <<>> ELSE Front(@)]
    /\ Goto(t, "snapshot") /\ Mine(t)
    /\ UNCHANGED <<now, tableVars, probs, torn, lock>>

Undo(t) ==
    /\ pc[t] = "apply"
    /\ LET i == ids[Sid(t)]
           p == probs[Sid(t)]
       IN  Become(t, IF i = <<>> THEN i ELSE Front(i),
                     IF i = <<>> \/ p = <<>> THEN p ELSE Front(p))
    /\ Goto(t, "snapshot") /\ Mine(t)
    /\ UNCHANGED <<now, tableVars, torn, lock>>

\* load_transcript_into_session: tokens without probabilities.
Load(t) ==
    /\ pc[t] = "apply"
    /\ \E n \in 0 .. MaxIds : Become(t, [i \in 1 .. n |-> "forced"], None_(n))
    /\ torn' = torn \ {Sid(t)}
    /\ Goto(t, "snapshot") /\ Mine(t)
    /\ UNCHANGED <<now, tableVars, lock>>

\* A defect: a read leaves the locks before it takes its snapshot.
ReadUnlocked(t) ==
    /\ pc[t] = "apply"
    /\ req' = [req EXCEPT ![t].mine = ids[Sid(t)]]
    /\ lock' = None
    /\ Goto(t, "snapshot")
    /\ UNCHANGED <<now, tableVars, entryVars>>

\* manual_get, set_top_k and transcript leave the tokens alone.
Read(t) ==
    /\ pc[t] = "apply"
    /\ req' = [req EXCEPT ![t].mine = ids[Sid(t)]]
    /\ Goto(t, "snapshot")
    /\ UNCHANGED <<now, tableVars, entryVars, lock>>

\* A rank out of range, a backend that cannot force, an upstream that fails.
Refuse(t) ==
    /\ pc[t] = "apply"
    /\ Answer(t)
    /\ UNCHANGED <<now, tableVars, entryVars>>

-----------------------------------------------------------------------------
\* _snapshot asks for the distribution after all tokens, and for their text.
\* When that fails the request is answered with an error, and its change stays.
Snapshot(t) ==
    /\ pc[t] = "snapshot"
    /\ Answer(t)
    /\ UNCHANGED <<now, tableVars, entryVars>>

Apply(t) ==
    \/ Pick(t) \/ ForceTokens(t) \/ ForceBreaksOff(t) \/ Undo(t) \/ Load(t) \/ Read(t) \/ Refuse(t)

Next ==
    \/ Tick
    \/ \E t \in Threads :
          \/ Begin(t) \/ Delete(t) \/ Evict(t) \/ Lookup(t) \/ Stamp(t) \/ Lock(t)
          \/ Insert(t) \/ InsertFails(t) \/ Apply(t)
          \/ Snapshot(t)

Spec == Init /\ [][Next]_vars

-----------------------------------------------------------------------------
(***************************************************************************)
(* Properties.                                                             *)
(***************************************************************************)
\* Each variable keeps its type; the registry never outgrows its cap, however
\* creations and evictions interleave (create 162-174).
TypeOK ==
    /\ now \in 0 .. MaxTime
    /\ store \subseteq made /\ made \subseteq Sids
    /\ Cardinality(store) <= MaxSessions
    /\ used \in [Sids -> 0 .. MaxTime]
    /\ ids \in [Sids -> BoundedSeq(Tokens, MaxIds)]
    /\ probs \in [Sids -> BoundedSeq({"prob", "none"}, MaxIds)]
    /\ torn \subseteq Sids
    /\ lock \in Threads \cup {None}

\* Each token has the probability it was picked with, or none if it was picked
\* without one, forced or loaded, through any sequence of changes, as long as no
\* force broke off (_Entry 54-60).
Lockstep ==
    \A s \in Sids \ torn :
        /\ Len(probs[s]) = Len(ids[s])
        /\ \A i \in DOMAIN ids[s] : probs[s][i] = "prob" <=> ids[s][i] = "picked"

\* A snapshot shows the session as its own request left it, never with another
\* request's change on top (_snapshot 783-785).
SnapshotIsOwn ==
    \A t \in Threads : pc[t] = "snapshot" => ids[Sid(t)] = req[t].mine

\* A request only gets hold of a session that was used within the TTL before
\* its lookup began, whoever expires, stamps or replaces sessions meanwhile
\* (get 183).
NoExpiredSession ==
    \A t \in Threads : pc[t] = "stamp" => used[Sid(t)] >= req[t].cutoff
=============================================================================
