------------------------- MODULE WebServicesProofs -------------------------
(***************************************************************************)
(* The two services of the web middleware that keep records between        *)
(* requests, which share no variable.                                      *)
(*                                                                         *)
(* Manual sessions: for any number of threads and sessions, any cap, TTL   *)
(* and length, each token keeps its own probability, a snapshot shows its  *)
(* own request's session, and no expired session is handed out.            *)
(*                                                                         *)
(* Request log: for any number of calls, any queue and any batch, however  *)
(* calls end, writes fail and the stop falls, each call makes one entry,   *)
(* and each entry is waiting, written or dropped, and in one place only.   *)
(***************************************************************************)
EXTENDS ManualSessions, RequestLog, SequenceTheorems, FiniteSetTheorems, TLAPS

Probs == {"prob", "none"}

\* The probabilities of a session's tokens.
Paired(i, p) ==
    /\ Len(p) = Len(i)
    /\ \A k \in 1 .. Len(i) : p[k] = "prob" <=> i[k] = "picked"

-----------------------------------------------------------------------------
(***************************************************************************)
(* What the changes do to tokens and probabilities.                        *)
(***************************************************************************)
LEMMA AppendPairs ==
    ASSUME NEW i \in Seq(Tokens), NEW p \in Seq(Probs), NEW token \in Picked
    PROVE  LET j == Append(i, token)
               q == Append(p, ProbOf(token))
           IN  /\ j \in Seq(Tokens) /\ Len(j) = Len(i) + 1
               /\ q \in Seq(Probs) /\ Len(q) = Len(p) + 1
               /\ Paired(i, p) => Paired(j, q)
<1> DEFINE j == Append(i, token)
           q == Append(p, ProbOf(token))
<1>1. /\ j \in Seq(Tokens) /\ Len(j) = Len(i) + 1 /\ Len(i) \in Nat
      /\ \A k \in 1 .. Len(i) : j[k] = i[k]
      /\ j[Len(i) + 1] = token
    BY DEF Tokens
<1>2. /\ q \in Seq(Probs) /\ Len(q) = Len(p) + 1 /\ Len(p) \in Nat
      /\ \A k \in 1 .. Len(p) : q[k] = p[k]
      /\ q[Len(p) + 1] = ProbOf(token)
    BY DEF Probs, ProbOf
<1> HIDE DEF j, q
<1>3. ASSUME Paired(i, p) PROVE Paired(j, q)
    BY <1>1, <1>2, <1>3 DEF Paired, ProbOf
<1> QED
    BY <1>1, <1>2, <1>3 DEF j, q

\* n tokens that were forced or loaded.
LEMMA ForcedPairs ==
    ASSUME NEW n \in Nat
    PROVE  LET i == [k \in 1 .. n |-> "forced"]
           IN  /\ i \in Seq(Tokens) /\ Len(i) = n
               /\ None_(n) \in Seq(Probs) /\ Len(None_(n)) = n
               /\ Paired(i, None_(n))
<1> DEFINE i == [k \in 1 .. n |-> "forced"]
<1>1. i \in Seq(Tokens) /\ Len(i) = n /\ \A k \in 1 .. n : i[k] = "forced"
    BY DEF Tokens
<1>2. None_(n) \in Seq(Probs) /\ Len(None_(n)) = n /\ \A k \in 1 .. n : None_(n)[k] = "none"
    BY DEF None_, Probs
<1> HIDE DEF i
<1>3. Paired(i, None_(n))
    BY <1>1, <1>2 DEF Paired
<1> QED
    BY <1>1, <1>2, <1>3 DEF i

LEMMA ConcatPairs ==
    ASSUME NEW i \in Seq(Tokens), NEW p \in Seq(Probs),
           NEW j \in Seq(Tokens), NEW q \in Seq(Probs), Paired(j, q)
    PROVE  /\ i \o j \in Seq(Tokens) /\ Len(i \o j) = Len(i) + Len(j)
           /\ p \o q \in Seq(Probs) /\ Len(p \o q) = Len(p) + Len(q)
           /\ Paired(i, p) => Paired(i \o j, p \o q)
<1> DEFINE c == i \o j
           d == p \o q
<1>1. /\ c \in Seq(Tokens) /\ Len(c) = Len(i) + Len(j)
      /\ \A k \in 1 .. Len(i) : c[k] = i[k]
      /\ \A k \in Len(i) + 1 .. Len(i) + Len(j) : c[k] = j[k - Len(i)]
    BY ConcatProperties
<1>2. /\ d \in Seq(Probs) /\ Len(d) = Len(p) + Len(q)
      /\ \A k \in 1 .. Len(p) : d[k] = p[k]
      /\ \A k \in Len(p) + 1 .. Len(p) + Len(q) : d[k] = q[k - Len(p)]
    BY ConcatProperties
<1>3. Len(i) \in Nat /\ Len(j) \in Nat
    OBVIOUS
<1> HIDE DEF c, d
<1>4. ASSUME Paired(i, p) PROVE Paired(c, d)
    <2>1. Len(p) = Len(i) /\ Len(q) = Len(j)
        BY <1>4 DEF Paired
    <2>2. ASSUME NEW k \in 1 .. Len(c) PROVE d[k] = "prob" <=> c[k] = "picked"
        <3>1. CASE k <= Len(i)
            BY <1>1, <1>2, <1>3, <1>4, <2>1, <3>1 DEF Paired
        <3>2. CASE k > Len(i)
            <4>1. c[k] = j[k - Len(i)] /\ d[k] = q[k - Len(i)] /\ k - Len(i) \in 1 .. Len(j)
                BY <1>1, <1>2, <1>3, <2>1, <3>2
            <4> QED
                BY <4>1 DEF Paired
        <3> QED
            BY <1>1, <1>3, <3>1, <3>2
    <2> QED
        BY <1>1, <1>2, <2>1, <2>2 DEF Paired
<1> QED
    BY <1>1, <1>2, <1>4 DEF c, d

LEMMA FrontIs ==
    ASSUME NEW S, NEW s \in Seq(S), s # <<>>
    PROVE  /\ Front(s) \in Seq(S) /\ Len(Front(s)) = Len(s) - 1 /\ Len(s) \in Nat \ {0}
           /\ \A k \in 1 .. Len(s) - 1 : Front(s)[k] = s[k]
<1>1. Len(s) \in Nat /\ Len(s) # 0
    BY EmptySeq
<1>2. Len(s) - 1 \in 0 .. Len(s)
    BY <1>1
<1>3. \A k \in 1 .. Len(s) - 1 : s[k] \in S
    BY <1>1
<1> DEFINE n == Len(s) - 1
<1>4. Front(s) = SubSeq(s, 1, n)
    BY DEF Front
<1>5. n \in Nat /\ n <= Len(s)
    BY <1>1
<1> HIDE DEF n
<1>6. /\ SubSeq(s, 1, n) \in Seq(S) /\ Len(SubSeq(s, 1, n)) = n
      /\ \A k \in 1 .. n : SubSeq(s, 1, n)[k] = s[k]
    BY <1>1, <1>5, SubSeqProperties
<1> QED
    BY <1>1, <1>4, <1>6 DEF n

\* The last token goes, and its probability with it.
LEMMA UndoPairs ==
    ASSUME NEW i \in Seq(Tokens), NEW p \in Seq(Probs), Len(p) <= Len(i)
    PROVE  LET j == IF i = <<>> THEN i ELSE Front(i)
               q == IF i = <<>> \/ p = <<>> THEN p ELSE Front(p)
           IN  /\ j \in Seq(Tokens) /\ q \in Seq(Probs) /\ Len(q) <= Len(j)
               /\ Paired(i, p) => Paired(j, q)
<1>1. CASE i = <<>>
    BY <1>1
<1>2. CASE i # <<>> /\ p = <<>>
    <2>1. /\ Front(i) \in Seq(Tokens) /\ Len(Front(i)) = Len(i) - 1 /\ Len(i) \in Nat \ {0}
        BY <1>2, FrontIs
    <2>2. Len(p) = 0
        BY <1>2
    <2>3. ~Paired(i, p) /\ Len(p) <= Len(Front(i))
        BY <2>1, <2>2 DEF Paired
    <2> QED
        BY <1>2, <2>1, <2>3
<1>3. CASE i # <<>> /\ p # <<>>
    <2>1. /\ Front(i) \in Seq(Tokens) /\ Len(Front(i)) = Len(i) - 1 /\ Len(i) \in Nat \ {0}
          /\ \A k \in 1 .. Len(i) - 1 : Front(i)[k] = i[k]
        BY <1>3, FrontIs
    <2>2. /\ Front(p) \in Seq(Probs) /\ Len(Front(p)) = Len(p) - 1 /\ Len(p) \in Nat \ {0}
          /\ \A k \in 1 .. Len(p) - 1 : Front(p)[k] = p[k]
        BY <1>3, FrontIs
    <2>3. Paired(i, p) => Paired(Front(i), Front(p))
        BY <2>1, <2>2 DEF Paired
    <2>4. Len(Front(p)) <= Len(Front(i))
        BY <2>1, <2>2
    <2> QED
        BY <1>3, <2>1, <2>2, <2>3, <2>4
<1> QED
    BY <1>1, <1>2, <1>3

LEMMA ShortIsBounded ==
    ASSUME NEW S, NEW n \in Nat, NEW s \in Seq(S), Len(s) <= n
    PROVE  s \in BoundedSeq(S, n)
<1>1. s \in [1 .. Len(s) -> S] /\ Len(s) \in 0 .. n
    OBVIOUS
<1> QED
    BY <1>1 DEF BoundedSeq, SeqOf
-----------------------------------------------------------------------------
(***************************************************************************)
(* The invariant.                                                          *)
(***************************************************************************)
Inside == {"insert", "apply", "snapshot"}
States == {"idle", "delete", "evict", "lookup", "stamp", "lock"} \cup Inside
Served == [op : Ops, sid : Sids \cup {None}, cutoff : Int, mine : Seq(Tokens)]

Table ==
    /\ now \in 0 .. MaxTime
    /\ store \subseteq made /\ made \subseteq Sids
    /\ IsFiniteSet(store) /\ Cardinality(store) <= MaxSessions
    /\ used \in [Sids -> 0 .. MaxTime]
    /\ \A s \in Sids : used[s] <= now

Texts ==
    /\ ids \in [Sids -> Seq(Tokens)] /\ probs \in [Sids -> Seq(Probs)]
    /\ torn \subseteq Sids
    /\ \A s \in Sids :
          /\ Len(probs[s]) <= Len(ids[s]) /\ Len(ids[s]) <= MaxIds
          /\ s \notin torn => Paired(ids[s], probs[s])
          /\ s \notin made => ids[s] = <<>>

Flow ==
    /\ pc \in [Threads -> States]
    /\ req \in [Threads -> Served]
    /\ lock \in Threads \cup {None}

\* The thread is in the with block of the backend's lock.
Holding(t) == pc[t] \in Inside \/ (pc[t] = "evict" /\ req[t].op = "create")

\* What a thread holds, and the session it is about, at each position.
Position ==
    \A t \in Threads :
        /\ Holding(t) => lock = t
        /\ pc[t] \in {"delete", "lookup", "stamp", "apply", "snapshot"} => Sid(t) \in made
        /\ pc[t] \in {"evict", "lock"} /\ req[t].op # "create" => Sid(t) \in made
        /\ pc[t] # "snapshot" => req[t].mine = <<>>
        /\ pc[t] = "snapshot" => ids[Sid(t)] = req[t].mine

\* What a lookup finds, and has found, was used since its cutoff.
Current ==
    \A t \in Threads :
        /\ pc[t] \in {"lookup", "stamp"} => req[t].cutoff <= now
        /\ pc[t] = "lookup" => \A s \in store : used[s] >= req[t].cutoff
        /\ pc[t] = "stamp" => used[Sid(t)] >= req[t].cutoff

MInv == Table /\ Texts /\ Flow /\ Position /\ Current

LEMMA MInvImplies == MInv => TypeOK /\ Lockstep /\ SnapshotIsOwn /\ NoExpiredSession
<1> SUFFICES ASSUME MInv PROVE TypeOK /\ Lockstep /\ SnapshotIsOwn /\ NoExpiredSession
    OBVIOUS
<1> USE SessionsAssumption DEF MInv
<1>1. ASSUME NEW s \in Sids
      PROVE  ids[s] \in BoundedSeq(Tokens, MaxIds) /\ probs[s] \in BoundedSeq(Probs, MaxIds)
    <2>1. /\ ids[s] \in Seq(Tokens) /\ Len(ids[s]) \in Nat /\ Len(ids[s]) <= MaxIds
          /\ probs[s] \in Seq(Probs) /\ Len(probs[s]) \in Nat /\ Len(probs[s]) <= Len(ids[s])
        BY DEF Texts
    <2>2. Len(probs[s]) <= MaxIds
        BY <2>1
    <2> QED
        BY <2>1, <2>2, ShortIsBounded
<1>2. TypeOK
    BY <1>1 DEF Table, Texts, Flow, TypeOK, Probs
<1>3. Lockstep
    <2> SUFFICES ASSUME NEW s \in Sids \ torn
                 PROVE  /\ Len(probs[s]) = Len(ids[s])
                        /\ \A i \in DOMAIN ids[s] : probs[s][i] = "prob" <=> ids[s][i] = "picked"
        BY DEF Lockstep
    <2>1. Paired(ids[s], probs[s]) /\ ids[s] \in Seq(Tokens)
        BY DEF Texts
    <2> QED
        BY <2>1 DEF Paired
<1>4. SnapshotIsOwn /\ NoExpiredSession
    BY DEF Position, Current, SnapshotIsOwn, NoExpiredSession
<1> QED
    BY <1>2, <1>3, <1>4

LEMMA MInvInit == Init => MInv
<1> SUFFICES ASSUME Init PROVE MInv
    OBVIOUS
<1> USE SessionsAssumption DEF Init
<1>1. IsFiniteSet({}) /\ Cardinality({}) = 0
    BY FS_EmptySet
<1>2. Table
    BY <1>1 DEF Table
<1>3. Texts
    <2>1. \A s \in Sids : Paired(ids[s], probs[s])
        BY DEF Paired
    <2>2. ids \in [Sids -> Seq(Tokens)] /\ probs \in [Sids -> Seq(Probs)]
        OBVIOUS
    <2>3. \A s \in Sids : ids[s] = <<>> /\ Len(ids[s]) = 0 /\ Len(probs[s]) = 0
        OBVIOUS
    <2> QED
        BY <2>1, <2>2, <2>3 DEF Texts
<1>4. Flow
    <2>1. NoRequest \in Served
        BY DEF NoRequest, Served, Ops
    <2> QED
        BY <2>1 DEF Flow, States
<1>5. Position /\ Current
    BY DEF Position, Current, Holding, Inside, NoRequest
<1> QED
    BY <1>2, <1>3, <1>4, <1>5 DEF MInv

-----------------------------------------------------------------------------
(***************************************************************************)
(* The steps.                                                              *)
(***************************************************************************)
\* The table is left alone, or one thread moves without touching a session.
LEMMA MoveInv ==
    ASSUME MInv, NEW t \in Threads, NEW where \in States, NEW r \in Served,
           pc' = [pc EXCEPT ![t] = where], req' = [req EXCEPT ![t] = r],
           UNCHANGED <<now, used, made, entryVars>>, store' \subseteq store,
           lock' \in {lock, t} \/ (lock = t /\ lock' = None),
           lock' = t => lock \in {t, None},
           where \in Inside \/ (where = "evict" /\ r.op = "create") => lock' = t,
           where \in {"delete", "lookup", "stamp", "apply"} => r.sid \in made,
           where \in {"evict", "lock"} /\ r.op # "create" => r.sid \in made,
           where # "snapshot" => r.mine = <<>>,
           where = "snapshot" => r.sid \in made /\ ids[r.sid] = r.mine,
           where \in {"lookup", "stamp"} => r.cutoff <= now,
           where = "lookup" => \A s \in store' : used[s] >= r.cutoff,
           where = "stamp" => used[r.sid] >= r.cutoff
    PROVE  MInv'
<1> USE SessionsAssumption DEF MInv, entryVars
<1>1. /\ pc'[t] = where /\ req'[t] = r
      /\ \A u \in Threads \ {t} : pc'[u] = pc[u] /\ req'[u] = req[u]
    BY DEF Flow
<1>2. Table'
    <2>1. IsFiniteSet(store') /\ Cardinality(store') <= Cardinality(store)
        BY FS_Subset DEF Table
    <2>2. Cardinality(store) \in Nat /\ Cardinality(store') \in Nat
        BY <2>1, FS_CardinalityType DEF Table
    <2> QED
        BY <2>1, <2>2 DEF Table
<1>3. Texts'
    BY DEF Texts
<1>4. Flow'
    BY DEF Flow
<1>5. Position'
    <2>1. ASSUME NEW u \in Threads \ {t}, Holding(u) PROVE lock' = u
        BY <2>1 DEF Position
    <2>2. \A u \in Threads \ {t} : Holding(u)' = Holding(u) /\ Sid(u)' = Sid(u)
        BY <1>1 DEF Holding, Sid
    <2>3. Holding(t)' => lock' = t
        BY <1>1 DEF Holding
    <2>4. Sid(t)' = r.sid
        BY <1>1 DEF Sid
    <2> QED
        BY <1>1, <2>1, <2>2, <2>3, <2>4 DEF Position
<1>6. Current'
    BY <1>1 DEF Current, Sid
<1> QED
    BY <1>2, <1>3, <1>4, <1>5, <1>6

\* The request is answered; nothing of a session changes.
LEMMA AnswerInv ==
    ASSUME MInv, NEW t \in Threads, Answer(t),
           UNCHANGED <<now, used, made, entryVars>>, store' \subseteq store
    PROVE  MInv'
<1>1. NoRequest \in Served /\ "idle" \in States /\ NoRequest.mine = <<>>
    BY SessionsAssumption DEF NoRequest, Served, Ops, States
<1>2. /\ pc' = [pc EXCEPT ![t] = "idle"] /\ req' = [req EXCEPT ![t] = NoRequest]
      /\ lock' = IF lock = t THEN None ELSE lock
    BY DEF Answer, Goto
<1>3. lock' # t /\ (lock' = lock \/ (lock = t /\ lock' = None))
    BY <1>2, SessionsAssumption
<1>4. "idle" \notin Inside
    BY DEF Inside
<1> QED
    BY <1>1, <1>2, <1>3, <1>4, MoveInv

LEMMA TickInv == MInv /\ Tick => MInv'
<1> SUFFICES ASSUME MInv, Tick PROVE MInv'
    OBVIOUS
<1> USE SessionsAssumption DEF MInv, Tick, tableVars, entryVars
<1>1. Table'
    BY DEF Table
<1>2. Texts' /\ Flow'
    BY DEF Texts, Flow
<1>3. Position'
    BY DEF Position, Holding, Sid
<1>4. Current'
    <2>1. now \in Nat /\ now' = now + 1
        BY DEF Table
    <2>2. \A t \in Threads : req[t].cutoff \in Int
        BY DEF Flow, Served
    <2> QED
        BY <2>1, <2>2 DEF Current, Sid
<1> QED
    BY <1>1, <1>2, <1>3, <1>4

LEMMA BeginInv == ASSUME MInv, NEW t \in Threads, Begin(t) PROVE MInv'
<1>1. PICK op \in Ops, s \in made \cup {None} :
          /\ (s = None) <=> (op = "create")
          /\ req' = [req EXCEPT ![t].op = op, ![t].sid = s]
          /\ Goto(t, CASE op = "create" -> "lock" [] op = "delete" -> "delete" [] OTHER -> "evict")
    BY DEF Begin
<1> DEFINE r == [[req[t] EXCEPT !.op = op] EXCEPT !.sid = s]
<1>2. req[t] \in Served /\ s \in Sids \cup {None} /\ pc[t] = "idle"
    BY DEF MInv, Flow, Table, Begin
<1>3. r \in Served /\ r.op = op /\ r.sid = s /\ r.mine = <<>>
    <2>1. req[t].mine = <<>>
        BY <1>2 DEF MInv, Position
    <2> QED
        BY <1>2, <2>1 DEF Served
<1>4. req' = [req EXCEPT ![t] = r]
    BY <1>1, <1>2 DEF MInv, Flow
<1> HIDE DEF r
<1>5. PICK where \in {"lock", "delete", "evict"} :
          /\ pc' = [pc EXCEPT ![t] = where]
          /\ where = "evict" => op # "create"
          /\ where = "delete" => op # "create"
    BY <1>1 DEF Goto
<1>6. op # "create" => s \in made
    BY <1>1
<1>7. UNCHANGED <<now, used, made, entryVars, store, lock>>
    BY DEF Begin, tableVars
<1> QED
    BY <1>3, <1>4, <1>5, <1>6, <1>7, MoveInv DEF States, Inside

LEMMA EvictInv == ASSUME MInv, NEW t \in Threads, Evict(t) PROVE MInv'
<1> USE SessionsAssumption
<1> DEFINE c == now - TTL
           r == [req[t] EXCEPT !.cutoff = c]
           where == IF req[t].op = "create" THEN "insert" ELSE "lookup"
<1>1. req[t] \in Served /\ pc[t] = "evict" /\ c \in Int /\ c <= now
    BY DEF MInv, Flow, Table, Evict
<1>2. r \in Served /\ r.op = req[t].op /\ r.sid = req[t].sid /\ r.cutoff = c /\ r.mine = <<>>
    <2>1. req[t].mine = <<>>
        BY <1>1 DEF MInv, Position
    <2> QED
        BY <1>1, <2>1 DEF Served
<1>3. req' = [req EXCEPT ![t] = r] /\ pc' = [pc EXCEPT ![t] = where]
    BY DEF Evict, Goto
<1>4. /\ store' \subseteq store /\ \A s \in store' : used[s] >= c
      /\ UNCHANGED <<now, used, made, entryVars, lock>>
    BY DEF Evict
<1>5. where = "insert" => lock = t
    BY <1>1 DEF MInv, Position, Holding
<1>6. where = "lookup" => r.sid \in made
    BY <1>1, <1>2 DEF MInv, Position, Sid
<1>7. where \in {"insert", "lookup"}
    OBVIOUS
<1> HIDE DEF c, r, where
<1> QED
    BY <1>1, <1>2, <1>3, <1>4, <1>5, <1>6, <1>7, MoveInv DEF States, Inside

\* A position that keeps the thread's request as it is.
LEMMA SameRequest ==
    ASSUME MInv, NEW t \in Threads, UNCHANGED req
    PROVE  req' = [req EXCEPT ![t] = req[t]] /\ req[t] \in Served
BY DEF MInv, Flow

LEMMA LookupInv == ASSUME MInv, NEW t \in Threads, Lookup(t) PROVE MInv'
<1>1. pc[t] = "lookup" /\ UNCHANGED <<now, used, made, store, entryVars>>
    BY DEF Lookup, tableVars
<1>2. CASE Sid(t) \in store /\ Goto(t, "stamp") /\ UNCHANGED <<lock, req>>
    <2>1. req' = [req EXCEPT ![t] = req[t]] /\ req[t] \in Served
        BY <1>2, SameRequest
    <2>2. pc' = [pc EXCEPT ![t] = "stamp"] /\ lock' = lock
        BY <1>2 DEF Goto
    <2>3. /\ req[t].sid \in made /\ req[t].mine = <<>> /\ req[t].cutoff <= now
          /\ used[req[t].sid] >= req[t].cutoff
        BY <1>1, <1>2 DEF MInv, Position, Current, Sid
    <2> QED
        BY <1>1, <2>1, <2>2, <2>3, MoveInv DEF States, Inside
<1>3. CASE Answer(t)
    BY <1>1, <1>3, AnswerInv
<1> QED
    BY <1>2, <1>3 DEF Lookup

LEMMA LockInv == ASSUME MInv, NEW t \in Threads, Lock(t) PROVE MInv'
<1>1. pc[t] = "lock" /\ UNCHANGED <<now, used, made, store, entryVars>>
    BY DEF Lock, tableVars
<1>2. CASE /\ lock = None /\ lock' = t /\ UNCHANGED req
           /\ Goto(t, IF req[t].op = "create" THEN "evict" ELSE "apply")
    <2>1. req' = [req EXCEPT ![t] = req[t]] /\ req[t] \in Served
        BY <1>2, SameRequest
    <2>2. /\ req[t].mine = <<>>
          /\ req[t].op # "create" => req[t].sid \in made
        BY <1>1 DEF MInv, Position, Sid
    <2>3. PICK where \in {"evict", "apply"} :
              pc' = [pc EXCEPT ![t] = where] /\ (req[t].op # "create" <=> where = "apply")
        BY <1>2 DEF Goto
    <2>4. lock' = t /\ lock = None
        BY <1>2
    <2> QED
        BY <1>1, <2>1, <2>2, <2>3, <2>4, MoveInv DEF States, Inside
<1>3. CASE Answer(t)
    BY <1>1, <1>3, AnswerInv
<1> QED
    BY <1>2, <1>3 DEF Lock

LEMMA ReadInv == ASSUME MInv, NEW t \in Threads, Read(t) PROVE MInv'
<1> DEFINE r == [req[t] EXCEPT !.mine = ids[Sid(t)]]
<1>1. /\ pc[t] = "apply" /\ req[t] \in Served /\ Sid(t) \in made /\ lock = t
      /\ ids[Sid(t)] \in Seq(Tokens)
    BY DEF MInv, Flow, Position, Holding, Inside, Table, Texts, Read
<1>2. r \in Served /\ r.sid = Sid(t) /\ r.mine = ids[Sid(t)]
    BY <1>1 DEF Sid, Served
<1>3. req' = [req EXCEPT ![t] = r] /\ pc' = [pc EXCEPT ![t] = "snapshot"]
    BY DEF Read, Goto
<1>4. UNCHANGED <<now, used, made, store, entryVars, lock>>
    BY DEF Read, tableVars
<1> HIDE DEF r
<1> QED
    BY <1>1, <1>2, <1>3, <1>4, MoveInv DEF States, Inside

\* Steps that answer and leave the sessions alone.
LEMMA AnsweredInv ==
    ASSUME MInv, NEW t \in Threads,
           Delete(t) \/ InsertFails(t) \/ Refuse(t) \/ Snapshot(t)
    PROVE  MInv'
<1>1. Answer(t) /\ UNCHANGED <<now, used, made, entryVars>> /\ store' \subseteq store
    BY DEF Delete, InsertFails, Refuse, Snapshot, tableVars
<1> QED
    BY <1>1, AnswerInv

\* The session is used now, whether or not the registry still has it.
LEMMA StampInv == ASSUME MInv, NEW t \in Threads, Stamp(t) PROVE MInv'
<1> USE SessionsAssumption DEF MInv
<1> DEFINE r == [req[t] EXCEPT !.cutoff = 0]
<1>1. /\ pc[t] = "stamp" /\ req[t] \in Served /\ Sid(t) \in made /\ req[t].mine = <<>>
      /\ UNCHANGED <<now, store, made, entryVars, lock>>
    BY DEF Flow, Position, Stamp
<1>2. r \in Served /\ r.op = req[t].op /\ r.sid = Sid(t) /\ r.mine = <<>>
    BY <1>1 DEF Served, Sid
<1>3. req' = [req EXCEPT ![t] = r] /\ pc' = [pc EXCEPT ![t] = "lock"]
    BY DEF Stamp, Goto
<1> HIDE DEF r
<1>4. /\ req'[t] = r /\ pc'[t] = "lock"
      /\ \A u \in Threads \ {t} : req'[u] = req[u] /\ pc'[u] = pc[u]
    BY <1>3 DEF Flow
<1>5. used' = [used EXCEPT ![Sid(t)] = now]
    BY DEF Stamp
<1>6. Table'
    BY <1>1, <1>5 DEF Table
<1>7. Texts' /\ Flow'
    BY <1>1, <1>2, <1>3 DEF Texts, Flow, States, entryVars
<1>8. Position'
    <2>1. \A u \in Threads \ {t} : Holding(u)' = Holding(u) /\ Sid(u)' = Sid(u)
        BY <1>4 DEF Holding, Sid
    <2>2. ~Holding(t)' /\ Sid(t)' = Sid(t)
        BY <1>2, <1>4 DEF Holding, Inside, Sid
    <2> QED
        BY <1>1, <1>2, <1>4, <2>1, <2>2 DEF Position, entryVars
<1>9. Current'
    <2>1. \A u \in Threads \ {t} : Sid(u)' = Sid(u)
        BY <1>4 DEF Sid
    <2>2. \A s \in Sids : used'[s] \in Int /\ used[s] \in Int /\ used'[s] >= used[s]
        BY <1>5 DEF Table
    <2>3. \A u \in Threads : req[u].cutoff \in Int
        BY DEF Flow, Served
    <2>4. \A u \in Threads : pc[u] = "stamp" => Sid(u) \in Sids
        BY DEF Position, Table
    <2> QED
        BY <1>1, <1>4, <2>1, <2>2, <2>3, <2>4 DEF Current, Table
<1> QED
    BY <1>6, <1>7, <1>8, <1>9

\* A new session, in the place of the oldest one if the registry is full.
LEMMA InsertInv == ASSUME MInv, NEW t \in Threads, Insert(t) PROVE MInv'
<1> USE SessionsAssumption DEF MInv
<1>1. PICK s \in Sids \ made :
          /\ \/ Cardinality(store) < MaxSessions /\ store' = store \cup {s}
             \/ \E oldest \in store : store' = (store \ {oldest}) \cup {s}
          /\ made' = made \cup {s}
          /\ used' = [used EXCEPT ![s] = now]
          /\ req' = [req EXCEPT ![t].sid = s, ![t].cutoff = 0]
    BY DEF Insert
<1> DEFINE r == [[req[t] EXCEPT !.sid = s] EXCEPT !.cutoff = 0]
<1>2. /\ pc[t] = "insert" /\ req[t] \in Served /\ req[t].mine = <<>> /\ lock = t
      /\ ids[s] = <<>> /\ UNCHANGED <<now, entryVars, lock>>
    BY DEF Flow, Position, Holding, Inside, Texts, Insert
<1>3. r \in Served /\ r.sid = s /\ r.mine = <<>>
    <2> DEFINE q == [req[t] EXCEPT !.sid = s]
    <2>1. q \in Served /\ q.sid = s /\ q.mine = <<>>
        BY <1>2 DEF Served
    <2> HIDE DEF q
    <2>2. [q EXCEPT !.cutoff = 0] \in Served /\ [q EXCEPT !.cutoff = 0].sid = s
          /\ [q EXCEPT !.cutoff = 0].mine = <<>>
        BY <2>1 DEF Served
    <2> QED
        BY <2>2 DEF q
<1>4. req' = [req EXCEPT ![t] = r] /\ pc' = [pc EXCEPT ![t] = "snapshot"]
    BY <1>1 DEF Insert, Goto, Flow
<1> HIDE DEF r
<1>5. /\ req'[t] = r /\ pc'[t] = "snapshot"
      /\ \A u \in Threads \ {t} : req'[u] = req[u] /\ pc'[u] = pc[u]
    BY <1>4 DEF Flow
<1>6. IsFiniteSet(store') /\ Cardinality(store') <= MaxSessions
    <2>1. IsFiniteSet(store) /\ Cardinality(store) \in Nat /\ Cardinality(store) <= MaxSessions
        BY FS_CardinalityType DEF Table
    <2>2. s \notin store
        BY DEF Table
    <2>3. CASE Cardinality(store) < MaxSessions /\ store' = store \cup {s}
        <3>1. IsFiniteSet(store') /\ Cardinality(store') = Cardinality(store) + 1
            BY <2>1, <2>2, <2>3, FS_AddElement
        <3> QED
            BY <2>1, <2>3, <3>1
    <2>4. CASE \E oldest \in store : store' = (store \ {oldest}) \cup {s}
        <3>1. PICK oldest \in store : store' = (store \ {oldest}) \cup {s}
            BY <2>4
        <3>2. IsFiniteSet(store \ {oldest}) /\ Cardinality(store \ {oldest}) = Cardinality(store) - 1
            BY <2>1, FS_RemoveElement
        <3>3. IsFiniteSet(store') /\ Cardinality(store') = Cardinality(store \ {oldest}) + 1
            BY <2>2, <3>1, <3>2, FS_AddElement
        <3> QED
            BY <2>1, <3>2, <3>3
    <2> QED
        BY <1>1, <2>3, <2>4
<1>7. Table'
    BY <1>1, <1>2, <1>6 DEF Table
<1>8. Texts' /\ Flow'
    <2>1. Texts'
        BY <1>1, <1>2 DEF Texts, entryVars
    <2>2. Flow'
        BY <1>2, <1>3, <1>4 DEF Flow, States, Inside
    <2> QED
        BY <2>1, <2>2
<1>9. Position'
    <2>1. \A u \in Threads \ {t} : Holding(u)' = Holding(u) /\ Sid(u)' = Sid(u)
        BY <1>5 DEF Holding, Sid
    <2>2. Sid(t)' = s
        BY <1>3, <1>5 DEF Sid
    <2>3. made \subseteq made' /\ s \in made' /\ ids' = ids /\ lock' = lock
        BY <1>1, <1>2 DEF entryVars
    <2>4. /\ Holding(t)' => lock' = t
          /\ Sid(t)' \in made' /\ ids'[Sid(t)'] = req'[t].mine /\ pc'[t] = "snapshot"
        BY <1>2, <1>3, <1>5, <2>2, <2>3
    <2>5. ASSUME NEW u \in Threads \ {t}
          PROVE  /\ Holding(u)' => lock' = u
                 /\ pc'[u] \in {"delete", "lookup", "stamp", "apply", "snapshot"} => Sid(u)' \in made'
                 /\ pc'[u] \in {"evict", "lock"} /\ req'[u].op # "create" => Sid(u)' \in made'
                 /\ pc'[u] # "snapshot" => req'[u].mine = <<>>
                 /\ pc'[u] = "snapshot" => ids'[Sid(u)'] = req'[u].mine
        BY <1>5, <2>1, <2>3 DEF Position
    <2> QED
        BY <2>4, <2>5 DEF Position
<1>10. Current'
    <2>1. \A u \in Threads \ {t} : Sid(u)' = Sid(u)
        BY <1>5 DEF Sid
    <2>2. \A k \in Sids : used'[k] \in Int /\ used[k] \in Int /\ used'[k] >= used[k]
        BY <1>1 DEF Table
    <2>3. \A u \in Threads : req[u].cutoff \in Int
        BY DEF Flow, Served
    <2>4. \A u \in Threads : pc[u] = "stamp" => Sid(u) \in Sids
        BY DEF Position, Table
    <2>5. used'[s] = now /\ now \in Int /\ store' \subseteq store \cup {s} /\ store \subseteq Sids
        BY <1>1 DEF Table
    <2> QED
        BY <1>2, <1>5, <2>1, <2>2, <2>3, <2>4, <2>5 DEF Current
<1> QED
    BY <1>7, <1>8, <1>9, <1>10

\* The holder of the lock changes its session.
LEMMA BecomeInv ==
    ASSUME MInv, NEW t \in Threads, pc[t] = "apply",
           NEW i \in Seq(Tokens), NEW p \in Seq(Probs), Become(t, i, p), Len(p) <= Len(i),
           torn' \in {torn, torn \cup {Sid(t)}, torn \ {Sid(t)}},
           Sid(t) \notin torn' => Paired(i, p),
           UNCHANGED <<now, tableVars>>,
           (Goto(t, "snapshot") /\ Mine(t) /\ UNCHANGED lock) \/ Answer(t)
    PROVE  MInv'
<1> USE SessionsAssumption DEF MInv, tableVars
<1>1. Sid(t) \in made /\ Sid(t) \in Sids /\ lock = t /\ req[t] \in Served
    BY DEF Flow, Position, Holding, Inside, Table
<1>2. /\ Len(i) <= MaxIds /\ ids'[Sid(t)] = i /\ probs'[Sid(t)] = p
      /\ \A s \in Sids \ {Sid(t)} : ids'[s] = ids[s] /\ probs'[s] = probs[s]
      /\ ids' \in [Sids -> Seq(Tokens)] /\ probs' \in [Sids -> Seq(Probs)]
    BY <1>1 DEF Become, Texts
<1>3. Table'
    BY DEF Table
<1>4. Texts'
    BY <1>1, <1>2 DEF Texts
<1>5. PICK r \in Served, where \in {"snapshot", "idle"} :
          /\ req' = [req EXCEPT ![t] = r] /\ pc' = [pc EXCEPT ![t] = where]
          /\ where = "snapshot" => r.sid = Sid(t) /\ r.mine = i /\ lock' = t
          /\ where = "idle" => r.mine = <<>> /\ lock' = None
    <2>1. CASE Goto(t, "snapshot") /\ Mine(t) /\ UNCHANGED lock
        <3> DEFINE r == [req[t] EXCEPT !.mine = i]
        <3>1. r \in Served /\ r.sid = Sid(t) /\ r.mine = i
            BY <1>1 DEF Served, Sid
        <3>2. req' = [req EXCEPT ![t] = r] /\ pc' = [pc EXCEPT ![t] = "snapshot"] /\ lock' = t
            BY <1>1, <1>2, <2>1 DEF Mine, Goto
        <3> HIDE DEF r
        <3> QED
            BY <3>1, <3>2
    <2>2. CASE Answer(t)
        <3>1. NoRequest \in Served /\ NoRequest.mine = <<>>
            BY DEF NoRequest, Served, Ops
        <3>2. req' = [req EXCEPT ![t] = NoRequest] /\ pc' = [pc EXCEPT ![t] = "idle"] /\ lock' = None
            BY <1>1, <2>2 DEF Answer, Goto
        <3> QED
            BY <3>1, <3>2
    <2> QED
        BY <2>1, <2>2
<1>6. /\ req'[t] = r /\ pc'[t] = where
      /\ \A u \in Threads \ {t} : req'[u] = req[u] /\ pc'[u] = pc[u]
    BY <1>5 DEF Flow
<1>7. Flow'
    BY <1>5 DEF Flow, States, Inside
<1>8. Position'
    <2>1. \A u \in Threads \ {t} : ~Holding(u)
        BY <1>1 DEF Position
    <2>2. \A u \in Threads \ {t} : ~Holding(u)' /\ Sid(u)' = Sid(u) /\ pc[u] # "snapshot"
        BY <1>6, <2>1 DEF Holding, Sid, Inside
    <2>3. Sid(t)' = r.sid
        BY <1>6 DEF Sid
    <2>4. Holding(t)' => where = "snapshot"
        BY <1>6 DEF Holding, Inside
    <2> QED
        BY <1>1, <1>2, <1>5, <1>6, <2>2, <2>3, <2>4 DEF Position
<1>9. Current'
    <2>1. \A u \in Threads \ {t} : Sid(u)' = Sid(u)
        BY <1>6 DEF Sid
    <2> QED
        BY <1>5, <1>6, <2>1 DEF Current
<1> QED
    BY <1>3, <1>4, <1>7, <1>8, <1>9

LEMMA ApplyInv == ASSUME MInv, NEW t \in Threads, Apply(t) PROVE MInv'
<1> USE DEF MInv
<1> DEFINE i == ids[Sid(t)]
           p == probs[Sid(t)]
<1>1. CASE Read(t) \/ Refuse(t)
    BY <1>1, ReadInv, AnsweredInv
<1>2. ASSUME ~(Read(t) \/ Refuse(t)) PROVE MInv'
    <2>1. Pick(t) \/ ForceTokens(t) \/ ForceBreaksOff(t) \/ Undo(t) \/ Load(t)
        BY <1>2 DEF Apply, Pick, ForceTokens, ForceBreaksOff, Undo, Load
    <2>2. pc[t] = "apply"
        BY <2>1 DEF Pick, ForceTokens, ForceBreaksOff, Undo, Load
    <2>3. Sid(t) \in Sids
        BY <2>2 DEF Position, Table
    <2>4. /\ i \in Seq(Tokens) /\ p \in Seq(Probs)
          /\ Len(i) \in Nat /\ Len(p) \in Nat /\ Len(p) <= Len(i)
          /\ Sid(t) \notin torn => Paired(i, p)
        BY <2>3 DEF Texts
    <2> HIDE DEF i, p
    <2>5. CASE Pick(t)
        <3>1. PICK token \in Picked : Become(t, Append(i, token), Append(p, ProbOf(token)))
            BY <2>5 DEF Pick, i, p
        <3>2. /\ torn' = torn
              /\ UNCHANGED <<now, tableVars, lock>> /\ Goto(t, "snapshot") /\ Mine(t)
            BY <2>5 DEF Pick
        <3>3. /\ Append(i, token) \in Seq(Tokens) /\ Append(p, ProbOf(token)) \in Seq(Probs)
              /\ Len(Append(p, ProbOf(token))) <= Len(Append(i, token))
              /\ Paired(i, p) => Paired(Append(i, token), Append(p, ProbOf(token)))
            BY <2>4, AppendPairs
        <3> QED
            BY <2>2, <2>4, <3>1, <3>2, <3>3, BecomeInv
    <2>6. CASE ForceTokens(t)
        <3>1. PICK n \in 1 .. 2 : Become(t, i \o [k \in 1 .. n |-> "forced"], p \o None_(n))
            BY <2>6 DEF ForceTokens, i, p
        <3>0. n \in Nat
            OBVIOUS
        <3> DEFINE f == [k \in 1 .. n |-> "forced"]
        <3>2. /\ f \in Seq(Tokens) /\ Len(f) = n /\ None_(n) \in Seq(Probs) /\ Len(None_(n)) = n
              /\ Paired(f, None_(n))
            BY <3>0, ForcedPairs
        <3>3. Become(t, i \o f, p \o None_(n))
            BY <3>1
        <3> HIDE DEF f
        <3>4. /\ i \o f \in Seq(Tokens) /\ Len(i \o f) = Len(i) + n
              /\ p \o None_(n) \in Seq(Probs) /\ Len(p \o None_(n)) = Len(p) + n
              /\ Paired(i, p) => Paired(i \o f, p \o None_(n))
            BY <2>4, <3>2, ConcatPairs
        <3>5. Len(p \o None_(n)) <= Len(i \o f)
            BY <2>4, <3>4
        <3>6. torn' = torn /\ UNCHANGED <<now, tableVars, lock>> /\ Goto(t, "snapshot") /\ Mine(t)
            BY <2>6 DEF ForceTokens
        <3> QED
            BY <2>2, <2>4, <3>3, <3>4, <3>5, <3>6, BecomeInv
    <2>7. CASE ForceBreaksOff(t)
        <3>1. PICK n \in 1 .. 2 : Become(t, i \o [k \in 1 .. n |-> "forced"], p)
            BY <2>7 DEF ForceBreaksOff, i, p
        <3>0. n \in Nat
            OBVIOUS
        <3> DEFINE f == [k \in 1 .. n |-> "forced"]
        <3>2. f \in Seq(Tokens) /\ Len(f) = n /\ Paired(f, None_(n)) /\ None_(n) \in Seq(Probs)
            BY <3>0, ForcedPairs
        <3>3. Become(t, i \o f, p)
            BY <3>1
        <3> HIDE DEF f
        <3>4. i \o f \in Seq(Tokens) /\ Len(i \o f) = Len(i) + n
            BY <2>4, <3>2, ConcatPairs
        <3>5. Len(p) <= Len(i \o f)
            BY <2>4, <3>4
        <3>6. /\ torn' = torn \cup {Sid(t)} /\ UNCHANGED <<now, tableVars>> /\ Answer(t)
              /\ Sid(t) \in torn'
            BY <2>7 DEF ForceBreaksOff
        <3> QED
            BY <2>2, <2>4, <3>3, <3>4, <3>5, <3>6, BecomeInv
    <2>8. CASE Undo(t)
        <3> DEFINE j == IF i = <<>> THEN i ELSE Front(i)
                   q == IF i = <<>> \/ p = <<>> THEN p ELSE Front(p)
        <3>1. /\ Become(t, j, q) /\ torn' = torn
              /\ UNCHANGED <<now, tableVars, lock>> /\ Goto(t, "snapshot") /\ Mine(t)
            BY <2>8 DEF Undo, i, p
        <3>2. /\ j \in Seq(Tokens) /\ q \in Seq(Probs) /\ Len(q) <= Len(j)
              /\ Paired(i, p) => Paired(j, q)
            BY <2>4, UndoPairs
        <3> HIDE DEF j, q
        <3> QED
            BY <2>2, <2>4, <3>1, <3>2, BecomeInv
    <2>9. CASE Load(t)
        <3>1. PICK n \in 0 .. MaxIds : Become(t, [k \in 1 .. n |-> "forced"], None_(n))
            BY <2>9 DEF Load
        <3>2. n \in Nat
            BY SessionsAssumption
        <3> DEFINE f == [k \in 1 .. n |-> "forced"]
        <3>3. /\ f \in Seq(Tokens) /\ Len(f) = n /\ None_(n) \in Seq(Probs) /\ Len(None_(n)) = n
              /\ Paired(f, None_(n)) /\ Become(t, f, None_(n))
            BY <3>1, <3>2, ForcedPairs
        <3> HIDE DEF f
        <3>4. Len(None_(n)) <= Len(f)
            BY <3>2, <3>3
        <3>5. /\ torn' = torn \ {Sid(t)} /\ UNCHANGED <<now, tableVars, lock>>
              /\ Goto(t, "snapshot") /\ Mine(t)
            BY <2>9 DEF Load
        <3> QED
            BY <2>2, <3>3, <3>4, <3>5, BecomeInv
    <2> QED
        BY <2>1, <2>5, <2>6, <2>7, <2>8, <2>9
<1> QED
    BY <1>1, <1>2

LEMMA MInvNext == MInv /\ [Next]_vars => MInv'
<1> SUFFICES ASSUME MInv, [Next]_vars PROVE MInv'
    OBVIOUS
<1>1. CASE UNCHANGED vars
    BY <1>1 DEF MInv, Table, Texts, Flow, Position, Current, Holding, Sid, vars
<1>2. CASE Tick
    BY <1>2, TickInv
<1>3. ASSUME NEW t \in Threads,
             \/ Begin(t) \/ Delete(t) \/ Evict(t) \/ Lookup(t) \/ Stamp(t) \/ Lock(t)
             \/ Insert(t) \/ InsertFails(t) \/ Apply(t) \/ Snapshot(t)
      PROVE  MInv'
    BY <1>3, BeginInv, AnsweredInv, EvictInv, LookupInv, StampInv, LockInv, InsertInv, ApplyInv
<1> QED
    BY <1>1, <1>2, <1>3 DEF Next

-----------------------------------------------------------------------------
(***************************************************************************)
(* The theorems.                                                           *)
(***************************************************************************)
\* Of sessions.py, manual.py and the routes together.
THEOREM SessionsInvariant == Spec => []MInv
<1> QED
    BY MInvInit, MInvNext, PTL DEF Spec

\* The registry never outgrows its cap (create 162-174), and what it keeps has
\* its type.
THEOREM TypeCorrect == Spec => []TypeOK
<1> QED
    BY SessionsInvariant, MInvImplies, PTL

\* Each token of a session keeps its own probability through any sequence of
\* changes of any length, as long as no force broke off (_Entry).
THEOREM TokensKeepTheirProbability == Spec => []Lockstep
<1> QED
    BY SessionsInvariant, MInvImplies, PTL

\* No request shows another one's change in its snapshot (_snapshot).
THEOREM SnapshotsAreOwn == Spec => []SnapshotIsOwn
<1> QED
    BY SessionsInvariant, MInvImplies, PTL

\* What a lookup hands out was used within the TTL before it began (get).
THEOREM NothingExpired == Spec => []NoExpiredSession
<1> QED
    BY SessionsInvariant, MInvImplies, PTL

-----------------------------------------------------------------------------
(***************************************************************************)
(* Sets of elements of sequences without repetitions.                      *)
(***************************************************************************)
LEMMA NothingInEmpty == ToSet(<<>>) = {} /\ IsInjective(<<>>)
BY DEF ToSet, IsInjective

\* Appending an element that is not there adds it.
LEMMA AppendAdds ==
    ASSUME NEW S, NEW s \in Seq(S), NEW x \in S
    PROVE  /\ Append(s, x) \in Seq(S) /\ Len(Append(s, x)) = Len(s) + 1
           /\ ToSet(Append(s, x)) = ToSet(s) \cup {x}
           /\ IsInjective(s) /\ x \notin ToSet(s) => IsInjective(Append(s, x))
<1> DEFINE a == Append(s, x)
<1>1. /\ a \in Seq(S) /\ Len(a) = Len(s) + 1 /\ Len(s) \in Nat
      /\ DOMAIN a = 1 .. Len(s) + 1 /\ DOMAIN s = 1 .. Len(s)
      /\ \A i \in 1 .. Len(s) : a[i] = s[i]
      /\ a[Len(s) + 1] = x
    OBVIOUS
<1> HIDE DEF a
<1>2. ToSet(a) = ToSet(s) \cup {x}
    BY <1>1 DEF ToSet
<1>3. IsInjective(s) /\ x \notin ToSet(s) => IsInjective(a)
    BY <1>1 DEF ToSet, IsInjective
<1> QED
    BY <1>1, <1>2, <1>3 DEF a

\* Two sequences with nothing in common, one after the other.
LEMMA ConcatAdds ==
    ASSUME NEW S, NEW s \in Seq(S), NEW t \in Seq(S)
    PROVE  /\ s \o t \in Seq(S) /\ Len(s \o t) = Len(s) + Len(t)
           /\ ToSet(s \o t) = ToSet(s) \cup ToSet(t)
           /\ IsInjective(s) /\ IsInjective(t) /\ ToSet(s) \cap ToSet(t) = {}
                  => IsInjective(s \o t)
<1> DEFINE c == s \o t
<1>1. /\ c \in Seq(S) /\ Len(c) = Len(s) + Len(t) /\ Len(s) \in Nat /\ Len(t) \in Nat
      /\ DOMAIN c = 1 .. Len(s) + Len(t) /\ DOMAIN s = 1 .. Len(s) /\ DOMAIN t = 1 .. Len(t)
      /\ \A i \in 1 .. Len(s) : c[i] = s[i]
      /\ \A i \in Len(s) + 1 .. Len(s) + Len(t) : c[i] = t[i - Len(s)]
    BY ConcatProperties
<1> HIDE DEF c
<1>2. \A i \in 1 .. Len(t) : c[i + Len(s)] = t[i] /\ i + Len(s) \in DOMAIN c
    BY <1>1
<1>3. ToSet(c) = ToSet(s) \cup ToSet(t)
    <2>1. ASSUME NEW i \in DOMAIN c PROVE c[i] \in ToSet(s) \cup ToSet(t)
        <3>1. CASE i <= Len(s)
            BY <1>1, <3>1 DEF ToSet
        <3>2. CASE i > Len(s)
            <4>1. i - Len(s) \in DOMAIN t /\ c[i] = t[i - Len(s)]
                BY <1>1, <3>2
            <4> QED
                BY <4>1 DEF ToSet
        <3> QED
            BY <1>1, <3>1, <3>2
    <2>2. ASSUME NEW i \in DOMAIN s PROVE s[i] \in ToSet(c)
        <3>1. i \in DOMAIN c /\ c[i] = s[i]
            BY <1>1
        <3> QED
            BY <3>1 DEF ToSet
    <2>3. ASSUME NEW i \in DOMAIN t PROVE t[i] \in ToSet(c)
        BY <1>1, <1>2 DEF ToSet
    <2> QED
        BY <2>1, <2>2, <2>3 DEF ToSet
<1>4. ASSUME IsInjective(s), IsInjective(t), ToSet(s) \cap ToSet(t) = {} PROVE IsInjective(c)
    <2> SUFFICES ASSUME NEW i \in DOMAIN c, NEW j \in DOMAIN c, c[i] = c[j], i < j PROVE FALSE
        BY <1>1 DEF IsInjective
    <2>1. CASE j <= Len(s)
        BY <1>1, <1>4, <2>1 DEF IsInjective
    <2>2. CASE i <= Len(s) /\ j > Len(s)
        <3>1. i \in DOMAIN s /\ c[i] = s[i] /\ j - Len(s) \in DOMAIN t /\ c[j] = t[j - Len(s)]
            BY <1>1, <2>2
        <3> QED
            BY <1>4, <3>1 DEF ToSet
    <2>3. CASE i > Len(s)
        <3>1. /\ i - Len(s) \in DOMAIN t /\ c[i] = t[i - Len(s)]
              /\ j - Len(s) \in DOMAIN t /\ c[j] = t[j - Len(s)]
            BY <1>1, <2>3
        <3>2. i - Len(s) = j - Len(s)
            BY <1>4, <3>1 DEF IsInjective
        <3> QED
            BY <1>1, <3>2
    <2> QED
        BY <1>1, <2>1, <2>2, <2>3
<1> QED
    BY <1>1, <1>3, <1>4 DEF c

\* What is left of a sequence after its first n elements.
LEMMA TailOf ==
    ASSUME NEW S, NEW s \in Seq(S), NEW n \in 0 .. Len(s)
    PROVE  LET b == SubSeq(s, n + 1, Len(s))
           IN  /\ b \in Seq(S) /\ Len(b) = Len(s) - n /\ DOMAIN b = 1 .. Len(s) - n
               /\ \A i \in 1 .. Len(s) - n : b[i] = s[n + i]
<1> DEFINE b == SubSeq(s, n + 1, Len(s))
<1>0. Len(s) \in Nat /\ DOMAIN s = 1 .. Len(s) /\ n \in Nat /\ n <= Len(s)
    OBVIOUS
<1>1. \A i \in n + 1 .. Len(s) : s[i] \in S
    BY <1>0
<1>2. /\ b \in Seq(S)
      /\ Len(b) = IF n + 1 <= Len(s) THEN Len(s) - (n + 1) + 1 ELSE 0
      /\ \A i \in 1 .. Len(s) - (n + 1) + 1 : b[i] = s[(n + 1) + i - 1]
    BY <1>0, <1>1, SubSeqProperties
<1> HIDE DEF b
<1>3. Len(b) = Len(s) - n
    <2>1. CASE n = Len(s)
        <3>1. ~(n + 1 <= Len(s)) /\ Len(s) - n = 0
            BY <1>0, <2>1
        <3> QED
            BY <1>2, <3>1
    <2>2. CASE n # Len(s)
        <3>1. \A l, k \in Nat : k <= l /\ k # l => k + 1 <= l /\ l - (k + 1) + 1 = l - k
            OBVIOUS
        <3>2. n + 1 <= Len(s) /\ Len(s) - (n + 1) + 1 = Len(s) - n
            BY <1>0, <2>2, <3>1
        <3> QED
            BY <1>2, <3>2
    <2> QED
        BY <2>1, <2>2
<1>4. ASSUME NEW i \in 1 .. Len(s) - n PROVE b[i] = s[n + i]
    <2>1. i \in 1 .. Len(s) - (n + 1) + 1 /\ (n + 1) + i - 1 = n + i
        BY <1>0
    <2> QED
        BY <1>2, <2>1
<1> QED
    BY <1>2, <1>3, <1>4

\* A sequence without repetitions, cut in two.
LEMMA CutSplits ==
    ASSUME NEW S, NEW s \in Seq(S), NEW n \in 0 .. Len(s), IsInjective(s)
    PROVE  LET a == SubSeq(s, 1, n)
               b == SubSeq(s, n + 1, Len(s))
           IN  /\ a \in Seq(S) /\ Len(a) = n /\ IsInjective(a)
               /\ b \in Seq(S) /\ Len(b) = Len(s) - n /\ IsInjective(b)
               /\ ToSet(a) \cup ToSet(b) = ToSet(s)
               /\ ToSet(a) \cap ToSet(b) = {}
<1> DEFINE a == SubSeq(s, 1, n)
           b == SubSeq(s, n + 1, Len(s))
<1>1. Len(s) \in Nat /\ DOMAIN s = 1 .. Len(s) /\ n \in Nat /\ n <= Len(s)
    OBVIOUS
<1>2. /\ a \in Seq(S) /\ Len(a) = n /\ DOMAIN a = 1 .. n
      /\ \A i \in 1 .. n : a[i] = s[i]
    BY <1>1, SubSeqProperties
<1>3. /\ b \in Seq(S) /\ Len(b) = Len(s) - n /\ DOMAIN b = 1 .. Len(s) - n
      /\ \A i \in 1 .. Len(s) - n : b[i] = s[n + i]
    BY TailOf
<1> HIDE DEF a, b
<1>4. IsInjective(a)
    BY <1>1, <1>2 DEF IsInjective
<1>5. IsInjective(b)
    <2> SUFFICES ASSUME NEW i \in DOMAIN b, NEW j \in DOMAIN b, b[i] = b[j] PROVE i = j
        BY DEF IsInjective
    <2>1. n + i \in DOMAIN s /\ n + j \in DOMAIN s /\ s[n + i] = s[n + j]
        BY <1>1, <1>3
    <2>2. n + i = n + j
        BY <2>1 DEF IsInjective
    <2> QED
        BY <1>3, <2>2
<1>6. \A i \in 1 .. n : i \in DOMAIN s
    BY <1>1
<1>7. \A i \in 1 .. Len(s) - n : n + i \in DOMAIN s
    BY <1>1
<1>8. ToSet(a) \cup ToSet(b) = ToSet(s)
    <2>1. ToSet(a) \subseteq ToSet(s)
        BY <1>2, <1>6 DEF ToSet
    <2>2. ToSet(b) \subseteq ToSet(s)
        BY <1>3, <1>7 DEF ToSet
    <2>3. ASSUME NEW i \in DOMAIN s PROVE s[i] \in ToSet(a) \cup ToSet(b)
        <3>1. CASE i <= n
            BY <1>1, <1>2, <3>1 DEF ToSet
        <3>2. CASE i > n
            <4>1. i - n \in DOMAIN b /\ b[i - n] = s[i]
                BY <1>1, <1>3, <3>2
            <4> QED
                BY <4>1 DEF ToSet
        <3> QED
            BY <1>1, <3>1, <3>2
    <2> QED
        BY <2>1, <2>2, <2>3 DEF ToSet
<1>9. ToSet(a) \cap ToSet(b) = {}
    <2> SUFFICES ASSUME NEW i \in DOMAIN a, NEW j \in DOMAIN b, a[i] = b[j] PROVE FALSE
        BY DEF ToSet
    <2>1. i \in DOMAIN s /\ n + j \in DOMAIN s /\ s[i] = s[n + j]
        BY <1>2, <1>3, <1>6, <1>7
    <2>2. i = n + j
        BY <2>1 DEF IsInjective
    <2> QED
        BY <1>1, <1>2, <1>3, <2>2
<1> QED
    BY <1>2, <1>3, <1>4, <1>5, <1>8, <1>9 DEF a, b

-----------------------------------------------------------------------------
(***************************************************************************)
(* The invariant.                                                          *)
(***************************************************************************)
Types ==
    /\ call \in [Calls -> {"new", "body", "read", "ended"}]
    /\ emitted \in [Calls -> 0 .. 1]
    /\ scheduled \subseteq Calls
    /\ queue \in Seq(Calls) /\ Len(queue) <= QueueSize
    /\ service \in {"new", "on", "stopping", "off"}
    /\ flush \in {"off", "get", "write", "final", "ended"}
    /\ entries \in Seq(Calls)
    /\ db \in Seq(Calls)
    /\ gone \subseteq Calls /\ left \subseteq Calls
    /\ tornWrite \in BOOLEAN /\ dbFailed \in BOOLEAN

Q == ToSet(queue)
E == ToSet(entries)

\* A call makes its entry at its end, and an entry that was made is somewhere.
Made ==
    \A t \in Calls :
        /\ call[t] \in {"new", "body"} <=> emitted[t] = 0
        /\ emitted[t] = 1 <=> t \in scheduled \cup Q \cup E \cup Rows \cup gone

\* An entry is in one place, once; only a torn write is in two.
Apart ==
    /\ IsInjective(queue) /\ IsInjective(entries) /\ IsInjective(db)
    /\ scheduled \cap (Q \cup E \cup Rows \cup gone) = {}
    /\ Q \cap (E \cup Rows \cup gone) = {}
    /\ gone \cap (E \cup Rows) = {}
    /\ ~tornWrite => E \cap Rows = {}

\* The flush task has a batch between taking and writing it, and what it was
\* cancelled with is what its last write is about.
Batch ==
    /\ flush \in {"off", "get", "ended"} => entries = <<>>
    /\ service = "new" => flush = "off"
    /\ flush = "write" => Len(entries) <= BatchSize
    /\ Len(entries) <= BatchSize + QueueSize
    /\ tornWrite => flush \in {"final", "ended"}
    /\ flush = "final" => left = E
    /\ (flush = "ended" /\ ~dbFailed /\ ~tornWrite) => left \subseteq Rows

LInv == Types /\ Made /\ Apart /\ Batch

LEMMA LInvImplies == LInv => LogTypeOK /\ Accounted
<1> SUFFICES ASSUME LInv PROVE LogTypeOK /\ Accounted
    OBVIOUS
<1> USE LogAssumption DEF LInv
<1>1. queue \in BoundedSeq(Calls, QueueSize)
    BY ShortIsBounded DEF Types
<1>2. entries \in BoundedSeq(Calls, BatchSize + QueueSize)
    <2>1. BatchSize + QueueSize \in Nat
        OBVIOUS
    <2> QED
        BY <2>1, ShortIsBounded DEF Types, Batch
<1>3. Rows \subseteq Calls
    BY DEF Types, Rows, ToSet
<1>4. LogTypeOK
    BY <1>1, <1>2, <1>3 DEF LogTypeOK, Types
<1>5. \A t \in Calls : emitted[t] \in 0 .. 1
    BY DEF Types
<1>6. \A t \in Calls :
          /\ emitted[t] <= 1
          /\ call[t] = "ended" => emitted[t] = 1
          /\ emitted[t] = 1 => t \in scheduled \cup Q \cup E \cup Rows \cup gone
    BY <1>5 DEF Types, Made
<1>7. (scheduled \cup Q \cup E) \cap (Rows \cup gone) \subseteq (IF tornWrite THEN E ELSE {})
    BY DEF Apart
<1>8. Accounted
    BY <1>6, <1>7 DEF Accounted, Apart, Batch, Q, E
<1> QED
    BY <1>4, <1>8

LEMMA LInvInit == LogInit => LInv
<1> SUFFICES ASSUME LogInit PROVE LInv
    OBVIOUS
<1> USE LogAssumption DEF LogInit
<1>1. Q = {} /\ E = {} /\ Rows = {} /\ IsInjective(queue) /\ IsInjective(entries) /\ IsInjective(db)
    BY NothingInEmpty DEF Q, E, Rows
<1>2. Types
    <2>1. queue \in Seq(Calls) /\ Len(queue) = 0 /\ entries \in Seq(Calls) /\ db \in Seq(Calls)
        OBVIOUS
    <2>2. Len(queue) <= QueueSize
        BY <2>1
    <2>3. emitted \in [Calls -> 0 .. 1] /\ call \in [Calls -> {"new", "body", "read", "ended"}]
        OBVIOUS
    <2> QED
        BY <2>1, <2>2, <2>3 DEF Types
<1>3. Made
    BY <1>1 DEF Made
<1>4. Apart
    BY <1>1 DEF Apart
<1>5. Batch
    BY DEF Batch
<1> QED
    BY <1>2, <1>3, <1>4, <1>5 DEF LInv

-----------------------------------------------------------------------------
(***************************************************************************)
(* The steps.                                                              *)
(***************************************************************************)
\* An entry of a call that had none is on its way.
LEMMA EmitInv ==
    ASSUME LInv, NEW t \in Calls, emitted[t] = 0, Emit(t),
           NEW where \in {"read", "ended"}, call' = [call EXCEPT ![t] = where],
           UNCHANGED <<queue, service, flush, entries, db, gone, ghostVars>>
    PROVE  LInv'
<1> USE DEF LInv, ghostVars
<1>1. emitted' = [emitted EXCEPT ![t] = emitted[t] + 1] /\ scheduled' = scheduled \cup {t}
    BY DEF Emit
<1>2. /\ emitted'[t] = 1 /\ \A u \in Calls \ {t} : emitted'[u] = emitted[u]
      /\ call'[t] = where /\ \A u \in Calls \ {t} : call'[u] = call[u]
    BY <1>1 DEF Types
<1>3. Q' = Q /\ E' = E /\ Rows' = Rows
    BY DEF Q, E, Rows
<1>4. t \notin scheduled \cup Q \cup E \cup Rows \cup gone
    BY DEF Made
<1>5. Types'
    BY <1>1, <1>2 DEF Types
<1>6. Made'
    BY <1>1, <1>2, <1>3 DEF Made
<1>7. Apart'
    BY <1>1, <1>3, <1>4 DEF Apart
<1>8. Batch'
    BY <1>3 DEF Batch
<1> QED
    BY <1>5, <1>6, <1>7, <1>8

\* A call goes on without an entry, before or after it made one.
LEMMA QuietInv ==
    ASSUME LInv, NEW t \in Calls, NEW where \in {"body", "read", "ended"},
           call' = [call EXCEPT ![t] = where],
           where = "body" <=> emitted[t] = 0,
           UNCHANGED <<emitted, scheduled, queue, service, flush, entries, db, gone, ghostVars>>
    PROVE  LInv'
<1> USE DEF LInv, ghostVars
<1>1. call'[t] = where /\ \A u \in Calls \ {t} : call'[u] = call[u]
    BY DEF Types
<1>2. Q' = Q /\ E' = E /\ Rows' = Rows
    BY DEF Q, E, Rows
<1>3. Types'
    BY DEF Types
<1>4. Made'
    BY <1>1, <1>2 DEF Made
<1>5. Apart' /\ Batch'
    BY <1>2 DEF Apart, Batch
<1> QED
    BY <1>3, <1>4, <1>5

LEMMA CallInv ==
    ASSUME LInv, NEW t \in Calls, Send(t) \/ BodyEnds(t) \/ Close(t)
    PROVE  LInv'
<1>1. emitted[t] \in 0 .. 1 /\ (call[t] \in {"new", "body"} <=> emitted[t] = 0)
    BY DEF LInv, Types, Made
<1>2. CASE Send(t)
    <2>1. CASE Emit(t) /\ MoveCall(t, "ended")
        BY <1>1, <1>2, <2>1, EmitInv DEF Send, MoveCall
    <2>2. CASE UNCHANGED <<emitted, scheduled>> /\ MoveCall(t, "body")
        BY <1>1, <1>2, <2>2, QuietInv DEF Send, MoveCall
    <2> QED
        BY <1>2, <2>1, <2>2 DEF Send
<1>3. CASE BodyEnds(t)
    BY <1>1, <1>3, EmitInv DEF BodyEnds, EmitOnce, MoveCall
<1>4. CASE Close(t)
    <2>1. CASE emitted[t] = 0
        BY <1>4, <2>1, EmitInv DEF Close, EmitOnce, MoveCall
    <2>2. CASE emitted[t] = 1
        <3>1. /\ call' = [call EXCEPT ![t] = "ended"]
              /\ UNCHANGED <<emitted, scheduled, queue, service, flush, entries, db, gone, ghostVars>>
            BY <1>4, <2>2 DEF Close, EmitOnce, MoveCall
        <3>2. "ended" = "body" <=> emitted[t] = 0
            BY <2>2
        <3> QED
            BY <3>1, <3>2, QuietInv
    <2> QED
        BY <1>1, <2>1, <2>2
<1> QED
    BY <1>2, <1>3, <1>4

LEMMA EnqueueInv ==
    ASSUME LInv, NEW t \in Calls, Enqueue(t)
    PROVE  LInv'
<1> USE LogAssumption DEF LInv, ghostVars
<1>1. /\ t \in scheduled /\ scheduled' = scheduled \ {t}
      /\ UNCHANGED <<call, emitted, service, flush, entries, db, left, tornWrite, dbFailed>>
    BY DEF Enqueue
<1>2. E' = E /\ Rows' = Rows
    BY <1>1 DEF E, Rows
<1>3. t \notin Q \cup E \cup Rows \cup gone
    BY <1>1 DEF Apart
<1>4. CASE queue' = Append(queue, t) /\ Len(queue) < QueueSize /\ gone' = gone
    <2>1. queue' \in Seq(Calls) /\ Len(queue') = Len(queue) + 1 /\ Q' = Q \cup {t} /\ IsInjective(queue')
        BY <1>3, <1>4, AppendAdds DEF Types, Apart, Q
    <2>2. Len(queue) \in Nat
        BY DEF Types
    <2>3. Types'
        BY <1>1, <1>4, <2>1, <2>2 DEF Types
    <2>4. Made' /\ Apart'
        BY <1>1, <1>2, <1>3, <1>4, <2>1 DEF Made, Apart
    <2>5. Batch'
        BY <1>1, <1>2 DEF Batch
    <2> QED
        BY <2>3, <2>4, <2>5
<1>5. CASE gone' = gone \cup {t} /\ queue' = queue
    <2>1. Q' = Q
        BY <1>5 DEF Q
    <2>2. Types'
        BY <1>1, <1>5 DEF Types
    <2>3. Made' /\ Apart'
        BY <1>1, <1>2, <1>3, <1>5, <2>1 DEF Made, Apart
    <2>4. Batch'
        BY <1>1, <1>2 DEF Batch
    <2> QED
        BY <2>2, <2>3, <2>4
<1> QED
    BY <1>4, <1>5 DEF Enqueue

LEMMA TakeBatchInv == LInv /\ TakeBatch => LInv'
<1> SUFFICES ASSUME LInv, TakeBatch PROVE LInv'
    OBVIOUS
<1> USE LogAssumption DEF LInv, ghostVars
<1> DEFINE n == IF Len(queue) < BatchSize THEN Len(queue) ELSE BatchSize
<1>1. /\ flush = "get" /\ flush' = "write"
      /\ entries' = SubSeq(queue, 1, n) /\ queue' = SubSeq(queue, n + 1, Len(queue))
      /\ UNCHANGED <<call, emitted, scheduled, service, db, gone, left, tornWrite, dbFailed>>
    BY DEF TakeBatch, callVars
<1>2. queue \in Seq(Calls) /\ Len(queue) \in Nat /\ Len(queue) <= QueueSize
    BY DEF Types
<1>3. n \in 0 .. Len(queue) /\ n <= BatchSize /\ n \in Nat
    BY <1>2
<1> HIDE DEF n
<1>4. /\ entries' \in Seq(Calls) /\ Len(entries') = n /\ IsInjective(entries')
      /\ queue' \in Seq(Calls) /\ Len(queue') = Len(queue) - n /\ IsInjective(queue')
      /\ E' \cup Q' = Q /\ E' \cap Q' = {}
    BY <1>1, <1>2, <1>3, CutSplits DEF Apart, E, Q
<1>5. E = {} /\ ~tornWrite
    BY <1>1, NothingInEmpty DEF Batch, E
<1>6. Rows' = Rows
    BY <1>1 DEF Rows
<1>7. Types'
    BY <1>1, <1>2, <1>3, <1>4 DEF Types
<1>8. Made'
    BY <1>1, <1>4, <1>5, <1>6 DEF Made
<1>9. Apart'
    BY <1>1, <1>4, <1>5, <1>6 DEF Apart
<1>10. Batch'
    BY <1>1, <1>2, <1>3, <1>4, <1>5 DEF Batch
<1> QED
    BY <1>7, <1>8, <1>9, <1>10

\* The batch is over: its entries were written or dropped.
LEMMA WriteInv == LInv /\ WriteBatch => LInv'
<1> SUFFICES ASSUME LInv, WriteBatch PROVE LInv'
    OBVIOUS
<1> USE LogAssumption DEF LInv, ghostVars
<1>1. /\ flush = "write" /\ flush' = "get" /\ entries' = <<>>
      /\ UNCHANGED <<call, emitted, scheduled, queue, service, left, tornWrite, dbFailed>>
    BY DEF WriteBatch, callVars
<1>2. Q' = Q /\ E' = {} /\ IsInjective(entries') /\ ~tornWrite
    BY <1>1, NothingInEmpty DEF Q, E, Batch
<1>3. E \cap Rows = {} /\ E \subseteq Calls
    BY <1>2 DEF Apart, E, ToSet, Types
<1>4. Batch'
    BY <1>1, <1>2 DEF Batch
<1>5. CASE db' = db \o entries /\ gone' = gone
    <2>1. db' \in Seq(Calls) /\ Rows' = Rows \cup E /\ IsInjective(db')
        BY <1>3, <1>5, ConcatAdds DEF Types, Apart, Rows, E
    <2>2. Types'
        BY <1>1, <1>5, <2>1 DEF Types
    <2>3. Made' /\ Apart'
        BY <1>1, <1>2, <1>3, <1>5, <2>1 DEF Made, Apart
    <2> QED
        BY <1>4, <2>2, <2>3
<1>6. CASE gone' = gone \cup E /\ db' = db
    <2>1. Rows' = Rows
        BY <1>6 DEF Rows
    <2>2. Types'
        BY <1>1, <1>3, <1>6 DEF Types
    <2>3. Made' /\ Apart'
        BY <1>1, <1>2, <1>3, <1>6, <2>1 DEF Made, Apart
    <2> QED
        BY <1>4, <2>2, <2>3
<1> QED
    BY <1>5, <1>6 DEF WriteBatch, E

LEMMA CancelledInv == LInv /\ Cancelled => LInv'
<1> SUFFICES ASSUME LInv, Cancelled PROVE LInv'
    OBVIOUS
<1> USE LogAssumption DEF LInv, ghostVars
<1>1. PICK committed \in BOOLEAN :
          /\ committed => flush = "write"
          /\ db' = IF committed THEN db \o entries ELSE db
          /\ tornWrite' = committed
    BY DEF Cancelled
<1>2. /\ flush \in {"get", "write"} /\ flush' = "final"
      /\ left' = E \cup Q /\ entries' = entries \o queue /\ queue' = <<>>
      /\ UNCHANGED <<call, emitted, scheduled, service, gone, dbFailed>>
    BY DEF Cancelled, callVars, E, Q
<1>3. ~tornWrite /\ E \cap Rows = {} /\ E \cap Q = {}
    BY <1>2 DEF Batch, Apart
<1>4. /\ entries' \in Seq(Calls) /\ Len(entries') = Len(entries) + Len(queue)
      /\ E' = E \cup Q /\ IsInjective(entries')
    BY <1>2, <1>3, ConcatAdds DEF Types, Apart, E, Q
<1>5. Q' = {} /\ IsInjective(queue') /\ Len(queue') = 0 /\ queue' \in Seq(Calls)
    BY <1>2, NothingInEmpty DEF Q
<1>6. /\ db' \in Seq(Calls) /\ IsInjective(db')
      /\ Rows' = IF committed THEN Rows \cup E ELSE Rows
    <2>1. /\ db \o entries \in Seq(Calls) /\ IsInjective(db \o entries)
          /\ ToSet(db \o entries) = Rows \cup E
        BY <1>3, ConcatAdds DEF Types, Apart, Rows, E
    <2> QED
        BY <1>1, <2>1 DEF Types, Apart, Rows
<1>7. Len(entries) <= BatchSize /\ Len(entries) \in Nat /\ Len(queue) \in Nat /\ Len(queue) <= QueueSize
    <2>1. Len(<<>>) = 0
        OBVIOUS
    <2> QED
        BY <1>2, <2>1 DEF Batch, Types
<1>8. Types'
    <2>1. E \subseteq Calls /\ Q \subseteq Calls
        BY DEF E, Q, ToSet, Types
    <2> QED
        BY <1>1, <1>2, <1>4, <1>5, <1>6, <2>1 DEF Types
<1>9. Made'
    BY <1>2, <1>4, <1>5, <1>6 DEF Made
<1>10. Apart'
    BY <1>1, <1>2, <1>3, <1>4, <1>5, <1>6 DEF Apart
<1>11. Batch'
    BY <1>2, <1>4, <1>7 DEF Batch
<1> QED
    BY <1>8, <1>9, <1>10, <1>11

LEMMA FinalWriteInv == LInv /\ FinalWrite => LInv'
<1> SUFFICES ASSUME LInv, FinalWrite PROVE LInv'
    OBVIOUS
<1> USE LogAssumption DEF LInv, ghostVars
<1>1. /\ flush = "final" /\ flush' = "ended" /\ entries' = <<>>
      /\ UNCHANGED <<call, emitted, scheduled, queue, service, left, tornWrite>>
    BY DEF FinalWrite, callVars
<1>2. Q' = Q /\ E' = {} /\ IsInjective(entries') /\ Len(entries') = 0 /\ entries' \in Seq(Calls)
    BY <1>1, NothingInEmpty DEF Q, E
<1>3. left = E /\ E \subseteq Calls
    BY <1>1 DEF Batch, E, ToSet, Types
<1>4. CASE E \cap Rows = {} /\ db' = db \o entries /\ UNCHANGED <<gone, dbFailed>>
    <2>1. db' \in Seq(Calls) /\ Rows' = Rows \cup E /\ IsInjective(db')
        BY <1>4, ConcatAdds DEF Types, Apart, Rows, E
    <2>2. Types'
        BY <1>1, <1>2, <1>4, <2>1 DEF Types
    <2>3. Made'
        BY <1>1, <1>2, <1>4, <2>1 DEF Made
    <2>4. Apart'
        BY <1>1, <1>2, <1>4, <2>1 DEF Apart
    <2>5. Batch'
        BY <1>1, <1>2, <1>3, <2>1 DEF Batch
    <2> QED
        BY <2>2, <2>3, <2>4, <2>5
<1>5. CASE /\ gone' = gone \cup (E \ Rows)
           /\ dbFailed' = (E \cap Rows = {}) /\ db' = db
    <2>1. Rows' = Rows
        BY <1>5 DEF Rows
    <2>2. dbFailed' \in BOOLEAN
        BY <1>5
    <2>3. Types'
        BY <1>1, <1>2, <1>3, <1>5, <2>2 DEF Types
    <2>4. Made'
        BY <1>1, <1>2, <1>5, <2>1 DEF Made
    <2>5. Apart'
        BY <1>1, <1>2, <1>5, <2>1 DEF Apart
    <2>6. dbFailed' \/ tornWrite
        BY <1>5 DEF Apart
    <2>7. Batch'
        BY <1>1, <1>2, <2>6 DEF Batch
    <2> QED
        BY <2>3, <2>4, <2>5, <2>7
<1> QED
    BY <1>4, <1>5 DEF FinalWrite, E

LEMMA StoppedInv == LInv /\ Stopped => LInv'
<1> SUFFICES ASSUME LInv, Stopped PROVE LInv'
    OBVIOUS
<1> USE LogAssumption DEF LInv, ghostVars
<1>1. /\ gone' = gone \cup Q /\ queue' = <<>> /\ service' = "off"
      /\ UNCHANGED <<call, emitted, scheduled, flush, entries, db, left, tornWrite, dbFailed>>
    BY DEF Stopped, callVars, Q
<1>2. /\ E' = E /\ Rows' = Rows /\ Q' = {}
      /\ IsInjective(queue') /\ Len(queue') = 0 /\ queue' \in Seq(Calls)
    BY <1>1, NothingInEmpty DEF Q, E, Rows
<1>3. Q \subseteq Calls
    BY DEF Q, ToSet, Types
<1>4. Types'
    BY <1>1, <1>2, <1>3 DEF Types
<1>5. Made'
    BY <1>1, <1>2 DEF Made
<1>6. Apart'
    BY <1>1, <1>2 DEF Apart
<1>7. Batch'
    BY <1>1, <1>2 DEF Batch
<1> QED
    BY <1>4, <1>5, <1>6, <1>7

\* The service starts or is told to stop; or nothing changes.
LEMMA ServiceInv == LInv /\ (Start \/ Stop \/ UNCHANGED logVars) => LInv'
<1> SUFFICES ASSUME LInv, Start \/ Stop \/ UNCHANGED logVars PROVE LInv'
    OBVIOUS
<1> USE DEF LInv, ghostVars, callVars, Start, Stop, logVars
<1>1. /\ UNCHANGED <<call, emitted, scheduled, queue, entries, db, gone, left, tornWrite, dbFailed>>
      /\ service' \in {"new", "on", "stopping", "off"}
    BY DEF Types
<1>2. Q' = Q /\ E' = E /\ Rows' = Rows
    BY <1>1 DEF Q, E, Rows
<1>3. flush' = flush \/ (flush' = "get" /\ service = "new")
    OBVIOUS
<1> QED
    BY <1>1, <1>2, <1>3 DEF Types, Made, Apart, Batch

LEMMA LInvNext == LInv /\ [LogNext]_logVars => LInv'
<1> SUFFICES ASSUME LInv, [LogNext]_logVars PROVE LInv'
    OBVIOUS
<1>1. CASE \E t \in Calls : Send(t) \/ BodyEnds(t) \/ Close(t)
    BY <1>1, CallInv
<1>2. CASE Loop
    BY <1>2, EnqueueInv, TakeBatchInv, WriteInv, CancelledInv, FinalWriteInv, StoppedInv DEF Loop
<1>3. CASE Start \/ Stop \/ UNCHANGED logVars
    BY <1>3, ServiceInv
<1> QED
    BY <1>1, <1>2, <1>3 DEF LogNext

-----------------------------------------------------------------------------
(***************************************************************************)
(* The theorems.                                                           *)
(***************************************************************************)
\* Of service.py and transport.py together: each entry is in one place.
THEOREM LogInvariant == LogSpec => []LInv
<1> QED
    BY LInvInit, LInvNext, PTL DEF LogSpec

\* The variables of the log keep their types, and the queue its bound (_QUEUE_MAXSIZE).
THEOREM LogTypeCorrect == LogSpec => []LogTypeOK
<1> QED
    BY LogInvariant, LInvImplies, PTL

\* A call that is over made one entry, which is waiting, written or dropped
\* (_TeeStream); a shutdown whose last write works writes all that waited when
\* it began, if the write it interrupted had not been committed (_flush_loop).
THEOREM EveryEntryAccounted == LogSpec => []Accounted
<1> QED
    BY LogInvariant, LInvImplies, PTL

-----------------------------------------------------------------------------
(***************************************************************************)
(* The order of the line.                                                  *)
(***************************************************************************)
\* What precedes what in two sequences, one after the other.
LEMMA ConcatPrecedes ==
    ASSUME NEW S, NEW a \in Seq(S), NEW b \in Seq(S), NEW x, NEW y
    PROVE  Precedes(a \o b, x, y) <=>
              \/ Precedes(a, x, y) \/ Precedes(b, x, y)
              \/ x \in ToSet(a) /\ y \in ToSet(b)
<1> DEFINE c == a \o b
<1>1. /\ Len(a) \in Nat /\ Len(b) \in Nat
      /\ DOMAIN c = 1 .. Len(a) + Len(b) /\ DOMAIN a = 1 .. Len(a) /\ DOMAIN b = 1 .. Len(b)
      /\ \A i \in 1 .. Len(a) : c[i] = a[i]
      /\ \A i \in Len(a) + 1 .. Len(a) + Len(b) : c[i] = b[i - Len(a)]
    BY ConcatProperties
<1> HIDE DEF c
<1>2. \A i \in 1 .. Len(b) : c[i + Len(a)] = b[i] /\ i + Len(a) \in DOMAIN c /\ i + Len(a) > Len(a)
    BY <1>1
<1>3. \A i \in DOMAIN c : i > Len(a) => i - Len(a) \in DOMAIN b /\ c[i] = b[i - Len(a)]
    BY <1>1
<1>4. \A i \in DOMAIN a : i \in DOMAIN c /\ c[i] = a[i] /\ i <= Len(a)
    BY <1>1
<1>5. ASSUME NEW i \in DOMAIN c, NEW j \in DOMAIN c, i < j, c[i] = x, c[j] = y
      PROVE  Precedes(a, x, y) \/ Precedes(b, x, y) \/ (x \in ToSet(a) /\ y \in ToSet(b))
    <2>1. CASE j <= Len(a)
        <3>1. i \in DOMAIN a /\ j \in DOMAIN a /\ a[i] = x /\ a[j] = y
            BY <1>1, <1>5, <2>1
        <3> QED
            BY <1>5, <3>1 DEF Precedes
    <2>2. CASE i <= Len(a) /\ j > Len(a)
        <3>1. i \in DOMAIN a /\ a[i] = x /\ j - Len(a) \in DOMAIN b /\ b[j - Len(a)] = y
            BY <1>1, <1>3, <1>5, <2>2
        <3> QED
            BY <3>1 DEF ToSet
    <2>3. CASE i > Len(a)
        <3>1. /\ i - Len(a) \in DOMAIN b /\ b[i - Len(a)] = x
              /\ j - Len(a) \in DOMAIN b /\ b[j - Len(a)] = y /\ i - Len(a) < j - Len(a)
            BY <1>1, <1>3, <1>5, <2>3
        <3> QED
            BY <3>1 DEF Precedes
    <2> QED
        BY <1>1, <2>1, <2>2, <2>3
<1>6. ASSUME Precedes(a, x, y) PROVE Precedes(c, x, y)
    BY <1>4, <1>6 DEF Precedes
<1>7. ASSUME Precedes(b, x, y) PROVE Precedes(c, x, y)
    <2>1. PICK i \in DOMAIN b, j \in DOMAIN b : i < j /\ b[i] = x /\ b[j] = y
        BY <1>7 DEF Precedes
    <2>2. i + Len(a) < j + Len(a)
        BY <1>1, <2>1
    <2> QED
        BY <1>1, <1>2, <2>1, <2>2 DEF Precedes
<1>8. ASSUME x \in ToSet(a), y \in ToSet(b) PROVE Precedes(c, x, y)
    <2>1. PICK i \in DOMAIN a, j \in DOMAIN b : a[i] = x /\ b[j] = y
        BY <1>8 DEF ToSet
    <2>2. i < j + Len(a)
        BY <1>1, <2>1
    <2> QED
        BY <1>1, <1>2, <1>4, <2>1, <2>2 DEF Precedes
<1>9. Precedes(c, x, y) => Precedes(a, x, y) \/ Precedes(b, x, y) \/ (x \in ToSet(a) /\ y \in ToSet(b))
    BY <1>5 DEF Precedes
<1> QED
    BY <1>6, <1>7, <1>8, <1>9 DEF c

\* Cutting a sequence in two changes no order.
LEMMA CutPrecedes ==
    ASSUME NEW S, NEW s \in Seq(S), NEW n \in 0 .. Len(s), NEW x, NEW y
    PROVE  LET a == SubSeq(s, 1, n)
               b == SubSeq(s, n + 1, Len(s))
           IN  Precedes(a, x, y) \/ Precedes(b, x, y) \/ (x \in ToSet(a) /\ y \in ToSet(b))
                   => Precedes(s, x, y)
<1> DEFINE a == SubSeq(s, 1, n)
           b == SubSeq(s, n + 1, Len(s))
<1>1. /\ Len(s) \in Nat /\ DOMAIN s = 1 .. Len(s) /\ n \in Nat /\ n <= Len(s)
      /\ DOMAIN a = 1 .. n /\ \A i \in 1 .. n : a[i] = s[i]
    BY SubSeqProperties
<1>2. DOMAIN b = 1 .. Len(s) - n /\ \A i \in 1 .. Len(s) - n : b[i] = s[n + i]
    BY <1>1, TailOf
<1> HIDE DEF a, b
<1>3. \A i \in DOMAIN a : i \in DOMAIN s /\ a[i] = s[i] /\ i <= n
    BY <1>1
<1>4. \A i \in DOMAIN b : n + i \in DOMAIN s /\ b[i] = s[n + i] /\ n + i > n
    BY <1>1, <1>2
<1>5. Precedes(a, x, y) => Precedes(s, x, y)
    BY <1>3 DEF Precedes
<1>6. ASSUME Precedes(b, x, y) PROVE Precedes(s, x, y)
    <2>1. PICK i \in DOMAIN b, j \in DOMAIN b : i < j /\ b[i] = x /\ b[j] = y
        BY <1>6 DEF Precedes
    <2>2. n + i < n + j
        BY <1>1, <1>2, <2>1
    <2> QED
        BY <1>4, <2>1, <2>2 DEF Precedes
<1>7. ASSUME x \in ToSet(a), y \in ToSet(b) PROVE Precedes(s, x, y)
    <2>1. PICK i \in DOMAIN a, j \in DOMAIN b : a[i] = x /\ b[j] = y
        BY <1>7 DEF ToSet
    <2>2. i < n + j
        BY <1>1, <1>2, <2>1
    <2> QED
        BY <1>3, <1>4, <2>1, <2>2 DEF Precedes
<1> QED
    BY <1>5, <1>6, <1>7 DEF a, b

\* The step lets nothing overtake in the line.
Keeps(line) ==
    \A s, t \in Calls : Precedes(Line', s, t) => Precedes(line, s, t) \/ t \notin ToSet(line)

\* The line in its three parts.
LEMMA LineIs ==
    ASSUME NEW d \in Seq(Calls), NEW e \in Seq(Calls), NEW q \in Seq(Calls), NEW x, NEW y
    PROVE  /\ Precedes(d \o e \o q, x, y) <=>
                 \/ Precedes(d, x, y) \/ Precedes(e, x, y) \/ Precedes(q, x, y)
                 \/ x \in ToSet(d) /\ y \in ToSet(e)
                 \/ x \in ToSet(d) \cup ToSet(e) /\ y \in ToSet(q)
           /\ ToSet(d \o e \o q) = ToSet(d) \cup ToSet(e) \cup ToSet(q)
<1>1. d \o e \in Seq(Calls) /\ ToSet(d \o e) = ToSet(d) \cup ToSet(e)
    BY ConcatAdds
<1>2. ToSet((d \o e) \o q) = ToSet(d \o e) \cup ToSet(q)
    <2> DEFINE c == d \o e
    <2>1. c \in Seq(Calls)
        BY <1>1
    <2> HIDE DEF c
    <2>2. ToSet(c \o q) = ToSet(c) \cup ToSet(q)
        BY <2>1, ConcatAdds
    <2> QED
        BY <2>2 DEF c
<1>3. Precedes(d \o e, x, y) <=>
          Precedes(d, x, y) \/ Precedes(e, x, y) \/ (x \in ToSet(d) /\ y \in ToSet(e))
    BY ConcatPrecedes
<1>4. Precedes((d \o e) \o q, x, y) <=>
          Precedes(d \o e, x, y) \/ Precedes(q, x, y) \/ (x \in ToSet(d \o e) /\ y \in ToSet(q))
    BY <1>1, ConcatPrecedes
<1> QED
    BY <1>1, <1>2, <1>3, <1>4

LEMMA NothingPrecedes == \A x, y : ~Precedes(<<>>, x, y)
BY DEF Precedes

LEMMA KeepsOrder == LInv /\ LInv' /\ [LogNext]_logVars /\ ~tornWrite' => Keeps(Line)
<1> SUFFICES ASSUME LInv, LInv', [LogNext]_logVars, ~tornWrite', NEW x \in Calls, NEW y \in Calls,
                    Precedes(Line', x, y), y \in ToSet(Line)
             PROVE  Precedes(Line, x, y)
    BY DEF Keeps
<1> USE DEF LInv
<1>1. /\ db \in Seq(Calls) /\ entries \in Seq(Calls) /\ queue \in Seq(Calls)
      /\ db' \in Seq(Calls) /\ entries' \in Seq(Calls) /\ queue' \in Seq(Calls)
    BY DEF Types
<1>2. /\ Precedes(Line, x, y) <=>
            \/ Precedes(db, x, y) \/ Precedes(entries, x, y) \/ Precedes(queue, x, y)
            \/ x \in Rows /\ y \in E
            \/ x \in Rows \cup E /\ y \in Q
      /\ ToSet(Line) = Rows \cup E \cup Q
    BY <1>1, LineIs DEF Line, Rows, E, Q
<1>3. /\ Precedes(Line', x, y) <=>
            \/ Precedes(db', x, y) \/ Precedes(entries', x, y) \/ Precedes(queue', x, y)
            \/ x \in Rows' /\ y \in E'
            \/ x \in Rows' \cup E' /\ y \in Q'
    BY <1>1, LineIs DEF Line, Rows, E, Q
<1>4. CASE UNCHANGED <<db, entries, queue>>
    BY <1>4 DEF Line
<1>5. ASSUME NEW t \in Calls, Enqueue(t) PROVE Precedes(Line, x, y)
    <2>1. t \notin ToSet(Line) /\ UNCHANGED <<db, entries>>
        BY <1>2, <1>5 DEF Enqueue, Apart
    <2>2. CASE queue' = queue
        BY <1>4, <2>1, <2>2
    <2>3. CASE queue' = Append(queue, t)
        <3>1. <<t>> \in Seq(Calls) /\ queue' = queue \o <<t>> /\ ToSet(<<t>>) = {t}
            BY <1>1, <2>3 DEF ToSet
        <3>2. ~Precedes(<<t>>, x, y)
            BY DEF Precedes
        <3>3. Precedes(queue', x, y) <=> Precedes(queue, x, y) \/ (x \in Q /\ y = t)
            BY <1>1, <3>1, <3>2, ConcatPrecedes DEF Q
        <3>4. Q' = Q \cup {t}
            BY <1>1, <2>3, AppendAdds DEF Q
        <3>5. E' = E /\ Rows' = Rows /\ y # t
            BY <2>1 DEF E, Rows
        <3> QED
            BY <1>2, <1>3, <2>1, <3>3, <3>4, <3>5
    <2> QED
        BY <1>5, <2>2, <2>3 DEF Enqueue
<1>6. CASE TakeBatch
    <2> DEFINE n == IF Len(queue) < BatchSize THEN Len(queue) ELSE BatchSize
    <2>1. /\ flush = "get" /\ db' = db
          /\ entries' = SubSeq(queue, 1, n) /\ queue' = SubSeq(queue, n + 1, Len(queue))
        BY <1>6 DEF TakeBatch
    <2>2. n \in 0 .. Len(queue)
        BY <1>1, LogAssumption
    <2> HIDE DEF n
    <2>3. E' \cup Q' = Q
        BY <1>1, <2>1, <2>2, CutSplits DEF Apart, E, Q
    <2>4. Precedes(entries', x, y) \/ Precedes(queue', x, y) \/ (x \in E' /\ y \in Q')
              => Precedes(queue, x, y)
        BY <1>1, <2>1, <2>2, CutPrecedes DEF E, Q
    <2>5. Rows' = Rows
        BY <2>1 DEF Rows
    <2> QED
        BY <1>2, <1>3, <2>1, <2>3, <2>4, <2>5
<1>7. ASSUME \/ WriteBatch \/ FinalWrite
      PROVE  Precedes(Line, x, y)
    <2>1. entries' = <<>> /\ queue' = queue
        BY <1>7 DEF WriteBatch, FinalWrite
    <2>2. E' = {} /\ Q' = Q /\ ~Precedes(entries', x, y)
        BY <2>1, NothingInEmpty, NothingPrecedes DEF E, Q
    <2>3. CASE db' = db
        <3>1. Rows' = Rows
            BY <2>3 DEF Rows
        <3> QED
            BY <1>2, <1>3, <2>1, <2>2, <2>3, <3>1
    <2>4. CASE db' = db \o entries
        <3>1. Precedes(db', x, y) <=> Precedes(db, x, y) \/ Precedes(entries, x, y) \/ (x \in Rows /\ y \in E)
            BY <1>1, <2>4, ConcatPrecedes DEF Rows, E
        <3>2. Rows' = Rows \cup E
            BY <1>1, <2>4, ConcatAdds DEF Rows, E
        <3> QED
            BY <1>2, <1>3, <2>1, <2>2, <3>1, <3>2
    <2> QED
        BY <1>7, <2>3, <2>4 DEF WriteBatch, FinalWrite
<1>8. CASE Cancelled
    <2>1. db' = db /\ entries' = entries \o queue /\ queue' = <<>>
        BY <1>8 DEF Cancelled
    <2>2. Q' = {} /\ ~Precedes(queue', x, y) /\ Rows' = Rows
        BY <2>1, NothingInEmpty, NothingPrecedes DEF Q, Rows
    <2>3. Precedes(entries', x, y) <=> Precedes(entries, x, y) \/ Precedes(queue, x, y) \/ (x \in E /\ y \in Q)
        BY <1>1, <2>1, ConcatPrecedes DEF E, Q
    <2>4. E' = E \cup Q
        BY <1>1, <2>1, ConcatAdds DEF E, Q
    <2> QED
        BY <1>2, <1>3, <2>1, <2>2, <2>3, <2>4
<1>9. CASE Stopped
    <2>1. queue' = <<>> /\ UNCHANGED <<db, entries>>
        BY <1>9 DEF Stopped
    <2>2. Q' = {} /\ ~Precedes(queue', x, y) /\ Rows' = Rows /\ E' = E
        BY <2>1, NothingInEmpty, NothingPrecedes DEF Q, Rows, E
    <2> QED
        BY <1>2, <1>3, <2>1, <2>2
<1>10. CASE \/ \E t \in Calls : Send(t) \/ BodyEnds(t) \/ Close(t)
            \/ Start \/ Stop \/ UNCHANGED logVars
    BY <1>4, <1>10 DEF Send, BodyEnds, Close, Start, Stop, logVars
<1> QED
    BY <1>5, <1>6, <1>7, <1>8, <1>9, <1>10 DEF LogNext, Loop

\* No step lets an entry overtake one that was in the line before it
\* (_flush_loop, enqueue_log).
THEOREM LineIsInOrder == LogSpec => NoOvertaking
<1>1. LInv /\ LInv' /\ [LogNext]_logVars =>
          [~tornWrite' => \A s, t \in Calls :
              Precedes(Line', s, t) => Precedes(Line, s, t) \/ t \notin ToSet(Line)]_logVars
    BY KeepsOrder DEF Keeps
<1> QED
    BY <1>1, LogInvariant, PTL DEF LogSpec, NoOvertaking
=============================================================================
