---------------------------- MODULE BackendsProofs ----------------------------
(***************************************************************************)
(* The two halves of dsbx/web/backends.py, which share no state.           *)
(*                                                                         *)
(* The registry, for any number of requests, polls, names and places to    *)
(* cache instances: however first uses, locked calls, speculative streams  *)
(* and the shutdown follow each other, no instance is used by two requests *)
(* or after it was closed.                                                 *)
(*                                                                         *)
(* The catalogue, for any number of listings and reloads, any TTL and      *)
(* time: what it shows is as new as the request and the last reload        *)
(* demand.                                                                 *)
(***************************************************************************)
EXTENDS BackendRegistry, ModelCatalogue, TLAPS

States == {"new", "load", "build", "store", "return", "lock", "use", "call"} \cup Ended
Loading == {"load", "build", "store", "return"}
Loaded == {"lock", "use", "call"}

Types ==
    /\ slot \in [Slots -> Instances \cup {None}]
    /\ locks \in [Names -> Threads \cup {None}]
    /\ built \subseteq Instances
    /\ closed \subseteq built
    /\ down \in BOOLEAN
    /\ pc \in [Threads -> States]
    /\ plan \in [Threads -> Seq(Slots)]
    /\ got \in [Threads -> Seq(Instances)]

\* How far a request is with the slots of its plan.
Progress ==
    \A t \in Threads :
        /\ Len(got[t]) <= Len(plan[t])
        /\ pc[t] \in Loading => Len(got[t]) < Len(plan[t])
        /\ pc[t] = "new" => plan[t] = <<>>

\* What a slot holds, and what a request got from it, was built for it.
Origin ==
    /\ \A k \in Slots : slot[k] # None => slot[k] \in built /\ slot[k][2] = k
    /\ \A t \in Threads : \A i \in 1 .. Len(got[t]) :
          got[t][i] \in built /\ got[t][i][2] = plan[t][i]
    /\ \A t \in Threads : pc[t] = "store" => <<t, Current(t)>> \in built
    /\ \A t \in Threads : pc[t] = "return" => slot[Current(t)] # None

\* Nothing is closed while a request is under way.
Drained ==
    /\ ~down => closed = {}
    /\ down => \A t \in Threads : pc[t] \in Ended \cup {"new"}

\* A request works with the locks of all its names.
Locked == \A t \in Users : pc[t] = "use" => Wanted(t) \subseteq Held(t)

\* Only requests that lock can be using.
Polling == \A t \in Polls : pc[t] # "use" /\ pc[t] # "lock"

RInv == Types /\ Progress /\ Origin /\ Drained /\ Locked /\ Polling

-----------------------------------------------------------------------------
LEMMA PlansAreSequences ==
    \A p \in Plans : p \in Seq(Slots) /\ Len(p) >= 1
<1>1. \A k \in Slots : <<k>> \in Seq(Slots) /\ Len(<<k>>) = 1
    OBVIOUS
<1>2. \A k, m \in Slots : <<k, m>> \in Seq(Slots) /\ Len(<<k, m>>) = 2
    OBVIOUS
<1>3. \A p \in Slots \X Slots : \E k, m \in Slots : p = <<k, m>>
    OBVIOUS
<1>4. \A p \in {<<k>> : k \in Slots} : \E k \in Slots : p = <<k>>
    OBVIOUS
<1>5. \A p \in Plans : p \in {<<k>> : k \in Slots} \/ p \in Slots \X Slots
    BY DEF Plans
<1>6. ASSUME NEW p \in Slots \X Slots PROVE p \in Seq(Slots) /\ Len(p) >= 1
    <2>1. PICK k \in Slots, m \in Slots : p = <<k, m>>
        BY <1>3
    <2>2. p \in Seq(Slots) /\ Len(p) = 2
        BY <1>2, <2>1, Zenon
    <2> QED
        BY <2>2
<1>7. ASSUME NEW p \in {<<k>> : k \in Slots} PROVE p \in Seq(Slots) /\ Len(p) >= 1
    <2>1. PICK k \in Slots : p = <<k>>
        BY <1>4
    <2>2. p \in Seq(Slots) /\ Len(p) = 1
        BY <1>1, <2>1, Zenon
    <2> QED
        BY <2>2
<1> QED
    BY <1>5, <1>6, <1>7, Zenon

\* Appending leaves the old elements and adds one.
LEMMA Appended ==
    ASSUME NEW S, NEW s \in Seq(S), NEW x \in S
    PROVE  /\ Append(s, x) \in Seq(S)
           /\ Len(Append(s, x)) = Len(s) + 1
           /\ \A i \in 1 .. Len(s) : Append(s, x)[i] = s[i]
           /\ Append(s, x)[Len(s) + 1] = x
OBVIOUS

\* The invariant is enough for what the runs check.
LEMMA InvImplies == RInv => TypeOK /\ SafeUse
<1> SUFFICES ASSUME RInv PROVE TypeOK /\ SafeUse
    OBVIOUS
<1> USE DEF RInv
<1>1. \A t \in Threads : DOMAIN got[t] = 1 .. Len(got[t]) /\ DOMAIN plan[t] = 1 .. Len(plan[t])
    BY DEF Types
<1>2. \A t \in Threads : \A i \in DOMAIN got[t] :
          /\ got[t][i] \in Instances /\ got[t][i] \in built
          /\ got[t][i][2] = plan[t][i] /\ i \in DOMAIN plan[t]
    <2> SUFFICES ASSUME NEW t \in Threads, NEW i \in DOMAIN got[t]
                 PROVE  /\ got[t][i] \in Instances /\ got[t][i] \in built
                        /\ got[t][i][2] = plan[t][i] /\ i \in DOMAIN plan[t]
        OBVIOUS
    <2>1. Len(got[t]) \in Nat /\ Len(plan[t]) \in Nat /\ Len(got[t]) <= Len(plan[t])
        BY DEF Types, Progress
    <2>2. i \in 1 .. Len(got[t])
        BY <1>1
    <2>3. got[t][i] \in built /\ got[t][i][2] = plan[t][i]
        BY <2>2 DEF Origin
    <2> QED
        BY <1>1, <2>1, <2>2, <2>3 DEF Types
<1>3. TypeOK
    BY <1>2 DEF TypeOK, Types, Instances
<1>4. ASSUME NEW t \in Threads, NEW u \in Threads, NEW i \in DOMAIN got[t], NEW j \in DOMAIN got[u],
             pc[t] = "use", pc[u] = "use", t # u, got[t][i] = got[u][j]
      PROVE  FALSE
    <2>1. plan[t][i] = plan[u][j] /\ i \in DOMAIN plan[t] /\ j \in DOMAIN plan[u]
        BY <1>2, <1>4
    <2>2. NameOf[plan[t][i]] \in Wanted(t) /\ NameOf[plan[t][i]] \in Wanted(u)
        BY <2>1 DEF Wanted
    <2>3. t \in Users /\ u \in Users
        BY <1>4 DEF Polling, Threads
    <2>4. locks[NameOf[plan[t][i]]] = t /\ locks[NameOf[plan[t][i]]] = u
        BY <1>4, <2>2, <2>3 DEF Locked, Held
    <2> QED
        BY <1>4, <2>4
<1>5. ASSUME NEW t \in Threads, NEW i \in DOMAIN got[t], pc[t] \in {"use", "call"}
      PROVE  got[t][i] \in built \ closed
    BY <1>2, <1>5 DEF Drained, Types, Ended
<1>6. \A t \in Threads : pc[t] = "use" => Wanted(t) \subseteq Held(t)
    BY DEF Locked, Polling, Threads
<1>7. SafeUse
    BY <1>4, <1>5, <1>6 DEF SafeUse
<1> QED
    BY <1>3, <1>7

LEMMA RInvInit == Init => RInv
<1> SUFFICES ASSUME Init PROVE RInv
    OBVIOUS
<1> USE RegistryAssumption DEF Init
<1>1. Types
    <2>1. slot \in [Slots -> Instances \cup {None}] /\ locks \in [Names -> Threads \cup {None}]
        OBVIOUS
    <2>2. <<>> \in Seq(Slots) /\ <<>> \in Seq(Instances)
        OBVIOUS
    <2> QED
        BY <2>1, <2>2 DEF Types, States
<1>2. Progress /\ Origin
    BY DEF Progress, Origin, Loading
<1>3. Drained /\ Locked /\ Polling
    BY DEF Drained, Locked, Polling, Threads
<1> QED
    BY <1>1, <1>2, <1>3 DEF RInv

-----------------------------------------------------------------------------
\* A request receives an instance from the slot it is loading.
LEMMA GotInv ==
    ASSUME RInv, NEW t \in Threads, NEW inst, Got(t, inst), pc[t] \in Loading,
           inst \in built, inst[2] = Current(t),
           UNCHANGED <<locks, built, closed, down, plan>>,
           slot' \in [Slots -> Instances \cup {None}],
           \A k \in Slots : slot'[k] # None => slot'[k] \in built /\ slot'[k][2] = k,
           \A k \in Slots : slot[k] # None => slot'[k] # None
    PROVE  RInv'
<1> USE DEF RInv
<1>1. inst \in Instances
    BY DEF Types
<1>2. /\ got' = [got EXCEPT ![t] = Append(got[t], inst)]
      /\ pc' = [pc EXCEPT ![t] = IF Len(got[t]) + 1 = Len(plan[t]) THEN AfterLoad(t) ELSE "load"]
    BY DEF Got, Goto
<1>3. AfterLoad(t) \in {"lock", "call"} /\ (t \in Polls => AfterLoad(t) = "call")
    BY RegistryAssumption DEF AfterLoad
<1>4. /\ got[t] \in Seq(Instances) /\ plan[t] \in Seq(Slots)
      /\ Len(got[t]) < Len(plan[t]) /\ Len(got[t]) \in Nat /\ Len(plan[t]) \in Nat
    BY DEF Types, Progress
<1>5. /\ got'[t] \in Seq(Instances) /\ Len(got'[t]) = Len(got[t]) + 1
      /\ \A i \in 1 .. Len(got[t]) : got'[t][i] = got[t][i]
      /\ got'[t][Len(got[t]) + 1] = inst
    BY <1>1, <1>2, <1>4, Appended DEF Types
<1>6. \A u \in Threads \ {t} : got'[u] = got[u] /\ pc'[u] = pc[u]
    BY <1>2 DEF Types
<1>7. pc'[t] = IF Len(got[t]) + 1 = Len(plan[t]) THEN AfterLoad(t) ELSE "load"
    BY <1>2 DEF Types
<1>8. Types'
    BY <1>2, <1>3, <1>5 DEF Types, States
<1>9. Progress'
    <2>1. Len(got'[t]) <= Len(plan[t]) /\ pc'[t] # "new"
        BY <1>3, <1>4, <1>5, <1>7
    <2>2. pc'[t] \in Loading => Len(got'[t]) < Len(plan[t])
        <3>1. pc'[t] \in Loading => Len(got[t]) + 1 # Len(plan[t])
            BY <1>3, <1>7 DEF Loading
        <3> QED
            BY <1>4, <1>5, <3>1
    <2>3. \A u \in Threads \ {t} : got'[u] = got[u] /\ pc'[u] = pc[u] /\ plan'[u] = plan[u]
        BY <1>6
    <2>4. plan' = plan
        OBVIOUS
    <2> QED
        BY <2>1, <2>2, <2>3, <2>4 DEF Progress
<1>10. Origin'
    <2>1. ASSUME NEW i \in 1 .. Len(got'[t])
          PROVE  got'[t][i] \in built /\ got'[t][i][2] = plan[t][i]
        <3>1. i \in 1 .. Len(got[t]) \/ i = Len(got[t]) + 1
            BY <1>4, <1>5
        <3>2. CASE i \in 1 .. Len(got[t])
            <4>1. got'[t][i] = got[t][i]
                BY <1>5, <3>2
            <4>2. got[t][i] \in built /\ got[t][i][2] = plan[t][i]
                BY <3>2 DEF Origin
            <4> QED
                BY <4>1, <4>2
        <3>3. CASE i = Len(got[t]) + 1
            BY <1>5, <3>3 DEF Current
        <3> QED
            BY <3>1, <3>2, <3>3
    <2>2. pc'[t] # "store" /\ pc'[t] # "return"
        BY <1>3, <1>7
    <2>3. \A u \in Threads \ {t} : Current(u)' = Current(u)
        BY <1>6 DEF Current
    <2>4. \A u \in Threads \ {t} : pc[u] = "return" => Current(u) \in Slots
        BY DEF Types, Progress, Current, Loading
    <2> QED
        BY <1>6, <2>1, <2>2, <2>3, <2>4 DEF Origin
<1>11. Drained'
    BY <1>6 DEF Drained, Loading, Ended
<1>12. Locked' /\ Polling'
    <2>1. \A u \in Threads : Wanted(u)' = Wanted(u) /\ Held(u)' = Held(u)
        BY DEF Wanted, Held
    <2> QED
        BY <1>3, <1>6, <1>7, <2>1 DEF Locked, Polling, Threads
<1> QED
    BY <1>8, <1>9, <1>10, <1>11, <1>12

LEMMA RInvNext == RInv /\ [Next]_vars => RInv'
<1> SUFFICES ASSUME RInv, [Next]_vars PROVE RInv'
    OBVIOUS
<1> USE RegistryAssumption DEF RInv
<1>1. ASSUME NEW t \in Threads, Begin(t) PROVE RInv'
    <2>1. PICK p \in Plans : plan' = [plan EXCEPT ![t] = p]
        BY <1>1 DEF Begin
    <2>2. p \in Seq(Slots) /\ Len(p) >= 1
        BY PlansAreSequences
    <2>3. /\ pc' = [pc EXCEPT ![t] = "load"] /\ pc[t] = "new" /\ ~down /\ down' = down
          /\ UNCHANGED <<slot, locks, built, closed, got>>
        BY <1>1 DEF Begin, Goto
    <2>4. Len(got[t]) = 0
        BY <2>3 DEF Types, Progress
    <2>5. /\ pc'[t] = "load" /\ plan'[t] = p
          /\ \A u \in Threads \ {t} : pc'[u] = pc[u] /\ plan'[u] = plan[u]
        BY <2>1, <2>3 DEF Types
    <2>6. Types'
        BY <2>1, <2>2, <2>3 DEF Types, States
    <2>7. Progress'
        BY <2>2, <2>3, <2>4, <2>5 DEF Progress, Loading
    <2>8. Origin'
        BY <2>3, <2>4, <2>5 DEF Origin, Current
    <2>9. Drained' /\ Locked' /\ Polling'
        BY <2>3, <2>5 DEF Drained, Locked, Polling, Wanted, Held, Threads
    <2> QED
        BY <2>6, <2>7, <2>8, <2>9
<1>2. ASSUME NEW t \in Threads, Request(t) PROVE RInv'
    <2>1. CASE Lookup(t)
        <3>1. /\ pc[t] = "load" /\ pc[t] \in Loading
              /\ UNCHANGED <<slot, locks, built, closed, down, plan>>
            BY <2>1 DEF Lookup, Loading
        <3>2. Current(t) \in Slots
            BY <3>1 DEF Types, Progress, Current
        <3>3. CASE slot[Current(t)] # None
            <4>1. Got(t, slot[Current(t)])
                BY <2>1, <3>3 DEF Lookup
            <4> QED
                BY <3>1, <3>2, <3>3, <4>1, GotInv DEF Origin, Types
        <3>4. CASE slot[Current(t)] = None
            <4>1. pc' = [pc EXCEPT ![t] = "build"] /\ got' = got
                BY <2>1, <3>4 DEF Lookup, Goto
            <4>2. pc'[t] = "build" /\ \A u \in Threads \ {t} : pc'[u] = pc[u]
                BY <4>1 DEF Types
            <4>3. Types' /\ Progress'
                BY <3>1, <4>1, <4>2 DEF Types, States, Progress, Loading
            <4>4. Origin' /\ Drained' /\ Locked' /\ Polling'
                BY <3>1, <4>1, <4>2 DEF Origin, Current, Drained, Ended, Locked, Polling, Wanted, Held, Threads
            <4> QED
                BY <4>3, <4>4
        <3> QED
            BY <3>3, <3>4
    <2>2. CASE Build(t)
        <3>1. /\ pc[t] = "build" /\ pc' = [pc EXCEPT ![t] = "store"]
              /\ built' = built \cup {<<t, Current(t)>>}
              /\ UNCHANGED <<slot, locks, closed, down, plan, got>>
            BY <2>2 DEF Build, Goto
        <3>2. pc'[t] = "store" /\ \A u \in Threads \ {t} : pc'[u] = pc[u]
            BY <3>1 DEF Types
        <3>3. Current(t) \in Slots /\ <<t, Current(t)>> \in Instances
            BY <3>1 DEF Types, Progress, Current, Loading, Instances
        <3>4. Types' /\ Progress'
            BY <3>1, <3>2, <3>3 DEF Types, States, Progress, Loading
        <3>5. Origin'
            BY <3>1, <3>2 DEF Origin, Current
        <3>6. Drained' /\ Locked' /\ Polling'
            BY <3>1, <3>2 DEF Drained, Ended, Locked, Polling, Wanted, Held, Threads
        <3> QED
            BY <3>4, <3>5, <3>6
    <2>3. CASE BuildFail(t)
        <3>1. /\ pc[t] = "build" /\ pc' = [pc EXCEPT ![t] = "failed"]
              /\ UNCHANGED <<slot, locks, built, closed, down, plan, got>>
            BY <2>3 DEF BuildFail, Goto
        <3>2. pc'[t] = "failed" /\ \A u \in Threads \ {t} : pc'[u] = pc[u]
            BY <3>1 DEF Types
        <3>3. Types' /\ Progress'
            BY <3>1, <3>2 DEF Types, States, Ended, Progress, Loading
        <3>4. Origin' /\ Drained' /\ Locked' /\ Polling'
            BY <3>1, <3>2 DEF Origin, Current, Drained, Ended, Locked, Polling, Wanted, Held, Threads
        <3> QED
            BY <3>3, <3>4
    <2>4. CASE Store(t)
        <3> DEFINE inst == <<t, Current(t)>>
        <3>1. /\ pc[t] = "store" /\ pc[t] \in Loading
              /\ slot' = [slot EXCEPT ![Current(t)] = inst]
              /\ UNCHANGED <<locks, built, closed, down, plan>>
            BY <2>4 DEF Store, Loading
        <3>2. Current(t) \in Slots
            BY <3>1 DEF Types, Progress, Current
        <3>3. inst \in built /\ inst \in Instances /\ inst[2] = Current(t) /\ inst # None
            BY <3>1, <3>2 DEF Origin, Types, Instances
        <3>4. /\ slot' \in [Slots -> Instances \cup {None}]
              /\ slot'[Current(t)] = inst
              /\ \A k \in Slots \ {Current(t)} : slot'[k] = slot[k]
            BY <3>1, <3>2, <3>3 DEF Types
        <3>5. /\ \A k \in Slots : slot'[k] # None => slot'[k] \in built /\ slot'[k][2] = k
              /\ \A k \in Slots : slot[k] # None => slot'[k] # None
            BY <3>3, <3>4 DEF Origin
        <3>6. CASE Current(t) \in Variants
            BY <2>4, <3>1, <3>3, <3>4, <3>5, <3>6, GotInv DEF Store
        <3>7. CASE Current(t) \notin Variants
            <4>1. pc' = [pc EXCEPT ![t] = "return"] /\ got' = got
                BY <2>4, <3>7 DEF Store, Goto
            <4>2. pc'[t] = "return" /\ \A u \in Threads \ {t} : pc'[u] = pc[u]
                BY <4>1 DEF Types
            <4>3. Types' /\ Progress'
                BY <3>1, <3>4, <4>1, <4>2 DEF Types, States, Progress, Loading
            <4>4. \A u \in Threads : Current(u)' = Current(u)
                BY <3>1, <4>1 DEF Current
            <4>5. \A u \in Threads : pc[u] = "return" => Current(u) \in Slots
                BY DEF Types, Progress, Current, Loading
            <4>6. Origin'
                BY <3>1, <3>3, <3>4, <3>5, <4>1, <4>2, <4>4, <4>5 DEF Origin
            <4>7. Drained' /\ Locked' /\ Polling'
                BY <3>1, <4>1, <4>2 DEF Drained, Ended, Locked, Polling, Wanted, Held, Threads
            <4> QED
                BY <4>3, <4>6, <4>7
        <3> QED
            BY <3>6, <3>7
    <2>5. CASE Return(t)
        <3>1. /\ pc[t] = "return" /\ pc[t] \in Loading
              /\ Got(t, slot[Current(t)])
              /\ UNCHANGED <<slot, locks, built, closed, down, plan>>
            BY <2>5 DEF Return, Loading
        <3>2. Current(t) \in Slots
            BY <3>1 DEF Types, Progress, Current
        <3> QED
            BY <3>1, <3>2, GotInv DEF Origin, Types
    <2>6. CASE Acquire(t)
        <3>1. PICK n \in Wanted(t) \ Held(t) :
                  /\ locks[n] = None /\ locks' = [locks EXCEPT ![n] = t]
                  /\ pc' = [pc EXCEPT ![t] = IF Wanted(t) \ Held(t) = {n} THEN "use" ELSE "lock"]
            BY <2>6 DEF Acquire, Goto
        <3>2. pc[t] = "lock" /\ UNCHANGED <<slot, built, closed, down, plan, got>>
            BY <2>6 DEF Acquire
        <3>3. n \in Names
            <4>1. \A i \in DOMAIN plan[t] : plan[t][i] \in Slots
                BY DEF Types
            <4> QED
                BY <4>1 DEF Wanted
        <3>4. /\ locks'[n] = t /\ \A m \in Names \ {n} : locks'[m] = locks[m]
              /\ pc'[t] = (IF Wanted(t) \ Held(t) = {n} THEN "use" ELSE "lock")
              /\ \A u \in Threads \ {t} : pc'[u] = pc[u]
            BY <3>1, <3>3 DEF Types
        <3>5. Types' /\ Progress'
            BY <3>1, <3>2, <3>4 DEF Types, States, Progress, Loading
        <3>6. Origin' /\ Drained'
            BY <3>2, <3>4 DEF Origin, Current, Drained, Ended
        <3>7. \A u \in Threads : Wanted(u)' = Wanted(u) /\ Held(u) \subseteq Held(u)'
            BY <3>1, <3>2, <3>4 DEF Wanted, Held
        <3>8. n \in Held(t)'
            BY <3>3, <3>4 DEF Held
        <3>9. Locked'
            BY <3>1, <3>4, <3>7, <3>8 DEF Locked, Threads
        <3>10. Polling'
            BY <3>2, <3>4 DEF Polling, Threads
        <3> QED
            BY <3>5, <3>6, <3>9, <3>10
    <2>7. CASE Release(t)
        <3>1. /\ pc[t] = "use" /\ pc' = [pc EXCEPT ![t] = "done"]
              /\ locks' = [n \in Names |-> IF locks[n] = t THEN None ELSE locks[n]]
              /\ UNCHANGED <<slot, built, closed, down, plan, got>>
            BY <2>7 DEF Release, Goto
        <3>2. pc'[t] = "done" /\ \A u \in Threads \ {t} : pc'[u] = pc[u]
            BY <3>1 DEF Types
        <3>3. Types' /\ Progress'
            BY <3>1, <3>2 DEF Types, States, Ended, Progress, Loading
        <3>4. Origin' /\ Drained' /\ Polling'
            BY <3>1, <3>2 DEF Origin, Current, Drained, Ended, Polling, Threads
        <3>5. \A u \in Threads \ {t} : Wanted(u)' = Wanted(u) /\ Held(u) \subseteq Held(u)'
            BY <3>1 DEF Wanted, Held
        <3>6. Locked'
            BY <3>2, <3>5 DEF Locked, Threads
        <3> QED
            BY <3>3, <3>4, <3>6
    <2>8. CASE CallHost(t)
        <3>1. PICK end \in Ended : pc' = [pc EXCEPT ![t] = end]
            BY <2>8 DEF CallHost, Goto
        <3>2. UNCHANGED <<slot, locks, built, closed, down, plan, got>>
            BY <2>8 DEF CallHost
        <3>3. pc[t] = "call" /\ pc'[t] = end /\ \A u \in Threads \ {t} : pc'[u] = pc[u]
            BY <2>8, <3>1 DEF CallHost, Types
        <3>4. Types' /\ Progress'
            BY <3>1, <3>2, <3>3 DEF Types, States, Ended, Progress, Loading
        <3>5. Origin' /\ Drained' /\ Locked' /\ Polling'
            BY <3>2, <3>3 DEF Origin, Current, Drained, Ended, Locked, Polling, Wanted, Held, Threads
        <3> QED
            BY <3>4, <3>5
    <2> QED
        BY <1>2, <2>1, <2>2, <2>3, <2>4, <2>5, <2>6, <2>7, <2>8 DEF Request
<1>3. ASSUME CloseAll PROVE RInv'
    <2>1. /\ \A t \in Threads : pc[t] \in Ended \cup {"new"}
          /\ slot' = [k \in Slots |-> None] /\ down' = TRUE
          /\ closed' = closed \cup {slot[k] : k \in {m \in Slots : slot[m] # None}}
          /\ UNCHANGED <<locks, built, pc, plan, got>>
        BY <1>3 DEF CloseAll
    <2>2. closed' \subseteq built
        BY <2>1 DEF Types, Origin
    <2>3. Types' /\ Progress'
        BY <2>1, <2>2 DEF Types, Progress
    <2>4. Origin' /\ Drained'
        BY <2>1 DEF Origin, Current, Drained, Ended
    <2>5. Locked' /\ Polling'
        BY <2>1 DEF Locked, Polling, Wanted, Held, Threads
    <2> QED
        BY <2>3, <2>4, <2>5
<1>4. CASE UNCHANGED vars
    <2>1. Types' /\ Progress' /\ Drained'
        BY <1>4 DEF vars, Types, Progress, Drained
    <2>2. Origin' /\ Locked' /\ Polling'
        BY <1>4 DEF vars, Origin, Current, Locked, Polling, Wanted, Held
    <2> QED
        BY <2>1, <2>2
<1> QED
    BY <1>1, <1>2, <1>3, <1>4 DEF Next

-----------------------------------------------------------------------------
\* The invariant holds in every reachable state.
THEOREM RegistryInvariant == Spec => []RInv
BY RInvInit, RInvNext, PTL DEF Spec

\* ensure_loaded returns an instance of the slot it was asked for, and every
\* variable keeps its type, for any number of requests, names and slots.
THEOREM TypeCorrect == Spec => []TypeOK
<1>1. RInv => TypeOK
    BY InvImplies
<1> QED
    BY RegistryInvariant, <1>1, PTL

\* However many instances a name came to have, a request works under the locks
\* of all its names, no two requests use one instance at the same time, and
\* none is closed while it is used (use, close_all).
THEOREM UseIsSafe == Spec => []SafeUse
<1>1. RInv => SafeUse
    BY InvImplies
<1> QED
    BY RegistryInvariant, <1>1, PTL

-----------------------------------------------------------------------------
(***************************************************************************)
(* The catalogue.                                                          *)
(***************************************************************************)
\* How much a listing knows at each position: what it fetched is from after
\* its beginning, and from after the last reload unless that overtook it.
Asked(t) ==
    /\ stage[t] = "fetch" => list[t].known <= upstream
    /\ stage[t] = "keep" =>
          \/ list[t].source = "fallback" /\ list[t].models = Fallback
          \/ /\ list[t].source = "live" /\ list[t].models >= list[t].known
             /\ t \notin overtaken => list[t].models >= announced
    /\ stage[t] = "done" /\ list[t].refresh =>
          \/ list[t].source = "live" /\ list[t].models >= list[t].known
          \/ list[t].source = "fallback"

CInv ==
    /\ CatalogueTypeOK
    /\ announced <= upstream
    /\ CatalogueSeesReload
    /\ \A t \in Lists : Asked(t)

\* Action property of AnswersAreCurrent.
WarmAnswer ==
    \A t \in Lists :
        (list'[t] # list[t] /\ list'[t].source = "cached") => now - list'[t].at < TTL

\* Numbers of models, times and records, in the form the provers use.
LEMMA Numbers ==
    ASSUME CatalogueTypeOK
    PROVE  /\ upstream \in Nat /\ upstream \in Catalogue /\ now \in Int /\ announced \in Nat
           /\ \A n \in Catalogue : n \in Int
           /\ \A t \in Lists : list[t].known \in Nat /\ list[t].models \in Catalogue /\ list[t].models \in Int
           /\ Fallback \in Catalogue
BY CatalogueAssumption DEF CatalogueTypeOK, Catalogue, Fallback

LEMMA CInvInit == CatalogueInit => CInv
BY CatalogueAssumption DEF CatalogueInit, CInv, CatalogueTypeOK, CatalogueSeesReload, Asked, NoAnswer, Catalogue, Fallback

LEMMA ArriveInv == CInv /\ Arrive => CInv'
<1> SUFFICES ASSUME CInv, Arrive PROVE CInv'
    OBVIOUS
<1> USE CatalogueAssumption DEF CInv, Arrive
<1>1. /\ upstream \in Nat /\ announced \in Nat /\ upstream' = upstream + 1
      /\ \A t \in Lists : list[t].known \in Nat
    BY Numbers
<1>2. CatalogueTypeOK'
    BY DEF CatalogueTypeOK
<1>3. announced' <= upstream' /\ CatalogueSeesReload'
    BY <1>1 DEF CatalogueSeesReload
<1>4. \A t \in Lists : Asked(t)'
    BY <1>1 DEF Asked
<1> QED
    BY <1>2, <1>3, <1>4

LEMMA TickInv == CInv /\ Tick => CInv'
<1> SUFFICES ASSUME CInv, Tick PROVE CInv'
    OBVIOUS
<1>1. CatalogueTypeOK'
    BY CatalogueAssumption DEF CInv, Tick, CatalogueTypeOK
<1> QED
    BY <1>1 DEF CInv, Tick, CatalogueSeesReload, Asked

LEMMA ListBeginInv == ASSUME CInv, NEW t \in Lists, ListBegin(t) PROVE CInv' /\ WarmAnswer
<1> USE CatalogueAssumption DEF CInv
<1> DEFINE Hit(refresh) == Warm /\ ~refresh
           Answer(refresh) ==
              [models |-> IF Hit(refresh) THEN cache.models ELSE Fallback,
               source |-> IF Hit(refresh) THEN "cached" ELSE "none",
               at |-> IF Hit(refresh) THEN cache.at ELSE now,
               refresh |-> refresh, known |-> upstream]
<1>0. PICK refresh \in BOOLEAN :
          /\ list' = [list EXCEPT ![t] = Answer(refresh)]
          /\ stage' = [stage EXCEPT ![t] = IF Hit(refresh) THEN "done" ELSE "fetch"]
    BY DEF ListBegin, Enter
<1> DEFINE hit == Hit(refresh)
           r == Answer(refresh)
<1>1. /\ hit <=> Warm /\ ~refresh
      /\ r = [models |-> IF hit THEN cache.models ELSE Fallback,
              source |-> IF hit THEN "cached" ELSE "none",
              at |-> IF hit THEN cache.at ELSE now,
              refresh |-> refresh, known |-> upstream]
      /\ list' = [list EXCEPT ![t] = r]
      /\ stage' = [stage EXCEPT ![t] = IF hit THEN "done" ELSE "fetch"]
    BY <1>0
<1> HIDE DEF hit, r, Hit, Answer
<1>2. UNCHANGED <<upstream, now, cache, announced, overtaken>>
    BY DEF ListBegin
<1>3. /\ list'[t] = r /\ stage'[t] = IF hit THEN "done" ELSE "fetch"
      /\ \A u \in Lists \ {t} : list'[u] = list[u] /\ stage'[u] = stage[u]
    BY <1>1 DEF CatalogueTypeOK
<1>4. /\ r.refresh = refresh /\ r.known = upstream
      /\ hit => r.source = "cached" /\ r.at = cache.at
      /\ ~hit => r.source = "none"
    BY <1>1
<1>5. CatalogueTypeOK'
    <2>1. CASE hit
        <3>1. cache.models \in Catalogue /\ cache.at \in 0 .. MaxTime
            BY <1>1, <2>1 DEF Warm, CatalogueTypeOK
        <3> QED
            BY <1>1, <1>2, <2>1, <3>1 DEF CatalogueTypeOK
    <2>2. CASE ~hit
        BY <1>1, <1>2, <2>2, Numbers DEF CatalogueTypeOK
    <2> QED
        BY <2>1, <2>2
<1>6. Asked(t)'
    <2>1. upstream \in Nat /\ (hit => ~refresh)
        BY <1>1, Numbers
    <2> QED
        BY <1>2, <1>3, <1>4, <2>1 DEF Asked
<1>7. \A u \in Lists \ {t} : Asked(u)'
    BY <1>2, <1>3 DEF Asked
<1>8. WarmAnswer
    <2>1. hit => now - cache.at < TTL
        BY <1>1 DEF Warm
    <2> QED
        BY <1>3, <1>4, <2>1 DEF WarmAnswer
<1>9. announced' <= upstream' /\ CatalogueSeesReload'
    BY <1>2 DEF CatalogueSeesReload
<1> QED
    BY <1>5, <1>6, <1>7, <1>8, <1>9

LEMMA FetchInv == ASSUME CInv, NEW t \in Lists, Fetch(t) PROVE CInv' /\ WarmAnswer
<1> USE CatalogueAssumption DEF CInv
<1>1. PICK m \in {upstream, Fallback} :
          list' = [list EXCEPT ![t].models = m,
                               ![t].source = IF m = Fallback THEN "fallback" ELSE "live"]
    BY DEF Fetch
<1>2. /\ stage[t] = "fetch" /\ stage' = [stage EXCEPT ![t] = "keep"]
      /\ UNCHANGED <<upstream, now, cache, announced, overtaken>>
    BY DEF Fetch, Enter
<1>3. m \in Catalogue /\ upstream \in Nat /\ announced \in Nat /\ (m # Fallback => m = upstream)
    BY Numbers
<1>4. /\ list'[t].models = m /\ list'[t].known = list[t].known
      /\ list'[t].source = IF m = Fallback THEN "fallback" ELSE "live"
      /\ stage'[t] = "keep"
      /\ \A u \in Lists \ {t} : list'[u] = list[u] /\ stage'[u] = stage[u]
    BY <1>1, <1>2 DEF CatalogueTypeOK
<1>5. CatalogueTypeOK'
    <2> DEFINE R == [models : Catalogue, at : 0 .. MaxTime, refresh : BOOLEAN,
                     source : {"none", "cached", "live", "fallback"},
                     known : 0 .. MaxModels]
               q == [list[t] EXCEPT !.models = m]
               v == IF m = Fallback THEN "fallback" ELSE "live"
    <2>1. list \in [Lists -> R]
        BY DEF CatalogueTypeOK
    <2>2. q \in R
        BY <1>3, <2>1
    <2>3. v \in {"none", "cached", "live", "fallback"}
        OBVIOUS
    <2>4. list' = [list EXCEPT ![t] = [q EXCEPT !.source = v]]
        BY <1>1, <2>1
    <2> HIDE DEF q, v
    <2>5. [q EXCEPT !.source = v] \in R
        BY <2>2, <2>3
    <2> HIDE DEF R
    <2>6. list' \in [Lists -> R]
        BY <2>1, <2>4, <2>5
    <2>7. stage' \in [Lists \cup Reloads -> {"new", "fetch", "keep", "invalidate", "done"}]
        BY <1>2 DEF CatalogueTypeOK
    <2> QED
        BY <1>2, <2>6, <2>7 DEF CatalogueTypeOK, R
<1>6. Asked(t)'
    BY <1>2, <1>3, <1>4 DEF Asked
<1>7. \A u \in Lists \ {t} : Asked(u)'
    BY <1>2, <1>4 DEF Asked
<1>8. WarmAnswer
    BY <1>4 DEF WarmAnswer
<1>9. announced' <= upstream' /\ CatalogueSeesReload'
    BY <1>2 DEF CatalogueSeesReload
<1> QED
    BY <1>5, <1>6, <1>7, <1>8, <1>9

LEMMA KeepInv == ASSUME CInv, NEW t \in Lists, Keep(t) PROVE CInv'
<1> USE CatalogueAssumption DEF CInv
<1>1. /\ stage[t] = "keep" /\ stage' = [stage EXCEPT ![t] = "done"]
      /\ cache' = [models |-> list[t].models, at |-> list[t].at, clean |-> t \notin overtaken]
      /\ UNCHANGED <<upstream, now, list, announced, overtaken>>
    BY DEF Keep, Enter
<1>2. stage'[t] = "done" /\ \A u \in Lists \ {t} : stage'[u] = stage[u]
    BY <1>1 DEF CatalogueTypeOK
<1>3. CatalogueTypeOK'
    BY <1>1 DEF CatalogueTypeOK
<1>4. cache'.models = list[t].models /\ (cache'.clean <=> t \notin overtaken)
    BY <1>1
<1>5. CatalogueSeesReload'
    BY <1>1, <1>4 DEF CatalogueSeesReload, Asked
<1>6. \A u \in Lists : Asked(u)'
    BY <1>1, <1>2 DEF Asked
<1> QED
    BY <1>1, <1>3, <1>5, <1>6

LEMMA ReloadInv == ASSUME CInv, NEW r \in Reloads, AskHost(r) \/ Invalidate(r) PROVE CInv'
<1> USE CatalogueAssumption DEF CInv
<1>1. UNCHANGED <<upstream, now, list>>
    BY DEF AskHost, Invalidate
<1>2. \A t \in Lists : stage'[t] = stage[t]
    BY DEF AskHost, Invalidate, Enter, CatalogueTypeOK
<1>3. CASE AskHost(r)
    <2>1. CatalogueTypeOK'
        BY <1>3 DEF AskHost, Enter, CatalogueTypeOK
    <2> QED
        BY <1>1, <1>2, <1>3, <2>1 DEF AskHost, CatalogueSeesReload, Asked
<1>4. CASE Invalidate(r)
    <2>1. CatalogueTypeOK'
        BY <1>4 DEF Invalidate, Enter, CatalogueTypeOK
    <2>2. \A t \in Lists : stage[t] = "keep" => t \in overtaken'
        BY <1>4 DEF Invalidate
    <2>3. announced' <= upstream' /\ CatalogueSeesReload'
        BY <1>4, Numbers DEF Invalidate, CatalogueSeesReload
    <2>4. \A t \in Lists : Asked(t)'
        BY <1>1, <1>2, <2>2 DEF Asked
    <2> QED
        BY <2>1, <2>3, <2>4
<1> QED
    BY <1>3, <1>4

LEMMA CInvNext == CInv /\ [CatalogueNext]_catalogueVars => CInv' /\ (WarmAnswer \/ UNCHANGED catalogueVars)
<1> SUFFICES ASSUME CInv, [CatalogueNext]_catalogueVars PROVE CInv' /\ (WarmAnswer \/ UNCHANGED catalogueVars)
    OBVIOUS
<1>1. CASE UNCHANGED catalogueVars
    BY <1>1 DEF CInv, CatalogueTypeOK, CatalogueSeesReload, Asked, catalogueVars
<1>2. CASE Arrive \/ Tick
    BY <1>2, ArriveInv, TickInv DEF Arrive, Tick, WarmAnswer
<1>3. ASSUME NEW t \in Lists, ListBegin(t) \/ Fetch(t) \/ Keep(t) PROVE CInv' /\ WarmAnswer
    BY <1>3, ListBeginInv, FetchInv, KeepInv DEF Keep, WarmAnswer
<1>4. ASSUME NEW r \in Reloads, AskHost(r) \/ Invalidate(r) PROVE CInv' /\ WarmAnswer
    BY <1>4, ReloadInv DEF AskHost, Invalidate, WarmAnswer
<1> QED
    BY <1>1, <1>2, <1>3, <1>4 DEF CatalogueNext

-----------------------------------------------------------------------------
\* Of list_models, reload_remote and unload_remote together.
THEOREM CatalogueInvariant == CatalogueSpec => []CInv
<1> QED
    BY CInvInit, CInvNext, PTL DEF CatalogueSpec

\* The cache and the listings keep their types.
THEOREM CatalogueTypeCorrect == CatalogueSpec => []CatalogueTypeOK
<1>1. CInv => CatalogueTypeOK
    BY DEF CInv
<1> QED
    BY <1>1, CatalogueInvariant, PTL

\* What was there when a reload was answered is in the cached catalogue, unless
\* the reload overtook the listing or its fetch failed (reload_remote).
THEOREM ReloadIsSeen == CatalogueSpec => []CatalogueSeesReload
<1>1. CInv => CatalogueSeesReload
    BY DEF CInv
<1> QED
    BY <1>1, CatalogueInvariant, PTL

\* A refresh answers from after its request, and a cached answer is younger
\* than the TTL (list_models).
THEOREM AnswersStayCurrent == CatalogueSpec => AnswersAreCurrent
<1> DEFINE Fresh ==
        \A t \in Lists : (stage[t] = "done" /\ list[t].refresh) =>
            \/ list[t].source = "live" /\ list[t].models >= list[t].known
            \/ list[t].source = "fallback"
<1>1. CInv => Fresh
    BY DEF CInv, Asked
<1>2. CatalogueSpec => []Fresh
    BY <1>1, CatalogueInvariant, PTL
<1>3. CInv /\ [CatalogueNext]_catalogueVars => [WarmAnswer]_catalogueVars
    BY CInvNext
<1>4. CatalogueSpec => [][WarmAnswer]_catalogueVars
    BY <1>3, CatalogueInvariant, PTL DEF CatalogueSpec
<1> QED
    BY <1>2, <1>4, PTL DEF AnswersAreCurrent, WarmAnswer
=============================================================================
