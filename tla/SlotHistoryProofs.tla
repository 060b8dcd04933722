-------------------------- MODULE SlotHistoryProofs --------------------------
(***************************************************************************)
(* The model slot, for any number of requests, streams, loads and unloads: *)
(* first what holds whatever overlaps (IInv); then, up to the first unload *)
(* or shutdown beside a load, that reloads run one at a time, the GPU      *)
(* holds one model, the status at rest is true, and the slot implements    *)
(* the documented machine (CarefulInv).                                    *)
(***************************************************************************)
EXTENDS SlotHistory, TLAPS

\* Positions at which a thread owns an instance the slot no longer, or not
\* yet, holds.
Owning == Closing \cup {"install"}

\* The lock is held exactly at the positions where the code is inside a with.
LockHeld ==
    \A t \in Threads : pc[t] \in Holding <=> lock = t

\* Locals are None outside the positions that use or own an instance.
LocalsCleared ==
    \A t \in Threads : pc[t] \notin Using \cup Owning => own[t] = NoBackend

\* The slot holds a live instance or none.
SlotLive == backend # NoBackend => backend \in Resident

\* A user works on the slot's instance.
UsersAgree ==
    \A t \in Threads : pc[t] \in Using => own[t] = backend /\ backend # NoBackend

\* Owners hold live instances, none of them the slot's, no two the same.
OwnersApart ==
    /\ \A t \in Threads : pc[t] \in Owning =>
          own[t] \in Resident /\ own[t] # backend
    /\ \A t, u \in Threads :
          pc[t] \in Owning /\ pc[u] \in Owning /\ own[t] = own[u] => t = u

\* A load that has not built yet has not been built before.
Fresh ==
    /\ closed \subseteq built
    /\ \A l \in Loads : pc[l] \in {"new", "take", "close", "build"} => l \notin built

IInv ==
    /\ TypeOK
    /\ LockHeld
    /\ LocalsCleared
    /\ SlotLive
    /\ UsersAgree
    /\ OwnersApart
    /\ Fresh

\* The invariant yields the properties the runs check.
LEMMA IInvImplies == IInv => TypeOK /\ SafeUse /\ SoleCloser
<1> SUFFICES ASSUME IInv PROVE TypeOK /\ SafeUse /\ SoleCloser
    OBVIOUS
<1>1. TypeOK
    BY DEF IInv
<1>2. SafeUse
    BY DEF IInv, SafeUse, LockHeld, UsersAgree, SlotLive, Holding
<1>3. SoleCloser
  <2> SUFFICES ASSUME NEW t \in Threads, pc[t] \in Closing
               PROVE  /\ own[t] \in Resident
                      /\ own[t] # backend
                      /\ \A u \in Threads \ {t} : own[u] # own[t]
      BY DEF SoleCloser
  <2>1. own[t] \in Resident /\ own[t] # backend
      BY DEF IInv, OwnersApart, Owning
  <2>2. own[t] # NoBackend
      BY <2>1, NamesAssumption DEF IInv, TypeOK, Resident
  <2>3. ASSUME NEW u \in Threads \ {t} PROVE own[u] # own[t]
      BY <2>1, <2>2 DEF IInv, OwnersApart, Owning, UsersAgree, LocalsCleared
  <2>4. QED
      BY <2>1, <2>3
<1>4. QED
    BY <1>1, <1>2, <1>3

LEMMA InitIInv == Init => IInv
<1> SUFFICES ASSUME Init PROVE IInv
    OBVIOUS
<1>1. TypeOK
  <2>1. PICK adopt \in BOOLEAN :
            /\ backend = IF adopt THEN Adopted ELSE NoBackend
            /\ loaded = backend
            /\ state = IF adopt THEN "ready" ELSE "empty"
            /\ built = IF adopt THEN {Adopted} ELSE {}
      BY DEF Init
  <2>2. state \in SlotStates /\ backend \in OptInstance /\ loaded \in OptInstance
      BY <2>1 DEF SlotStates, OptInstance, Instances
  <2>3. built \subseteq Instances
      BY <2>1 DEF Instances
  <2>4. steps \in [Streams -> 0 .. MaxSteps] /\ dones \in [Streams -> Nat]
      BY StepsAssumption DEF Init
  <2>5. QED
      BY <2>2, <2>3, <2>4 DEF Init, TypeOK, OptInstance
<1>2. LockHeld
    BY NamesAssumption DEF Init, LockHeld, Holding, Using
<1>3. LocalsCleared
    BY DEF Init, LocalsCleared
<1>4. SlotLive
    BY DEF Init, SlotLive, Resident
<1>5. UsersAgree /\ OwnersApart
    BY DEF Init, UsersAgree, OwnersApart, Using, Owning, Closing
<1>6. Fresh
    BY NamesAssumption DEF Init, Fresh
<1>7. QED
    BY <1>1, <1>2, <1>3, <1>4, <1>5, <1>6 DEF IInv

LEMMA NextIInv == IInv /\ [Next]_vars => IInv'
<1> SUFFICES ASSUME IInv, [Next]_vars PROVE IInv'
    OBVIOUS
<1> USE DEF IInv
<1>1. ASSUME NEW l \in Loads, StartLoad(l) PROVE IInv'
  <2> USE <1>1 DEF StartLoad, Goto, slotVars, instVars, sseVars
  <2>1. TypeOK'
      BY StepsAssumption DEF TypeOK, Threads, Requests, SlotStates, Ended, Instances, OptInstance
  <2>2. LockHeld'
      BY NamesAssumption DEF TypeOK, LockHeld, Threads, Requests, Holding, Using
  <2>3. LocalsCleared' /\ UsersAgree'
      BY NamesAssumption
         DEF TypeOK, LockHeld, LocalsCleared, UsersAgree, OwnersApart, SlotLive,
             Threads, Requests, Holding, Using, Owning, Closing
  <2>4. SlotLive' /\ OwnersApart'
      BY NamesAssumption DEF TypeOK, SlotLive, OwnersApart, UsersAgree, Fresh,
             Threads, Requests, Using, Owning, Closing, Resident, Instances, OptInstance
  <2>5. Fresh'
      BY DEF TypeOK, Fresh, OwnersApart, Owning, Closing, Resident, Threads, Requests
  <2>6. QED
      BY <2>1, <2>2, <2>3, <2>4, <2>5
<1>2. ASSUME NEW l \in Loads, LoadTake(l) PROVE IInv'
  <2> USE <1>2 DEF LoadTake, TakeBackend, Goto, slotVars, instVars, sseVars
  <2>1. TypeOK'
      BY StepsAssumption DEF TypeOK, Threads, Requests, SlotStates, Ended, Instances, OptInstance
  <2>2. LockHeld'
      BY NamesAssumption DEF TypeOK, LockHeld, Threads, Requests, Holding, Using
  <2>3. LocalsCleared' /\ UsersAgree'
      BY NamesAssumption
         DEF TypeOK, LockHeld, LocalsCleared, UsersAgree, OwnersApart, SlotLive,
             Threads, Requests, Holding, Using, Owning, Closing
  <2>4. SlotLive' /\ OwnersApart'
      BY NamesAssumption DEF TypeOK, SlotLive, OwnersApart, UsersAgree, Fresh,
             Threads, Requests, Using, Owning, Closing, Resident, Instances, OptInstance
  <2>5. Fresh'
      BY DEF TypeOK, Fresh, OwnersApart, Owning, Closing, Resident, Threads, Requests
  <2>6. QED
      BY <2>1, <2>2, <2>3, <2>4, <2>5
<1>3. ASSUME NEW l \in Loads, LoadClose(l) PROVE IInv'
  <2> USE <1>3 DEF LoadClose, CloseOld, Goto, slotVars, instVars, sseVars
  <2>1. TypeOK'
      BY StepsAssumption DEF TypeOK, Threads, Requests, SlotStates, Ended, Instances, OptInstance,
             OwnersApart, Owning, Closing, Resident
  <2>2. LockHeld'
      BY NamesAssumption DEF TypeOK, LockHeld, Threads, Requests, Holding, Using
  <2>3. LocalsCleared' /\ UsersAgree'
      BY NamesAssumption
         DEF TypeOK, LockHeld, LocalsCleared, UsersAgree, OwnersApart, SlotLive,
             Threads, Requests, Holding, Using, Owning, Closing
  <2>4. SlotLive' /\ OwnersApart'
      BY NamesAssumption DEF TypeOK, SlotLive, OwnersApart, UsersAgree, Fresh,
             Threads, Requests, Using, Owning, Closing, Resident, Instances, OptInstance
  <2>5. Fresh'
      BY DEF TypeOK, Fresh, OwnersApart, Owning, Closing, Resident, Threads, Requests
  <2>6. QED
      BY <2>1, <2>2, <2>3, <2>4, <2>5
<1>4. ASSUME NEW l \in Loads, LoadBuild(l) PROVE IInv'
  <2> USE <1>4 DEF LoadBuild, Goto, slotVars, instVars, sseVars
  <2>1. TypeOK'
      BY StepsAssumption DEF TypeOK, Threads, Requests, SlotStates, Ended, Instances, OptInstance
  <2>2. LockHeld'
      BY NamesAssumption DEF TypeOK, LockHeld, Threads, Requests, Holding, Using
  <2>3. LocalsCleared' /\ UsersAgree'
      BY NamesAssumption
         DEF TypeOK, LockHeld, LocalsCleared, UsersAgree, OwnersApart, SlotLive,
             Threads, Requests, Holding, Using, Owning, Closing
  <2>4. SlotLive' /\ OwnersApart'
      BY NamesAssumption DEF TypeOK, SlotLive, OwnersApart, UsersAgree, Fresh,
             Threads, Requests, Using, Owning, Closing, Resident, Instances, OptInstance
  <2>5. Fresh'
      BY DEF TypeOK, Fresh, OwnersApart, Owning, Closing, Resident, Threads, Requests
  <2>6. QED
      BY <2>1, <2>2, <2>3, <2>4, <2>5
<1>5. ASSUME NEW l \in Loads, LoadFail(l) PROVE IInv'
  <2> USE <1>5 DEF LoadFail, Goto, slotVars, instVars, sseVars
  <2>1. TypeOK'
      BY StepsAssumption DEF TypeOK, Threads, Requests, SlotStates, Ended, Instances, OptInstance
  <2>2. LockHeld'
      BY NamesAssumption DEF TypeOK, LockHeld, Threads, Requests, Holding, Using
  <2>3. LocalsCleared' /\ UsersAgree'
      BY NamesAssumption
         DEF TypeOK, LockHeld, LocalsCleared, UsersAgree, OwnersApart, SlotLive,
             Threads, Requests, Holding, Using, Owning, Closing
  <2>4. SlotLive' /\ OwnersApart'
      BY NamesAssumption DEF TypeOK, SlotLive, OwnersApart, UsersAgree, Fresh,
             Threads, Requests, Using, Owning, Closing, Resident, Instances, OptInstance
  <2>5. Fresh'
      BY DEF TypeOK, Fresh, OwnersApart, Owning, Closing, Resident, Threads, Requests
  <2>6. QED
      BY <2>1, <2>2, <2>3, <2>4, <2>5
<1>6. ASSUME NEW l \in Loads, LoadInstall(l) PROVE IInv'
  <2> USE <1>6 DEF LoadInstall, Goto, slotVars, instVars, sseVars
  <2>1. TypeOK'
      BY StepsAssumption DEF TypeOK, Threads, Requests, SlotStates, Ended, Instances, OptInstance
  <2>2. LockHeld'
      BY NamesAssumption DEF TypeOK, LockHeld, Threads, Requests, Holding, Using
  <2>3. LocalsCleared' /\ UsersAgree'
      BY NamesAssumption
         DEF TypeOK, LockHeld, LocalsCleared, UsersAgree, OwnersApart, SlotLive,
             Threads, Requests, Holding, Using, Owning, Closing
  <2>4. SlotLive' /\ OwnersApart'
      BY NamesAssumption DEF TypeOK, SlotLive, OwnersApart, UsersAgree, Fresh,
             Threads, Requests, Using, Owning, Closing, Resident, Instances, OptInstance
  <2>5. Fresh'
      BY DEF TypeOK, Fresh, OwnersApart, Owning, Closing, Resident, Threads, Requests
  <2>6. QED
      BY <2>1, <2>2, <2>3, <2>4, <2>5
<1>7. ASSUME NEW l \in Loads, LoadPublish(l) PROVE IInv'
  <2> USE <1>7 DEF LoadPublish, Goto, slotVars, instVars, sseVars
  <2>1. TypeOK'
      BY StepsAssumption DEF TypeOK, Threads, Requests, SlotStates, Ended, Instances, OptInstance
  <2>2. LockHeld'
      BY NamesAssumption DEF TypeOK, LockHeld, Threads, Requests, Holding, Using
  <2>3. LocalsCleared' /\ UsersAgree'
      BY NamesAssumption
         DEF TypeOK, LockHeld, LocalsCleared, UsersAgree, OwnersApart, SlotLive,
             Threads, Requests, Holding, Using, Owning, Closing
  <2>4. SlotLive' /\ OwnersApart'
      BY NamesAssumption DEF TypeOK, SlotLive, OwnersApart, UsersAgree, Fresh,
             Threads, Requests, Using, Owning, Closing, Resident, Instances, OptInstance
  <2>5. Fresh'
      BY DEF TypeOK, Fresh, OwnersApart, Owning, Closing, Resident, Threads, Requests
  <2>6. QED
      BY <2>1, <2>2, <2>3, <2>4, <2>5
<1>8. ASSUME NEW u \in Unloads, UnloadCheck(u) PROVE IInv'
  <2> USE <1>8 DEF UnloadCheck, Goto, slotVars, instVars, sseVars
  <2>1. TypeOK'
      BY StepsAssumption DEF TypeOK, Threads, Requests, SlotStates, Ended, Instances, OptInstance
  <2>2. LockHeld'
      BY NamesAssumption DEF TypeOK, LockHeld, Threads, Requests, Holding, Using
  <2>3. LocalsCleared' /\ UsersAgree'
      BY NamesAssumption
         DEF TypeOK, LockHeld, LocalsCleared, UsersAgree, OwnersApart, SlotLive,
             Threads, Requests, Holding, Using, Owning, Closing
  <2>4. SlotLive' /\ OwnersApart'
      BY NamesAssumption DEF TypeOK, SlotLive, OwnersApart, UsersAgree, Fresh,
             Threads, Requests, Using, Owning, Closing, Resident, Instances, OptInstance
  <2>5. Fresh'
      BY DEF TypeOK, Fresh, OwnersApart, Owning, Closing, Resident, Threads, Requests
  <2>6. QED
      BY <2>1, <2>2, <2>3, <2>4, <2>5
<1>9. ASSUME NEW u \in Unloads, UnloadTake(u) PROVE IInv'
  <2> USE <1>9 DEF UnloadTake, TakeBackend, Goto, slotVars, instVars, sseVars
  <2>1. TypeOK'
      BY StepsAssumption DEF TypeOK, Threads, Requests, SlotStates, Ended, Instances, OptInstance
  <2>2. LockHeld'
      BY NamesAssumption DEF TypeOK, LockHeld, Threads, Requests, Holding, Using
  <2>3. LocalsCleared' /\ UsersAgree'
      BY NamesAssumption
         DEF TypeOK, LockHeld, LocalsCleared, UsersAgree, OwnersApart, SlotLive,
             Threads, Requests, Holding, Using, Owning, Closing
  <2>4. SlotLive' /\ OwnersApart'
      BY NamesAssumption DEF TypeOK, SlotLive, OwnersApart, UsersAgree, Fresh,
             Threads, Requests, Using, Owning, Closing, Resident, Instances, OptInstance
  <2>5. Fresh'
      BY DEF TypeOK, Fresh, OwnersApart, Owning, Closing, Resident, Threads, Requests
  <2>6. QED
      BY <2>1, <2>2, <2>3, <2>4, <2>5
<1>10. ASSUME NEW u \in Unloads, UnloadClose(u) PROVE IInv'
  <2> USE <1>10 DEF UnloadClose, CloseOld, Goto, slotVars, instVars, sseVars
  <2>1. TypeOK'
      BY StepsAssumption DEF TypeOK, Threads, Requests, SlotStates, Ended, Instances, OptInstance,
             OwnersApart, Owning, Closing, Resident
  <2>2. LockHeld'
      BY NamesAssumption DEF TypeOK, LockHeld, Threads, Requests, Holding, Using
  <2>3. LocalsCleared' /\ UsersAgree'
      BY NamesAssumption
         DEF TypeOK, LockHeld, LocalsCleared, UsersAgree, OwnersApart, SlotLive,
             Threads, Requests, Holding, Using, Owning, Closing
  <2>4. SlotLive' /\ OwnersApart'
      BY NamesAssumption DEF TypeOK, SlotLive, OwnersApart, UsersAgree, Fresh,
             Threads, Requests, Using, Owning, Closing, Resident, Instances, OptInstance
  <2>5. Fresh'
      BY DEF TypeOK, Fresh, OwnersApart, Owning, Closing, Resident, Threads, Requests
  <2>6. QED
      BY <2>1, <2>2, <2>3, <2>4, <2>5
<1>11. ASSUME NEW u \in Unloads, UnloadClear(u) PROVE IInv'
  <2> USE <1>11 DEF UnloadClear, Goto, slotVars, instVars, sseVars
  <2>1. TypeOK'
      BY StepsAssumption DEF TypeOK, Threads, Requests, SlotStates, Ended, Instances, OptInstance
  <2>2. LockHeld'
      BY NamesAssumption DEF TypeOK, LockHeld, Threads, Requests, Holding, Using
  <2>3. LocalsCleared' /\ UsersAgree'
      BY NamesAssumption
         DEF TypeOK, LockHeld, LocalsCleared, UsersAgree, OwnersApart, SlotLive,
             Threads, Requests, Holding, Using, Owning, Closing
  <2>4. SlotLive' /\ OwnersApart'
      BY NamesAssumption DEF TypeOK, SlotLive, OwnersApart, UsersAgree, Fresh,
             Threads, Requests, Using, Owning, Closing, Resident, Instances, OptInstance
  <2>5. Fresh'
      BY DEF TypeOK, Fresh, OwnersApart, Owning, Closing, Resident, Threads, Requests
  <2>6. QED
      BY <2>1, <2>2, <2>3, <2>4, <2>5
<1>12. ASSUME NEW z \in Shutdowns, CloseMark(z) PROVE IInv'
  <2> USE <1>12 DEF CloseMark, Goto, slotVars, instVars, sseVars
  <2>1. TypeOK'
      BY StepsAssumption DEF TypeOK, Threads, Requests, SlotStates, Ended, Instances, OptInstance
  <2>2. LockHeld'
      BY NamesAssumption DEF TypeOK, LockHeld, Threads, Requests, Holding, Using
  <2>3. LocalsCleared' /\ UsersAgree'
      BY NamesAssumption
         DEF TypeOK, LockHeld, LocalsCleared, UsersAgree, OwnersApart, SlotLive,
             Threads, Requests, Holding, Using, Owning, Closing
  <2>4. SlotLive' /\ OwnersApart'
      BY NamesAssumption DEF TypeOK, SlotLive, OwnersApart, UsersAgree, Fresh,
             Threads, Requests, Using, Owning, Closing, Resident, Instances, OptInstance
  <2>5. Fresh'
      BY DEF TypeOK, Fresh, OwnersApart, Owning, Closing, Resident, Threads, Requests
  <2>6. QED
      BY <2>1, <2>2, <2>3, <2>4, <2>5
<1>13. ASSUME NEW z \in Shutdowns, CloseTake(z) PROVE IInv'
  <2> USE <1>13 DEF CloseTake, TakeBackend, Goto, slotVars, instVars, sseVars
  <2>1. TypeOK'
      BY StepsAssumption DEF TypeOK, Threads, Requests, SlotStates, Ended, Instances, OptInstance
  <2>2. LockHeld'
      BY NamesAssumption DEF TypeOK, LockHeld, Threads, Requests, Holding, Using
  <2>3. LocalsCleared' /\ UsersAgree'
      BY NamesAssumption
         DEF TypeOK, LockHeld, LocalsCleared, UsersAgree, OwnersApart, SlotLive,
             Threads, Requests, Holding, Using, Owning, Closing
  <2>4. SlotLive' /\ OwnersApart'
      BY NamesAssumption DEF TypeOK, SlotLive, OwnersApart, UsersAgree, Fresh,
             Threads, Requests, Using, Owning, Closing, Resident, Instances, OptInstance
  <2>5. Fresh'
      BY DEF TypeOK, Fresh, OwnersApart, Owning, Closing, Resident, Threads, Requests
  <2>6. QED
      BY <2>1, <2>2, <2>3, <2>4, <2>5
<1>14. ASSUME NEW z \in Shutdowns, CloseFinish(z) PROVE IInv'
  <2> USE <1>14 DEF CloseFinish, CloseOld, Goto, slotVars, instVars, sseVars
  <2>1. TypeOK'
      BY StepsAssumption DEF TypeOK, Threads, Requests, SlotStates, Ended, Instances, OptInstance,
             OwnersApart, Owning, Closing, Resident
  <2>2. LockHeld'
      BY NamesAssumption DEF TypeOK, LockHeld, Threads, Requests, Holding, Using
  <2>3. LocalsCleared' /\ UsersAgree'
      BY NamesAssumption
         DEF TypeOK, LockHeld, LocalsCleared, UsersAgree, OwnersApart, SlotLive,
             Threads, Requests, Holding, Using, Owning, Closing
  <2>4. SlotLive' /\ OwnersApart'
      BY NamesAssumption DEF TypeOK, SlotLive, OwnersApart, UsersAgree, Fresh,
             Threads, Requests, Using, Owning, Closing, Resident, Instances, OptInstance
  <2>5. Fresh'
      BY DEF TypeOK, Fresh, OwnersApart, Owning, Closing, Resident, Threads, Requests
  <2>6. QED
      BY <2>1, <2>2, <2>3, <2>4, <2>5
<1>15. ASSUME NEW c \in Calls, CallBegin(c) PROVE IInv'
  <2> USE <1>15 DEF CallBegin, Serving, Goto, slotVars, instVars, sseVars
  <2>1. TypeOK'
      BY StepsAssumption DEF TypeOK, Threads, Requests, SlotStates, Ended, Instances, OptInstance
  <2>2. LockHeld'
      BY NamesAssumption DEF TypeOK, LockHeld, Threads, Requests, Holding, Using
  <2>3. LocalsCleared' /\ UsersAgree'
      BY NamesAssumption
         DEF TypeOK, LockHeld, LocalsCleared, UsersAgree, OwnersApart, SlotLive,
             Threads, Requests, Holding, Using, Owning, Closing
  <2>4. SlotLive' /\ OwnersApart'
      BY NamesAssumption DEF TypeOK, SlotLive, OwnersApart, UsersAgree, Fresh,
             Threads, Requests, Using, Owning, Closing, Resident, Instances, OptInstance
  <2>5. Fresh'
      BY DEF TypeOK, Fresh, OwnersApart, Owning, Closing, Resident, Threads, Requests
  <2>6. QED
      BY <2>1, <2>2, <2>3, <2>4, <2>5
<1>16. ASSUME NEW c \in Calls, CallEnd(c) PROVE IInv'
  <2> USE <1>16 DEF CallEnd, Goto, slotVars, instVars, sseVars
  <2>1. TypeOK'
      BY StepsAssumption DEF TypeOK, Threads, Requests, SlotStates, Ended, Instances, OptInstance
  <2>2. LockHeld'
      BY NamesAssumption DEF TypeOK, LockHeld, Threads, Requests, Holding, Using
  <2>3. LocalsCleared' /\ UsersAgree'
      BY NamesAssumption
         DEF TypeOK, LockHeld, LocalsCleared, UsersAgree, OwnersApart, SlotLive,
             Threads, Requests, Holding, Using, Owning, Closing
  <2>4. SlotLive' /\ OwnersApart'
      BY NamesAssumption DEF TypeOK, SlotLive, OwnersApart, UsersAgree, Fresh,
             Threads, Requests, Using, Owning, Closing, Resident, Instances, OptInstance
  <2>5. Fresh'
      BY DEF TypeOK, Fresh, OwnersApart, Owning, Closing, Resident, Threads, Requests
  <2>6. QED
      BY <2>1, <2>2, <2>3, <2>4, <2>5
<1>17. ASSUME NEW s \in Streams, StreamCheck(s) PROVE IInv'
  <2> USE <1>17 DEF StreamCheck, Serving, Goto, slotVars, instVars, sseVars
  <2>1. TypeOK'
      BY StepsAssumption DEF TypeOK, Threads, Requests, SlotStates, Ended, Instances, OptInstance
  <2>2. LockHeld'
      BY NamesAssumption DEF TypeOK, LockHeld, Threads, Requests, Holding, Using
  <2>3. LocalsCleared' /\ UsersAgree'
      BY NamesAssumption
         DEF TypeOK, LockHeld, LocalsCleared, UsersAgree, OwnersApart, SlotLive,
             Threads, Requests, Holding, Using, Owning, Closing
  <2>4. SlotLive' /\ OwnersApart'
      BY NamesAssumption DEF TypeOK, SlotLive, OwnersApart, UsersAgree, Fresh,
             Threads, Requests, Using, Owning, Closing, Resident, Instances, OptInstance
  <2>5. Fresh'
      BY DEF TypeOK, Fresh, OwnersApart, Owning, Closing, Resident, Threads, Requests
  <2>6. QED
      BY <2>1, <2>2, <2>3, <2>4, <2>5
<1>18. ASSUME NEW s \in Streams, StreamBegin(s) PROVE IInv'
  <2> USE <1>18 DEF StreamBegin, Serving, YieldError, Goto, slotVars, instVars, sseVars
  <2>1. TypeOK'
      BY StepsAssumption DEF TypeOK, Threads, Requests, SlotStates, Ended, Instances, OptInstance
  <2>2. LockHeld'
      BY NamesAssumption DEF TypeOK, LockHeld, Threads, Requests, Holding, Using
  <2>3. LocalsCleared' /\ UsersAgree'
      BY NamesAssumption
         DEF TypeOK, LockHeld, LocalsCleared, UsersAgree, OwnersApart, SlotLive,
             Threads, Requests, Holding, Using, Owning, Closing
  <2>4. SlotLive' /\ OwnersApart'
      BY NamesAssumption DEF TypeOK, SlotLive, OwnersApart, UsersAgree, Fresh,
             Threads, Requests, Using, Owning, Closing, Resident, Instances, OptInstance
  <2>5. Fresh'
      BY DEF TypeOK, Fresh, OwnersApart, Owning, Closing, Resident, Threads, Requests
  <2>6. QED
      BY <2>1, <2>2, <2>3, <2>4, <2>5
<1>19. ASSUME NEW s \in Streams, StreamStep(s) PROVE IInv'
  <2> USE <1>19 DEF StreamStep, Goto, slotVars, instVars, sseVars
  <2>1. TypeOK'
      BY StepsAssumption DEF TypeOK, Threads, Requests, SlotStates, Ended, Instances, OptInstance
  <2>2. LockHeld'
      BY NamesAssumption DEF TypeOK, LockHeld, Threads, Requests, Holding, Using
  <2>3. LocalsCleared' /\ UsersAgree'
      BY NamesAssumption
         DEF TypeOK, LockHeld, LocalsCleared, UsersAgree, OwnersApart, SlotLive,
             Threads, Requests, Holding, Using, Owning, Closing
  <2>4. SlotLive' /\ OwnersApart'
      BY NamesAssumption DEF TypeOK, SlotLive, OwnersApart, UsersAgree, Fresh,
             Threads, Requests, Using, Owning, Closing, Resident, Instances, OptInstance
  <2>5. Fresh'
      BY DEF TypeOK, Fresh, OwnersApart, Owning, Closing, Resident, Threads, Requests
  <2>6. QED
      BY <2>1, <2>2, <2>3, <2>4, <2>5
<1>20. ASSUME NEW s \in Streams, StreamPull(s) PROVE IInv'
  <2> USE <1>20 DEF StreamPull, Goto, slotVars, instVars, sseVars
  <2>1. TypeOK'
      BY StepsAssumption DEF TypeOK, Threads, Requests, SlotStates, Ended, Instances, OptInstance
  <2>2. LockHeld'
      BY NamesAssumption DEF TypeOK, LockHeld, Threads, Requests, Holding, Using
  <2>3. LocalsCleared' /\ UsersAgree'
      BY NamesAssumption
         DEF TypeOK, LockHeld, LocalsCleared, UsersAgree, OwnersApart, SlotLive,
             Threads, Requests, Holding, Using, Owning, Closing
  <2>4. SlotLive' /\ OwnersApart'
      BY NamesAssumption DEF TypeOK, SlotLive, OwnersApart, UsersAgree, Fresh,
             Threads, Requests, Using, Owning, Closing, Resident, Instances, OptInstance
  <2>5. Fresh'
      BY DEF TypeOK, Fresh, OwnersApart, Owning, Closing, Resident, Threads, Requests
  <2>6. QED
      BY <2>1, <2>2, <2>3, <2>4, <2>5
<1>21. ASSUME NEW s \in Streams, StreamFail(s) PROVE IInv'
  <2> USE <1>21 DEF StreamFail, YieldError, Goto, slotVars, instVars, sseVars
  <2>1. TypeOK'
      BY StepsAssumption DEF TypeOK, Threads, Requests, SlotStates, Ended, Instances, OptInstance
  <2>2. LockHeld'
      BY NamesAssumption DEF TypeOK, LockHeld, Threads, Requests, Holding, Using
  <2>3. LocalsCleared' /\ UsersAgree'
      BY NamesAssumption
         DEF TypeOK, LockHeld, LocalsCleared, UsersAgree, OwnersApart, SlotLive,
             Threads, Requests, Holding, Using, Owning, Closing
  <2>4. SlotLive' /\ OwnersApart'
      BY NamesAssumption DEF TypeOK, SlotLive, OwnersApart, UsersAgree, Fresh,
             Threads, Requests, Using, Owning, Closing, Resident, Instances, OptInstance
  <2>5. Fresh'
      BY DEF TypeOK, Fresh, OwnersApart, Owning, Closing, Resident, Threads, Requests
  <2>6. QED
      BY <2>1, <2>2, <2>3, <2>4, <2>5
<1>22. ASSUME NEW s \in Streams, StreamFinish(s) PROVE IInv'
  <2> USE <1>22 DEF StreamFinish, Goto, slotVars, instVars, sseVars
  <2>1. TypeOK'
      BY StepsAssumption DEF TypeOK, Threads, Requests, SlotStates, Ended, Instances, OptInstance
  <2>2. LockHeld'
      BY NamesAssumption DEF TypeOK, LockHeld, Threads, Requests, Holding, Using
  <2>3. LocalsCleared' /\ UsersAgree'
      BY NamesAssumption
         DEF TypeOK, LockHeld, LocalsCleared, UsersAgree, OwnersApart, SlotLive,
             Threads, Requests, Holding, Using, Owning, Closing
  <2>4. SlotLive' /\ OwnersApart'
      BY NamesAssumption DEF TypeOK, SlotLive, OwnersApart, UsersAgree, Fresh,
             Threads, Requests, Using, Owning, Closing, Resident, Instances, OptInstance
  <2>5. Fresh'
      BY DEF TypeOK, Fresh, OwnersApart, Owning, Closing, Resident, Threads, Requests
  <2>6. QED
      BY <2>1, <2>2, <2>3, <2>4, <2>5
<1>23. ASSUME NEW s \in Streams, StreamReturn(s) PROVE IInv'
  <2> USE <1>23 DEF StreamReturn, Goto, slotVars, instVars, sseVars
  <2>1. TypeOK'
      BY StepsAssumption DEF TypeOK, Threads, Requests, SlotStates, Ended, Instances, OptInstance
  <2>2. LockHeld'
      BY NamesAssumption DEF TypeOK, LockHeld, Threads, Requests, Holding, Using
  <2>3. LocalsCleared' /\ UsersAgree'
      BY NamesAssumption
         DEF TypeOK, LockHeld, LocalsCleared, UsersAgree, OwnersApart, SlotLive,
             Threads, Requests, Holding, Using, Owning, Closing
  <2>4. SlotLive' /\ OwnersApart'
      BY NamesAssumption DEF TypeOK, SlotLive, OwnersApart, UsersAgree, Fresh,
             Threads, Requests, Using, Owning, Closing, Resident, Instances, OptInstance
  <2>5. Fresh'
      BY DEF TypeOK, Fresh, OwnersApart, Owning, Closing, Resident, Threads, Requests
  <2>6. QED
      BY <2>1, <2>2, <2>3, <2>4, <2>5
<1>24. ASSUME NEW s \in Streams, StreamAbort(s) PROVE IInv'
  <2> USE <1>24 DEF StreamAbort, Goto, slotVars, instVars, sseVars
  <2>1. TypeOK'
      BY StepsAssumption DEF TypeOK, Threads, Requests, SlotStates, Ended, Instances, OptInstance
  <2>2. LockHeld'
      BY NamesAssumption DEF TypeOK, LockHeld, Threads, Requests, Holding, Using
  <2>3. LocalsCleared' /\ UsersAgree'
      BY NamesAssumption
         DEF TypeOK, LockHeld, LocalsCleared, UsersAgree, OwnersApart, SlotLive,
             Threads, Requests, Holding, Using, Owning, Closing
  <2>4. SlotLive' /\ OwnersApart'
      BY NamesAssumption DEF TypeOK, SlotLive, OwnersApart, UsersAgree, Fresh,
             Threads, Requests, Using, Owning, Closing, Resident, Instances, OptInstance
  <2>5. Fresh'
      BY DEF TypeOK, Fresh, OwnersApart, Owning, Closing, Resident, Threads, Requests
  <2>6. QED
      BY <2>1, <2>2, <2>3, <2>4, <2>5
<1>25. CASE UNCHANGED vars
    BY <1>25 DEF vars, slotVars, instVars, sseVars, TypeOK, LockHeld, LocalsCleared,
        SlotLive, UsersAgree, OwnersApart, Fresh, Resident
<1>26. QED
    BY <1>1, <1>2, <1>3, <1>4, <1>5, <1>6, <1>7, <1>8, <1>9, <1>10, <1>11, <1>12, <1>13, <1>14, <1>15, <1>16, <1>17, <1>18, <1>19, <1>20, <1>21, <1>22, <1>23, <1>24, <1>25
    DEF Next, Load, Unload, Shutdown, Call, Stream

(***************************************************************************)
(* Theorems for every set of requests.                                     *)
(***************************************************************************)
THEOREM Inductive == Spec => []IInv
<1>1. QED
    BY InitIInv, NextIInv, PTL DEF Spec

\* Every variable of the slot and of its handlers keeps its type.
THEOREM TypeCorrect == Spec => []TypeOK
<1>1. QED
    BY Inductive, IInvImplies, PTL

\* No call and no stream, however many run, shares its backend, loses it to a
\* reload, unload or shutdown, or touches a closed one.
THEOREM UseIsSafe == Spec => []SafeUse
<1>1. QED
    BY Inductive, IInvImplies, PTL

\* Racing loads, unloads and the shutdown never close an instance twice, nor
\* one the slot still offers.
THEOREM ClosedBySoleOwner == Spec => []SoleCloser
<1>1. QED
    BY Inductive, IInvImplies, PTL

-----------------------------------------------------------------------------
(***************************************************************************)
(* Until an unload or a shutdown runs beside a load.                       *)
(***************************************************************************)
Enders == Unloads \cup Shutdowns

Moving(l) == pc[l] \in {"take", "close", "build", "install", "publish"}

\* Where the only resident instance is while load l is at its position.
Residence(l) ==
    /\ pc[l] = "take" => Resident = {backend} \ {NoBackend}
    /\ pc[l] = "close" => backend = NoBackend /\ Resident = {own[l]}
    /\ pc[l] = "build" => backend = NoBackend /\ Resident = {}
    /\ pc[l] = "install" => backend = NoBackend /\ own[l] = l /\ Resident = {l}
    /\ pc[l] = "publish" => backend = l /\ Resident = {l}

\* Unloads and shutdowns between taking the instance and writing the state.
Clearing(t) == pc[t] \in {"unload_close", "final_close", "clear"}

\* The slot when no load is under way: an unload or a shutdown that took the
\* instance is the only one to have it, and the state changes last (unload) or
\* first (shutdown).
AtRest ==
    /\ state # "loading"
    /\ \A t \in Enders : Clearing(t) => backend = NoBackend
    /\ \A t \in Enders : pc[t] \in {"unload_close", "final_close"} => Resident = {own[t]}
    /\ \/ \E t \in Enders : pc[t] \in {"unload_close", "final_close"}
       \/ Resident = {backend} \ {NoBackend}
    /\ state = "ready" =>
          \/ backend # NoBackend /\ loaded = backend
          \/ \E t \in Enders : Clearing(t)
    /\ state # "ready" =>
          \/ backend = NoBackend
          \/ \E z \in Shutdowns : pc[z] = "final_take"

\* Positions the threads of each kind can be at.
Roles ==
    /\ \A l \in Loads : pc[l] \in {"new", "refused", "done"} \/ Moving(l)
    /\ \A u \in Unloads :
          pc[u] \in {"new", "refused", "done", "unload_take", "unload_close", "clear"}
    /\ \A z \in Shutdowns : pc[z] \in {"new", "done", "final_take", "final_close"}

Alone ==
    /\ \A l \in Loads : Moving(l) => state = "loading" /\ Residence(l)
    /\ \A l, m \in Loads : Moving(l) /\ Moving(m) => l = m
    /\ \A l \in Loads, t \in Enders : Moving(l) => ~InFlight(t)

\* After the shutdown began nothing but a shutdown is under way.
Over ==
    ~Open => /\ state = "empty"
             /\ \A r \in Loads \cup Unloads : ~InFlight(r)

CarefulInv ==
    /\ Roles
    /\ Alone
    /\ (\A l \in Loads : ~Moving(l)) => AtRest
    /\ Over
    /\ Open => (error <=> state = "error")

LEMMA InitCareful == Init => CarefulInv
<1> SUFFICES ASSUME Init PROVE CarefulInv
    OBVIOUS
<1>1. \A t \in Threads : pc[t] = "new"
    BY DEF Init
<1>2. Loads \cup Enders \subseteq Threads
    BY DEF Threads, Requests, Enders
<1>3. AtRest
    BY <1>1, <1>2, NamesAssumption DEF Init, AtRest, Resident, Instances, Clearing
<1>4. Roles /\ Alone /\ Over
    BY <1>1, <1>2 DEF Roles, Alone, Over, Open, Moving, Enders, InFlight
<1>5. error <=> state = "error"
    BY DEF Init
<1>6. QED
    BY <1>3, <1>4, <1>5 DEF CarefulInv

\* Steps that leave the slot, the instances and the threads that swap them alone.
LEMMA Untouched ==
    ASSUME CarefulInv, UNCHANGED <<slotVars, instVars>>,
           \A t \in Loads \cup Enders : pc'[t] = pc[t] /\ own'[t] = own[t]
    PROVE  CarefulInv'
<1>1. \A l \in Loads : (Moving(l))' = Moving(l) /\ (Residence(l))' = Residence(l)
    BY DEF slotVars, instVars, Moving, Residence, Resident
<1>2. \A t \in Loads \cup Enders : (InFlight(t))' = InFlight(t) /\ (Clearing(t))' = Clearing(t)
    BY DEF InFlight, Clearing
<1>3. AtRest' = AtRest
    BY <1>2 DEF slotVars, instVars, AtRest, Resident, Enders
<1>4. Open' = Open
    BY DEF Open, Enders
<1>5. Roles' /\ Alone'
    BY <1>1, <1>2 DEF CarefulInv, Roles, Alone, slotVars, Enders
<1>6. QED
    BY <1>1, <1>2, <1>3, <1>4, <1>5 DEF CarefulInv, Over, slotVars, Enders

LEMMA NextCareful ==
    ASSUME IInv, CarefulInv, [Next]_vars, Serial'
    PROVE  CarefulInv'
<1> USE DEF IInv, CarefulInv
<1>0. /\ \A t \in Threads : \A w : [pc EXCEPT ![t] = w][t] = w
      /\ \A t \in Threads : \A w : [own EXCEPT ![t] = w][t] = w
      /\ Loads \subseteq Threads /\ Enders \subseteq Threads
    BY DEF TypeOK, Threads, Requests, Enders
<1>a. Loads \cap Enders = {} /\ Unloads \cap Shutdowns = {}
    BY RolesAssumption DEF Enders
<1>1. ASSUME NEW l \in Loads, StartLoad(l) PROVE CarefulInv'
  <2> USE <1>1 DEF StartLoad, Goto, slotVars, instVars, sseVars
  <2>1. /\ \A m \in Loads \ {l} : pc'[m] = pc[m]
        /\ \A t \in Enders : pc'[t] = pc[t] /\ own'[t] = own[t]
      BY <1>0, <1>a DEF TypeOK
  <2>2. Roles'
    <3>1. pc'[l] \in {"take", "refused"}
        BY <1>0 DEF TypeOK
    <3>2. QED
        BY <3>1, <2>1 DEF Roles, Moving, Enders
  <2>3. Open /\ Open'
      BY <2>1 DEF Open, Enders
  <2>a. CASE state = "loading"
    <3>1. \A m \in Loads : (Moving(m))' = Moving(m) /\ (Residence(m))' = Residence(m)
        BY <2>a, <1>0 DEF TypeOK, Moving, Residence, Resident
    <3>2. \A t \in Enders : (InFlight(t))' = InFlight(t)
        BY <2>1 DEF InFlight
    <3>3. Alone'
        BY <3>1, <3>2, <2>a DEF Alone
    <3>4. \E m \in Loads : (Moving(m))'
        BY <3>1, <2>a DEF AtRest
    <3>5. QED
        BY <2>2, <2>3, <2>a, <3>3, <3>4 DEF Over
  <2>b. CASE state # "loading"
    <3>1. \A m \in Loads \ {l} : ~Moving(m) /\ ~(Moving(m))'
        BY <2>b, <2>1 DEF Moving, Alone
    <3>2. ~Moving(l) /\ (Moving(l))' /\ (InFlight(l))'
        BY <2>b, <1>0 DEF TypeOK, Moving, InFlight, Ended
    <3>3. \A t \in Enders : ~(InFlight(t))' /\ ~InFlight(t)
        BY <3>2, <2>1 DEF Serial, InFlight, Enders
    <3>4. AtRest /\ \A t \in Enders : ~Clearing(t) /\ pc[t] # "final_take"
        BY <3>1, <3>2, <3>3 DEF Clearing, InFlight, Ended
    <3>5. (Residence(l))'
        BY <2>b, <3>4, <1>0 DEF TypeOK, AtRest, Residence, Resident, Clearing, Enders
    <3>6. Alone'
        BY <2>b, <3>1, <3>3, <3>5 DEF Alone
    <3>7. QED
        BY <2>2, <2>3, <2>b, <3>2, <3>6 DEF Over
  <2>c. QED
      BY <2>a, <2>b
<1>2. ASSUME NEW l \in Loads, LoadTake(l) PROVE CarefulInv'
  <2> USE <1>2 DEF LoadTake, TakeBackend, Goto, slotVars, instVars, sseVars
  <2>1. /\ \A m \in Loads \ {l} : pc'[m] = pc[m]
        /\ \A t \in Enders : pc'[t] = pc[t] /\ own'[t] = own[t]
        /\ Moving(l)
      BY <1>0, <1>a DEF TypeOK, Moving
  <2>2. Roles'
      BY <2>1, <1>0 DEF TypeOK, Roles, Moving
  <2>3. (\A m \in Loads \ {l} : ~Moving(m)) /\ (\A t \in Enders : ~InFlight(t))
      BY <2>1 DEF Alone
  <2>4. /\ \A m \in Loads \ {l} : ~(Moving(m))'
        /\ \A t \in Enders : ~(InFlight(t))' /\ ~(Clearing(t))'
      BY <2>1, <2>3 DEF Moving, InFlight, Clearing, Ended
  <2>5. (Moving(l))' => state' = "loading" /\ (Residence(l))'
      BY <2>1, <1>0, NamesAssumption
         DEF TypeOK, Alone, Moving, Residence, Resident, Fresh
  <2>6. Alone'
      BY <2>4, <2>5 DEF Alone
  <2>7. ~(Moving(l))' => AtRest'
      BY <2>1, <2>4, <1>0, NamesAssumption
         DEF TypeOK, Alone, AtRest, Clearing, Moving, Residence, Resident, Instances
  <2>8. Open /\ Open'
      BY <2>1, <1>a DEF Open, Over, Moving, InFlight, Ended, Enders
  <2>9. Over' /\ (error' <=> state' = "error")
      BY <2>8 DEF Over
  <2>10. QED
      BY <2>2, <2>6, <2>7, <2>9
<1>3. ASSUME NEW l \in Loads, LoadClose(l) PROVE CarefulInv'
  <2> USE <1>3 DEF LoadClose, CloseOld, Goto, slotVars, instVars, sseVars
  <2>1. /\ \A m \in Loads \ {l} : pc'[m] = pc[m]
        /\ \A t \in Enders : pc'[t] = pc[t] /\ own'[t] = own[t]
        /\ Moving(l)
      BY <1>0, <1>a DEF TypeOK, Moving
  <2>2. Roles'
      BY <2>1, <1>0 DEF TypeOK, Roles, Moving
  <2>3. (\A m \in Loads \ {l} : ~Moving(m)) /\ (\A t \in Enders : ~InFlight(t))
      BY <2>1 DEF Alone
  <2>4. /\ \A m \in Loads \ {l} : ~(Moving(m))'
        /\ \A t \in Enders : ~(InFlight(t))' /\ ~(Clearing(t))'
      BY <2>1, <2>3 DEF Moving, InFlight, Clearing, Ended
  <2>5. (Moving(l))' => state' = "loading" /\ (Residence(l))'
      BY <2>1, <1>0, NamesAssumption
         DEF TypeOK, Alone, Moving, Residence, Resident, Fresh
  <2>6. Alone'
      BY <2>4, <2>5 DEF Alone
  <2>7. ~(Moving(l))' => AtRest'
      BY <2>1, <2>4, <1>0, NamesAssumption
         DEF TypeOK, Alone, AtRest, Clearing, Moving, Residence, Resident, Instances
  <2>8. Open /\ Open'
      BY <2>1, <1>a DEF Open, Over, Moving, InFlight, Ended, Enders
  <2>9. Over' /\ (error' <=> state' = "error")
      BY <2>8 DEF Over
  <2>10. QED
      BY <2>2, <2>6, <2>7, <2>9
<1>4. ASSUME NEW l \in Loads, LoadBuild(l) PROVE CarefulInv'
  <2> USE <1>4 DEF LoadBuild, Goto, slotVars, instVars, sseVars
  <2>1. /\ \A m \in Loads \ {l} : pc'[m] = pc[m]
        /\ \A t \in Enders : pc'[t] = pc[t] /\ own'[t] = own[t]
        /\ Moving(l)
      BY <1>0, <1>a DEF TypeOK, Moving
  <2>2. Roles'
      BY <2>1, <1>0 DEF TypeOK, Roles, Moving
  <2>3. (\A m \in Loads \ {l} : ~Moving(m)) /\ (\A t \in Enders : ~InFlight(t))
      BY <2>1 DEF Alone
  <2>4. /\ \A m \in Loads \ {l} : ~(Moving(m))'
        /\ \A t \in Enders : ~(InFlight(t))' /\ ~(Clearing(t))'
      BY <2>1, <2>3 DEF Moving, InFlight, Clearing, Ended
  <2>5. (Moving(l))' => state' = "loading" /\ (Residence(l))'
      BY <2>1, <1>0, NamesAssumption
         DEF TypeOK, Alone, Moving, Residence, Resident, Fresh
  <2>6. Alone'
      BY <2>4, <2>5 DEF Alone
  <2>7. ~(Moving(l))' => AtRest'
      BY <2>1, <2>4, <1>0, NamesAssumption
         DEF TypeOK, Alone, AtRest, Clearing, Moving, Residence, Resident, Instances
  <2>8. Open /\ Open'
      BY <2>1, <1>a DEF Open, Over, Moving, InFlight, Ended, Enders
  <2>9. Over' /\ (error' <=> state' = "error")
      BY <2>8 DEF Over
  <2>10. QED
      BY <2>2, <2>6, <2>7, <2>9
<1>5. ASSUME NEW l \in Loads, LoadFail(l) PROVE CarefulInv'
  <2> USE <1>5 DEF LoadFail, Goto, slotVars, instVars, sseVars
  <2>1. /\ \A m \in Loads \ {l} : pc'[m] = pc[m]
        /\ \A t \in Enders : pc'[t] = pc[t] /\ own'[t] = own[t]
        /\ Moving(l)
      BY <1>0, <1>a DEF TypeOK, Moving
  <2>2. Roles'
      BY <2>1, <1>0 DEF TypeOK, Roles, Moving
  <2>3. (\A m \in Loads \ {l} : ~Moving(m)) /\ (\A t \in Enders : ~InFlight(t))
      BY <2>1 DEF Alone
  <2>4. /\ \A m \in Loads \ {l} : ~(Moving(m))'
        /\ \A t \in Enders : ~(InFlight(t))' /\ ~(Clearing(t))'
      BY <2>1, <2>3 DEF Moving, InFlight, Clearing, Ended
  <2>5. (Moving(l))' => state' = "loading" /\ (Residence(l))'
      BY <2>1, <1>0, NamesAssumption
         DEF TypeOK, Alone, Moving, Residence, Resident, Fresh
  <2>6. Alone'
      BY <2>4, <2>5 DEF Alone
  <2>7. ~(Moving(l))' => AtRest'
      BY <2>1, <2>4, <1>0, NamesAssumption
         DEF TypeOK, Alone, AtRest, Clearing, Moving, Residence, Resident, Instances
  <2>8. Open /\ Open'
      BY <2>1, <1>a DEF Open, Over, Moving, InFlight, Ended, Enders
  <2>9. Over' /\ (error' <=> state' = "error")
      BY <2>8 DEF Over
  <2>10. QED
      BY <2>2, <2>6, <2>7, <2>9
<1>6. ASSUME NEW l \in Loads, LoadInstall(l) PROVE CarefulInv'
  <2> USE <1>6 DEF LoadInstall, Goto, slotVars, instVars, sseVars
  <2>1. /\ \A m \in Loads \ {l} : pc'[m] = pc[m]
        /\ \A t \in Enders : pc'[t] = pc[t] /\ own'[t] = own[t]
        /\ Moving(l)
      BY <1>0, <1>a DEF TypeOK, Moving
  <2>2. Roles'
      BY <2>1, <1>0 DEF TypeOK, Roles, Moving
  <2>3. (\A m \in Loads \ {l} : ~Moving(m)) /\ (\A t \in Enders : ~InFlight(t))
      BY <2>1 DEF Alone
  <2>4. /\ \A m \in Loads \ {l} : ~(Moving(m))'
        /\ \A t \in Enders : ~(InFlight(t))' /\ ~(Clearing(t))'
      BY <2>1, <2>3 DEF Moving, InFlight, Clearing, Ended
  <2>5. (Moving(l))' => state' = "loading" /\ (Residence(l))'
      BY <2>1, <1>0, NamesAssumption
         DEF TypeOK, Alone, Moving, Residence, Resident, Fresh
  <2>6. Alone'
      BY <2>4, <2>5 DEF Alone
  <2>7. ~(Moving(l))' => AtRest'
      BY <2>1, <2>4, <1>0, NamesAssumption
         DEF TypeOK, Alone, AtRest, Clearing, Moving, Residence, Resident, Instances
  <2>8. Open /\ Open'
      BY <2>1, <1>a DEF Open, Over, Moving, InFlight, Ended, Enders
  <2>9. Over' /\ (error' <=> state' = "error")
      BY <2>8 DEF Over
  <2>10. QED
      BY <2>2, <2>6, <2>7, <2>9
<1>7. ASSUME NEW l \in Loads, LoadPublish(l) PROVE CarefulInv'
  <2> USE <1>7 DEF LoadPublish, Goto, slotVars, instVars, sseVars
  <2>1. /\ \A m \in Loads \ {l} : pc'[m] = pc[m]
        /\ \A t \in Enders : pc'[t] = pc[t] /\ own'[t] = own[t]
        /\ Moving(l)
      BY <1>0, <1>a DEF TypeOK, Moving
  <2>2. Roles'
      BY <2>1, <1>0 DEF TypeOK, Roles, Moving
  <2>3. (\A m \in Loads \ {l} : ~Moving(m)) /\ (\A t \in Enders : ~InFlight(t))
      BY <2>1 DEF Alone
  <2>4. /\ \A m \in Loads \ {l} : ~(Moving(m))'
        /\ \A t \in Enders : ~(InFlight(t))' /\ ~(Clearing(t))'
      BY <2>1, <2>3 DEF Moving, InFlight, Clearing, Ended
  <2>5. (Moving(l))' => state' = "loading" /\ (Residence(l))'
      BY <2>1, <1>0, NamesAssumption
         DEF TypeOK, Alone, Moving, Residence, Resident, Fresh
  <2>6. Alone'
      BY <2>4, <2>5 DEF Alone
  <2>7. ~(Moving(l))' => AtRest'
      BY <2>1, <2>4, <1>0, NamesAssumption
         DEF TypeOK, Alone, AtRest, Clearing, Moving, Residence, Resident, Instances
  <2>8. Open /\ Open'
      BY <2>1, <1>a DEF Open, Over, Moving, InFlight, Ended, Enders
  <2>9. Over' /\ (error' <=> state' = "error")
      BY <2>8 DEF Over
  <2>10. QED
      BY <2>2, <2>6, <2>7, <2>9
<1>8. ASSUME NEW u \in Unloads, UnloadCheck(u) PROVE CarefulInv'
  <2> USE <1>8 DEF UnloadCheck, Goto, slotVars, instVars, sseVars
  <2>1. /\ \A l \in Loads : pc'[l] = pc[l] /\ own'[l] = own[l]
        /\ \A t \in Enders \ {u} : pc'[t] = pc[t] /\ own'[t] = own[t]
      BY <1>0, <1>a DEF TypeOK, Enders
  <2>2. Roles'
      BY <2>1, <1>0, <1>a DEF TypeOK, Roles, Moving, Enders
  <2>3. Open /\ Open'
      BY <2>1, <1>a DEF Open, Enders
  <2>4. \A l \in Loads : (Moving(l))' = Moving(l) /\ (Residence(l))' = Residence(l)
      BY <2>1 DEF Moving, Residence, Resident
  <2>5. pc[u] = "new" /\ pc'[u] \in {"refused", "unload_take"}
      BY <1>0 DEF TypeOK, Enders
  <2>6. Alone'
    <3>1. ASSUME NEW l \in Loads, (Moving(l))' PROVE \A t \in Enders : ~(InFlight(t))'
        BY <3>1 DEF Serial, Enders, Moving, InFlight, Ended
    <3>2. QED
        BY <3>1, <2>4 DEF Alone
  <2>7. AtRest => AtRest'
    <3>1. \A t \in Enders : (Clearing(t))' <=> Clearing(t)
        BY <2>1, <2>5 DEF Clearing
    <3>2. \A t \in Enders : pc[t] \in {"unload_close", "final_close"} =>
              pc'[t] = pc[t] /\ own'[t] = own[t]
        BY <2>1, <2>5
    <3>3. \A t \in Enders : pc'[t] \in {"unload_close", "final_close"} => pc'[t] = pc[t]
        BY <2>1, <2>5
    <3>4. \A z \in Shutdowns : pc'[z] = pc[z]
        BY <2>1, <1>a DEF Enders
    <3>5. QED
        BY <3>1, <3>2, <3>3, <3>4 DEF AtRest, Resident
  <2>8. QED
      BY <2>2, <2>3, <2>4, <2>6, <2>7 DEF Over
<1>9. ASSUME NEW u \in Unloads, UnloadTake(u) PROVE CarefulInv'
  <2> USE <1>9 DEF UnloadTake, TakeBackend, Goto, slotVars, instVars, sseVars
  <2>1. /\ \A l \in Loads : pc'[l] = pc[l] /\ own'[l] = own[l]
        /\ \A t \in Enders \ {u} : pc'[t] = pc[t] /\ own'[t] = own[t]
      BY <1>0, <1>a DEF TypeOK, Enders
  <2>2. Roles'
      BY <2>1, <1>0, <1>a DEF TypeOK, Roles, Moving, Enders
  <2>3. \A l \in Loads : ~Moving(l) /\ ~(Moving(l))'
      BY <2>1, <1>0 DEF TypeOK, Alone, Moving, InFlight, Ended, Enders, Serial
  <2>4. AtRest'
      BY <2>1, <2>3, <1>0, <1>a, NamesAssumption
         DEF TypeOK, AtRest, Clearing, Resident, OwnersApart, SlotLive, Owning, Closing,
             Enders, Instances
  <2>8. Over' /\ (Open' => (error' <=> state' = "error"))
      BY <2>1, <1>0, <1>a DEF TypeOK, Over, Open, Enders, InFlight, Ended, Drained, Requests
  <2>9. QED
      BY <2>2, <2>3, <2>4, <2>8 DEF Alone
<1>10. ASSUME NEW u \in Unloads, UnloadClose(u) PROVE CarefulInv'
  <2> USE <1>10 DEF UnloadClose, CloseOld, Goto, slotVars, instVars, sseVars
  <2>1. /\ \A l \in Loads : pc'[l] = pc[l] /\ own'[l] = own[l]
        /\ \A t \in Enders \ {u} : pc'[t] = pc[t] /\ own'[t] = own[t]
      BY <1>0, <1>a DEF TypeOK, Enders
  <2>2. Roles'
      BY <2>1, <1>0, <1>a DEF TypeOK, Roles, Moving, Enders
  <2>3. \A l \in Loads : ~Moving(l) /\ ~(Moving(l))'
      BY <2>1, <1>0 DEF TypeOK, Alone, Moving, InFlight, Ended, Enders, Serial
  <2>4. AtRest'
      BY <2>1, <2>3, <1>0, <1>a, NamesAssumption
         DEF TypeOK, AtRest, Clearing, Resident, OwnersApart, SlotLive, Owning, Closing,
             Enders, Instances
  <2>8. Over' /\ (Open' => (error' <=> state' = "error"))
      BY <2>1, <1>0, <1>a DEF TypeOK, Over, Open, Enders, InFlight, Ended, Drained, Requests
  <2>9. QED
      BY <2>2, <2>3, <2>4, <2>8 DEF Alone
<1>11. ASSUME NEW u \in Unloads, UnloadClear(u) PROVE CarefulInv'
  <2> USE <1>11 DEF UnloadClear, Goto, slotVars, instVars, sseVars
  <2>1. /\ \A l \in Loads : pc'[l] = pc[l] /\ own'[l] = own[l]
        /\ \A t \in Enders \ {u} : pc'[t] = pc[t] /\ own'[t] = own[t]
      BY <1>0, <1>a DEF TypeOK, Enders
  <2>2. Roles'
      BY <2>1, <1>0, <1>a DEF TypeOK, Roles, Moving, Enders
  <2>3. \A l \in Loads : ~Moving(l) /\ ~(Moving(l))'
      BY <2>1, <1>0 DEF TypeOK, Alone, Moving, InFlight, Ended, Enders, Serial
  <2>4. AtRest'
      BY <2>1, <2>3, <1>0, <1>a, NamesAssumption
         DEF TypeOK, AtRest, Clearing, Resident, OwnersApart, SlotLive, Owning, Closing,
             Enders, Instances
  <2>8. Over' /\ (Open' => (error' <=> state' = "error"))
      BY <2>1, <1>0, <1>a DEF TypeOK, Over, Open, Enders, InFlight, Ended, Drained, Requests
  <2>9. QED
      BY <2>2, <2>3, <2>4, <2>8 DEF Alone
<1>12. ASSUME NEW z \in Shutdowns, CloseMark(z) PROVE CarefulInv'
  <2> USE <1>12 DEF CloseMark, Goto, slotVars, instVars, sseVars
  <2>1. /\ \A l \in Loads : pc'[l] = pc[l] /\ own'[l] = own[l]
        /\ \A t \in Enders \ {z} : pc'[t] = pc[t] /\ own'[t] = own[t]
      BY <1>0, <1>a DEF TypeOK, Enders
  <2>2. Roles'
      BY <2>1, <1>0, <1>a DEF TypeOK, Roles, Moving, Enders
  <2>3. \A l \in Loads : ~Moving(l) /\ ~(Moving(l))'
      BY <2>1, <1>0 DEF TypeOK, Alone, Moving, InFlight, Ended, Enders, Serial
  <2>4. AtRest'
      BY <2>1, <2>3, <1>0, <1>a, NamesAssumption
         DEF TypeOK, AtRest, Clearing, Resident, OwnersApart, SlotLive, Owning, Closing,
             Enders, Instances
  <2>5. \A u \in Unloads : ~(InFlight(u))'
      BY <2>1, <1>a, RolesAssumption DEF Drained, Requests, InFlight, Enders
  <2>6. \A l \in Loads : ~(InFlight(l))'
      BY <2>2, <2>3 DEF Roles, InFlight, Ended
  <2>7. ~Open'
      BY <1>0 DEF TypeOK, Open, Enders
  <2>8. Over' /\ (Open' => (error' <=> state' = "error"))
      BY <2>5, <2>6, <2>7 DEF Over
  <2>9. QED
      BY <2>2, <2>3, <2>4, <2>8 DEF Alone
<1>13. ASSUME NEW z \in Shutdowns, CloseTake(z) PROVE CarefulInv'
  <2> USE <1>13 DEF CloseTake, TakeBackend, Goto, slotVars, instVars, sseVars
  <2>1. /\ \A l \in Loads : pc'[l] = pc[l] /\ own'[l] = own[l]
        /\ \A t \in Enders \ {z} : pc'[t] = pc[t] /\ own'[t] = own[t]
      BY <1>0, <1>a DEF TypeOK, Enders
  <2>2. Roles'
      BY <2>1, <1>0, <1>a DEF TypeOK, Roles, Moving, Enders
  <2>3. \A l \in Loads : ~Moving(l) /\ ~(Moving(l))'
      BY <2>1, <1>0 DEF TypeOK, Alone, Moving, InFlight, Ended, Enders, Serial
  <2>4. AtRest'
      BY <2>1, <2>3, <1>0, <1>a, NamesAssumption
         DEF TypeOK, AtRest, Clearing, Resident, OwnersApart, SlotLive, Owning, Closing,
             Enders, Instances, Over, Open
  <2>8. Over' /\ (Open' => (error' <=> state' = "error"))
      BY <2>1, <1>0, <1>a DEF TypeOK, Over, Open, Enders, InFlight, Ended, Drained, Requests
  <2>9. QED
      BY <2>2, <2>3, <2>4, <2>8 DEF Alone
<1>14. ASSUME NEW z \in Shutdowns, CloseFinish(z) PROVE CarefulInv'
  <2> USE <1>14 DEF CloseFinish, CloseOld, Goto, slotVars, instVars, sseVars
  <2>1. /\ \A l \in Loads : pc'[l] = pc[l] /\ own'[l] = own[l]
        /\ \A t \in Enders \ {z} : pc'[t] = pc[t] /\ own'[t] = own[t]
      BY <1>0, <1>a DEF TypeOK, Enders
  <2>2. Roles'
      BY <2>1, <1>0, <1>a DEF TypeOK, Roles, Moving, Enders
  <2>3. \A l \in Loads : ~Moving(l) /\ ~(Moving(l))'
      BY <2>1, <1>0 DEF TypeOK, Alone, Moving, InFlight, Ended, Enders, Serial
  <2>4. AtRest'
    <3>1. AtRest /\ z \in Enders /\ pc[z] = "final_close"
        BY <2>3 DEF Enders
    <3>2. backend = NoBackend /\ Resident = {own[z]}
        BY <3>1 DEF AtRest, Clearing
    <3>3. \A t \in Enders \ {z} : pc[t] \notin {"unload_close", "final_close"}
        BY <3>1, <3>2, <1>0 DEF AtRest, OwnersApart, Owning, Closing
    <3>4. Resident' = {} /\ pc'[z] = "done"
        BY <3>1, <3>2, <1>0 DEF Resident
    <3>5. \A t \in Enders : pc'[t] \notin {"unload_close", "final_close"}
        BY <3>3, <3>4, <2>1
    <3>6. state = "empty"
        BY <3>1, <1>a DEF Over, Open
    <3>7. QED
        BY <3>1, <3>2, <3>4, <3>5, <3>6 DEF AtRest
  <2>8. Over' /\ (Open' => (error' <=> state' = "error"))
      BY <2>1, <1>0, <1>a DEF TypeOK, Over, Open, Enders, InFlight, Ended, Drained, Requests
  <2>9. QED
      BY <2>2, <2>3, <2>4, <2>8 DEF Alone
<1>15. ASSUME NEW c \in Calls, Call(c) PROVE CarefulInv'
  <2>1. c \notin Loads \cup Enders
      BY RolesAssumption DEF Enders
  <2>2. QED
      BY <1>15, <2>1, <1>0, Untouched
      DEF TypeOK, Call, CallBegin, CallEnd, Goto, slotVars, instVars
<1>16. ASSUME NEW s \in Streams, Stream(s) PROVE CarefulInv'
  <2>1. s \notin Loads \cup Enders
      BY RolesAssumption DEF Enders
  <2>2. QED
      BY <1>16, <2>1, <1>0, Untouched
      DEF TypeOK, Stream, StreamCheck, StreamBegin, StreamStep, StreamPull, StreamFail,
          StreamFinish, StreamReturn, StreamAbort, YieldError, Goto,
          slotVars, instVars, sseVars
<1>17. CASE UNCHANGED vars
    BY <1>17, Untouched DEF vars
<1>18. QED
    BY <1>1, <1>2, <1>3, <1>4, <1>5, <1>6, <1>7, <1>8, <1>9, <1>10, <1>11, <1>12,
       <1>13, <1>14, <1>15, <1>16, <1>17
    DEF Next, Load, Unload, Shutdown

LEMMA CarefulImplies ==
    ASSUME IInv, CarefulInv
    PROVE  OneLoad /\ OneResident /\ StatusTellsTruth
<1> USE DEF CarefulInv
<1>1. \A l \in Loads : InFlight(l) <=> Moving(l)
    BY DEF Roles, InFlight, Moving, Ended
<1>2. OneLoad
    BY <1>1 DEF Alone, OneLoad
<1>3. OneResident
  <2>1. CASE \E l \in Loads : Moving(l)
      BY <2>1 DEF Alone, OneResident, Residence, Moving
  <2>2. CASE \A l \in Loads : ~Moving(l)
      BY <2>2 DEF OneResident, AtRest, Moving
  <2>3. QED
      BY <2>1, <2>2
<1>4. StatusTellsTruth
  <2> SUFFICES ASSUME Quiet
               PROVE  /\ state = "ready" => backend # NoBackend /\ loaded = backend
                      /\ state # "ready" => backend = NoBackend
                      /\ Resident = {backend} \ {NoBackend}
                      /\ Open => (error <=> state = "error")
      BY DEF StatusTellsTruth
  <2>1. AtRest
      BY <1>1 DEF Quiet
  <2>2. \A t \in Enders : pc[t] \notin {"unload_close", "final_close", "clear", "final_take"}
      BY DEF Quiet, Enders, InFlight, Ended
  <2>3. QED
      BY <2>1, <2>2 DEF AtRest, Clearing, Enders
<1>5. QED
    BY <1>2, <1>3, <1>4

THEOREM HInductive == HSpec => [](IInv /\ (mixed \/ CarefulInv))
<1>1. HInit => IInv /\ (mixed \/ CarefulInv)
    BY InitIInv, InitCareful DEF HInit
<1>2. ASSUME IInv /\ (mixed \/ CarefulInv), [HNext]_hvars
      PROVE  (IInv /\ (mixed \/ CarefulInv))'
  <2>1. [Next]_vars /\ (UNCHANGED hvars \/ Note)
      BY <1>2 DEF HNext, Next, hvars
  <2>2. IInv'
      BY <1>2, <2>1, NextIInv
  <2>3. ASSUME ~mixed' PROVE CarefulInv'
    <3>1. CarefulInv
        BY <1>2, <2>1, <2>3 DEF Note, hvars
    <3>2. CASE UNCHANGED hvars
      <4>1. UNCHANGED <<slotVars, instVars>> /\ pc' = pc /\ own' = own
          BY <3>2 DEF hvars, vars
      <4>2. QED
          BY <3>1, <4>1, Untouched
    <3>3. CASE Note
        BY <1>2, <2>1, <2>3, <3>1, <3>3, NextCareful DEF Note
    <3>4. QED
        BY <2>1, <3>2, <3>3
  <2>4. QED
      BY <2>2, <2>3
<1>3. QED
    BY <1>1, <1>2, PTL DEF HSpec

\* However many reloads, unloads, calls and streams there are: until an unload
\* or a shutdown meets a load, loads never overlap, the GPU never holds two
\* models nor builds one beside another, and at rest the status is true.
THEOREM SlotIsTrue == HSpec => []SlotStaysTrue
<1>1. IInv /\ (mixed \/ CarefulInv) => SlotStaysTrue
    BY CarefulImplies DEF SlotStaysTrue
<1>2. QED
    BY HInductive, <1>1, PTL

-----------------------------------------------------------------------------
(***************************************************************************)
(* The refinement.                                                         *)
(***************************************************************************)
Users == {t \in Threads : pc[t] \in Using}

\* The machine's client is whoever holds the lock in the middle of its work.
LEMMA UsersAre ==
    ASSUME IInv
    PROVE  /\ lock = Free => Users = {}
           /\ \A t \in Threads : pc[t] \in Using => Users = {t}
           /\ backend = NoBackend => Users = {}
BY NamesAssumption DEF IInv, LockHeld, UsersAgree, Users, Holding

\* A thread's step among positions without backend code moves no client.
LEMMA UsersStay ==
    ASSUME DOMAIN pc = Threads, NEW t \in Threads, NEW w,
           pc' = [pc EXCEPT ![t] = w],
           pc[t] \in Using <=> w \in Using
    PROVE  Users' = Users
BY DEF Users

LEMMA UsersJoin ==
    ASSUME DOMAIN pc = Threads, NEW t \in Threads, NEW w \in Using,
           pc[t] \notin Using, Users = {}, pc' = [pc EXCEPT ![t] = w]
    PROVE  Users' = {t}
BY DEF Users

LEMMA UsersLeave ==
    ASSUME DOMAIN pc = Threads, NEW t \in Threads, NEW w,
           w \notin Using, Users = {t}, pc' = [pc EXCEPT ![t] = w]
    PROVE  Users' = {}
BY DEF Users

Mapped == [Promise!Next]_(Promise!avars)

LEMMA MappedStep ==
    ASSUME IInv, CarefulInv, CarefulInv', [Next]_vars
    PROVE  Mapped
<1> USE DEF IInv, CarefulInv
<1>0. /\ DOMAIN pc = Threads
      /\ \A t \in Threads : \A w : [pc EXCEPT ![t] = w][t] = w
      /\ Loads \cup Enders \cup Calls \cup Streams \subseteq Threads
    BY DEF TypeOK, Threads, Requests, Enders
<1>1. ASSUME state' = state, backend' = backend, Users' = Users PROVE Mapped
    BY <1>1 DEF Mapped, Promise!avars, Users
<1>2. ASSUME Users = {}, Users' = {}, state' = state, backend' = NoBackend PROVE Mapped
    BY <1>2 DEF Mapped, Promise!Next, Promise!Retire, Users
<1>3. ASSUME NEW l \in Loads, Load(l) PROVE Mapped
  <2>0. l \in Threads
      BY <1>0
  <2>1. CASE StartLoad(l)
    <3> USE <2>1 DEF StartLoad, Goto
    <3>1. Users' = Users
        BY <1>0, UsersStay DEF Using
    <3>2. CASE state = "loading"
        BY <3>1, <3>2, <1>1
    <3>3. CASE state # "loading"
        BY <3>1, <3>3 DEF Mapped, Promise!Next, Promise!Accept, Users
    <3>4. QED
        BY <3>2, <3>3
  <2>2. CASE LoadTake(l)
    <3> USE <2>2 DEF LoadTake, TakeBackend, Goto
    <3>1. Users = {}
        BY UsersAre
    <3>2. Users' = Users
        BY <1>0, UsersStay DEF Using
    <3>3. QED
        BY <3>1, <3>2, <1>2
  <2>3. CASE LoadClose(l)
    <3>1. Users' = Users
        BY <2>3, <1>0, UsersStay DEF Using, LoadClose, CloseOld, Goto
    <3>2. QED
        BY <3>1, <2>3, <1>1 DEF LoadClose, CloseOld, slotVars
  <2>4. CASE LoadBuild(l)
    <3>1. Users' = Users
        BY <2>4, <1>0, UsersStay DEF Using, LoadBuild, Goto
    <3>2. QED
        BY <3>1, <2>4, <1>1 DEF LoadBuild, slotVars
  <2>5. CASE LoadFail(l)
    <3>1. Users' = Users
        BY <2>5, <1>0, UsersStay DEF Using, LoadFail, Goto
    <3>2. state = "loading" /\ backend = NoBackend
        BY <2>5 DEF LoadFail, Alone, Moving, Residence
    <3>3. QED
        BY <3>1, <3>2, <2>5 DEF LoadFail, Mapped, Promise!Next, Promise!Fail, Users
  <2>6. CASE LoadInstall(l)
    <3>1. Users' = Users
        BY <2>6, <1>0, UsersStay DEF Using, LoadInstall, Goto
    <3>2. state = "loading" /\ backend = NoBackend /\ own[l] = l
        BY <2>6 DEF LoadInstall, Alone, Moving, Residence
    <3>3. state' = state /\ backend' \in Instances
        BY <3>2, <2>6 DEF LoadInstall, Instances
    <3>4. QED
        BY <3>1, <3>2, <3>3 DEF Mapped, Promise!Next, Promise!Provide, Users
  <2>7. CASE LoadPublish(l)
    <3>1. Users' = Users
        BY <2>7, <1>0, UsersStay DEF Using, LoadPublish, Goto
    <3>2. state = "loading" /\ backend # NoBackend
        BY <2>7, NamesAssumption DEF LoadPublish, Alone, Moving, Residence, Instances
    <3>3. QED
        BY <3>1, <3>2, <2>7 DEF LoadPublish, Mapped, Promise!Next, Promise!Publish, Users
  <2>8. QED
      BY <1>3, <2>1, <2>2, <2>3, <2>4, <2>5, <2>6, <2>7 DEF Load
<1>4. ASSUME NEW u \in Unloads, Unload(u) PROVE Mapped
  <2>0. u \in Threads
      BY <1>0 DEF Enders
  <2>1. CASE UnloadCheck(u)
    <3>1. Users' = Users
        BY <2>1, <2>0, <1>0, UsersStay DEF Using, UnloadCheck, Goto
    <3>2. QED
        BY <3>1, <2>1, <1>1 DEF UnloadCheck, slotVars
  <2>2. CASE UnloadTake(u)
    <3> USE <2>2 DEF UnloadTake, TakeBackend, Goto
    <3>1. Users = {}
        BY UsersAre
    <3>2. Users' = Users
        BY <2>0, <1>0, UsersStay DEF Using
    <3>3. QED
        BY <3>1, <3>2, <1>2
  <2>3. CASE UnloadClose(u)
    <3>1. Users' = Users
        BY <2>3, <2>0, <1>0, UsersStay DEF Using, UnloadClose, CloseOld, Goto
    <3>2. QED
        BY <3>1, <2>3, <1>1 DEF UnloadClose, CloseOld, slotVars
  <2>4. CASE UnloadClear(u)
    <3>1. Users' = Users
        BY <2>4, <2>0, <1>0, UsersStay DEF Using, UnloadClear, Goto
    <3>2. InFlight(u) /\ u \in Enders /\ Clearing(u)
        BY <2>4 DEF UnloadClear, InFlight, Ended, Enders, Clearing
    <3>3. AtRest
        BY <3>2 DEF Alone
    <3>4. state # "loading" /\ Users = {}
        BY <3>2, <3>3, UsersAre DEF AtRest
    <3>5. QED
        BY <3>1, <3>4, <2>4 DEF UnloadClear, Mapped, Promise!Next, Promise!Clear, Users
  <2>5. QED
      BY <1>4, <2>1, <2>2, <2>3, <2>4 DEF Unload
<1>5. ASSUME NEW z \in Shutdowns, Shutdown(z) PROVE Mapped
  <2>0. z \in Threads
      BY <1>0 DEF Enders
  <2>1. CASE CloseMark(z)
    <3>1. Users' = Users
        BY <2>1, <2>0, <1>0, UsersStay DEF Using, CloseMark, Goto
    <3>2. Users = {}
      <4>1. \A t \in Calls \cup Streams \cup Unloads : pc[t] \notin Using
          BY <2>1, RolesAssumption DEF CloseMark, Drained, Requests, InFlight, Using, Ended
      <4>2. \A t \in Loads \cup Shutdowns : pc[t] \notin Using
          BY DEF Roles, Moving, Using
      <4>3. QED
          BY <4>1, <4>2 DEF Users, Threads, Requests
    <3>3. state # "loading"
      <4>1. InFlight(z)' /\ z \in Enders
          BY <2>1, <2>0, <1>0 DEF CloseMark, Goto, InFlight, Ended, Enders
      <4>2. \A l \in Loads : pc'[l] = pc[l]
          BY <2>1, <1>0, RolesAssumption DEF CloseMark, Goto
      <4>3. \A l \in Loads : ~Moving(l)
          BY <4>1, <4>2 DEF Alone, Moving
      <4>4. QED
          BY <4>3 DEF AtRest
    <3>4. QED
        BY <3>1, <3>2, <3>3, <2>1 DEF CloseMark, Mapped, Promise!Next, Promise!Clear, Users
  <2>2. CASE CloseTake(z)
    <3> USE <2>2 DEF CloseTake, TakeBackend, Goto
    <3>1. Users = {}
        BY UsersAre
    <3>2. Users' = Users
        BY <2>0, <1>0, UsersStay DEF Using
    <3>3. QED
        BY <3>1, <3>2, <1>2
  <2>3. CASE CloseFinish(z)
    <3>1. Users' = Users
        BY <2>3, <2>0, <1>0, UsersStay DEF Using, CloseFinish, CloseOld, Goto
    <3>2. QED
        BY <3>1, <2>3, <1>1 DEF CloseFinish, CloseOld, slotVars
  <2>4. QED
      BY <1>5, <2>1, <2>2, <2>3 DEF Shutdown
<1>6. ASSUME NEW c \in Calls, Call(c) PROVE Mapped
  <2>0. c \in Threads
      BY <1>0
  <2>1. CASE CallBegin(c)
    <3> USE <2>1 DEF CallBegin, Goto
    <3>1. CASE Serving
      <4>1. Users = {}
          BY UsersAre
      <4>2. Users' = {c}
          BY <3>1, <4>1, <2>0, <1>0, UsersJoin DEF Using
      <4>3. QED
          BY <3>1, <4>1, <4>2 DEF Serving, slotVars, Mapped, Promise!Next, Promise!Use, Users
    <3>2. CASE ~Serving
      <4>1. Users' = Users
          BY <3>2, <2>0, <1>0, UsersStay DEF Using
      <4>2. QED
          BY <4>1, <1>1 DEF slotVars
    <3>3. QED
        BY <3>1, <3>2
  <2>2. CASE CallEnd(c)
    <3>1. Users = {c}
        BY <2>2, <2>0, UsersAre DEF CallEnd, Using
    <3>2. Users' = {}
        BY <3>1, <2>2, <2>0, <1>0, UsersLeave DEF CallEnd, Goto, Using
    <3>3. QED
        BY <3>1, <3>2, <2>2 DEF CallEnd, slotVars, Mapped, Promise!Next, Promise!Leave, Users
  <2>3. QED
      BY <1>6, <2>1, <2>2 DEF Call
<1>7. ASSUME NEW s \in Streams, Stream(s) PROVE Mapped
  <2>0. s \in Threads
      BY <1>0
  <2>a. state' = state /\ backend' = backend
      BY <1>7 DEF Stream, StreamCheck, StreamBegin, StreamStep, StreamPull, StreamFail,
                  StreamFinish, StreamReturn, StreamAbort, slotVars
  <2>b. ASSUME Users = {s}, Users' = {} PROVE Mapped
      BY <2>a, <2>b DEF Mapped, Promise!Next, Promise!Leave, Users
  <2>1. CASE StreamCheck(s)
    <3>1. Users' = Users
        BY <2>1, <2>0, <1>0, UsersStay DEF Using, StreamCheck, Goto
    <3>2. QED
        BY <3>1, <2>a, <1>1
  <2>2. CASE StreamBegin(s)
    <3> USE <2>2 DEF StreamBegin, YieldError, Goto
    <3>1. CASE Serving
      <4>1. Users = {}
          BY UsersAre
      <4>2. Users' = {s}
          BY <3>1, <4>1, <2>0, <1>0, UsersJoin DEF Using
      <4>3. QED
          BY <3>1, <4>1, <4>2, <2>a DEF Serving, Mapped, Promise!Next, Promise!Use, Users
    <3>2. CASE ~Serving
      <4>1. Users' = Users
          BY <3>2, <2>0, <1>0, UsersStay DEF Using
      <4>2. QED
          BY <4>1, <2>a, <1>1
    <3>3. QED
        BY <3>1, <3>2
  <2>3. CASE StreamStep(s) \/ StreamPull(s) \/ StreamReturn(s)
    <3>1. Users' = Users
        BY <2>3, <2>0, <1>0, UsersStay DEF Using, StreamStep, StreamPull, StreamReturn, Goto
    <3>2. QED
        BY <3>1, <2>a, <1>1
  <2>4. CASE StreamFail(s) \/ StreamFinish(s)
    <3>1. Users = {s}
        BY <2>4, <2>0, UsersAre DEF StreamFail, StreamFinish, Using
    <3>2. Users' = {}
        BY <3>1, <2>4, <2>0, <1>0, UsersLeave
        DEF StreamFail, StreamFinish, YieldError, Goto, Using
    <3>3. QED
        BY <3>1, <3>2, <2>b
  <2>5. CASE StreamAbort(s)
    <3>1. CASE pc[s] = "yielded"
      <4>1. Users = {s}
          BY <3>1, <2>0, UsersAre DEF Using
      <4>2. Users' = {}
          BY <4>1, <2>5, <2>0, <1>0, UsersLeave DEF StreamAbort, Goto, Using
      <4>3. QED
          BY <4>1, <4>2, <2>b
    <3>2. CASE pc[s] # "yielded"
      <4>1. Users' = Users
          BY <3>2, <2>5, <2>0, <1>0, UsersStay DEF StreamAbort, Goto, Using
      <4>2. QED
          BY <4>1, <2>a, <1>1
    <3>3. QED
        BY <3>1, <3>2
  <2>6. QED
      BY <1>7, <2>1, <2>2, <2>3, <2>4, <2>5 DEF Stream
<1>8. CASE UNCHANGED vars
    BY <1>8, <1>1 DEF vars, slotVars, Users
<1>9. QED
    BY <1>3, <1>4, <1>5, <1>6, <1>7, <1>8 DEF Next

\* Until an unload or a shutdown meets a load, the threads and locks of the
\* slot implement the documented machine.
THEOREM KeepsItsPromise == HSpec => KeepsPromise
<1>1. HInit => Promise!Init
  <2> SUFFICES ASSUME HInit PROVE Promise!Init
      OBVIOUS
  <2>1. backend \in OptInstance /\ state = IF backend = NoBackend THEN "empty" ELSE "ready"
      BY NamesAssumption DEF HInit, Init, OptInstance, Instances
  <2>2. Users = {}
      BY DEF HInit, Init, Users, Using
  <2>3. QED
      BY <2>1, <2>2 DEF Promise!Init, OptInstance, Users
<1>2. ASSUME IInv /\ (mixed \/ CarefulInv), (IInv /\ (mixed \/ CarefulInv))', [HNext]_hvars
      PROVE  [mixed' \/ Promise!Next]_(Promise!avars)
  <2>1. [Next]_vars
      BY <1>2 DEF HNext, Next, hvars
  <2>2. ~mixed' => CarefulInv
      BY <1>2 DEF HNext, hvars, Note
  <2>3. ~mixed' => Mapped
      BY <1>2, <2>1, <2>2, MappedStep
  <2>4. QED
      BY <2>3 DEF Mapped
<1>3. QED
    BY HInductive, <1>1, <1>2, PTL DEF HSpec, KeepsPromise
=============================================================================
