------------------------- MODULE ModelControlProofs -------------------------
(***************************************************************************)
(* For any hosts, flows of the page, users and failing requests: every     *)
(* variable keeps its type and no remembered piece is of a model before    *)
(* the handle's (CInv), and a page that is left in peace tells the truth   *)
(* when it is at rest (SInv).                                              *)
(***************************************************************************)
EXTENDS ModelControl, FiniteSetTheorems, TLAPS

Infos == {"tick_info", "load_info", "unload_info"}
Pages == {"mount", "tick", "load", "unload", "unload_models"} \cup Infos

\* The flow of each function stands where the middleware can be with its
\* request, with an answer of the kind it asks for.
Replies(at) == IF at \in Infos THEN [Hosts -> SlotType] \cup {None} ELSE SlotType \cup {None}
FlowType(at) ==
    [at : Pages \cup {"free"}, of : Hosts \cup {None},
     call : {"none", "sent", "refresh", "apply", "accepted", "answered"},
     reply : Replies(at), news : SlotType \cup {None},
     listing : BOOLEAN, s : States \cup {"unknown"}]

FlowOK(w) ==
    /\ w \in FlowType(w.at)
    /\ w.at # "free" => w.of \in Hosts
    /\ w.at \in {"free", "unload_models"} => w.call = "none"
    /\ w.at = "mount" => w.call # "accepted" /\ (w.call = "none" => w.listing)
    /\ w.at = "tick" => w.call \in {"sent", "refresh", "apply", "answered"}
    /\ w.at = "load" => w.call \in {"sent", "accepted", "answered"}
    /\ w.at = "unload" => w.call \in {"sent", "refresh", "apply", "answered"}
    /\ w.at \in Infos => w.call \in {"sent", "answered"}
    /\ w.at \in Infos /\ w.call = "answered" => w.reply \in [Hosts -> SlotType]
    /\ w.call \in {"refresh", "apply"} => w.reply \in SlotType
    /\ w.call = "apply" => w.news \in SlotType
    /\ w.at \in {"mount", "tick"} /\ w.call = "answered" => w.reply \in SlotType

FlowsOK == DOMAIN flow = Flows /\ \A f \in Flows : FlowOK(flow[f])

\* A load that is on its way counts as accepted.
Sent(w, h) == w.at = "load" /\ w.call = "sent" /\ w.of = h
Pending(h) == {f \in Flows : Sent(flow[f], h)}

Counted ==
    /\ acts \in 0 .. MaxActs
    /\ want \in [Hosts -> Nat]
    /\ \A h \in Hosts : want[h] + Cardinality(Pending(h)) <= acts

Hosted ==
    /\ slot \in [Hosts -> SlotType] /\ handle \in [Hosts -> SlotType] /\ store \in [Hosts -> SlotType]
    /\ \A h \in Hosts : slot[h].state = "ready" => slot[h].model = want[h]

Paged ==
    /\ host \in Hosts
    /\ status # None => status \in [of : Hosts, state : States, model : OptModel]
    /\ busy \in BOOLEAN /\ timer \in BOOLEAN
    /\ field \in OptModel
    /\ followed \subseteq Hosts

Within(x, m) == x.model # None => x.model <= m

\* What a handle knows of a host is not newer than the host, and what is
\* remembered of it not older than the handle.
Ordered ==
    /\ \A h \in Hosts : Within(slot[h], want[h]) /\ Within(handle[h], want[h])
    /\ \A f \in Flows : flow[f].call = "apply" => Within(flow[f].news, want[flow[f].of])

Remembered ==
    /\ pieces \in [Read -> OptModel] /\ asked \in [Read -> OptModel] /\ overtaken \subseteq Read
    /\ \A h \in Read \ overtaken : handle[h].model # None =>
          /\ asked[h] # None => asked[h] >= handle[h].model
          /\ pieces[h] # None => pieces[h] >= handle[h].model

CInv == FlowsOK /\ Counted /\ Hosted /\ Paged /\ Ordered /\ Remembered

-----------------------------------------------------------------------------
(***************************************************************************)
(* Flows.                                                                  *)
(***************************************************************************)
LEMMA IdleOK == FlowOK(Idle) /\ Idle.at = "free" /\ Idle.call = "none"
BY DEF FlowOK, FlowType, Idle, Replies, Infos, Pages

LEMMA BeginOK ==
    ASSUME NEW at \in Pages \ {"unload_models"}, NEW h \in Hosts
    PROVE  /\ FlowOK(Begin(at, h))
           /\ Begin(at, h).at = at /\ Begin(at, h).call = "sent" /\ Begin(at, h).of = h
           /\ Begin(at, h).reply = None
BY DEF FlowOK, FlowType, Idle, Begin, Replies, Infos, Pages

LEMMA ModelsOK ==
    ASSUME NEW h \in Hosts
    PROVE  FlowOK([Idle EXCEPT !.at = "unload_models", !.of = h, !.listing = TRUE])
BY DEF FlowOK, FlowType, Idle, Replies, Infos, Pages

LEMMA HeardOK ==
    ASSUME NEW x, FlowOK(x), x.at = "mount", x.listing
    PROVE  FlowOK([x EXCEPT !.call = "none", !.reply = None])
BY DEF FlowOK, FlowType, Replies, Infos, Pages

LEMMA PutOK ==
    ASSUME FlowsOK, NEW f \in Flows, NEW new, FlowOK(new), Put(f, new)
    PROVE  FlowsOK'
<1>1. DOMAIN flow' = Flows
    BY DEF FlowsOK, Put
<1>2. \A g \in Flows : flow'[g] = IF g = f THEN new ELSE flow[g]
    BY DEF FlowsOK, Put
<1>3. \A g \in Flows : FlowOK(flow'[g])
    BY <1>2 DEF FlowsOK
<1> QED
    BY <1>1, <1>3 DEF FlowsOK

LEMMA ServeFlows ==
    ASSUME NamesAssumption, FlowsOK, Hosted, NEW f \in Flows, Serve(f) \/ ServeFails(f)
    PROVE  FlowsOK'
<1> DEFINE w == flow[f]
<1>0. FlowOK(w)
    BY DEF FlowsOK
<1>1. CASE ServeStatus(f)
    <2>1. w.of \in Hosts /\ slot[w.of] \in SlotType /\ Unreachable \in SlotType
        BY <1>0, <1>1 DEF FlowOK, ServeStatus, Hosted, Unreachable, Slot, SlotType, States, OptModel
    <2>2. PICK s \in SlotType : Put(f, [w EXCEPT !.call = "refresh", !.reply = s]) \/ Put(f, Answered(f, s))
        BY <1>1, <2>1 DEF ServeStatus
    <2>3. FlowOK([w EXCEPT !.call = "refresh", !.reply = s]) /\ FlowOK(Answered(f, s))
        BY <1>0, <1>1 DEF FlowOK, FlowType, Answered, ServeStatus, Replies, Infos, Pages
    <2> QED
        BY <2>2, <2>3, PutOK
<1>2. CASE FetchInfo(f)
    <2>1. w.of \in Hosts /\ slot[w.of] \in SlotType
        BY <1>0, <1>2 DEF FlowOK, FetchInfo, Hosted
    <2>2. FlowOK([w EXCEPT !.call = "apply", !.news = slot[w.of]]) /\ FlowOK([w EXCEPT !.call = "answered"])
        BY <1>0, <1>2, <2>1 DEF FlowOK, FlowType, FetchInfo, Replies, Infos, Pages
    <2> QED
        BY <1>2, <2>2, PutOK DEF FetchInfo
<1>3. CASE ApplyInfo(f)
    <2>1. FlowOK([w EXCEPT !.call = "answered", !.news = None])
        BY <1>0, <1>3 DEF FlowOK, FlowType, ApplyInfo, Replies, Infos, Pages
    <2> QED
        BY <1>3, <2>1, PutOK DEF ApplyInfo
<1>4. CASE ServeReload(f)
    <2>1. FlowOK(Answered(f, None)) /\ FlowOK([w EXCEPT !.call = "accepted"])
        BY <1>0, <1>4 DEF FlowOK, FlowType, ServeReload, Answered, Replies, Infos, Pages
    <2> QED
        BY <1>4, <2>1, PutOK DEF ServeReload
<1>5. CASE AnswerReload(f)
    <2>1. w.at = "load" /\ w.of \in Hosts /\ slot[w.of] \in SlotType
        BY <1>0, <1>5 DEF FlowOK, FlowType, AnswerReload, Hosted, Infos, Pages
    <2>2. FlowOK(Answered(f, slot[w.of]))
        BY <1>0, <1>5, <2>1 DEF FlowOK, FlowType, Answered, Replies, Infos, Pages
    <2> QED
        BY <1>5, <2>2, PutOK DEF AnswerReload
<1>6. CASE ServeUnload(f)
    <2>1. w.of \in Hosts /\ Slot("empty", None) \in SlotType
        BY <1>0, <1>6 DEF FlowOK, ServeUnload, Slot, SlotType, States, OptModel
    <2>2. FlowOK(Answered(f, None)) /\ FlowOK([w EXCEPT !.call = "refresh", !.reply = Slot("empty", None)])
        BY <1>0, <1>6, <2>1 DEF FlowOK, FlowType, ServeUnload, Answered, Replies, Infos, Pages
    <2>3. CASE slot[w.of].state = "loading"
        BY <1>6, <2>2, <2>3, PutOK DEF ServeUnload
    <2>4. CASE slot[w.of].state # "loading"
        <3>1. slot'[w.of] = Slot("empty", None)
            BY <1>6, <2>1, <2>4 DEF ServeUnload, Hosted
        <3> QED
            BY <1>6, <2>2, <2>4, <3>1, PutOK DEF ServeUnload
    <2> QED
        BY <2>3, <2>4
<1>7. CASE ServeInfo(f)
    <2>1. w.at \in Infos /\ handle \in [Hosts -> SlotType]
        BY <1>7 DEF ServeInfo, Infos, Hosted
    <2>2. FlowOK(Answered(f, handle))
        BY <1>0, <2>1 DEF FlowOK, FlowType, Answered, Replies, Infos, Pages
    <2> QED
        BY <1>7, <2>2, PutOK DEF ServeInfo
<1>8. CASE ServeFails(f)
    <2>1. FlowOK(Answered(f, None))
        BY <1>0, <1>8 DEF FlowOK, FlowType, ServeFails, Answered, Replies, Infos, Pages
    <2> QED
        BY <1>8, <2>1, PutOK DEF ServeFails
<1> QED
    BY <1>1, <1>2, <1>3, <1>4, <1>5, <1>6, <1>7, <1>8 DEF Serve

\* The page's side: what it shows is typed, and so are the flows it starts.
LEMMA TakenOK ==
    ASSUME NamesAssumption, FlowsOK, Paged, NEW f \in Flows, NEW answer \in BOOLEAN, TakeStatus(f, answer),
           answer => flow[f].reply \in SlotType, flow[f].at # "free"
    PROVE  /\ status' # None => status' \in [of : Hosts, state : States, model : OptModel]
           /\ Shown \in States \cup {"unknown"}
           /\ answer => /\ status' # None /\ status'.of = flow[f].of
                        /\ status'.state = flow[f].reply.state /\ status'.model = flow[f].reply.model
                        /\ Shown = flow[f].reply.state
<1>1. flow[f].of \in Hosts
    BY DEF FlowsOK, FlowOK
<1>2. CASE answer
    <2>1. From(flow[f].of, flow[f].reply) \in [of : Hosts, state : States, model : OptModel]
        BY <1>1, <1>2 DEF From, SlotType
    <2>2. From(flow[f].of, flow[f].reply) # None
        BY <2>1 DEF NamesAssumption
    <2> QED
        BY <1>2, <2>1, <2>2 DEF TakeStatus, Shown, From
<1>3. CASE ~answer
    BY <1>3 DEF TakeStatus, Shown, Paged
<1> QED
    BY <1>2, <1>3

LEMMA DeliverFlows ==
    ASSUME NamesAssumption, FlowsOK, Hosted, Paged, NEW f \in Flows, Deliver(f)
    PROVE  FlowsOK'
<1> DEFINE w == flow[f]
<1>0. FlowOK(w) /\ host \in Hosts
    BY DEF FlowsOK, Paged
<1> USE IdleOK
<1>1. CASE MountStatus(f)
    <2>1. CASE w.listing
        <3>1. FlowOK([w EXCEPT !.call = "none", !.reply = None])
            BY <1>0, <1>1, <2>1, HeardOK DEF MountStatus
        <3> QED
            BY <1>1, <2>1, <3>1, PutOK DEF MountStatus
    <2>2. CASE ~w.listing
        BY <1>1, <2>2, PutOK DEF MountStatus
    <2> QED
        BY <2>1, <2>2
<1>2. CASE MountModels(f)
    <2>1. CASE w.call # "none"
        <3>1. FlowOK([w EXCEPT !.listing = FALSE])
            BY <1>0, <1>2, <2>1 DEF FlowOK, FlowType, MountModels, Replies, Infos, Pages
        <3> QED
            BY <1>2, <2>1, <3>1, PutOK DEF MountModels
    <2>2. CASE w.call = "none"
        BY <1>2, <2>2, PutOK DEF MountModels
    <2> QED
        BY <2>1, <2>2
<1>3. CASE Tick(f)
    <2>1. Shown \in States \cup {"unknown"}
        <3>1. w.call = "answered" => w.reply \in SlotType
            BY <1>0, <1>3 DEF Tick, FlowOK
        <3>2. PICK answer \in BOOLEAN : TakeStatus(f, answer) /\ w.call = "answered" /\ w.at = "tick"
            BY <1>3, Zenon DEF Tick, Arrives, Lost
        <3> QED
            BY <3>1, <3>2, TakenOK
    <2>2. Begin("tick_info", host) \in FlowType("tick_info") /\ FlowOK(Begin("tick_info", host))
        BY <1>0, BeginOK DEF Pages, Infos, FlowOK
    <2>3. FlowOK([Begin("tick_info", host) EXCEPT !.s = Shown])
        BY <2>1, <2>2 DEF FlowOK, FlowType, Replies, Infos, Pages
    <2> QED
        BY <1>3, <2>3, PutOK DEF Tick
<1>4. CASE LoadAnswer(f)
    <2>1. FlowOK(Begin("load_info", host))
        BY <1>0, BeginOK DEF Pages, Infos
    <2> QED
        BY <1>4, <2>1, PutOK DEF LoadAnswer
<1>5. CASE UnloadAnswer(f)
    <2>1. FlowOK(Begin("unload_info", host))
        BY <1>0, BeginOK DEF Pages, Infos
    <2> QED
        BY <1>5, <2>1, PutOK DEF UnloadAnswer
<1>6. w.at \in Infos => FlowOK(AfterInfo(f))
    <2>1. FlowOK([Idle EXCEPT !.at = "unload_models", !.of = host, !.listing = TRUE])
        BY <1>0, ModelsOK
    <2> QED
        BY <2>1 DEF AfterInfo, Infos
<1>7. CASE InfoLost(f)
    BY <1>6, <1>7, PutOK DEF InfoLost, Infos
<1>8. CASE UnloadModels(f)
    BY <1>8, PutOK DEF UnloadModels
<1>9. CASE \E g \in Flows : InfoAnswer(f, g)
    <2>1. PICK g \in Flows : InfoAnswer(f, g)
        BY <1>9
    <2>2. FlowOK(Begin("mount", host)) /\ FlowOK(AfterInfo(f))
        BY <1>0, <1>6, <2>1, BeginOK DEF Pages, Infos, InfoAnswer
    <2>3. DOMAIN flow' = Flows
        BY <2>1 DEF InfoAnswer, FlowsOK
    <2>4. \A e \in Flows : flow'[e] \in {flow[e], AfterInfo(f), Begin("mount", host)}
        BY <2>1 DEF InfoAnswer, FlowsOK
    <2> QED
        BY <2>2, <2>3, <2>4 DEF FlowsOK
<1> QED
    BY <1>1, <1>2, <1>3, <1>4, <1>5, <1>7, <1>8, <1>9 DEF Deliver

LEMMA UserFlows ==
    ASSUME FlowsOK, Paged, NEW f \in Flows, User(f) \/ Poll(f)
    PROVE  FlowsOK'
<1>1. host \in Hosts /\ \A at \in Pages \ {"unload_models"}, h \in Hosts : FlowOK(Begin(at, h))
    BY BeginOK DEF Paged
<1>2. PICK at \in Pages \ {"unload_models"}, h \in Hosts : Put(f, Begin(at, h))
    BY <1>1 DEF User, Poll, ClickLoad, ClickUnload, ChooseHost, Pages, Infos
<1> QED
    BY <1>1, <1>2, PutOK

\* What the middleware and the page make of the calls: the one sends nothing,
\* the other no load, and only refresh_info brings news.
SameNews(new, old) == new.call = "apply" => old.call = "apply" /\ new.news = old.news /\ new.of = old.of

LEMMA ServeCalls ==
    ASSUME FlowsOK, NEW f \in Flows, Serve(f) \/ ServeFails(f)
    PROVE  \E new : /\ Put(f, new)
                    /\ new.at = flow[f].at /\ new.of = flow[f].of /\ new.call # "sent"
                    /\ ~FetchInfo(f) => new.call # "apply"
<1> DEFINE w == flow[f]
           After(new) == /\ new.at = w.at /\ new.of = w.of /\ new.call # "sent"
                         /\ ~FetchInfo(f) => new.call # "apply"
<1>1. w \in FlowType(w.at)
    BY DEF FlowsOK, FlowOK
<1>2. \A s : After([w EXCEPT !.call = "refresh", !.reply = s]) /\ After(Answered(f, s))
    BY <1>1 DEF FlowType, Answered
<1>3. FetchInfo(f) => \A s : After([w EXCEPT !.call = "apply", !.news = s])
    BY <1>1 DEF FlowType
<1>4. /\ \A s : After([w EXCEPT !.call = "answered", !.news = s])
      /\ After([w EXCEPT !.call = "answered"]) /\ After([w EXCEPT !.call = "accepted"])
    BY <1>1 DEF FlowType
<1> SUFFICES \E new : Put(f, new) /\ After(new)
    OBVIOUS
<1> HIDE DEF After
<1>5. CASE ServeStatus(f)
    BY <1>2, <1>5 DEF ServeStatus
<1>6. CASE FetchInfo(f)
    BY <1>3, <1>4, <1>6 DEF FetchInfo
<1>7. CASE ApplyInfo(f)
    BY <1>4, <1>7 DEF ApplyInfo
<1>8. CASE ServeReload(f) \/ AnswerReload(f)
    BY <1>2, <1>4, <1>8 DEF ServeReload, AnswerReload
<1>9. CASE ServeUnload(f)
    BY <1>2, <1>9 DEF ServeUnload
<1>10. CASE ServeInfo(f) \/ ServeFails(f)
    BY <1>2, <1>10 DEF ServeInfo, ServeFails
<1> QED
    BY <1>5, <1>6, <1>7, <1>8, <1>9, <1>10 DEF Serve

LEMMA DeliverCalls ==
    ASSUME FlowsOK, Paged, NEW f \in Flows, Deliver(f), NEW g \in Flows
    PROVE  (\A h : Sent(flow'[g], h) => Sent(flow[g], h)) /\ SameNews(flow'[g], flow[g])
<1> DEFINE w == flow[f]
           Quiet(new) == (new.at # "load" \/ new.call # "sent") /\ new.call # "apply"
<1>1. FlowOK(w) /\ host \in Hosts /\ DOMAIN flow = Flows
    BY DEF FlowsOK, Paged
<1>2. Quiet(Idle) /\ \A at \in Pages \ {"unload_models", "load"} : Quiet(Begin(at, host))
    BY <1>1, IdleOK, BeginOK
<1>3. w.at \in Infos => Quiet(AfterInfo(f))
    BY DEF AfterInfo, Idle, Infos
<1>a. ASSUME NEW new, Quiet(new), flow'[g] = new \/ flow'[g] = flow[g]
      PROVE  (\A h : Sent(flow'[g], h) => Sent(flow[g], h)) /\ SameNews(flow'[g], flow[g])
    BY <1>a DEF Sent, SameNews
<1>b. \A new : Put(f, new) => flow'[g] = new \/ flow'[g] = flow[g]
    BY <1>1 DEF Put
<1>c. Quiet([w EXCEPT !.call = "none", !.reply = None]) /\ Quiet([Begin("tick_info", host) EXCEPT !.s = Shown])
    BY <1>1 DEF FlowOK, FlowType, Begin, Idle
<1>4. CASE MountModels(f)
    <2>1. CASE Put(f, [w EXCEPT !.listing = FALSE])
        <3>1. /\ [w EXCEPT !.listing = FALSE].call = w.call /\ [w EXCEPT !.listing = FALSE].news = w.news
              /\ [w EXCEPT !.listing = FALSE].of = w.of /\ [w EXCEPT !.listing = FALSE].at = w.at
            BY <1>1 DEF FlowOK, FlowType
        <3>2. flow'[g] = IF g = f THEN [w EXCEPT !.listing = FALSE] ELSE flow[g]
            BY <1>1, <2>1 DEF Put
        <3> QED
            BY <3>1, <3>2 DEF Sent, SameNews
    <2>2. CASE Put(f, Idle)
        BY <1>2, <1>a, <1>b, <2>2
    <2> QED
        BY <1>4, <2>1, <2>2 DEF MountModels
<1> HIDE DEF Quiet
<1>5. CASE MountStatus(f)
    BY <1>2, <1>a, <1>b, <1>c, <1>5 DEF MountStatus
<1>6. CASE Tick(f)
    BY <1>2, <1>a, <1>b, <1>c, <1>6 DEF Tick
<1>7. CASE LoadAnswer(f)
    BY <1>2, <1>a, <1>b, <1>7 DEF LoadAnswer, Pages, Infos
<1>8. CASE UnloadAnswer(f)
    BY <1>2, <1>a, <1>b, <1>8 DEF UnloadAnswer, Pages, Infos
<1>9. CASE InfoLost(f) \/ UnloadModels(f)
    BY <1>2, <1>3, <1>a, <1>b, <1>9 DEF InfoLost, UnloadModels, Infos
<1>10. CASE \E e \in Flows : InfoAnswer(f, e)
    <2>1. flow'[g] \in {flow[g], AfterInfo(f), Begin("mount", host)} /\ w.at \in Infos
        BY <1>1, <1>10 DEF InfoAnswer, Infos
    <2> QED
        BY <1>2, <1>3, <1>a, <2>1 DEF Pages
<1> QED
    BY <1>4, <1>5, <1>6, <1>7, <1>8, <1>9, <1>10 DEF Deliver

LEMMA StepFlows == NamesAssumption /\ FlowsOK /\ Hosted /\ Paged /\ [Next]_vars => FlowsOK'
<1> SUFFICES ASSUME NamesAssumption, FlowsOK, Hosted, Paged, [Next]_vars PROVE FlowsOK'
    OBVIOUS
<1>1. CASE flow' = flow
    BY <1>1 DEF FlowsOK
<1>2. CASE \E f \in Flows : Serve(f) \/ ServeFails(f)
    BY <1>2, ServeFlows
<1>3. CASE \E f \in Flows : Deliver(f)
    BY <1>3, DeliverFlows
<1>4. CASE \E f \in Flows : User(f) \/ Poll(f)
    BY <1>4, UserFlows
<1>5. (\E h \in Hosts : LoadEnds(h)) \/ (\E h \in Read : AskPiece(h) \/ KeepPiece(h)) \/ UNCHANGED vars => flow' = flow
    BY DEF LoadEnds, AskPiece, KeepPiece, vars
<1> QED
    BY <1>1, <1>2, <1>3, <1>4, <1>5 DEF Next
-----------------------------------------------------------------------------
(***************************************************************************)
(* Loads: a host has accepted no more than the user asked for.             *)
(***************************************************************************)
\* The loads under way after a flow was replaced.
LEMMA PendingPut ==
    ASSUME NamesAssumption, FlowsOK, NEW f \in Flows, NEW new, Put(f, new), NEW h
    PROVE  /\ Sent(new, h) <=> Sent(flow[f], h) => Pending(h)' = Pending(h)
           /\ ~Sent(new, h) => Pending(h)' = Pending(h) \ {f}
           /\ Sent(new, h) => Pending(h)' = Pending(h) \cup {f}
           /\ IsFiniteSet(Pending(h))
<1>1. \A g \in Flows : flow'[g] = IF g = f THEN new ELSE flow[g]
    BY DEF FlowsOK, Put
<1>2. IsFiniteSet(Pending(h))
    <2>1. IsFiniteSet(Flows)
        BY DEF NamesAssumption
    <2> QED
        BY <2>1, FS_Subset DEF Pending
<1>3. Pending(h)' = {g \in Flows : Sent(flow'[g], h)}
    BY DEF Pending, Sent
<1> QED
    BY <1>1, <1>2, <1>3 DEF Pending

\* A step that sends no load leaves the count of each host no greater.
LEMMA CountedFewer ==
    ASSUME NamesAssumption, Counted, want' = want, acts' \in acts .. MaxActs,
           \A f \in Flows : \A h \in Hosts : Sent(flow'[f], h) => Sent(flow[f], h)
    PROVE  Counted'
<1>1. ASSUME NEW h \in Hosts
      PROVE  want'[h] + Cardinality(Pending(h)') <= acts'
    <2>1. IsFiniteSet(Pending(h)) /\ Pending(h)' \subseteq Pending(h)
        <3>1. IsFiniteSet(Flows)
            BY DEF NamesAssumption
        <3>2. Pending(h)' = {f \in Flows : Sent(flow'[f], h)}
            BY DEF Pending, Sent
        <3> QED
            BY <3>1, <3>2, FS_Subset DEF Pending
    <2>2. Cardinality(Pending(h)') <= Cardinality(Pending(h)) /\ IsFiniteSet(Pending(h)')
        BY <2>1, FS_Subset
    <2>3. Cardinality(Pending(h)') \in Nat /\ Cardinality(Pending(h)) \in Nat
        BY <2>1, <2>2, FS_CardinalityType
    <2>4. want[h] \in Nat /\ want'[h] = want[h] /\ want[h] + Cardinality(Pending(h)) <= acts
        BY DEF Counted
    <2>5. acts \in Nat /\ acts' \in Nat /\ acts <= acts'
        BY DEF Counted, NamesAssumption
    <2> QED
        BY <2>2, <2>3, <2>4, <2>5
<1>2. want' \in [Hosts -> Nat] /\ acts' \in 0 .. MaxActs
    BY DEF Counted, NamesAssumption
<1> QED
    BY <1>1, <1>2 DEF Counted

LEMMA CountedLoad ==
    ASSUME NamesAssumption, FlowsOK, Counted, NEW f \in Flows, NEW h \in Hosts,
           flow[f].at = "free", Put(f, Begin("load", h)), want' = want,
           acts < MaxActs, acts' = acts + 1
    PROVE  Counted'
<1> DEFINE new == Begin("load", h)
<1>1. new.at = "load" /\ new.call = "sent" /\ new.of = h /\ Put(f, new)
    BY BeginOK DEF Pages
<1> HIDE DEF new
<1>2. ASSUME NEW g \in Hosts
      PROVE  want'[g] + Cardinality(Pending(g)') <= acts'
    <2>1. f \notin Pending(g) /\ IsFiniteSet(Pending(g))
        <3>1. IsFiniteSet(Pending(g))
            BY <1>1, PendingPut
        <3> QED
            BY <3>1 DEF Pending, Sent
    <2>2. Pending(g)' = Pending(g) \/ Pending(g)' = Pending(g) \cup {f}
        BY <1>1, PendingPut DEF Sent
    <2>3. Cardinality(Pending(g)) \in Nat
        BY <2>1, FS_CardinalityType
    <2>4. Cardinality(Pending(g) \cup {f}) = Cardinality(Pending(g)) + 1
        BY <2>1, FS_AddElement
    <2>5. want[g] \in Nat /\ want'[g] = want[g] /\ want[g] + Cardinality(Pending(g)) <= acts /\ acts \in Nat
        BY DEF Counted
    <2>6. CASE Pending(g)' = Pending(g)
        BY <2>3, <2>5, <2>6
    <2>7. CASE Pending(g)' = Pending(g) \cup {f}
        BY <2>3, <2>4, <2>5, <2>7
    <2> QED
        BY <2>2, <2>6, <2>7
<1>3. want' \in [Hosts -> Nat] /\ acts' \in 0 .. MaxActs
    BY DEF Counted, NamesAssumption
<1> QED
    BY <1>2, <1>3 DEF Counted

LEMMA CountedAccept ==
    ASSUME NamesAssumption, FlowsOK, Counted, NEW f \in Flows, NEW h \in Hosts,
           Sent(flow[f], h), Put(f, [flow[f] EXCEPT !.call = "accepted"]),
           want' = [want EXCEPT ![h] = @ + 1], acts' = acts
    PROVE  Counted'
<1> DEFINE new == [flow[f] EXCEPT !.call = "accepted"]
<1>1. new.call = "accepted"
    BY DEF FlowsOK, FlowOK, FlowType
<1> HIDE DEF new
<1>2. ASSUME NEW g \in Hosts
      PROVE  want'[g] + Cardinality(Pending(g)') <= acts'
    <2>1. IsFiniteSet(Pending(g)) /\ Pending(g)' = Pending(g) \ {f}
        BY <1>1, PendingPut DEF new, Sent
    <2>2. want[g] \in Nat /\ want[g] + Cardinality(Pending(g)) <= acts /\ acts \in Nat
        BY DEF Counted
    <2>3. Cardinality(Pending(g)) \in Nat
        BY <2>1, FS_CardinalityType
    <2>4. CASE g = h
        <3>1. f \in Pending(g)
            BY <2>4 DEF Pending
        <3>2. Cardinality(Pending(g)') = Cardinality(Pending(g)) - 1
            BY <2>1, <3>1, FS_RemoveElement
        <3>3. want'[g] = want[g] + 1
            BY <2>4 DEF Counted
        <3> QED
            BY <2>2, <2>3, <3>2, <3>3
    <2>5. CASE g # h
        <3>1. f \notin Pending(g)
            BY <2>5 DEF Pending, Sent
        <3>2. Pending(g)' = Pending(g) /\ want'[g] = want[g]
            BY <2>1, <2>5, <3>1 DEF Counted
        <3> QED
            BY <2>2, <3>2
    <2> QED
        BY <2>4, <2>5
<1>3. want' \in [Hosts -> Nat] /\ acts' \in 0 .. MaxActs
    BY DEF Counted
<1> QED
    BY <1>2, <1>3 DEF Counted

LEMMA StepCounted == NamesAssumption /\ FlowsOK /\ Paged /\ Counted /\ [Next]_vars => Counted'
<1> SUFFICES ASSUME NamesAssumption, FlowsOK, Paged, Counted, [Next]_vars PROVE Counted'
    OBVIOUS
<1>a. acts \in acts .. MaxActs /\ acts \in Nat
    BY DEF Counted, NamesAssumption
<1>1. CASE flow' = flow /\ want' = want /\ acts' = acts
    <2>1. \A h : Pending(h)' = Pending(h)
        BY <1>1 DEF Pending, Sent
    <2> QED
        BY <1>1, <2>1 DEF Counted
<1>2. ASSUME NEW f \in Flows, Serve(f) \/ ServeFails(f)
      PROVE  Counted'
    <2>0. FlowOK(flow[f])
        BY DEF FlowsOK
    <2>1. CASE ServeReload(f) /\ want' # want
        <3>1. Sent(flow[f], flow[f].of) /\ flow[f].of \in Hosts
            BY <2>0, <2>1 DEF ServeReload, Sent, FlowOK
        <3>2. /\ Put(f, [flow[f] EXCEPT !.call = "accepted"])
              /\ want' = [want EXCEPT ![flow[f].of] = @ + 1]
            BY <2>1 DEF ServeReload, hostVars
        <3>3. acts' = acts
            BY <2>1 DEF ServeReload, bounds
        <3> QED
            BY <3>1, <3>2, <3>3, CountedAccept
    <2>2. CASE ~(ServeReload(f) /\ want' # want)
        <3>1. want' = want /\ acts' = acts
            BY <1>2, <2>2 DEF Serve, ServeStatus, FetchInfo, ApplyInfo, ServeReload, AnswerReload,
                  ServeUnload, ServeInfo, ServeFails, hostVars, bounds
        <3>2. \A g \in Flows : \A h \in Hosts : Sent(flow'[g], h) => Sent(flow[g], h)
            <4>1. PICK new : Put(f, new) /\ new.call # "sent"
                BY <1>2, ServeCalls
            <4> QED
                BY <4>1 DEF Put, Sent, FlowsOK
        <3> QED
            BY <1>a, <3>1, <3>2, CountedFewer
    <2> QED
        BY <2>1, <2>2
<1>3. ASSUME NEW f \in Flows, Deliver(f)
      PROVE  Counted'
    <2>1. want' = want /\ acts' = acts
        BY <1>3 DEF Deliver, MountStatus, MountModels, Tick, LoadAnswer, UnloadAnswer, InfoLost,
              UnloadModels, InfoAnswer, Arrives, hostVars, bounds
    <2>2. \A g \in Flows : \A h \in Hosts : Sent(flow'[g], h) => Sent(flow[g], h)
        BY <1>3, DeliverCalls
    <2> QED
        BY <1>a, <2>1, <2>2, CountedFewer
<1>4. ASSUME NEW f \in Flows, User(f) \/ Poll(f)
      PROVE  Counted'
    <2>1. flow[f].at = "free" /\ want' = want /\ host \in Hosts
        BY <1>4 DEF User, Poll, ClickLoad, ClickUnload, ChooseHost, Unused, FirstFree, hostVars, Paged
    <2>2. CASE ClickLoad(f)
        BY <2>1, <2>2, CountedLoad DEF ClickLoad, Act
    <2>3. CASE ~ClickLoad(f)
        <3>1. PICK at \in {"mount", "tick", "unload"}, h \in Hosts : Put(f, Begin(at, h))
            BY <1>4, <2>1, <2>3 DEF User, Poll, ClickUnload, ChooseHost
        <3>2. Begin(at, h).at # "load"
            BY BeginOK DEF Pages
        <3>3. acts' \in acts .. MaxActs
            BY <1>4, <1>a, <2>3 DEF User, Poll, ClickUnload, ChooseHost, Act, bounds, NamesAssumption
        <3>4. \A g \in Flows : \A e \in Hosts : Sent(flow'[g], e) => Sent(flow[g], e)
            BY <3>1, <3>2 DEF Put, Sent, FlowsOK
        <3> QED
            BY <2>1, <3>3, <3>4, CountedFewer
    <2> QED
        BY <2>2, <2>3
<1>5. (\E h \in Hosts : LoadEnds(h)) \/ (\E h \in Read : AskPiece(h) \/ KeepPiece(h)) \/ UNCHANGED vars
         => flow' = flow /\ want' = want /\ acts' = acts
    BY DEF LoadEnds, AskPiece, KeepPiece, vars, hostVars, bounds
<1> QED
    BY <1>1, <1>2, <1>3, <1>4, <1>5 DEF Next
-----------------------------------------------------------------------------
(***************************************************************************)
(* Hosts, handles and the store.                                           *)
(***************************************************************************)
LEMMA WantedIsModel ==
    ASSUME NamesAssumption, FlowsOK, Counted, NEW h \in Hosts
    PROVE  want[h] \in Models
<1>1. IsFiniteSet(Pending(h))
    <2>1. IsFiniteSet(Flows)
        BY DEF NamesAssumption
    <2> QED
        BY <2>1, FS_Subset DEF Pending
<1>2. Cardinality(Pending(h)) \in Nat
    BY <1>1, FS_CardinalityType
<1>3. want[h] \in Nat /\ acts \in 0 .. MaxActs /\ want[h] + Cardinality(Pending(h)) <= acts
    BY DEF Counted
<1> QED
    BY <1>2, <1>3 DEF Models, NamesAssumption

LEMMA StepHosted ==
    NamesAssumption /\ FlowsOK /\ Counted /\ Hosted /\ [Next]_vars => Hosted'
<1> SUFFICES ASSUME NamesAssumption, FlowsOK, Counted, Hosted, [Next]_vars PROVE Hosted'
    OBVIOUS
<1>a. /\ Unreachable \in SlotType /\ Slot("empty", None) \in SlotType
      /\ Unreachable.state = "error" /\ Slot("empty", None).state = "empty"
      /\ \A h \in Hosts : Slot("ready", want[h]) \in SlotType /\ Slot("ready", want[h]).model = want[h]
    BY WantedIsModel DEF Unreachable, Slot, SlotType, States, OptModel
<1>b. \A f \in Flows : FlowOK(flow[f])
    BY DEF FlowsOK
<1>1. CASE UNCHANGED <<slot, want, handle, store>>
    BY <1>1 DEF Hosted
<1>2. ASSUME NEW h \in Hosts, LoadEnds(h)
      PROVE  Hosted'
    <2>1. want' = want /\ handle' = handle /\ store' = store
        BY <1>2 DEF LoadEnds, handleVars, pageVars
    <2>2. PICK s \in SlotType : slot' = [slot EXCEPT ![h] = s] /\ (s.state = "ready" => s.model = want[h])
        BY <1>2, <1>a DEF LoadEnds
    <2> QED
        BY <2>1, <2>2 DEF Hosted
<1>3. ASSUME NEW f \in Flows, ServeReload(f)
      PROVE  Hosted'
    <2>1. handle' = handle /\ store' = store
        BY <1>3 DEF ServeReload, handleVars, pageVars
    <2>2. CASE UNCHANGED <<slot, want>>
        BY <2>1, <2>2 DEF Hosted
    <2>3. CASE ~UNCHANGED <<slot, want>>
        <3> DEFINE h == flow[f].of
        <3>1. h \in Hosts
            BY <1>3, <1>b DEF FlowOK, ServeReload
        <3>2. want' = [want EXCEPT ![h] = @ + 1] /\ slot' = [slot EXCEPT ![h].state = "loading"]
            BY <1>3, <2>3 DEF ServeReload, hostVars
        <3>3. [slot[h] EXCEPT !.state = "loading"] \in SlotType /\ [slot[h] EXCEPT !.state = "loading"].state = "loading"
            BY <3>1 DEF Hosted, SlotType, States
        <3>4. \A g \in Hosts : /\ slot'[g] = IF g = h THEN [slot[h] EXCEPT !.state = "loading"] ELSE slot[g]
                               /\ g # h => want'[g] = want[g]
            BY <3>1, <3>2 DEF Hosted, Counted
        <3>5. slot' \in [Hosts -> SlotType]
            BY <3>2, <3>3, <3>1 DEF Hosted
        <3> HIDE DEF h
        <3> QED
            BY <2>1, <3>3, <3>4, <3>5 DEF Hosted
    <2> QED
        BY <2>2, <2>3
<1>4. ASSUME NEW f \in Flows, ServeUnload(f)
      PROVE  Hosted'
    <2>1. want' = want /\ handle' = handle /\ store' = store
        BY <1>4 DEF ServeUnload, handleVars, pageVars
    <2>2. slot' = slot \/ slot' = [slot EXCEPT ![flow[f].of] = Slot("empty", None)]
        BY <1>4 DEF ServeUnload
    <2> QED
        BY <2>1, <2>2, <1>a DEF Hosted
<1>5. ASSUME NEW f \in Flows, ApplyInfo(f)
      PROVE  Hosted'
    <2>1. UNCHANGED <<slot, want, store>> /\ handle' = [handle EXCEPT ![flow[f].of] = flow[f].news]
        BY <1>5 DEF ApplyInfo, hostVars, pageVars
    <2>2. flow[f].news \in SlotType
        BY <1>5, <1>b DEF FlowOK, ApplyInfo
    <2> QED
        BY <2>1, <2>2 DEF Hosted
<1>6. ASSUME NEW f \in Flows, NEW g \in Flows, InfoAnswer(f, g)
      PROVE  Hosted'
    <2>1. UNCHANGED <<slot, want, handle>> /\ store' = flow[f].reply
        BY <1>6 DEF InfoAnswer, hostVars, handleVars
    <2>2. flow[f].reply \in [Hosts -> SlotType]
        BY <1>6, <1>b DEF FlowOK, InfoAnswer, Arrives, Infos
    <2> QED
        BY <2>1, <2>2 DEF Hosted
<1>7. ASSUME NEW f \in Flows,
             \/ ServeStatus(f) \/ FetchInfo(f) \/ AnswerReload(f) \/ ServeInfo(f) \/ ServeFails(f)
             \/ MountStatus(f) \/ MountModels(f) \/ Tick(f) \/ LoadAnswer(f) \/ UnloadAnswer(f)
             \/ InfoLost(f) \/ UnloadModels(f) \/ Poll(f) \/ User(f)
      PROVE  UNCHANGED <<slot, want, handle, store>>
    BY <1>7 DEF ServeStatus, FetchInfo, AnswerReload, ServeInfo, ServeFails, MountStatus, MountModels,
          Tick, LoadAnswer, UnloadAnswer, InfoLost, UnloadModels, Poll, User, ClickLoad, ClickUnload,
          ChooseHost, hostVars, handleVars, pageVars
<1>8. (\E h \in Read : AskPiece(h) \/ KeepPiece(h)) \/ UNCHANGED vars => UNCHANGED <<slot, want, handle, store>>
    BY DEF AskPiece, KeepPiece, vars, hostVars, handleVars, pageVars
<1> QED
    BY <1>1, <1>2, <1>3, <1>4, <1>5, <1>6, <1>7, <1>8 DEF Next, Serve, Deliver

LEMMA StepOrdered ==
    NamesAssumption /\ FlowsOK /\ Paged /\ Counted /\ Hosted /\ Ordered /\ [Next]_vars => Ordered'
<1> SUFFICES ASSUME NamesAssumption, FlowsOK, Paged, Counted, Hosted, Ordered, [Next]_vars PROVE Ordered'
    OBVIOUS
<1>a. want \in [Hosts -> Nat] /\ (\A f \in Flows : FlowOK(flow[f]))
    BY DEF Counted, FlowsOK
<1>b. ASSUME UNCHANGED <<slot, want, handle>>, \A g \in Flows : SameNews(flow'[g], flow[g])
      PROVE  Ordered'
    BY <1>b DEF Ordered, Within, SameNews
<1>1. CASE UNCHANGED <<slot, want, handle, flow>>
    BY <1>1 DEF Ordered, Within
<1>2. ASSUME NEW h \in Hosts, LoadEnds(h)
      PROVE  Ordered'
    <2>1. UNCHANGED <<want, handle, flow>>
        BY <1>2 DEF LoadEnds, handleVars
    <2>2. PICK s : slot' = [slot EXCEPT ![h] = s] /\ (s.model = want[h] \/ s.model = None)
        <3>1. Slot("ready", want[h]).model = want[h] /\ Unreachable.model = None
            BY DEF Slot, Unreachable
        <3> QED
            BY <1>2, <3>1 DEF LoadEnds
    <2>3. \A g \in Hosts : slot'[g] = IF g = h THEN s ELSE slot[g]
        BY <2>2 DEF Hosted
    <2> QED
        BY <1>a, <2>1, <2>2, <2>3 DEF Ordered, Within
<1>3. ASSUME NEW f \in Flows, Serve(f) \/ ServeFails(f)
      PROVE  Ordered'
    <2> DEFINE h == flow[f].of
    <2>1. PICK new : Put(f, new) /\ new.of = h /\ (~FetchInfo(f) => new.call # "apply")
        BY <1>3, ServeCalls
    <2>2. \A g \in Flows : flow'[g] = IF g = f THEN new ELSE flow[g]
        BY <2>1 DEF Put, FlowsOK
    <2>3. ~FetchInfo(f) => \A g \in Flows : SameNews(flow'[g], flow[g])
        BY <2>1, <2>2 DEF SameNews
    <2>4. CASE FetchInfo(f)
        <3>1. UNCHANGED <<slot, want, handle>> /\ h \in Hosts
            BY <1>a, <2>4 DEF FetchInfo, hostVars, handleVars, FlowOK
        <3>2. new.call = "apply" => new.news = slot[h]
            <4>1. flow[f] \in FlowType(flow[f].at)
                BY <1>a DEF FlowOK
            <4>2. CASE flow' = [flow EXCEPT ![f] = [flow[f] EXCEPT !.call = "apply", !.news = slot[h]]]
                BY <2>2, <4>1, <4>2 DEF FlowType, FlowsOK
            <4>3. CASE flow' = [flow EXCEPT ![f] = [flow[f] EXCEPT !.call = "answered"]]
                BY <2>2, <4>1, <4>3 DEF FlowType, FlowsOK
            <4> QED
                BY <2>4, <4>2, <4>3 DEF FetchInfo, Put
        <3> HIDE DEF h
        <3> QED
            BY <2>1, <2>2, <3>1, <3>2 DEF Ordered, Within
    <2>5. CASE ApplyInfo(f)
        <3>1. UNCHANGED <<slot, want>> /\ h \in Hosts /\ handle' = [handle EXCEPT ![h] = flow[f].news]
            BY <1>a, <2>5 DEF ApplyInfo, hostVars, FlowOK
        <3>2. ~FetchInfo(f) /\ Within(flow[f].news, want[h])
            BY <2>5 DEF ApplyInfo, FetchInfo, Ordered
        <3>3. \A g \in Hosts : handle'[g] = IF g = h THEN flow[f].news ELSE handle[g]
            BY <3>1 DEF Hosted
        <3>4. \A g \in Flows : SameNews(flow'[g], flow[g])
            BY <2>3, <3>2
        <3> HIDE DEF h
        <3> QED
            BY <3>1, <3>2, <3>3, <3>4 DEF Ordered, Within, SameNews
    <2>6. CASE ServeReload(f) /\ ~UNCHANGED <<slot, want>>
        <3>1. /\ h \in Hosts /\ handle' = handle /\ ~FetchInfo(f)
              /\ want' = [want EXCEPT ![h] = @ + 1] /\ slot' = [slot EXCEPT ![h].state = "loading"]
            BY <1>a, <2>6 DEF ServeReload, FetchInfo, handleVars, hostVars, FlowOK
        <3>2. \A g \in Hosts : want'[g] >= want[g] /\ want[g] \in Nat /\ want'[g] \in Nat
            BY <1>a, <3>1
        <3>3. \A g \in Hosts : slot'[g].model = slot[g].model /\ slot[g].model \in OptModel /\ handle[g].model \in OptModel
            BY <3>1 DEF Hosted, SlotType
        <3>4. \A g \in Flows : SameNews(flow'[g], flow[g])
            BY <2>3, <3>1
        <3>5. \A g \in Flows : flow[g].call = "apply" => flow[g].of \in Hosts /\ flow[g].news.model \in OptModel
            BY <1>a DEF FlowOK, SlotType, Pages, FlowType
        <3> HIDE DEF h
        <3>6. ASSUME NEW g \in Hosts, NEW m \in OptModel, m # None => m <= want[g]
              PROVE  m # None => m <= want'[g]
            BY <3>2, <3>6 DEF OptModel, Models
        <3>7. \A g \in Hosts : Within(slot'[g], want'[g]) /\ Within(handle'[g], want'[g])
            BY <3>1, <3>3, <3>6 DEF Ordered, Within
        <3>8. \A g \in Flows : flow'[g].call = "apply" => Within(flow'[g].news, want'[flow'[g].of])
            BY <3>4, <3>5, <3>6 DEF Ordered, Within, SameNews
        <3> QED
            BY <3>7, <3>8 DEF Ordered, Within
    <2>7. CASE ServeUnload(f) /\ slot' # slot
        <3>1. UNCHANGED <<want, handle>> /\ ~FetchInfo(f) /\ slot' = [slot EXCEPT ![h] = Slot("empty", None)]
            BY <2>7 DEF ServeUnload, FetchInfo, handleVars
        <3>2. \A g \in Hosts : slot'[g].model \in {slot[g].model, None}
            BY <3>1 DEF Hosted, Slot
        <3>3. \A g \in Flows : SameNews(flow'[g], flow[g])
            BY <2>3, <3>1
        <3> HIDE DEF h
        <3> QED
            BY <3>1, <3>2, <3>3 DEF Ordered, Within, SameNews
    <2>8. CASE UNCHANGED <<slot, want, handle>> /\ ~FetchInfo(f)
        BY <1>b, <2>3, <2>8
    <2> QED
        BY <1>3, <2>4, <2>5, <2>6, <2>7, <2>8 DEF Serve, ServeStatus, ServeReload, AnswerReload, ServeUnload,
              ServeInfo, ServeFails, FetchInfo, hostVars, handleVars
<1>4. ASSUME NEW f \in Flows, Deliver(f)
      PROVE  Ordered'
    <2>1. UNCHANGED <<slot, want, handle>>
        BY <1>4 DEF Deliver, MountStatus, MountModels, Tick, LoadAnswer, UnloadAnswer, InfoLost,
              UnloadModels, InfoAnswer, hostVars, handleVars
    <2> QED
        BY <1>4, <1>b, <2>1, DeliverCalls
<1>5. ASSUME NEW f \in Flows, User(f) \/ Poll(f)
      PROVE  Ordered'
    <2>1. UNCHANGED <<slot, want, handle>> /\ host \in Hosts
        BY <1>5 DEF User, Poll, ClickLoad, ClickUnload, ChooseHost, hostVars, handleVars, Paged
    <2>2. PICK at \in Pages \ {"unload_models"}, h \in Hosts : Put(f, Begin(at, h))
        BY <1>5, <2>1 DEF User, Poll, ClickLoad, ClickUnload, ChooseHost, Pages
    <2>3. Begin(at, h).call = "sent"
        BY BeginOK
    <2> QED
        BY <1>b, <2>1, <2>2, <2>3 DEF Put, SameNews, FlowsOK
<1>6. (\E h \in Read : AskPiece(h) \/ KeepPiece(h)) \/ UNCHANGED vars => UNCHANGED <<slot, want, handle, flow>>
    BY DEF AskPiece, KeepPiece, vars, hostVars, handleVars
<1> QED
    BY <1>1, <1>2, <1>3, <1>4, <1>5, <1>6 DEF Next
-----------------------------------------------------------------------------
(***************************************************************************)
(* The page, and the pieces.                                               *)
(***************************************************************************)
StatusOK(x) == x # None => x \in [of : Hosts, state : States, model : OptModel]

LEMMA StepPaged == NamesAssumption /\ FlowsOK /\ Hosted /\ Paged /\ [Next]_vars => Paged'
<1> SUFFICES ASSUME NamesAssumption, FlowsOK, Hosted, Paged, [Next]_vars PROVE Paged'
    OBVIOUS
<1>a. /\ \A f \in Flows : FlowOK(flow[f]) /\ None \in OptModel
      /\ \A h \in Hosts : store[h].model \in OptModel
      /\ StatusOK(status)
    BY DEF FlowsOK, Hosted, SlotType, OptModel, StatusOK, Paged
<1>b. ASSUME StatusOK(status'), Note
      PROVE  /\ followed' \subseteq Hosts
             /\ Shown = "ready" => status'.model \in OptModel
    BY <1>b DEF Note, Shown, Paged, StatusOK
<1>c. ASSUME StatusOK(status'), Note, Mounted
      PROVE  busy' \in BOOLEAN /\ timer' \in BOOLEAN /\ field' \in OptModel
    BY <1>b, <1>c DEF Mounted, OnReady, Paged
<1>d. ASSUME NEW f \in Flows, flow[f].at \in {"mount", "tick"},
             (flow[f].call = "answered" /\ TakeStatus(f, TRUE)) \/ TakeStatus(f, FALSE)
      PROVE  StatusOK(status')
    BY <1>a, <1>d, TakenOK DEF StatusOK, FlowOK
<1>1. CASE UNCHANGED pageVars
    BY <1>1 DEF Paged, pageVars
<1>2. ASSUME NEW f \in Flows, MountStatus(f)
      PROVE  Paged'
    <2>1. host' = host /\ StatusOK(status') /\ Note
        BY <1>2, <1>d DEF MountStatus, Arrives
    <2>2. Mounted \/ UNCHANGED <<busy, timer, field>>
        BY <1>2 DEF MountStatus
    <2> QED
        BY <1>b, <1>c, <2>1, <2>2 DEF Paged, StatusOK
<1>3. ASSUME NEW f \in Flows, MountModels(f)
      PROVE  Paged'
    <2>1. UNCHANGED <<host, status, followed>> /\ (Mounted \/ UNCHANGED <<busy, timer, field>>)
        BY <1>3 DEF MountModels
    <2>2. Mounted => busy' \in BOOLEAN /\ timer' \in BOOLEAN /\ field' \in OptModel
        BY <1>a, <2>1 DEF Mounted, OnReady, Shown, Paged, StatusOK
    <2> QED
        BY <2>1, <2>2 DEF Paged
<1>4. ASSUME NEW f \in Flows, Poll(f)
      PROVE  Paged'
    BY <1>4 DEF Poll, Paged
<1>5. ASSUME NEW f \in Flows, Tick(f)
      PROVE  Paged'
    <2>1. UNCHANGED <<host, field>> /\ StatusOK(status') /\ Note
        BY <1>5, <1>d DEF Tick, Arrives
    <2>2. busy' \in BOOLEAN /\ timer' \in BOOLEAN
        BY <1>5 DEF Tick, Paged
    <2> QED
        BY <1>b, <2>1, <2>2 DEF Paged, StatusOK
<1>6. ASSUME NEW f \in Flows, LoadAnswer(f)
      PROVE  Paged'
    <2>1. UNCHANGED <<host, field>> /\ busy' \in BOOLEAN /\ timer' \in BOOLEAN
        BY <1>6 DEF LoadAnswer, Paged
    <2>2. StatusOK(status') /\ (Note \/ followed' = followed)
        <3>1. CASE status' = status
            BY <1>6, <1>a, <3>1 DEF LoadAnswer
        <3>2. CASE flow[f].reply # None /\ TakeStatus(f, TRUE)
            <4>1. flow[f].reply \in SlotType /\ flow[f].at # "free"
                BY <1>6, <1>a, <3>2 DEF LoadAnswer, FlowOK, FlowType, Replies, Infos
            <4> QED
                BY <1>6, <3>2, <4>1, TakenOK DEF LoadAnswer, StatusOK
        <3> QED
            BY <1>6, <3>1, <3>2 DEF LoadAnswer
    <2> QED
        BY <1>b, <2>1, <2>2 DEF Paged, StatusOK
<1>7. ASSUME NEW f \in Flows, UnloadAnswer(f)
      PROVE  Paged'
    <2>1. UNCHANGED <<host, timer, field>> /\ busy' \in BOOLEAN
        BY <1>7 DEF UnloadAnswer
    <2>2. flow[f].of \in Hosts /\ (flow[f].reply # None => flow[f].reply \in SlotType)
        BY <1>7, <1>a DEF UnloadAnswer, FlowOK, FlowType, Replies, Infos
    <2>3. StatusOK(status')
        BY <1>7, <1>a, <2>2, TakenOK DEF UnloadAnswer, StatusOK
    <2>4. followed' \subseteq Hosts
        BY <1>7, <2>2 DEF UnloadAnswer, Paged
    <2> QED
        BY <2>1, <2>3, <2>4 DEF Paged, StatusOK
<1>8. ASSUME NEW f \in Flows, NEW g \in Flows, InfoAnswer(f, g)
      PROVE  Paged'
    BY <1>8, <1>a DEF InfoAnswer, Reset, OnReady, Paged
<1>9. ASSUME NEW f \in Flows, InfoLost(f) \/ UnloadModels(f)
      PROVE  Paged'
    <2>1. UNCHANGED <<host, status, busy, timer, followed>>
        BY <1>9 DEF InfoLost, UnloadModels
    <2>2. field' \in OptModel
        <3>1. CASE InfoLost(f)
            <4>1. /\ status = None => Unreachable.model \in OptModel
                  /\ status # None => Slot(status.state, status.model).model \in OptModel
                BY <1>a DEF Unreachable, Slot, StatusOK
            <4>2. field' \in {field, Unreachable.model} \/ (status # None /\ field' = Slot(status.state, status.model).model)
                BY <3>1 DEF InfoLost, OnReady
            <4> QED
                BY <1>a, <4>1, <4>2 DEF Paged, Unreachable, Slot
        <3>2. CASE UnloadModels(f)
            BY <1>a, <3>2 DEF UnloadModels, OnReady, Paged
        <3> QED
            BY <1>9, <3>1, <3>2
    <2> QED
        BY <2>1, <2>2 DEF Paged
<1>10. ASSUME NEW f \in Flows, User(f)
      PROVE  Paged'
    <2>1. CASE ClickLoad(f) \/ ClickUnload(f)
        BY <2>1 DEF ClickLoad, ClickUnload, Paged
    <2>2. ASSUME NEW h \in Hosts, ChooseHost(h, f)
          PROVE  Paged'
        BY <2>2, <1>a DEF ChooseHost, Reset, Paged
    <2> QED
        BY <1>10, <2>1, <2>2 DEF User
<1>11. \/ \E h \in Hosts : LoadEnds(h)
       \/ \E f \in Flows : Serve(f) \/ ServeFails(f)
       \/ \E h \in Read : AskPiece(h) \/ KeepPiece(h)
       \/ UNCHANGED vars
       => UNCHANGED pageVars
    BY DEF LoadEnds, Serve, ServeStatus, FetchInfo, ApplyInfo, ServeReload, AnswerReload, ServeUnload,
          ServeInfo, ServeFails, AskPiece, KeepPiece, vars
<1> QED
    BY <1>1, <1>2, <1>3, <1>4, <1>5, <1>6, <1>7, <1>8, <1>9, <1>10, <1>11 DEF Next, Deliver

LEMMA StepRemembered ==
    NamesAssumption /\ FlowsOK /\ Counted /\ Hosted /\ Ordered /\ Remembered /\ [Next]_vars => Remembered'
<1> SUFFICES ASSUME NamesAssumption, FlowsOK, Counted, Hosted, Ordered, Remembered, [Next]_vars PROVE Remembered'
    OBVIOUS
<1>1. CASE UNCHANGED handleVars
    BY <1>1 DEF handleVars, Remembered
<1>2. ASSUME NEW f \in Flows, ApplyInfo(f)
      PROVE  Remembered'
    <2> DEFINE h == flow[f].of
    <2>1. h \in Hosts
        BY <1>2 DEF ApplyInfo, FlowsOK, FlowOK
    <2>2. /\ \A r \in Hosts \ {h} : handle'[r] = handle[r]
          /\ pieces' = [r \in Read |-> IF r = h THEN None ELSE pieces[r]]
          /\ asked' = asked
          /\ overtaken' = IF h \in Read /\ asked[h] # None THEN overtaken \cup {h} ELSE overtaken \ {h}
        BY <1>2 DEF ApplyInfo, Hosted
    <2>3. Read \subseteq Hosts /\ None \in OptModel
        BY DEF NamesAssumption, OptModel
    <2>4. pieces' \in [Read -> OptModel] /\ asked' \in [Read -> OptModel] /\ overtaken' \subseteq Read
        BY <2>2, <2>3 DEF Remembered
    <2> HIDE DEF h
    <2>5. ASSUME NEW r \in Read \ overtaken', handle'[r].model # None
          PROVE  /\ asked'[r] # None => asked'[r] >= handle'[r].model
                 /\ pieces'[r] # None => pieces'[r] >= handle'[r].model
        <3>1. CASE r = h
            BY <2>2, <2>5, <3>1
        <3>2. CASE r # h
            <4>1. r \in Read \ overtaken /\ handle'[r] = handle[r] /\ pieces'[r] = pieces[r]
                BY <2>2, <2>3, <2>5, <3>2
            <4> QED
                BY <2>2, <2>5, <4>1 DEF Remembered
        <3> QED
            BY <3>1, <3>2
    <2> QED
        BY <2>4, <2>5 DEF Remembered
<1>3. ASSUME NEW h \in Read, AskPiece(h)
      PROVE  Remembered'
    <2>1. UNCHANGED <<handle, pieces, overtaken>> /\ asked' = [asked EXCEPT ![h] = slot[h].model]
        BY <1>3 DEF AskPiece
    <2>2. h \in Hosts /\ slot[h].model = want[h] /\ want[h] \in Models /\ want[h] \in Nat
        BY <1>3, WantedIsModel DEF AskPiece, Hosted, NamesAssumption, Models
    <2>3. handle[h].model # None => want[h] >= handle[h].model
        BY <2>2 DEF Ordered, Within
    <2>4. asked' \in [Read -> OptModel] /\ \A r \in Read : asked'[r] = IF r = h THEN want[h] ELSE asked[r]
        BY <2>1, <2>2 DEF Remembered, OptModel
    <2> QED
        BY <2>1, <2>3, <2>4 DEF Remembered
<1>4. ASSUME NEW h \in Read, KeepPiece(h)
      PROVE  Remembered'
    <2>1. /\ UNCHANGED <<handle, overtaken>>
          /\ pieces' = [pieces EXCEPT ![h] = asked[h]] /\ asked' = [asked EXCEPT ![h] = None]
        BY <1>4 DEF KeepPiece
    <2>2. /\ asked' \in [Read -> OptModel] /\ \A r \in Read : asked'[r] = IF r = h THEN None ELSE asked[r]
          /\ pieces' \in [Read -> OptModel] /\ \A r \in Read : pieces'[r] = IF r = h THEN asked[h] ELSE pieces[r]
        BY <2>1 DEF Remembered, OptModel
    <2> QED
        BY <2>1, <2>2 DEF Remembered
<1>5. ASSUME NEW f \in Flows, Serve(f) \/ ServeFails(f) \/ Poll(f) \/ Deliver(f) \/ User(f), ~ApplyInfo(f)
      PROVE  UNCHANGED handleVars
    BY <1>5 DEF Serve, ServeStatus, FetchInfo, ServeReload, AnswerReload, ServeUnload, ServeInfo, ServeFails,
          Poll, Deliver, MountStatus, MountModels, Tick, LoadAnswer, UnloadAnswer, InfoLost, UnloadModels,
          InfoAnswer, User, ClickLoad, ClickUnload, ChooseHost
<1>6. (\E h \in Hosts : LoadEnds(h)) \/ UNCHANGED vars => UNCHANGED handleVars
    BY DEF LoadEnds, vars
<1> QED
    BY <1>1, <1>2, <1>3, <1>4, <1>5, <1>6 DEF Next

-----------------------------------------------------------------------------
LEMMA InitCInv == NamesAssumption /\ Init => CInv
<1> SUFFICES ASSUME NamesAssumption, Init PROVE CInv
    OBVIOUS
<1>1. PICK h0 \in Hosts, s \in {Slot("ready", 0), Slot("empty", None), Slot("loading", None)} :
          slot = [g \in Hosts |-> IF g = h0 THEN s ELSE Slot("ready", 0)]
    BY DEF Init
<1>2. /\ \A t \in {Slot("ready", 0), s} : t \in SlotType /\ t.model \in {0, None} /\ (t.state = "ready" => t.model = 0)
      /\ None \in OptModel /\ 0 # None
    BY DEF Slot, SlotType, States, OptModel, Models, NamesAssumption
<1>3. Hosted
    BY <1>1, <1>2 DEF Init, Hosted
<1>4. FlowsOK
    <2>1. FlowOK(Begin("mount", host)) /\ FlowOK(Idle)
        BY BeginOK, IdleOK DEF Init, Pages
    <2> QED
        BY <2>1 DEF Init, FlowsOK
<1>5. Counted
    <2>1. \A f \in Flows : ~\E h : Sent(flow[f], h)
        <3>1. Begin("mount", host).at = "mount" /\ Idle.at = "free"
            BY BeginOK, IdleOK DEF Init, Pages
        <3> QED
            BY <3>1 DEF Init, Sent
    <2>2. \A h : Pending(h) = {}
        BY <2>1 DEF Pending
    <2>3. \A h : Cardinality(Pending(h)) = 0
        BY <2>2, FS_EmptySet
    <2>4. acts = 0 /\ acts \in 0 .. MaxActs /\ want \in [Hosts -> Nat] /\ \A h \in Hosts : want[h] = 0
        BY DEF Init, NamesAssumption
    <2> QED
        BY <2>3, <2>4 DEF Counted
<1>6. Paged
    BY <1>2 DEF Init, Paged
<1>7. Ordered
    <2>1. \A f \in Flows : flow[f].call # "apply"
        <3>1. Begin("mount", host).call = "sent" /\ Idle.call = "none"
            BY BeginOK, IdleOK DEF Init, Pages
        <3> QED
            BY <3>1 DEF Init
    <2>2. \A h \in Hosts : slot[h].model \in {0, None} /\ want[h] = 0 /\ handle[h] = slot[h]
        BY <1>1, <1>2 DEF Init
    <2> QED
        BY <2>1, <2>2 DEF Ordered, Within
<1>8. Remembered
    BY <1>2 DEF Init, Remembered
<1> QED
    BY <1>3, <1>4, <1>5, <1>6, <1>7, <1>8 DEF CInv

LEMMA StepCInv == NamesAssumption /\ CInv /\ [Next]_vars => CInv'
BY StepFlows, StepCounted, StepHosted, StepPaged, StepOrdered, StepRemembered DEF CInv

LEMMA CInvImplies == NamesAssumption /\ CInv => TypeOK /\ PieceIsCurrent
<1> SUFFICES ASSUME NamesAssumption, CInv PROVE TypeOK /\ PieceIsCurrent
    OBVIOUS
<1>1. PieceIsCurrent
    BY DEF CInv, Remembered, PieceIsCurrent
<1>2. status # None => Slot(status.state, status.model) \in SlotType /\ status.of \in Hosts
    BY DEF CInv, Paged, Slot, SlotType
<1> QED
    BY <1>1, <1>2 DEF CInv, Hosted, Paged, Remembered, TypeOK

\* Loads, handles, flows and pieces keep in step, on every host.
THEOREM ControlInvariant == Spec => []CInv
<1>1. Init => CInv
    BY InitCInv, NamesAssumption
<1>2. CInv /\ [Next]_vars => CInv'
    BY StepCInv, NamesAssumption
<1> QED
    BY <1>1, <1>2, PTL DEF Spec

\* The control's variables keep their types, and a slot that is ready serves
\* the model of the last load its host accepted (TypeOK), whatever the user
\* does and whichever requests fail.
THEOREM ControlTypes == Spec => []TypeOK
<1>1. CInv => TypeOK
    BY CInvImplies, NamesAssumption
<1> QED
    BY <1>1, ControlInvariant, PTL

\* No remembered piece is of a model before the handle's, unless the last
\* refresh overtook it (refresh_info and piece of remote.py).
THEOREM PiecesAreCurrent == Spec => []PieceIsCurrent
<1>1. CInv => PieceIsCurrent
    BY CInvImplies, NamesAssumption
<1> QED
    BY <1>1, ControlInvariant, PTL
-----------------------------------------------------------------------------
(***************************************************************************)
(* The page at peace: one flow at most is at work, on the chosen host, and *)
(* how far it is says what the page, the store, the handle and the host    *)
(* agree on already.                                                       *)
(***************************************************************************)
Work(w) == w.at \notin {"free", "unload_models"}

\* A host that was followed is known everywhere.
Settled(h) == slot[h].state # "loading" /\ handle[h] = slot[h] /\ store[h] = slot[h]
Faithful == host \in followed => Settled(host)
Elsewhere == \A h \in followed \ {host} : Settled(h)

\* What the page shows is so, or a load it is about to ask about again.
Shows == status # None => status = From(host, slot[host]) /\ slot[host].state # "loading"
Announced == (status # None /\ status.state = "ready") => field = status.model
Keeps == Shows /\ Announced /\ Faithful
Following == status # None /\ status.of = host /\ status.state = "loading"

\* A status on its way, once the host was found at rest.
Still(s) == slot[host] = s /\ s.state # "loading"
Asks(w) ==
    \/ w.call = "sent"
    \/ w.call = "refresh" /\ Still(w.reply)
    \/ w.call = "apply" /\ Still(w.reply) /\ w.news = w.reply
    \/ w.call = "answered" /\ Still(w.reply) /\ handle[host] = w.reply
Told(w) == Asks(w) \/ (w.call = "answered" /\ w.reply.state = "loading")

Mounting(w) == w.at = "mount" /\ status = None /\ Faithful /\ Told(w)
Listing(w) == w.at = "mount" /\ w.call = "none" /\ (Following \/ (Shows /\ Faithful))
Ticking(w) == w.at = "tick" /\ Following /\ Told(w)
Refreshing(w) ==
    /\ w.at \in {"tick_info", "unload_info"}
    /\ slot[host].state # "loading" /\ handle[host] = slot[host]
    /\ w.call = "answered" => \A h \in followed \cup {host} : w.reply[h] = slot[h]
Asking(w) ==
    w.at \in {"load", "unload"} /\ (w.call = "sent" \/ (w.call = "answered" /\ w.reply = None)) /\ Keeps
Loading(w) ==
    w.at = "load" /\ (w.call = "accepted" \/ (w.call = "answered" /\ w.reply # None /\ w.reply.state = "loading"))
Unloading(w) == w.at = "unload" /\ w.call # "sent" /\ w.reply # None /\ Asks(w)

Stage(w) ==
    \/ Mounting(w) \/ Listing(w) \/ Ticking(w) \/ Refreshing(w)
    \/ Asking(w) \/ Loading(w) \/ Unloading(w)

Peace ==
    /\ Elsewhere
    /\ \A f \in Flows : Work(flow[f]) => flow[f].of = host /\ ~timer /\ Stage(flow[f])
    /\ \A f, g \in Flows : Work(flow[f]) /\ Work(flow[g]) => f = g
    /\ timer => Following
    /\ (~timer /\ \A f \in Flows : ~Work(flow[f])) => Keeps

SInv == ~upset => Peace

\* A step of the flow that works, or of one that begins to.
LEMMA PeacePut ==
    ASSUME FlowsOK, NEW f \in Flows, NEW new, Put(f, new),
           \A g \in Flows \ {f} : ~Work(flow[g]),
           Work(new) => new.of = host' /\ ~timer' /\ Stage(flow[f])',
           Elsewhere', timer' => Following', (~timer' /\ ~Work(new)) => Keeps'
    PROVE  Peace'
<1>1. \A g \in Flows : flow'[g] = IF g = f THEN new ELSE flow[g]
    BY DEF FlowsOK, Put
<1>2. \A g \in Flows : Work(flow[g])' => g = f /\ Work(new)
    BY <1>1 DEF Work
<1>3. flow'[f] = new
    BY <1>1
<1> QED
    BY <1>2, <1>3 DEF Peace, Work

LEMMA PeaceImplies == CInv /\ SInv => PageSettles
<1> SUFFICES ASSUME CInv, SInv, Rest, ~upset
             PROVE  /\ status # None => status = From(host, slot[host])
                    /\ \A h \in followed : store[h] = slot[h]
                    /\ status # None /\ status.state = "ready" => field = status.model
    BY DEF PageSettles
<1>1. Keeps /\ Elsewhere
    BY DEF SInv, Peace, Rest, Work, Free
<1> QED
    BY <1>1 DEF Keeps, Shows, Announced, Faithful, Elsewhere, Settled

LEMMA InitPeace == NamesAssumption /\ Init => SInv
<1> SUFFICES ASSUME NamesAssumption, Init PROVE Peace
    BY DEF SInv
<1>1. \A f \in Flows : flow[f] = IF f = 1 THEN Begin("mount", host) ELSE Idle
    BY DEF Init
<1>2. /\ Begin("mount", host).at = "mount" /\ Begin("mount", host).of = host
      /\ Begin("mount", host).call = "sent" /\ Idle.at = "free"
    <2>1. host \in Hosts
        BY DEF Init
    <2> QED
        BY <2>1, IdleOK, BeginOK DEF Pages
<1>3. \A f \in Flows : Work(flow[f]) => f = 1 /\ flow[f].of = host /\ Stage(flow[f])
    BY <1>1, <1>2 DEF Work, Stage, Mounting, Told, Asks, Faithful, Init
<1> QED
    BY <1>3 DEF Init, Peace, Elsewhere, Keeps, Shows, Announced, Faithful

-----------------------------------------------------------------------------
\* The only one at work.
LEMMA Alone ==
    ASSUME Peace, NEW f \in Flows, Work(flow[f])
    PROVE  /\ \A g \in Flows \ {f} : ~Work(flow[g])
           /\ flow[f].of = host /\ ~timer /\ Stage(flow[f]) /\ Elsewhere
BY DEF Peace

\* The host moves only under a page that does not count on it.
LEMMA PeaceLoadEnds ==
    ASSUME NamesAssumption, CInv, Peace, NEW e \in Hosts, LoadEnds(e)
    PROVE  Peace'
<1>1. /\ UNCHANGED <<handle, host, status, timer, field, store, followed, flow>>
      /\ slot[e].state = "loading"
    BY DEF LoadEnds, handleVars, pageVars
<1>2. \A h \in Hosts \ {e} : slot'[h] = slot[h]
    BY DEF LoadEnds, CInv, Hosted
<1>3. host \in Hosts /\ followed \subseteq Hosts
    BY DEF CInv, Paged
<1>4. \A h \in followed \ {host} : slot'[h] = slot[h]
    BY <1>1, <1>2, <1>3 DEF Peace, Elsewhere, Settled
<1>5. CASE e = host
    <2>1. Faithful => host \notin followed
        BY <1>1, <1>5 DEF Faithful, Settled
    <2>2. Shows => status = None
        BY <1>1, <1>5 DEF Shows
    <2>3. \A s : ~Still(s)
        BY <1>1, <1>5 DEF Still
    <2>4. \A w : Told(w) => w.call = "sent" \/ (w.call = "answered" /\ w.reply.state = "loading")
        BY <2>3 DEF Told, Asks
    <2>5. (Shows => Shows') /\ (Faithful => Faithful')
        BY <1>1, <2>1, <2>2 DEF Shows, Faithful
    <2>6. (Keeps => Keeps') /\ (Following => Following') /\ Elsewhere'
        BY <1>1, <1>4, <2>5 DEF Keeps, Announced, Following, Peace, Elsewhere, Settled
    <2>7. ASSUME NEW f \in Flows, Stage(flow[f])
          PROVE  Stage(flow[f])'
        <3>1. Told(flow[f]) => Told(flow[f])'
            BY <1>1, <2>4 DEF Told, Asks
        <3>2. ~Refreshing(flow[f]) /\ (Unloading(flow[f]) => FALSE)
            BY <1>1, <1>5, <2>3 DEF Refreshing, Unloading, Asks
        <3> QED
            BY <1>1, <2>5, <2>6, <2>7, <3>1, <3>2 DEF Stage, Mounting, Listing, Ticking, Asking, Loading
    <2> QED
        BY <1>1, <2>6, <2>7 DEF Peace, Work
<1>6. CASE e # host
    <2>1. slot'[host] = slot[host] /\ \A h \in followed \cup {host} : slot'[h] = slot[h]
        BY <1>2, <1>3, <1>4, <1>6
    <2>2. (Faithful => Faithful') /\ Elsewhere'
        BY <1>1, <2>1 DEF Faithful, Settled, Elsewhere, Peace
    <2>3. (Shows => Shows') /\ (Keeps => Keeps') /\ (Following => Following')
        BY <1>1, <2>1, <2>2 DEF Shows, Keeps, Announced, Following
    <2>4. ASSUME NEW f \in Flows, Stage(flow[f])
          PROVE  Stage(flow[f])'
        <3>1. (Told(flow[f]) => Told(flow[f])') /\ (Asks(flow[f]) => Asks(flow[f])')
            BY <1>1, <2>1 DEF Told, Asks, Still
        <3>2. Refreshing(flow[f]) => Refreshing(flow[f])'
            BY <1>1, <2>1 DEF Refreshing
        <3> QED
            BY <1>1, <2>2, <2>3, <2>4, <3>1, <3>2 DEF Stage, Mounting, Listing, Ticking, Asking, Loading, Unloading
    <2> QED
        BY <1>1, <2>2, <2>3, <2>4 DEF Peace, Work
<1> QED
    BY <1>5, <1>6

\* The middleware serves the page's one request.
LEMMA PeaceServe ==
    ASSUME NamesAssumption, CInv, Peace, NEW f \in Flows, Serve(f) \/ ServeFails(f), ~upset'
    PROVE  Peace'
<1> DEFINE w == flow[f]
<1>0. FlowOK(w) /\ w \in FlowType(w.at) /\ FlowsOK /\ host \in Hosts /\ followed \subseteq Hosts
    BY DEF CInv, FlowsOK, FlowOK, Paged
<1>1. Work(w)
    BY <1>0 DEF Serve, ServeStatus, FetchInfo, ApplyInfo, ServeReload, AnswerReload, ServeUnload, ServeInfo,
          ServeFails, Work, FlowOK
<1>2. /\ \A g \in Flows \ {f} : ~Work(flow[g])
      /\ w.of = host /\ ~timer /\ Stage(w) /\ Elsewhere
    BY <1>1, Alone
<1>3. PICK new : Put(f, new) /\ new.at = w.at /\ new.of = w.of
    BY <1>0, ServeCalls
<1>4. \A x : Put(f, x) => flow'[f] = x
    BY <1>0 DEF Put, FlowsOK
<1>5. UNCHANGED <<host, status, timer, field, store, followed>> /\ Work(new)
    BY <1>1, <1>3 DEF Serve, ServeStatus, FetchInfo, ApplyInfo, ServeReload, AnswerReload, ServeUnload, ServeInfo,
          ServeFails, pageVars, Work
<1>6. ASSUME Stage(flow[f])', Elsewhere'
      PROVE  Peace'
    BY <1>0, <1>2, <1>3, <1>5, <1>6, PeacePut
<1>c. ASSUME NEW y, Put(f, Answered(f, y))
      PROVE  flow'[f].call = "answered" /\ flow'[f].reply = y
    <2>1. flow'[f] = Answered(f, y)
        BY <1>4, <1>c
    <2> QED
        BY <1>0, <2>1 DEF FlowType, Answered
<1>g. ASSUME NEW y, Put(f, [w EXCEPT !.call = "refresh", !.reply = y])
      PROVE  flow'[f].call = "refresh" /\ flow'[f].reply = y
    <2>1. flow'[f] = [w EXCEPT !.call = "refresh", !.reply = y]
        BY <1>4, <1>g
    <2> QED
        BY <1>0, <2>1 DEF FlowType
<1>d. ASSUME NEW y, Put(f, [w EXCEPT !.call = "apply", !.news = y])
      PROVE  flow'[f].call = "apply" /\ flow'[f].news = y /\ flow'[f].reply = w.reply
    <2>1. flow'[f] = [w EXCEPT !.call = "apply", !.news = y]
        BY <1>4, <1>d
    <2> QED
        BY <1>0, <2>1 DEF FlowType
<1>e. ASSUME Put(f, [w EXCEPT !.call = "answered", !.news = None])
      PROVE  flow'[f].call = "answered" /\ flow'[f].reply = w.reply
    <2>1. flow'[f] = [w EXCEPT !.call = "answered", !.news = None]
        BY <1>4, <1>e
    <2> QED
        BY <1>0, <2>1 DEF FlowType
<1>f. ASSUME Put(f, [w EXCEPT !.call = "accepted"])
      PROVE  flow'[f].call = "accepted"
    <2>1. flow'[f] = [w EXCEPT !.call = "accepted"]
        BY <1>4, <1>f
    <2> QED
        BY <1>0, <2>1 DEF FlowType
<1>8. flow'[f].at = w.at
    BY <1>3, <1>4
<1>a. ASSUME UNCHANGED <<slot, handle>>
      PROVE  /\ Elsewhere' /\ (Faithful => Faithful') /\ (Keeps => Keeps') /\ (Following => Following')
             /\ (Shows => Shows')
    BY <1>2, <1>5, <1>a DEF Elsewhere, Settled, Faithful, Keeps, Shows, Announced, Following
<1>b. w.call \in {"refresh", "apply"} => w.at \in {"mount", "tick", "unload"}
    BY <1>0 DEF FlowOK, FlowType, Pages, Infos
<1> HIDE DEF w
<1>9. CASE ServeStatus(f)
    <2>1. UNCHANGED <<slot, handle>> /\ w.at \in {"mount", "tick"} /\ w.call = "sent"
        BY <1>9 DEF ServeStatus, hostVars, handleVars, w
    <2>2. (Mounting(w) \/ Ticking(w)) /\ slot[host] \in SlotType
        BY <1>0, <1>2, <2>1 DEF Stage, Mounting, Listing, Ticking, Refreshing, Asking, Loading, Unloading, CInv, Hosted
    <2>3. \/ slot[host].state # "loading" /\ flow'[f].call = "refresh" /\ flow'[f].reply = slot[host]
          \/ slot[host].state = "loading" /\ flow'[f].call = "answered" /\ flow'[f].reply = slot[host]
        <3>1. UNCHANGED upset
            BY <1>9 DEF ServeStatus
        <3>2. IF slot[host].state \in {"ready", "empty", "error"}
              THEN Put(f, [w EXCEPT !.call = "refresh", !.reply = slot[host]])
              ELSE Put(f, Answered(f, slot[host]))
            BY <1>2, <1>9, <3>1 DEF ServeStatus, w
        <3> QED
            BY <1>c, <1>g, <2>2, <3>2, Zenon DEF SlotType, States
    <2>4. Told(flow[f])'
        BY <2>1, <2>3, <1>5 DEF Told, Asks, Still
    <2>5. Stage(flow[f])'
        BY <1>5, <1>8, <1>a, <2>1, <2>2, <2>4 DEF Stage, Mounting, Ticking
    <2> QED
        BY <1>6, <1>a, <2>1, <2>5
<1>10. CASE FetchInfo(f)
    <2>1. UNCHANGED <<slot, handle, upset>> /\ w.call = "refresh"
        BY <1>10 DEF FetchInfo, hostVars, handleVars, w
    <2>2. (Mounting(w) \/ Ticking(w) \/ Unloading(w)) /\ Still(w.reply)
        BY <1>2, <1>b, <2>1 DEF Stage, Mounting, Listing, Ticking, Refreshing, Asking, Loading, Unloading, Told, Asks
    <2>3. flow'[f].call = "apply" /\ flow'[f].reply = w.reply /\ flow'[f].news = slot[host]
        <3>1. Put(f, [w EXCEPT !.call = "apply", !.news = slot[host]])
            BY <1>2, <1>10, <2>1 DEF FetchInfo, w
        <3> QED
            BY <1>d, <3>1, Zenon
    <2>4. Asks(flow[f])' /\ Told(flow[f])'
        BY <2>1, <2>2, <2>3, <1>5 DEF Told, Asks, Still
    <2>5. Stage(flow[f])'
        BY <1>5, <1>8, <1>a, <2>1, <2>2, <2>3, <2>4 DEF Stage, Mounting, Ticking, Unloading
    <2> QED
        BY <1>6, <1>a, <2>1, <2>5
<1>11. CASE ApplyInfo(f)
    <2>1. slot' = slot /\ w.call = "apply" /\ handle' = [handle EXCEPT ![host] = w.news]
        BY <1>2, <1>11 DEF ApplyInfo, hostVars, w
    <2>2. (Mounting(w) \/ Ticking(w) \/ Unloading(w)) /\ Still(w.reply) /\ w.news = w.reply
        BY <1>2, <1>b, <2>1 DEF Stage, Mounting, Listing, Ticking, Refreshing, Asking, Loading, Unloading, Told, Asks
    <2>3. flow'[f].call = "answered" /\ flow'[f].reply = w.reply
        <3>1. Put(f, [w EXCEPT !.call = "answered", !.news = None])
            BY <1>11 DEF ApplyInfo, w
        <3> QED
            BY <1>e, <3>1, Zenon
    <2>4. handle'[host] = w.reply /\ w.reply = slot[host] /\ \A h \in Hosts \ {host} : handle'[h] = handle[h]
        BY <1>0, <2>1, <2>2 DEF CInv, Hosted, Still
    <2>5. Elsewhere' /\ (Faithful => Faithful') /\ (Following => Following')
        BY <1>0, <1>2, <1>5, <2>1, <2>4 DEF Elsewhere, Faithful, Settled, Following
    <2>6. Asks(flow[f])' /\ Told(flow[f])'
        BY <2>1, <2>2, <2>3, <2>4, <1>5 DEF Told, Asks, Still
    <2>7. Stage(flow[f])'
        BY <1>5, <1>8, <2>2, <2>3, <2>5, <2>6 DEF Stage, Mounting, Ticking, Unloading
    <2> QED
        BY <1>6, <2>5, <2>7
<1>12. CASE ServeReload(f)
    <2>1. handle' = handle /\ w.at = "load" /\ w.call = "sent" /\ host \in Hosts
        BY <1>0, <1>12 DEF ServeReload, handleVars, w
    <2>2. Keeps
        BY <1>2, <2>1 DEF Stage, Mounting, Listing, Ticking, Refreshing, Asking, Loading, Unloading
    <2>3. CASE slot[host].state = "loading"
        <3>1. Put(f, Answered(f, None)) /\ slot' = slot
            BY <1>2, <1>12, <2>3 DEF ServeReload, hostVars, w
        <3>2. Asking(flow[f])'
            BY <1>4, <1>c, <1>f, <1>8, <1>a, <2>1, <2>2, <3>1 DEF Asking
        <3> QED
            BY <1>6, <1>a, <2>1, <3>1, <3>2 DEF Stage
    <2>4. CASE slot[host].state # "loading"
        <3>1. Put(f, [w EXCEPT !.call = "accepted"]) /\ slot' = [slot EXCEPT ![host].state = "loading"]
            BY <1>2, <1>12, <2>4 DEF ServeReload, w
        <3>2. flow'[f].call = "accepted"
            BY <1>c, <1>f, <3>1, Zenon
        <3>4. Loading(flow[f])'
            BY <1>8, <2>1, <3>2 DEF Loading
        <3>3. Elsewhere'
            BY <1>0, <1>2, <1>5, <2>1, <3>1 DEF Elsewhere, Settled, CInv, Hosted
        <3> QED
            BY <1>6, <3>3, <3>4 DEF Stage
    <2> QED
        BY <2>3, <2>4
<1>13. CASE AnswerReload(f)
    <2>1. UNCHANGED <<slot, handle>> /\ w.call = "accepted" /\ slot[host].state = "loading" /\ Put(f, Answered(f, slot[host]))
        BY <1>2, <1>13 DEF AnswerReload, hostVars, handleVars, w
    <2>2. w.at = "load" /\ slot[host] # None
        BY <1>0, <2>1 DEF FlowOK, FlowType, Pages, Infos, CInv, Hosted, NamesAssumption, w
    <2>3. Loading(flow[f])'
        BY <1>4, <1>c, <1>8, <2>1, <2>2 DEF Loading
    <2> QED
        BY <1>6, <1>a, <2>1, <2>3 DEF Stage
<1>14. CASE ServeUnload(f)
    <2>1. handle' = handle /\ w.at = "unload" /\ w.call = "sent"
        BY <1>14 DEF ServeUnload, handleVars, w
    <2>2. Keeps
        BY <1>2, <2>1 DEF Stage, Mounting, Listing, Ticking, Refreshing, Asking, Loading, Unloading
    <2>3. CASE slot[host].state = "loading"
        <3>1. Put(f, Answered(f, None)) /\ slot' = slot
            BY <1>2, <1>14, <2>3 DEF ServeUnload, w
        <3>2. Asking(flow[f])'
            BY <1>4, <1>c, <1>g, <1>8, <1>a, <2>1, <2>2, <3>1 DEF Asking
        <3> QED
            BY <1>6, <1>a, <2>1, <3>1, <3>2 DEF Stage
    <2>4. CASE slot[host].state # "loading"
        <3>1. Put(f, [w EXCEPT !.call = "refresh", !.reply = slot'[host]]) /\ slot' = [slot EXCEPT ![host] = Slot("empty", None)]
            BY <1>2, <1>14, <2>4 DEF ServeUnload, w
        <3>2. slot'[host] = Slot("empty", None) /\ \A h \in Hosts \ {host} : slot'[h] = slot[h]
            BY <1>0, <3>1 DEF CInv, Hosted
        <3>3. Slot("empty", None) # None /\ Slot("empty", None).state = "empty"
            BY DEF NamesAssumption, Slot, SlotType, States, OptModel
        <3>6. flow'[f].call = "refresh" /\ flow'[f].reply = slot'[host]
            BY <1>c, <1>g, <3>1, Zenon
        <3>4. Unloading(flow[f])'
            BY <1>5, <1>8, <2>1, <3>2, <3>3, <3>6 DEF Unloading, Asks, Still
        <3>5. Elsewhere'
            BY <1>0, <1>2, <1>5, <2>1, <3>2 DEF Elsewhere, Settled
        <3> QED
            BY <1>6, <3>4, <3>5 DEF Stage
    <2> QED
        BY <2>3, <2>4
<1>15. CASE ServeInfo(f)
    <2>1. UNCHANGED <<slot, handle>> /\ w.at \in Infos /\ Put(f, Answered(f, handle))
        BY <1>15 DEF ServeInfo, Infos, hostVars, handleVars, w
    <2>2. Refreshing(w)
        BY <1>2, <2>1 DEF Stage, Mounting, Listing, Ticking, Refreshing, Asking, Loading, Unloading, Infos
    <2>3. \A h \in followed \cup {host} : handle[h] = slot[h]
        BY <1>2, <2>2 DEF Refreshing, Elsewhere, Settled
    <2>4. Refreshing(flow[f])'
        BY <1>4, <1>5, <1>c, <1>8, <2>1, <2>2, <2>3 DEF Refreshing
    <2> QED
        BY <1>6, <1>a, <2>1, <2>4 DEF Stage
<1>16. CASE ServeFails(f)
    BY <1>16 DEF ServeFails
<1> QED
    BY <1>9, <1>10, <1>11, <1>12, <1>13, <1>14, <1>15, <1>16 DEF Serve

\* A status arrives, or a poll is lost: the page shows what the host said.
LEMMA PeaceStatus ==
    ASSUME NamesAssumption, CInv, Peace, NEW f \in Flows, Work(flow[f]), UNCHANGED <<slot, handle, store, host>>,
           flow[f].call = "answered", NEW answer \in BOOLEAN, TakeStatus(f, answer), Note,
           \/ Mounting(flow[f]) \/ Ticking(flow[f])
           \/ answer /\ (Loading(flow[f]) \/ Unloading(flow[f]))
    PROVE  /\ Shown = "loading" => Following' /\ Elsewhere' /\ (answer \/ Ticking(flow[f]))
           /\ Shown # "loading" => followed' = followed /\ Shows' /\ (Mounting(flow[f]) => Faithful')
           /\ Shown # "loading" /\ answer => slot[host].state # "loading" /\ handle[host] = slot[host]
           /\ Elsewhere'
<1> DEFINE w == flow[f]
<1>1. w.of = host /\ Stage(w) /\ Elsewhere
    BY Alone
<1>2. answer => w.reply \in SlotType /\ w.reply # None
    BY DEF CInv, FlowsOK, FlowOK, Mounting, Ticking, Loading, Unloading, FlowType, Replies, Infos, NamesAssumption
<1>3. answer => /\ status' # None /\ status' = From(host, w.reply) /\ status'.of = host
                /\ status'.state = w.reply.state /\ Shown = w.reply.state
    BY <1>1, <1>2, TakenOK DEF TakeStatus, CInv, Work
<1>4. ~answer => status' = status /\ (Mounting(w) => Shown = "unknown") /\ (Ticking(w) => Shown = "loading")
    BY DEF TakeStatus, Shown, Mounting, Ticking, Following
<1>5. answer /\ w.reply.state # "loading" => Still(w.reply) /\ handle[host] = w.reply
    BY DEF Mounting, Ticking, Loading, Unloading, Told, Asks
<1>6. followed' \subseteq followed \cup {host} /\ (Shown # "loading" => followed' = followed)
    BY <1>3, <1>4 DEF Note, Ticking, Following
<1>7. Elsewhere'
    BY <1>1, <1>6 DEF Elsewhere, Settled
<1> HIDE DEF w
<1>8. CASE Shown = "loading"
    <2>1. Following' /\ (answer \/ Ticking(w))
        BY <1>3, <1>4, <1>8 DEF Following, Ticking, Mounting, w
    <2> QED
        BY <1>7, <1>8, <2>1 DEF w
<1>9. CASE Shown # "loading"
    <2>1. answer => Still(w.reply) /\ handle[host] = w.reply
        BY <1>3, <1>5, <1>9
    <2>2. Shows'
        BY <1>3, <1>4, <1>9, <2>1 DEF Shows, Still, Mounting, w
    <2>3. Mounting(w) => Faithful'
        BY <1>6, <1>9 DEF Mounting, Faithful, Settled
    <2> QED
        BY <1>6, <1>7, <1>9, <2>1, <2>2, <2>3 DEF Still, w
<1> QED
    BY <1>8, <1>9

LEMMA PeaceDeliver ==
    ASSUME NamesAssumption, CInv, Peace, NEW f \in Flows, Deliver(f), ~upset'
    PROVE  Peace'
<1> DEFINE w == flow[f]
<1>0. FlowOK(w) /\ w \in FlowType(w.at) /\ FlowsOK /\ host \in Hosts /\ followed \subseteq Hosts
    BY DEF CInv, FlowsOK, FlowOK, Paged
<1>i. Idle.at = "free" /\ ~Work(Idle)
    BY IdleOK DEF Work
<1>a. ASSUME Work(w)
      PROVE  /\ \A g \in Flows \ {f} : ~Work(flow[g])
             /\ w.of = host /\ ~timer /\ Stage(w) /\ Elsewhere
    BY <1>a, Alone
<1>b. \A x : Put(f, x) => flow'[f] = x
    BY <1>0 DEF Put, FlowsOK
<1>1. CASE MountStatus(f)
    <2>1. UNCHANGED <<slot, handle, store, host>> /\ w.at = "mount" /\ w.call = "answered" /\ Note /\ Work(w)
        BY <1>1 DEF MountStatus, hostVars, handleVars, Arrives, Lost, Work
    <2>2. Mounting(w)
        BY <1>a, <2>1 DEF Stage, Mounting, Listing, Ticking, Refreshing, Asking, Loading, Unloading
    <2>3. PICK answer \in BOOLEAN : TakeStatus(f, answer)
        BY <1>1, Zenon DEF MountStatus
    <2>4. /\ Shown = "loading" => Following' /\ answer
          /\ Shown # "loading" => Shows' /\ Faithful'
          /\ Elsewhere'
        <3>1. ~Ticking(w)
            BY <2>1 DEF Ticking
        <3> QED
            BY <2>1, <2>2, <2>3, <3>1, PeaceStatus
    <2>5. CASE w.listing
        <3> DEFINE new == [w EXCEPT !.call = "none", !.reply = None]
        <3>1. Put(f, new) /\ new.at = "mount" /\ new.call = "none" /\ new.of = host
            BY <1>0, <1>1, <1>a, <2>1, <2>5 DEF MountStatus, FlowType
        <3>2. UNCHANGED timer
            BY <1>1, <2>5 DEF MountStatus
        <3> HIDE DEF new
        <3>3. Listing(flow[f])'
            BY <1>b, <2>4, <3>1 DEF Listing
        <3>4. Work(new) /\ ~timer' /\ new.of = host'
            BY <1>a, <2>1, <3>1, <3>2 DEF Work
        <3> QED
            BY <1>0, <1>a, <2>1, <2>4, <3>1, <3>3, <3>4, PeacePut DEF Stage
    <2>6. CASE ~w.listing
        <3>1. Put(f, Idle) /\ Mounted
            BY <1>1, <2>6 DEF MountStatus
        <3>2. timer' => Following'
            BY <1>a, <2>1, <2>4, <3>1 DEF Mounted
        <3>3. ~timer' => Keeps'
            BY <2>4, <3>1 DEF Mounted, OnReady, Shown, Keeps, Announced
        <3> QED
            BY <1>0, <1>a, <1>i, <2>1, <2>4, <3>1, <3>2, <3>3, PeacePut
    <2> QED
        BY <2>5, <2>6
<1>2. CASE MountModels(f)
    <2>1. UNCHANGED <<slot, handle, store, host, status, followed>> /\ w.at = "mount" /\ Work(w)
        BY <1>2 DEF MountModels, hostVars, handleVars, Work
    <2>2. Elsewhere'
        BY <1>a, <2>1 DEF Elsewhere, Settled
    <2>3. CASE w.call # "none"
        <3> DEFINE new == [w EXCEPT !.listing = FALSE]
        <3>1. Put(f, new) /\ new.at = "mount" /\ new.call = w.call /\ new.of = host /\ new.reply = w.reply /\ new.news = w.news
            BY <1>0, <1>2, <1>a, <2>1, <2>3 DEF MountModels, FlowType
        <3>2. UNCHANGED timer
            BY <1>2, <2>3 DEF MountModels
        <3>3. Mounting(w)
            BY <1>a, <2>1, <2>3 DEF Stage, Mounting, Listing, Ticking, Refreshing, Asking, Loading, Unloading
        <3> HIDE DEF new
        <3>4. Mounting(flow[f])'
            BY <1>b, <2>1, <3>1, <3>3 DEF Mounting, Told, Asks, Still, Faithful, Settled
        <3>5. Work(new) /\ ~timer' /\ new.of = host'
            BY <1>a, <2>1, <3>1, <3>2 DEF Work
        <3> QED
            BY <1>0, <1>a, <2>1, <2>2, <3>1, <3>4, <3>5, PeacePut DEF Stage
    <2>4. CASE w.call = "none"
        <3>1. Put(f, Idle) /\ Mounted
            BY <1>2, <2>4 DEF MountModels
        <3>2. Listing(w)
            BY <1>a, <2>1, <2>4 DEF Stage, Mounting, Listing, Ticking, Refreshing, Asking, Loading, Unloading, Told, Asks
        <3>3. CASE Following
            BY <1>0, <1>a, <1>i, <2>1, <2>2, <3>1, <3>3, PeacePut DEF Mounted, Shown, Following
        <3>4. CASE Shows /\ Faithful /\ ~Following
            <4>1. Shown # "loading"
                BY <2>1, <3>4 DEF Shown, Shows, Following, From
            <4>2. ~timer'
                BY <1>a, <2>1, <3>1, <4>1 DEF Mounted
            <4>3. Keeps'
                BY <2>1, <3>1, <3>4, <4>1 DEF Mounted, OnReady, Shown, Keeps, Announced, Shows, Faithful, Settled
            <4> QED
                BY <1>0, <1>a, <1>i, <2>1, <2>2, <3>1, <4>2, <4>3, PeacePut
        <3> QED
            BY <3>2, <3>3, <3>4 DEF Listing
    <2> QED
        BY <2>3, <2>4
<1>3. CASE Tick(f)
    <2>1. UNCHANGED <<slot, handle, store, host>> /\ w.at = "tick" /\ w.call = "answered" /\ Note /\ Work(w)
        BY <1>3 DEF Tick, hostVars, handleVars, Arrives, Lost, Work
    <2>2. Ticking(w)
        BY <1>a, <2>1 DEF Stage, Mounting, Listing, Ticking, Refreshing, Asking, Loading, Unloading
    <2>3. PICK answer \in BOOLEAN : TakeStatus(f, answer)
        BY <1>3, Zenon DEF Tick
    <2>4. /\ Shown = "loading" => Following'
          /\ Shown # "loading" /\ answer => slot[host].state # "loading" /\ handle[host] = slot[host]
          /\ Elsewhere'
        BY <2>1, <2>2, <2>3, PeaceStatus
    <2>5. CASE Shown = "loading"
        <3>1. Put(f, Idle) /\ timer'
            BY <1>3, <2>5 DEF Tick
        <3> QED
            BY <1>0, <1>a, <1>i, <2>1, <2>4, <2>5, <3>1, PeacePut
    <2>6. CASE Shown # "loading"
        <3> DEFINE new == [Begin("tick_info", host) EXCEPT !.s = Shown]
        <3>1. answer
            BY <2>2, <2>3, <2>6 DEF TakeStatus, Ticking, Following, Shown
        <3>2. Put(f, new) /\ new.at = "tick_info" /\ new.of = host /\ new.call = "sent" /\ UNCHANGED timer
            BY <1>3, <2>6 DEF Tick, Begin, Idle
        <3> HIDE DEF new
        <3>3. Refreshing(flow[f])'
            BY <1>b, <2>1, <2>4, <2>6, <3>1, <3>2 DEF Refreshing
        <3>4. Work(new) /\ ~timer' /\ new.of = host'
            BY <1>a, <2>1, <3>2 DEF Work
        <3> QED
            BY <1>0, <1>a, <2>1, <2>4, <3>2, <3>3, <3>4, PeacePut DEF Stage
    <2> QED
        BY <2>5, <2>6
<1>4. CASE LoadAnswer(f)
    <2>1. /\ UNCHANGED <<slot, handle, store, host, field>> /\ w.at = "load" /\ w.call = "answered" /\ Work(w)
          /\ Arrives(f)
        BY <1>4 DEF LoadAnswer, hostVars, handleVars, Arrives, Lost, Work
    <2>2. CASE w.reply = None
        <3>1. Keeps
            BY <1>a, <2>1, <2>2 DEF Stage, Mounting, Listing, Ticking, Refreshing, Asking, Loading, Unloading
        <3>2. UNCHANGED <<status, timer>> /\ Put(f, Idle) /\ Note
            BY <1>4, <2>1, <2>2 DEF LoadAnswer, Arrives, Lost
        <3>3. Shown # "loading"
            BY <3>1, <3>2 DEF Keeps, Shows, Shown, From
        <3>4. followed' = followed
            BY <3>2, <3>3 DEF Note
        <3>5. Keeps' /\ Elsewhere' /\ ~timer'
            BY <1>a, <2>1, <3>1, <3>2, <3>4 DEF Keeps, Shows, Announced, Faithful, Settled, Elsewhere
        <3> QED
            BY <1>0, <1>a, <1>i, <2>1, <3>2, <3>5, PeacePut
    <2>3. CASE w.reply # None
        <3>1. Loading(w)
            BY <1>a, <2>1, <2>3 DEF Stage, Mounting, Listing, Ticking, Refreshing, Asking, Loading, Unloading
        <3>2. TakeStatus(f, TRUE) /\ Note
            BY <1>4, <2>1, <2>3 DEF LoadAnswer, Arrives, Lost
        <3>3. Shown = "loading"
            <4>1. w.reply \in SlotType /\ w.at # "free"
                BY <1>0, <2>1, <2>3 DEF FlowType, Replies, Infos
            <4> QED
                BY <1>0, <2>1, <3>1, <3>2, <4>1, TakenOK DEF CInv, Loading
        <3>4. timer' /\ Put(f, Idle)
            BY <1>4, <2>1, <2>3, <3>3 DEF LoadAnswer, Arrives, Lost
        <3>5. Following' /\ Elsewhere'
            BY <2>1, <3>1, <3>2, <3>3, PeaceStatus
        <3> QED
            BY <1>0, <1>a, <1>i, <2>1, <3>4, <3>5, PeacePut
    <2> QED
        BY <2>2, <2>3
<1>5. CASE UnloadAnswer(f)
    <2>1. /\ UNCHANGED <<slot, handle, store, host, field, timer>> /\ w.at = "unload" /\ w.call = "answered" /\ Work(w)
          /\ Arrives(f)
        BY <1>5 DEF UnloadAnswer, hostVars, handleVars, Arrives, Lost, Work
    <2>2. CASE w.reply = None
        <3>1. Keeps
            BY <1>a, <2>1, <2>2 DEF Stage, Mounting, Listing, Ticking, Refreshing, Asking, Loading, Unloading
        <3>2. UNCHANGED <<status, followed>> /\ Put(f, Idle)
            BY <1>5, <2>1, <2>2 DEF UnloadAnswer, Arrives, Lost
        <3>3. Keeps' /\ Elsewhere' /\ ~timer'
            BY <1>a, <2>1, <3>1, <3>2 DEF Keeps, Shows, Announced, Faithful, Settled, Elsewhere
        <3> QED
            BY <1>0, <1>a, <1>i, <2>1, <3>2, <3>3, PeacePut
    <2>3. CASE w.reply # None
        <3> DEFINE new == Begin("unload_info", host)
        <3>1. Still(w.reply) /\ handle[host] = w.reply
            BY <1>a, <2>1, <2>3 DEF Stage, Mounting, Listing, Ticking, Refreshing, Asking, Loading, Unloading, Asks
        <3>2. Put(f, new) /\ followed' = followed \cup {host}
            BY <1>5, <1>a, <2>1, <2>3 DEF UnloadAnswer, Arrives, Lost
        <3>3. new.at = "unload_info" /\ new.of = host /\ new.call = "sent"
            BY <1>0, BeginOK DEF Pages, Infos
        <3> HIDE DEF new
        <3>4. Refreshing(flow[f])'
            BY <1>b, <2>1, <3>1, <3>2, <3>3 DEF Refreshing, Still
        <3>5. Work(new) /\ ~timer' /\ new.of = host' /\ Elsewhere'
            BY <1>a, <2>1, <3>2, <3>3 DEF Work, Elsewhere, Settled
        <3> QED
            BY <1>0, <1>a, <2>1, <3>2, <3>4, <3>5, PeacePut DEF Stage
    <2> QED
        BY <2>2, <2>3
<1>6. CASE \E g \in Flows : InfoAnswer(f, g)
    <2>1. PICK g \in Flows : InfoAnswer(f, g)
        BY <1>6
    <2> DEFINE new == Begin("mount", host)
               old == AfterInfo(f)
    <2>2. /\ UNCHANGED <<slot, handle, host, followed>> /\ w.at \in Infos /\ w.call = "answered" /\ Work(w)
          /\ store' = w.reply /\ status' = None /\ ~timer'
          /\ flow' = [flow EXCEPT ![f] = old, ![g] = new]
        BY <2>1 DEF InfoAnswer, Infos, Reset, hostVars, handleVars, Arrives, Work
    <2>3. Refreshing(w)
        BY <1>a, <2>2 DEF Stage, Mounting, Listing, Ticking, Refreshing, Asking, Loading, Unloading, Infos
    <2>4. new.at = "mount" /\ new.of = host /\ new.call = "sent" /\ ~Work(old)
        BY <1>0, <1>i, <2>2, BeginOK DEF Pages, Infos, AfterInfo, Work, Idle
    <2> HIDE DEF new, old
    <2>5. \A e \in Flows : flow'[e] = IF e = g THEN new ELSE IF e = f THEN old ELSE flow[e]
        BY <1>0, <2>2 DEF FlowsOK
    <2>6. \A e \in Flows : Work(flow[e])' => e = g
        BY <1>a, <2>2, <2>4, <2>5 DEF Work
    <2>7. \A h \in followed : store'[h] = slot[h] /\ handle[h] = slot[h] /\ slot[h].state # "loading"
        BY <1>a, <2>2, <2>3 DEF Refreshing, Elsewhere, Settled
    <2>8. Elsewhere' /\ Faithful'
        BY <2>2, <2>7 DEF Elsewhere, Faithful, Settled
    <2>9. flow'[g] = new
        BY <2>5
    <2>10. Mounting(flow[g])' /\ flow'[g].of = host
        BY <2>2, <2>4, <2>8, <2>9 DEF Mounting, Told, Asks
    <2>11. Work(flow[g])'
        BY <2>4, <2>9 DEF Work
    <2> QED
        BY <2>2, <2>6, <2>8, <2>10, <2>11 DEF Peace, Stage
<1>7. CASE InfoLost(f)
    BY <1>7 DEF InfoLost
<1>8. CASE UnloadModels(f)
    <2>1. /\ UNCHANGED <<slot, handle, store, host, status, timer, followed>> /\ Put(f, Idle) /\ ~Work(w)
          /\ field' = field \/ (status # None /\ status.state = "empty")
        BY <1>8 DEF UnloadModels, hostVars, handleVars, Work
    <2>2. \A g \in Flows : /\ Work(flow[g])' <=> Work(flow[g])
                           /\ Work(flow[g]) => flow'[g] = flow[g]
        BY <1>0, <1>i, <2>1 DEF Put, FlowsOK, Work
    <2>3. (Keeps => Keeps') /\ Elsewhere' /\ (Following => Following')
        BY <2>1 DEF Keeps, Shows, Announced, Faithful, Settled, Following, Elsewhere, Peace
    <2>4. ASSUME NEW g \in Flows, Work(flow[g])
          PROVE  Stage(flow[g])' /\ flow'[g].of = host
        <3>1. Stage(flow[g]) /\ flow'[g] = flow[g] /\ flow[g].of = host
            BY <2>2, <2>4 DEF Peace
        <3>2. (Told(flow[g]) => Told(flow[g])') /\ (Asks(flow[g]) => Asks(flow[g])')
            BY <2>1, <3>1 DEF Told, Asks, Still
        <3>3. (Faithful => Faithful') /\ (Shows => Shows')
            BY <2>1 DEF Faithful, Settled, Shows
        <3> QED
            BY <2>1, <2>3, <3>1, <3>2, <3>3 DEF Stage, Mounting, Listing, Ticking, Refreshing, Asking, Loading, Unloading
    <2> QED
        BY <2>1, <2>2, <2>3, <2>4 DEF Peace
<1> QED
    BY <1>1, <1>2, <1>3, <1>4, <1>5, <1>6, <1>7, <1>8 DEF Deliver

\* The timer fires, or the user acts on a page at rest.
LEMMA PeaceBegins ==
    ASSUME NamesAssumption, CInv, Peace, NEW f \in Flows, Poll(f) \/ User(f), ~upset'
    PROVE  Peace'
<1>0. FlowsOK /\ host \in Hosts
    BY DEF CInv, Paged
<1>b. \A x : Put(f, x) => flow'[f] = x
    BY <1>0 DEF Put, FlowsOK
<1>1. CASE Poll(f)
    <2> DEFINE new == Begin("tick", host)
    <2>1. UNCHANGED <<slot, handle, store, host, status, field, followed>> /\ timer /\ ~timer' /\ Put(f, new)
        BY <1>1 DEF Poll, hostVars, handleVars
    <2>2. new.at = "tick" /\ new.of = host /\ new.call = "sent"
        BY <1>0, BeginOK DEF Pages
    <2> HIDE DEF new
    <2>3. \A g \in Flows : ~Work(flow[g])
        BY <2>1 DEF Peace
    <2>4. Ticking(flow[f])' /\ Elsewhere'
        BY <1>b, <2>1, <2>2 DEF Ticking, Told, Asks, Following, Elsewhere, Settled, Peace
    <2>5. Work(new) /\ new.of = host'
        BY <2>1, <2>2 DEF Work
    <2> QED
        BY <1>0, <2>1, <2>3, <2>4, <2>5, PeacePut DEF Stage
<1>2. CASE User(f)
    <2>1. UNCHANGED <<slot, handle, store, followed>> /\ Rest
        BY <1>2 DEF User, ClickLoad, ClickUnload, ChooseHost, Act, hostVars, handleVars
    <2>2. Keeps /\ Elsewhere /\ ~timer /\ \A g \in Flows : ~Work(flow[g])
        BY <2>1 DEF Rest, Free, Work, Peace
    <2>3. ASSUME NEW at \in {"load", "unload"}, Put(f, Begin(at, host)), UNCHANGED <<host, status, timer, field>>
          PROVE  Peace'
        <3> DEFINE new == Begin(at, host)
        <3>1. new.at = at /\ new.of = host /\ new.call = "sent" /\ Put(f, new)
            BY <1>0, <2>3, BeginOK DEF Pages
        <3> HIDE DEF new
        <3>2. Keeps' /\ Elsewhere'
            BY <2>1, <2>2, <2>3 DEF Keeps, Shows, Announced, Faithful, Settled, Elsewhere
        <3>3. Asking(flow[f])'
            BY <1>b, <3>1, <3>2 DEF Asking
        <3>4. Work(new) /\ new.of = host' /\ ~timer'
            BY <2>2, <2>3, <3>1 DEF Work
        <3> QED
            BY <1>0, <2>2, <3>1, <3>2, <3>3, <3>4, PeacePut DEF Stage
    <2>4. CASE ClickLoad(f) \/ ClickUnload(f)
        BY <2>3, <2>4 DEF ClickLoad, ClickUnload
    <2>5. ASSUME NEW h \in Hosts, ChooseHost(h, f)
          PROVE  Peace'
        <3> DEFINE new == Begin("mount", h)
        <3>1. host' = h /\ h # host /\ status' = None /\ ~timer' /\ Put(f, new)
            BY <2>5 DEF ChooseHost, Reset
        <3>2. new.at = "mount" /\ new.of = h /\ new.call = "sent"
            BY <2>5, BeginOK DEF Pages
        <3> HIDE DEF new
        <3>3. \A g \in followed : Settled(g)
            BY <2>2 DEF Keeps, Faithful, Elsewhere
        <3>4. Faithful' /\ Elsewhere'
            BY <2>1, <3>1, <3>3 DEF Faithful, Elsewhere, Settled
        <3>5. Mounting(flow[f])'
            BY <1>b, <3>1, <3>2, <3>4 DEF Mounting, Told, Asks
        <3>6. Work(new) /\ new.of = host'
            BY <3>1, <3>2 DEF Work
        <3> QED
            BY <1>0, <2>2, <3>1, <3>4, <3>5, <3>6, PeacePut DEF Stage
    <2> QED
        BY <1>2, <2>4, <2>5 DEF User
<1> QED
    BY <1>1, <1>2

\* Whoever was upset once stays so.
LEMMA StaysUpset == [Next]_vars /\ upset => upset'
<1> SUFFICES ASSUME [Next]_vars, upset PROVE upset'
    OBVIOUS
<1>1. ASSUME NEW h \in Hosts, LoadEnds(h) PROVE upset'
    BY <1>1 DEF LoadEnds
<1>2. ASSUME NEW f \in Flows, Serve(f) \/ ServeFails(f) PROVE upset'
    <2>1. CASE ServeStatus(f) \/ FetchInfo(f) \/ ApplyInfo(f) \/ ServeFails(f)
        BY <2>1 DEF ServeStatus, FetchInfo, ApplyInfo, ServeFails
    <2>2. CASE ServeReload(f) \/ AnswerReload(f) \/ ServeUnload(f) \/ ServeInfo(f)
        BY <2>2 DEF ServeReload, AnswerReload, ServeUnload, ServeInfo
    <2> QED
        BY <1>2, <2>1, <2>2 DEF Serve
<1>3. ASSUME NEW f \in Flows, Deliver(f) PROVE upset'
    <2>1. CASE MountStatus(f) \/ MountModels(f) \/ Tick(f) \/ UnloadModels(f)
        BY <2>1 DEF MountStatus, MountModels, Tick, UnloadModels, Arrives
    <2>2. CASE LoadAnswer(f) \/ UnloadAnswer(f) \/ InfoLost(f)
        BY <2>2 DEF LoadAnswer, UnloadAnswer, InfoLost, Arrives
    <2>3. ASSUME NEW g \in Flows, InfoAnswer(f, g) PROVE upset'
        BY <2>3 DEF InfoAnswer, Arrives
    <2> QED
        BY <1>3, <2>1, <2>2, <2>3 DEF Deliver
<1>4. ASSUME NEW f \in Flows, Poll(f) \/ User(f) PROVE upset'
    <2>1. CASE Poll(f)
        BY <2>1 DEF Poll
    <2>2. CASE User(f)
        <3>1. Act => upset'
            BY DEF Act
        <3> QED
            BY <2>2, <3>1 DEF User, ClickLoad, ClickUnload, ChooseHost
    <2> QED
        BY <1>4, <2>1, <2>2
<1>5. ASSUME NEW h \in Read, AskPiece(h) \/ KeepPiece(h) PROVE upset'
    BY <1>5 DEF AskPiece, KeepPiece
<1>6. CASE UNCHANGED vars
    BY <1>6 DEF vars
<1> QED
    BY <1>1, <1>2, <1>3, <1>4, <1>5, <1>6 DEF Next

LEMMA StepPeace == NamesAssumption /\ CInv /\ SInv /\ [Next]_vars => SInv'
<1> SUFFICES ASSUME NamesAssumption, CInv, SInv, [Next]_vars, ~upset' PROVE Peace'
    BY DEF SInv
<1>1. Peace
    <2>1. upset => upset'
        BY StaysUpset
    <2> QED
        BY <2>1 DEF SInv
<1>2. CASE UNCHANGED <<slot, handle, host, status, timer, field, store, followed, flow>>
    <2>1. /\ Elsewhere' = Elsewhere /\ Faithful' = Faithful /\ Shows' = Shows
          /\ Announced' = Announced /\ \A w : Still(w)' = Still(w)
        BY <1>2 DEF Elsewhere, Settled, Faithful, Shows, Announced, Still
    <2>2. Keeps' = Keeps /\ Following' = Following
        BY <1>2, <2>1 DEF Keeps, Following, Elsewhere, Settled
    <2>3. ASSUME NEW f \in Flows, Stage(flow[f]) PROVE Stage(flow[f])'
        BY <1>2, <2>1, <2>2, <2>3 DEF Stage, Mounting, Listing, Ticking, Refreshing, Asking,
              Loading, Unloading, Told, Asks
    <2> QED
        BY <1>1, <1>2, <2>1, <2>2, <2>3 DEF Peace, Work
<1>3. CASE \E h \in Hosts : LoadEnds(h)
    BY <1>1, <1>3, PeaceLoadEnds
<1>4. CASE \E f \in Flows : Serve(f) \/ ServeFails(f)
    BY <1>1, <1>4, PeaceServe
<1>5. CASE \E f \in Flows : Deliver(f)
    BY <1>1, <1>5, PeaceDeliver
<1>6. CASE \E f \in Flows : Poll(f) \/ User(f)
    BY <1>1, <1>6, PeaceBegins
<1>7. (\E h \in Read : AskPiece(h) \/ KeepPiece(h)) \/ UNCHANGED vars
         => UNCHANGED <<slot, handle, host, status, timer, field, store, followed, flow>>
    BY DEF AskPiece, KeepPiece, vars, hostVars, handleVars, pageVars
<1> QED
    BY <1>2, <1>3, <1>4, <1>5, <1>6, <1>7 DEF Next

\* A page that is left in peace has one request under way at most, and what it
\* shows, the store, the handle and the host come to agree step by step.
THEOREM PageInvariant == Spec => []SInv
<1>1. Init => SInv
    BY InitPeace, NamesAssumption
<1>2. CInv /\ SInv /\ [Next]_vars => SInv'
    BY StepPeace, NamesAssumption
<1> QED
    BY <1>1, <1>2, ControlInvariant, PTL DEF Spec

\* With a user who waits for the page, no host out of reach and no request but a
\* poll lost, a page at rest tells the truth about its host, its store and its
\* model (schedulePoll, remote_status and info.refresh).
THEOREM PageSettlesDown == Spec => []PageSettles
<1>1. CInv /\ SInv => PageSettles
    BY PeaceImplies
<1> QED
    BY <1>1, ControlInvariant, PageInvariant, PTL
====
