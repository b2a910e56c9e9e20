-------------------------- MODULE OrderFlow_proofs --------------------------
(***************************************************************************)
(* The way of an order through the Gateway, the Dispatcher and the         *)
(* MatchingEngine, for every number of sessions, orders and approvals.     *)
(*                                                                         *)
(* The properties need one inductive invariant in three layers, each kept  *)
(* by every step under the ones before:                                    *)
(*   Flow       types, and the place of every order: on its way to the     *)
(*              Gateway, with a reading thread, in a queue, or accepted;   *)
(*   Cleared    how often an order went on from the Dispatcher, against    *)
(*              the approvals given and still on their way;                *)
(*   Cancelled  where the cancels come from, how many are on their way,    *)
(*              and that a plain order is ahead of its own.                *)
(* Which orders may share an ORDERID needs an invariant of its own, IInv.  *)
(* The links are sequences; the invariant speaks of how often a message    *)
(* is in them (Count of module Counting), so that a step on a link is an   *)
(* addition or a subtraction.                                              *)
(***************************************************************************)
EXTENDS OrderFlow, Counting

-----------------------------------------------------------------------------
(* AddOrderId: the orders that may share an ORDERID.                       *)

(* The orders being numbered are together, pairwise.                       *)
LoadingTogether ==
    \A s, t \in Sessions :
        loading[s] # 0 /\ loading[t] # 0 /\ loading[s] # loading[t] =>
            {loading[s], loading[t]} \in together

(* An order that got the current count got it while those that are still   *)
(* between the two steps were there.                                       *)
CurrentTogether ==
    \A s \in Sessions, o \in Orders :
        loading[s] # 0 /\ orderId[o] = counter /\ orderId[o] # NoId /\ o # loading[s] =>
            {o, loading[s]} \in together

(* The counter and the ORDERIDs that were taken from it.                   *)
Numbered ==
    /\ counter \in Nat
    /\ orderId \in [Orders -> Nat]
    /\ loading = [s \in Sessions |-> loading[s]]
    /\ \A o \in Orders : orderId[o] <= counter

(* The inductive invariant of the ORDERIDs.                                *)
IInv == Numbered /\ LoadingTogether /\ CurrentTogether /\ SharedIdsOnlyTogether

-----------------------------------------------------------------------------
(* No order has an ORDERID at the start.                                   *)
LEMMA InitNumbers == Init => IInv
  BY DEF Init, IInv, Numbered, LoadingTogether, CurrentTogether, SharedIdsOnlyTogether, NoId

(* fetch_add: no order has the new count yet.                              *)
LEMMA CountKeeps == ASSUME IInv, NEW s \in Sessions, CountOrder(s) PROVE IInv'
<1> DEFINE o == Head(toGateway[s]).order
           others == {loading[t] : t \in Sessions} \ {0}
<1>1. /\ loading[s] = 0 /\ loading' = [loading EXCEPT ![s] = o]
      /\ together' = together \union {{o, p} : p \in others}
      /\ counter' = counter + 1 /\ orderId' = orderId
  BY DEF CountOrder, Reads
<1>2. \A t \in Sessions : loading'[t] = IF t = s THEN o ELSE loading[t]
  BY <1>1 DEF IInv, Numbered
<1>3. Numbered'
  BY <1>1 DEF IInv, Numbered
<1>4. LoadingTogether'
  <2> SUFFICES ASSUME NEW t \in Sessions, NEW u \in Sessions, loading'[t] # 0, loading'[u] # 0,
                      loading'[t] # loading'[u]
               PROVE  {loading'[t], loading'[u]} \in together'
    BY DEF LoadingTogether
  <2>1. CASE t = s
    <3>1. loading'[u] \in others
      BY <1>2, <2>1
    <3> QED BY <1>1, <1>2, <2>1, <3>1
  <2>2. CASE t # s /\ u = s
    <3>1. loading'[t] \in others
      BY <1>2, <2>2
    <3>2. {loading'[t], o} = {o, loading'[t]}
      OBVIOUS
    <3> QED BY <1>1, <1>2, <2>2, <3>1, <3>2
  <2>3. CASE t # s /\ u # s
    <3>1. loading'[t] = loading[t] /\ loading'[u] = loading[u]
      BY <1>2, <2>3
    <3>2. {loading[t], loading[u]} \in together
      BY <3>1 DEF IInv, LoadingTogether
    <3>3. together \subseteq together'
      BY <1>1
    <3> HIDE DEF o, others
    <3> QED BY <3>1, <3>2, <3>3
  <2> QED BY <2>1, <2>2, <2>3
<1>5. CurrentTogether'
  BY <1>1, <1>3 DEF IInv, Numbered, CurrentTogether
<1>6. SharedIdsOnlyTogether'
  BY <1>1 DEF IInv, SharedIdsOnlyTogether
<1> QED BY <1>3, <1>4, <1>5, <1>6 DEF IInv

(* load: whoever has this count was numbered at the same time.             *)
LEMMA LoadKeeps == ASSUME IInv, NEW s \in Sessions, LoadOrderId(s) PROVE IInv'
<1> DEFINE p == loading[s]
<1>1. /\ p # 0 /\ orderId' = [orderId EXCEPT ![p] = counter]
      /\ loading' = [loading EXCEPT ![s] = 0] /\ counter' = counter /\ together' = together
  BY DEF LoadOrderId
<1>2. \A t \in Sessions : loading'[t] = IF t = s THEN 0 ELSE loading[t]
  BY <1>1 DEF IInv, Numbered
<1>3. \A o \in Orders : orderId'[o] = IF o = p THEN counter ELSE orderId[o]
  BY <1>1 DEF IInv, Numbered
<1>4. Numbered'
  <2>1. loading' = [t \in Sessions |-> loading'[t]]
    BY <1>1 DEF IInv, Numbered
  <2>2. orderId' \in [Orders -> Nat] /\ counter' \in Nat
    BY <1>1 DEF IInv, Numbered
  <2>3. \A o \in Orders : orderId'[o] <= counter'
    BY <1>1, <1>3 DEF IInv, Numbered
  <2> QED BY <2>1, <2>2, <2>3 DEF Numbered
<1>5. LoadingTogether'
  BY <1>1, <1>2 DEF IInv, LoadingTogether
<1>6. CurrentTogether'
  <2> SUFFICES ASSUME NEW t \in Sessions, NEW o \in Orders, loading'[t] # 0,
                      orderId'[o] = counter', orderId'[o] # NoId, o # loading'[t]
               PROVE  {o, loading'[t]} \in together'
    BY DEF CurrentTogether
  <2>1. t # s /\ loading'[t] = loading[t]
    BY <1>2
  <2>2. CASE o = p
    BY <1>1, <2>1, <2>2 DEF IInv, LoadingTogether
  <2>3. CASE o # p
    BY <1>1, <1>3, <2>1, <2>3 DEF IInv, CurrentTogether
  <2> QED BY <2>2, <2>3
<1>7. SharedIdsOnlyTogether'
  <2> SUFFICES ASSUME NEW o \in Orders, NEW q \in Orders, o # q, orderId'[o] = orderId'[q],
                      orderId'[o] # NoId
               PROVE  {o, q} \in together'
    BY DEF SharedIdsOnlyTogether
  <2>1. CASE o = p
    <3>1. orderId[q] = counter /\ orderId[q] # NoId
      BY <1>3, <2>1
    <3>2. {q, p} \in together
      BY <1>1, <2>1, <3>1 DEF IInv, CurrentTogether
    <3>3. {q, p} = {o, q}
      BY <2>1
    <3> QED BY <1>1, <3>2, <3>3
  <2>2. CASE q = p
    <3>1. orderId[o] = counter /\ orderId[o] # NoId
      BY <1>3, <2>2
    <3> QED BY <1>1, <2>2, <3>1 DEF IInv, CurrentTogether
  <2>3. CASE o # p /\ q # p
    BY <1>1, <1>3, <2>3 DEF IInv, SharedIdsOnlyTogether
  <2> QED BY <2>1, <2>2, <2>3
<1> QED BY <1>4, <1>5, <1>6, <1>7 DEF IInv

(* Every other handler leaves the numbering alone.                         *)
LEMMA OthersKeep == ASSUME IInv, UNCHANGED numberVars PROVE IInv'
  BY DEF numberVars, IInv, Numbered, LoadingTogether, CurrentTogether, SharedIdsOnlyTogether

(* Every step keeps the ORDERIDs right.                                    *)
LEMMA NextNumbers == IInv /\ [Next]_vars => IInv'
<1> SUFFICES ASSUME IInv, [Next]_vars PROVE IInv'
  OBVIOUS
<1>1. CASE UNCHANGED vars
  BY <1>1, OthersKeep DEF vars
<1>2. CASE ClientSide
  <2>1. UNCHANGED numberVars
    BY <1>2 DEF ClientSide, Connect, OpenViews, Disconnect, ClientRead, SendOrder, SendCancel,
                SendApproval
  <2> QED BY <2>1, OthersKeep
<1>3. CASE GatewaySide
  <2>1. ASSUME NEW s \in Sessions, CountOrder(s) PROVE IInv'
    BY <2>1, CountKeeps
  <2>2. ASSUME NEW s \in Sessions, LoadOrderId(s) PROVE IInv'
    BY <2>2, LoadKeeps
  <2>3. ASSUME NEW s \in Sessions,
               \/ TreatLogon(s) \/ QueueMessage(s) \/ OnNewOrder(s) \/ OnCancelOrder(s)
               \/ OnApproved(s) \/ AcceptClient(s) \/ MakeSession(s)
        PROVE IInv'
    <3>1. UNCHANGED numberVars
      BY <2>3 DEF TreatLogon, QueueMessage, OnNewOrder, OnCancelOrder, OnApproved, AcceptClient,
                  MakeSession, AcceptVarsKept
    <3> QED BY <3>1, OthersKeep
  <2>4. CASE DispatcherReply
    BY <2>4, OthersKeep DEF DispatcherReply
  <2> QED BY <1>3, <2>1, <2>2, <2>3, <2>4 DEF GatewaySide
<1>4. CASE DispatcherSide
  BY <1>4, OthersKeep DEF DispatcherSide, OnConnection, OnOrder, OnCancel, OnApproval
<1>5. CASE EngineSide
  BY <1>5, OthersKeep DEF EngineSide, EngineOrder, EngineCancel, EngineVarsKept
<1> QED BY <1>1, <1>2, <1>3, <1>4, <1>5 DEF Next

(* Whatever the number of reading threads, two orders carry the same       *)
(* ORDERID only if their threads were between the fetch_add and the load   *)
(* of AddOrderId at the same time.                                         *)
THEOREM SharedIds == Spec => []SharedIdsOnlyTogether
<1>1. IInv => SharedIdsOnlyTogether
  BY DEF IInv
<1> QED BY InitNumbers, NextNumbers, <1>1, PTL DEF Spec

-----------------------------------------------------------------------------
(* The links, by how often a message is in them.                           *)

(* A link between two servers, as a family of one.                         *)
One(link) == [x \in {1} |-> link]

(* How often a message is on its way to the Gateway, in the queues of its  *)
(* sessions, on its way to the Dispatcher and on its way to the            *)
(* MatchingEngine.                                                         *)
InGateway(m)    == Count(toGateway, m)
InQueue(m)      == Count(gatewayQueue, m)
InDispatcher(m) == Count(One(toDispatcher), m)
InEngine(m)     == Count(One(toEngine), m)

-----------------------------------------------------------------------------

(* Sessions is a finite set, so its links can be counted in.               *)
LEMMA SessionsFinite == IsFiniteSet(Sessions)
  BY FlowAssumption

(* A single link is a family of links.                                     *)
LEMMA OneTyped == ASSUME NEW M, NEW q \in Seq(M) PROVE One(q) \in [{1} -> Seq(M)]
  BY DEF One

(* The count of a single link, when a message joins it.                    *)
LEMMA OneAppend ==
    ASSUME NEW M, NEW q \in Seq(M), NEW n \in M
    PROVE  \A m : Count(One(Append(q, n)), m) = Count(One(q), m) + (IF n = m THEN 1 ELSE 0)
<1>1. One(Append(q, n)) = [One(q) EXCEPT ![1] = Append(@, n)]
  BY DEF One
<1>2. Appended({1}, M, One(q), 1, n, One(Append(q, n)))
  BY <1>1, OneTyped, FS_Singleton DEF Appended, Links
<1> QED BY <1>2, CountAppend

(* The count of a single link, when its head leaves.                       *)
LEMMA OneTail ==
    ASSUME NEW M, NEW q \in Seq(M), q # <<>>
    PROVE  \A m : Count(One(Tail(q)), m) = Count(One(q), m) - (IF Head(q) = m THEN 1 ELSE 0)
<1>1. One(Tail(q)) = [One(q) EXCEPT ![1] = Tail(@)] /\ One(q)[1] = q
  BY DEF One
<1>2. HeadTaken({1}, M, One(q), 1, One(Tail(q)))
  BY <1>1, OneTyped, FS_Singleton DEF HeadTaken, Links
<1> QED BY <1>1, <1>2, CountTail

(* What a message of a type is.                                            *)
LEMMA Shapes ==
    ASSUME NEW m \in Messages
    PROVE  /\ m.type = "O" => m.order \in Orders /\ m = OrderMessage(m.order)
           /\ m.type = "C" => /\ m.id \in Ids \union {NoId} /\ m.of \in Orders
                              /\ m = CancelMessage(m.id, m.of)
           /\ m.type = "Y" => m.id \in Ids /\ m = ApprovedMessage(m.id)
           /\ m.type = "F" => m.user \in Users /\ m.session \in Sessions
           /\ m.type = "W" => m.id \in Ids /\ m.session \in Sessions
           /\ m.type \in {"A", "J"} => m.tag \in Tags \union {NoTag} /\ m.id \in Ids \union {NoId}
  BY DEF Messages, OrderMessage, CancelMessage, ApprovedMessage

(* What the handlers send are messages of the model.                       *)
LEMMA AreMessages ==
    /\ \A o \in Orders : OrderMessage(o) \in Messages
    /\ \A i \in Ids \union {NoId}, o \in Orders : CancelMessage(i, o) \in Messages
    /\ \A i \in Ids : ApprovedMessage(i) \in Messages
    /\ \A s \in Sessions : Information(s) \in Messages
    /\ \A i \in Ids, s \in Sessions : RequestApproval(i, s) \in Messages
    /\ \A type \in {"A", "J"}, t \in Tags \union {NoTag}, i \in Ids \union {NoId} :
           Reply(type, t, i) \in Messages
    /\ \A type \in {"L", "Q", "R", "D", "Z"} : Message(type) \in Messages
<1>1. \A s \in Sessions : User[s] \in Users
  BY DEF Users
<1> QED BY <1>1 DEF Messages, OrderMessage, CancelMessage, ApprovedMessage, Information,
                    RequestApproval, Reply, Message

(* The fields of each message.                                             *)
LEMMA Types ==
    ASSUME NEW o, NEW i, NEW s
    PROVE  /\ OrderMessage(o).type = "O" /\ CancelMessage(i, o).type = "C"
           /\ ApprovedMessage(i).type = "Y" /\ Information(s).type = "F"
           /\ RequestApproval(i, s).type = "W"
           /\ \A type : Reply(type, o, i).type = type /\ Message(type).type = type
           /\ OrderMessage(o).order = o
           /\ CancelMessage(i, o).id = i /\ CancelMessage(i, o).of = o
           /\ ApprovedMessage(i).id = i
           /\ RequestApproval(i, s).id = i /\ RequestApproval(i, s).session = s
           /\ Information(s).user = User[s] /\ Information(s).session = s
           /\ \A type : Reply(type, o, i).tag = o /\ Reply(type, o, i).id = i
  BY DEF OrderMessage, CancelMessage, ApprovedMessage, Information, RequestApproval, Reply, Message

-----------------------------------------------------------------------------
(* Links stay links.                                                       *)
LEMMA LinkAppend ==
    ASSUME NEW S, NEW M, NEW links \in [S -> Seq(M)], NEW s \in S, NEW n \in M
    PROVE  [links EXCEPT ![s] = Append(@, n)] \in [S -> Seq(M)]
<1>1. Append(links[s], n) \in Seq(M)
  BY AppendProperties
<1> QED BY <1>1

(* The head of a link is a message, and the rest of it a link.             *)
LEMMA LinkTail ==
    ASSUME NEW S, NEW M, NEW links \in [S -> Seq(M)], NEW s \in S, links[s] # <<>>
    PROVE  [links EXCEPT ![s] = Tail(@)] \in [S -> Seq(M)] /\ Head(links[s]) \in M
<1>1. links[s] \in Seq(M)
  OBVIOUS
<1>2. Tail(links[s]) \in Seq(M) /\ Head(links[s]) \in M
  BY <1>1, HeadTailProperties
<1> QED BY <1>2

(* A piece of a link is a link.                                            *)
LEMMA LinkCut ==
    ASSUME NEW S, NEW M, NEW links \in [S -> Seq(M)], NEW s \in S,
           NEW a \in Nat \ {0}, NEW n \in 0..Len(links[s])
    PROVE  [links EXCEPT ![s] = SubSeq(@, a, n)] \in [S -> Seq(M)]
<1>1. links[s] \in Seq(M) /\ Len(links[s]) \in Nat
  BY LenProperties
<1>2. \A i \in a..n : links[s][i] \in M
  BY <1>1, ElementOfSeq
<1>3. SubSeq(links[s], a, n) \in Seq(M)
  BY <1>1, <1>2, SubSeqProperties
<1> QED BY <1>3

-----------------------------------------------------------------------------
(* What the links hold, after a step of one of them.                       *)

(* The counts are naturals.                                                *)
LEMMA CountsTyped ==
    ASSUME LinksOK, NEW m
    PROVE  /\ InGateway(m) \in Nat /\ InQueue(m) \in Nat
           /\ InDispatcher(m) \in Nat /\ InEngine(m) \in Nat
<1>1. InGateway(m) \in Nat /\ InQueue(m) \in Nat
  BY SessionsFinite, PlacesFinite DEF LinksOK, InGateway, InQueue
<1>2. One(toDispatcher) \in [{1} -> Seq(Messages)] /\ One(toEngine) \in [{1} -> Seq(Messages)]
  BY OneTyped DEF LinksOK
<1>3. InDispatcher(m) \in Nat /\ InEngine(m) \in Nat
  BY <1>2, FS_Singleton, PlacesFinite DEF InDispatcher, InEngine
<1> QED BY <1>1, <1>3

(* A client sends.                                                         *)
LEMMA GatewayAppend ==
    ASSUME LinksOK, NEW s \in Sessions, NEW n \in Messages,
           toGateway' = [toGateway EXCEPT ![s] = Append(@, n)]
    PROVE  \A m : InGateway(m)' = InGateway(m) + (IF n = m THEN 1 ELSE 0)
<1>1. Appended(Sessions, Messages, toGateway, s, n, toGateway')
  BY SessionsFinite DEF LinksOK, Appended, Links
<1> QED BY <1>1, CountAppend DEF InGateway

(* The reading thread of a session takes a message.                        *)
LEMMA GatewayTail ==
    ASSUME LinksOK, NEW s \in Sessions, toGateway[s] # <<>>,
           toGateway' = [toGateway EXCEPT ![s] = Tail(@)]
    PROVE  \A m : InGateway(m)' = InGateway(m) - (IF Head(toGateway[s]) = m THEN 1 ELSE 0)
<1>1. HeadTaken(Sessions, Messages, toGateway, s, toGateway')
  BY SessionsFinite DEF LinksOK, HeadTaken, Links
<1> QED BY <1>1, CountTail DEF InGateway

(* A connection ends: what was not read is lost.                           *)
LEMMA GatewayCut ==
    ASSUME LinksOK, NEW s \in Sessions, NEW a \in Nat \ {0}, NEW n \in 0..Len(toGateway[s]),
           toGateway' = [toGateway EXCEPT ![s] = SubSeq(@, a, n)]
    PROVE  \A m : InGateway(m)' <= InGateway(m)
<1>1. PieceLeft(Sessions, Messages, toGateway, s, a, n, toGateway')
  BY SessionsFinite DEF LinksOK, PieceLeft, Links
<1> QED BY <1>1, CountCut DEF InGateway

(* A message is put into the queue of its session.                         *)
LEMMA QueueAppend ==
    ASSUME LinksOK, NEW s \in Sessions, NEW n \in Messages,
           gatewayQueue' = [gatewayQueue EXCEPT ![s] = Append(@, n)]
    PROVE  \A m : InQueue(m)' = InQueue(m) + (IF n = m THEN 1 ELSE 0)
<1>1. Appended(Sessions, Messages, gatewayQueue, s, n, gatewayQueue')
  BY SessionsFinite DEF LinksOK, Appended, Links
<1> QED BY <1>1, CountAppend DEF InQueue

(* GatewaySession::Update takes a message.                                 *)
LEMMA QueueTail ==
    ASSUME LinksOK, NEW s \in Sessions, gatewayQueue[s] # <<>>, Take(s)
    PROVE  \A m : InQueue(m)' = InQueue(m) - (IF Head(gatewayQueue[s]) = m THEN 1 ELSE 0)
<1>1. HeadTaken(Sessions, Messages, gatewayQueue, s, gatewayQueue')
  BY SessionsFinite DEF LinksOK, Take, HeadTaken, Links
<1> QED BY <1>1, CountTail DEF InQueue

(* The Gateway sends to the Dispatcher.                                    *)
LEMMA DispatcherAppend ==
    ASSUME LinksOK, NEW n \in Messages, Forward(n)
    PROVE  \A m : InDispatcher(m)' = InDispatcher(m) + (IF n = m THEN 1 ELSE 0)
  BY OneAppend DEF LinksOK, InDispatcher, Forward

(* The Dispatcher receives.                                                *)
LEMMA DispatcherTail ==
    ASSUME LinksOK, NEW type, Receive(type)
    PROVE  \A m : InDispatcher(m)' = InDispatcher(m) - (IF Head(toDispatcher) = m THEN 1 ELSE 0)
  BY OneTail DEF LinksOK, InDispatcher, Receive

(* The Dispatcher sends to the MatchingEngine.                             *)
LEMMA EngineAppend ==
    ASSUME LinksOK, NEW n \in Messages, toEngine' = Append(toEngine, n)
    PROVE  \A m : InEngine(m)' = InEngine(m) + (IF n = m THEN 1 ELSE 0)
  BY OneAppend DEF LinksOK, InEngine

(* The MatchingEngine receives.                                            *)
LEMMA EngineTail ==
    ASSUME LinksOK, toEngine # <<>>, toEngine' = Tail(toEngine)
    PROVE  \A m : InEngine(m)' = InEngine(m) - (IF Head(toEngine) = m THEN 1 ELSE 0)
  BY OneTail DEF LinksOK, InEngine

(* A head of a link is one of its messages, and counts.                    *)
LEMMA Heads ==
    ASSUME LinksOK
    PROVE  /\ \A s \in Sessions : toGateway[s] # <<>> =>
                  Head(toGateway[s]) \in Messages /\ InGateway(Head(toGateway[s])) > 0
           /\ \A s \in Sessions : gatewayQueue[s] # <<>> =>
                  Head(gatewayQueue[s]) \in Messages /\ InQueue(Head(gatewayQueue[s])) > 0
           /\ toDispatcher # <<>> =>
                  Head(toDispatcher) \in Messages /\ InDispatcher(Head(toDispatcher)) > 0
           /\ toEngine # <<>> => Head(toEngine) \in Messages /\ InEngine(Head(toEngine)) > 0
<1>1. ASSUME NEW q \in Seq(Messages), q # <<>>
      PROVE  Head(q) \in Messages /\ 1 \in DOMAIN q /\ Head(q) = q[1]
  BY <1>1, HeadTailProperties, LenProperties, EmptySeq
<1>2. ASSUME NEW s \in Sessions, toGateway[s] # <<>>
      PROVE  Head(toGateway[s]) \in Messages /\ InGateway(Head(toGateway[s])) > 0
  <2>1. toGateway \in [Sessions -> Seq(Messages)] /\ toGateway[s] \in Seq(Messages)
    BY DEF LinksOK
  <2>2. 1 \in DOMAIN toGateway[s] /\ Head(toGateway[s]) = toGateway[s][1]
        /\ Head(toGateway[s]) \in Messages
    BY <1>1, <1>2, <2>1
  <2> QED BY <2>1, <2>2, SessionsFinite, CountPositive DEF InGateway
<1>3. ASSUME NEW s \in Sessions, gatewayQueue[s] # <<>>
      PROVE  Head(gatewayQueue[s]) \in Messages /\ InQueue(Head(gatewayQueue[s])) > 0
  <2>1. gatewayQueue \in [Sessions -> Seq(Messages)] /\ gatewayQueue[s] \in Seq(Messages)
    BY DEF LinksOK
  <2>2. 1 \in DOMAIN gatewayQueue[s] /\ Head(gatewayQueue[s]) = gatewayQueue[s][1]
        /\ Head(gatewayQueue[s]) \in Messages
    BY <1>1, <1>3, <2>1
  <2> QED BY <2>1, <2>2, SessionsFinite, CountPositive DEF InQueue
<1>4. ASSUME NEW q \in Seq(Messages), q # <<>>
      PROVE  Count(One(q), Head(q)) > 0
  <2>1. One(q) \in [{1} -> Seq(Messages)] /\ One(q)[1] = q /\ 1 \in DOMAIN One(q)[1]
    BY <1>1, <1>4, OneTyped DEF One
  <2>2. Count(One(q), One(q)[1][1]) > 0
    BY <2>1, FS_Singleton, CountPositive
  <2> QED BY <1>1, <1>4, <2>1, <2>2
<1>5. toDispatcher \in Seq(Messages) /\ toEngine \in Seq(Messages)
  BY DEF LinksOK
<1> QED BY <1>1, <1>2, <1>3, <1>4, <1>5 DEF InDispatcher, InEngine

(* The orders sent so far.                                                 *)
Known == 1..Len(sent)
(* 1 for the same message, 0 for another.                                  *)
Is(a, b) == IF a = b THEN 1 ELSE 0

(* The orders sent.                                                        *)
LEMMA KnownOrders ==
    ASSUME RowsOK
    PROVE  /\ Len(sent) \in 0..MaxOrders /\ Known \subseteq Orders
           /\ \A o \in Known : /\ sent[o] \in Forms /\ SessionOf(o) \in Sessions
                               /\ sent[o].view \in Sessions /\ sent[o].tag \in Tags
<1>1. Len(sent) \in Nat /\ \A o \in Known : sent[o] \in Forms
  BY LenProperties, ElementOfSeq DEF RowsOK, Known
<1>2. Len(sent) <= MaxOrders
  <2>1. PICK script \in Scripts \union {<<>>} : Len(sent) <= Len(script)
    BY DEF RowsOK, IsPrefix
  <2>2. Len(<<>>) = 0
    BY EmptySeq
  <2>3. Len(script) <= MaxOrders
    BY <2>1, <2>2, FlowAssumption
  <2>4. Len(script) \in Nat
    BY <2>1, <2>2, FlowAssumption, LenProperties
  <2> QED BY <1>1, <2>1, <2>3, <2>4, FlowAssumption
<1>3. \A o \in Known : /\ SessionOf(o) \in Sessions /\ sent[o].view \in Sessions
                       /\ sent[o].tag \in Tags
  BY <1>1 DEF SessionOf, Forms
<1> QED BY <1>1, <1>2, <1>3, FlowAssumption DEF Known, Orders

(* The next order of a script joins the orders sent.                       *)
LEMMA NextOfScript ==
    ASSUME RowsOK, NEW script \in Scripts, IsStrictPrefix(sent, script),
           sent' = Append(sent, script[Len(sent) + 1])
    PROVE  /\ Len(sent) + 1 \in Orders /\ script[Len(sent) + 1] \in Forms
           /\ sent' \in Seq(Forms) /\ Len(sent') = Len(sent) + 1
           /\ sent'[Len(sent) + 1] = script[Len(sent) + 1]
           /\ \A o \in Known : sent'[o] = sent[o]
           /\ IsPrefix(sent', script)
<1> DEFINE n == Len(sent)
           next == Append(sent, script[n + 1])
<1>1. sent \in Seq(Forms) /\ n \in Nat
  BY LenProperties DEF RowsOK
<1>2. script \in Seq(Forms) /\ Len(script) \in Nat /\ Len(script) <= MaxOrders
  BY FlowAssumption, LenProperties
<1>3. n <= Len(script) /\ SubSeq(sent, 1, n) = SubSeq(script, 1, n) /\ sent # script
  BY DEF IsStrictPrefix, IsPrefix
<1>4. SubSeq(sent, 1, n) = sent
  BY <1>1, SubSeqFull
<1>5. n < Len(script)
  <2>1. SubSeq(script, 1, Len(script)) = script
    BY <1>2, SubSeqFull
  <2> QED BY <1>1, <1>2, <1>3, <1>4, <2>1
<1>6. script[n + 1] \in Forms
  BY <1>1, <1>2, <1>5, ElementOfSeq
<1>7. /\ next \in Seq(Forms) /\ Len(next) = n + 1 /\ next[n + 1] = script[n + 1]
      /\ \A i \in 1..n : next[i] = sent[i]
  BY <1>1, <1>6, AppendProperties
<1>8. \A i \in 1..Len(script) : script[i] \in Forms
  BY <1>2, ElementOfSeq
<1>9. SubSeq(next, 1, n + 1) = SubSeq(script, 1, n + 1)
  <2>1. SubSeq(next, 1, n + 1) = next
    BY <1>7, SubSeqFull
  <2>2. /\ SubSeq(script, 1, n + 1) \in Seq(Forms) /\ Len(SubSeq(script, 1, n + 1)) = n + 1
        /\ \A i \in 1..n + 1 : SubSeq(script, 1, n + 1)[i] = script[i]
    <3>1. 1 \in Int /\ n + 1 \in Int /\ 1 <= n + 1 /\ (n + 1) - 1 + 1 = n + 1
          /\ \A i \in 1..n + 1 : script[i] \in Forms /\ 1 + i - 1 = i
      BY <1>1, <1>2, <1>5, <1>8
    <3>2. /\ SubSeq(script, 1, n + 1) \in Seq(Forms) /\ Len(SubSeq(script, 1, n + 1)) = n + 1
          /\ \A i \in 1..(n + 1) - 1 + 1 : SubSeq(script, 1, n + 1)[i] = script[1 + i - 1]
      BY <3>1, SubSeqProperties
    <3> QED BY <3>1, <3>2
  <2>3. ASSUME NEW i \in 1..n PROVE sent[i] = script[i]
    <3>1. 1 \in Int /\ n \in Int /\ n - 1 + 1 = n /\ 1 + i - 1 = i
          /\ \A k \in 1..n : script[k] \in Forms
      BY <1>1, <1>2, <1>5, <1>8
    <3>2. \A k \in 1..n - 1 + 1 : SubSeq(script, 1, n)[k] = script[1 + k - 1]
      BY <3>1, SubSeqProperties
    <3> QED BY <1>3, <1>4, <3>1, <3>2
  <2>4. \A i \in 1..n + 1 : next[i] = SubSeq(script, 1, n + 1)[i]
    BY <1>1, <1>7, <2>2, <2>3
  <2>5. next = SubSeq(script, 1, n + 1)
    BY <1>7, <2>2, <2>4, SeqEqual
  <2> QED BY <2>1, <2>5
<1>10. IsPrefix(next, script)
  BY <1>1, <1>2, <1>5, <1>7, <1>9 DEF IsPrefix
<1>11. n + 1 \in Orders
  BY <1>1, <1>2, <1>5, FlowAssumption DEF Orders
<1> QED BY <1>6, <1>7, <1>10, <1>11 DEF Known

-----------------------------------------------------------------------------
(* An order is in one place of the Gateway at a time: on its way there,    *)
(* between fetch_add and load, in the queue, or accepted.                  *)
BeingNumbered(o) == \E s \in Sessions : loading[s] = o
(* The counter counts the orders past the fetch_add.                       *)
Numbering == counter = Cardinality({o \in Orders : orderId[o] # NoId \/ BeingNumbered(o)})
(* An order on its way to the Gateway has no ORDERID and is with no        *)
(* reading thread.                                                         *)
AtGateway ==
    \A o \in Orders :
        InGateway(OrderMessage(o)) <=
            IF o \in Known /\ orderId[o] = NoId /\ ~BeingNumbered(o) THEN 1 ELSE 0
(* A reading thread numbers an order of its own, that has no ORDERID yet.  *)
AtLoading ==
    /\ \A s \in Sessions : loading[s] # 0 => loading[s] \in Known /\ orderId[loading[s]] = NoId
    /\ \A s, t \in Sessions : loading[s] = loading[t] /\ loading[s] # 0 => s = t
(* An order in the queue has its ORDERID and is not accepted.              *)
AtQueue ==
    \A o \in Orders :
        InQueue(OrderMessage(o)) <= IF orderId[o] # NoId /\ o \notin accepted THEN 1 ELSE 0
(* Only an order that was sent has an ORDERID, and only with one is it     *)
(* accepted.                                                               *)
NumberedAreSent ==
    /\ \A o \in Orders : orderId[o] # NoId => o \in Known
    /\ \A o \in accepted : orderId[o] # NoId

(* What left the Gateway was accepted; what waits at the Dispatcher is an  *)
(* accepted order of a retail client, under its own ORDERID.               *)
OnlyAccepted ==
    \A o \in Orders :
        InDispatcher(OrderMessage(o)) + InEngine(OrderMessage(o)) + delivered[o] > 0 => o \in accepted
(* mOrderList of the Dispatcher holds accepted retail orders, each under   *)
(* its ORDERID.                                                            *)
PendingRetail ==
    \A i \in Ids :
        pending[i] # 0 => /\ pending[i] \in accepted /\ sent[pending[i]].kind = "retail"
                          /\ orderId[pending[i]] = i

(* Where the orders are.                                                   *)
OrdersPlaced == AtGateway /\ AtLoading /\ AtQueue /\ NumberedAreSent /\ OnlyAccepted /\ PendingRetail
(* The types the places of the orders rest on.                             *)
FlowOK == RowsOK /\ LinksOK /\ ServersOK
(* The first layer: types, places and counts of the orders.                *)
Flow == FlowOK /\ IsFiniteSet(cancels) /\ Numbering /\ OrdersPlaced

-----------------------------------------------------------------------------

(* A link that does not change keeps its counts.                           *)
LEMMA CountsKept ==
    /\ toGateway' = toGateway => \A m : InGateway(m)' = InGateway(m)
    /\ gatewayQueue' = gatewayQueue => \A m : InQueue(m)' = InQueue(m)
    /\ toDispatcher' = toDispatcher => \A m : InDispatcher(m)' = InDispatcher(m)
    /\ toEngine' = toEngine => \A m : InEngine(m)' = InEngine(m)
  BY DEF InGateway, InQueue, InDispatcher, InEngine

(* Appending to a sequence.                                                *)
LEMMA SeqAppend ==
    ASSUME NEW M, NEW q \in Seq(M), NEW n \in M PROVE Append(q, n) \in Seq(M)
  BY AppendProperties

(* The head and the rest of a sequence.                                    *)
LEMMA SeqTail ==
    ASSUME NEW M, NEW q \in Seq(M), q # <<>> PROVE Tail(q) \in Seq(M) /\ Head(q) \in M
  BY HeadTailProperties

(* A reply joins the link to its session, if that is found and connected.  *)
LEMMA Pushed ==
    ASSUME LinksOK, NEW s \in Sessions, NEW n \in Messages, PushReply(s, n)
    PROVE  /\ toClient' \in [Sessions -> Seq(Messages)]
           /\ \A x \in Sessions : \/ toClient'[x] = toClient[x]
                                  \/ x = s /\ toClient'[x] = Append(toClient[x], n)
<1>1. CASE toClient' = [toClient EXCEPT ![s] = Append(@, n)]
  BY <1>1, LinkAppend DEF LinksOK
<1>2. CASE toClient' = toClient
  BY <1>2 DEF LinksOK
<1> QED BY <1>1, <1>2 DEF PushReply

(* So does a message of the reading thread.                                *)
LEMMA Submitted ==
    ASSUME LinksOK, NEW s \in Sessions, NEW n \in Messages, Submit(s, n)
    PROVE  toClient' \in [Sessions -> Seq(Messages)]
  BY LinkAppend DEF Submit, LinksOK

(* A message joins the queue of its session, or is dropped.                *)
LEMMA Queued ==
    ASSUME LinksOK, NEW s \in Sessions, NEW n \in Messages, Enqueue(s, n)
    PROVE  /\ gatewayQueue' \in [Sessions -> Seq(Messages)]
           /\ \/ \A m : InQueue(m)' = InQueue(m)
              \/ \A m : InQueue(m)' = InQueue(m) + Is(n, m)
<1>1. CASE gatewayQueue' = [gatewayQueue EXCEPT ![s] = Append(@, n)]
  BY <1>1, LinkAppend, QueueAppend DEF LinksOK, Is
<1>2. CASE gatewayQueue' = gatewayQueue
  BY <1>2, CountsKept DEF LinksOK
<1> QED BY <1>1, <1>2 DEF Enqueue

-----------------------------------------------------------------------------
(* The steps of the clients.                                               *)

(* A message joins a link to the Gateway.                                  *)
LEMMA GatewayGets ==
    ASSUME LinksOK, NEW s \in Sessions, NEW n \in Messages,
           toGateway' = [toGateway EXCEPT ![s] = Append(@, n)],
           UNCHANGED <<toClient, gatewayQueue, toDispatcher, fromDispatcher, toEngine>>
    PROVE  /\ LinksOK'
           /\ \A m : /\ InGateway(m)' = InGateway(m) + Is(n, m) /\ InQueue(m)' = InQueue(m)
                     /\ InDispatcher(m)' = InDispatcher(m) /\ InEngine(m)' = InEngine(m)
<1>1. LinksOK'
  BY LinkAppend DEF LinksOK
<1> QED BY <1>1, GatewayAppend, CountsKept DEF Is

(* Connect sends the logon.                                                *)
LEMMA ConnectMoves ==
    ASSUME Flow, NEW s \in Sessions, Connect(s)
    PROVE  /\ LinksOK'
           /\ \A m : /\ InGateway(m)' = InGateway(m) + Is(Message("L"), m)
                     /\ InQueue(m)' = InQueue(m)
                     /\ InDispatcher(m)' = InDispatcher(m) /\ InEngine(m)' = InEngine(m)
<1>1. LinksOK /\ Message("L") \in Messages
  BY AreMessages DEF Flow, FlowOK
<1> QED BY <1>1, GatewayGets DEF Connect, dispatcherVars, engineVars

(* SendOrder sends the new order.                                          *)
LEMMA SendOrderMoves ==
    ASSUME Flow, NEW script \in Scripts, SendOrder(script)
    PROVE  /\ LinksOK'
           /\ \A m : /\ InQueue(m)' = InQueue(m)
                     /\ InDispatcher(m)' = InDispatcher(m) /\ InEngine(m)' = InEngine(m)
           /\ \/ \A m : InGateway(m)' = InGateway(m)
              \/ \A m : InGateway(m)' = InGateway(m) + Is(OrderMessage(Len(sent) + 1), m)
<1> DEFINE s == script[Len(sent) + 1].session
<1>1. LinksOK /\ OrderMessage(Len(sent) + 1) \in Messages /\ s \in Sessions
  <2>1. Len(sent) + 1 \in Orders /\ script[Len(sent) + 1] \in Forms
    BY NextOfScript DEF Flow, FlowOK, SendOrder
  <2> QED BY <2>1, AreMessages DEF Flow, FlowOK, Forms
<1>2. UNCHANGED <<toClient, gatewayQueue, toDispatcher, fromDispatcher, toEngine>>
  BY DEF SendOrder, dispatcherVars, engineVars
<1>3. CASE toGateway' = [toGateway EXCEPT ![s] = Append(@, OrderMessage(Len(sent) + 1))]
  BY <1>1, <1>2, <1>3, GatewayGets
<1>4. CASE toGateway' = toGateway
  BY <1>1, <1>2, <1>4, CountsKept DEF LinksOK
<1> QED BY <1>3, <1>4 DEF SendOrder

(* SendCancel sends the cancel of the row, with the ORDERID it shows.      *)
LEMMA SendCancelMoves ==
    ASSUME Flow, NEW s \in Sessions, NEW o \in Orders, SendCancel(s, o)
    PROVE  /\ LinksOK'
           /\ \A m : /\ InGateway(m)' = InGateway(m) + Is(CancelMessage(shown[o], o), m)
                     /\ InQueue(m)' = InQueue(m)
                     /\ InDispatcher(m)' = InDispatcher(m) /\ InEngine(m)' = InEngine(m)
<1>1. LinksOK /\ CancelMessage(shown[o], o) \in Messages
  <2>1. shown[o] \in Ids \union {NoId}
    BY DEF Flow, FlowOK, RowsOK
  <2> QED BY <2>1, AreMessages DEF Flow, FlowOK
<1> QED BY <1>1, GatewayGets DEF SendCancel, dispatcherVars, engineVars

(* SendApproval sends the approval.                                        *)
LEMMA SendApprovalMoves ==
    ASSUME Flow, NEW s \in Sessions, NEW i \in Ids, SendApproval(s, i)
    PROVE  /\ LinksOK'
           /\ \A m : /\ InGateway(m)' = InGateway(m) + Is(ApprovedMessage(i), m)
                     /\ InQueue(m)' = InQueue(m)
                     /\ InDispatcher(m)' = InDispatcher(m) /\ InEngine(m)' = InEngine(m)
<1>1. LinksOK /\ ApprovedMessage(i) \in Messages
  BY AreMessages DEF Flow, FlowOK
<1> QED BY <1>1, GatewayGets DEF SendApproval, dispatcherVars, engineVars

(* A connection ends: the Gateway loses what it has not received.          *)
LEMMA EndMoves ==
    ASSUME Flow, NEW s \in Sessions, \E n \in 0..Len(toGateway[s]) : End(s, n),
           UNCHANGED <<gatewayQueue, toDispatcher, fromDispatcher, toEngine>>
    PROVE  /\ LinksOK'
           /\ \A m : /\ InGateway(m)' <= InGateway(m) /\ InQueue(m)' = InQueue(m)
                     /\ InDispatcher(m)' = InDispatcher(m) /\ InEngine(m)' = InEngine(m)
<1>1. LinksOK /\ 1 \in Nat \ {0}
  BY DEF Flow, FlowOK
<1>2. PICK n \in 0..Len(toGateway[s]) : End(s, n)
  OBVIOUS
<1>3. /\ toGateway' = [toGateway EXCEPT ![s] = SubSeq(@, 1, n)]
      /\ toClient' = [toClient EXCEPT ![s] = <<>>]
  BY <1>2 DEF End
<1>4. toGateway' \in [Sessions -> Seq(Messages)]
  BY <1>1, <1>2, <1>3, LinkCut DEF LinksOK
<1>5. LinksOK'
  BY <1>1, <1>3, <1>4, EmptySeq DEF LinksOK
<1>6. \A m : InGateway(m)' <= InGateway(m)
  BY <1>1, <1>2, <1>3, GatewayCut
<1> QED BY <1>5, <1>6, CountsKept

(* Disconnect.                                                             *)
LEMMA DisconnectMoves ==
    ASSUME Flow, NEW s \in Sessions, Disconnect(s)
    PROVE  /\ LinksOK'
           /\ \A m : /\ InGateway(m)' <= InGateway(m) /\ InQueue(m)' = InQueue(m)
                     /\ InDispatcher(m)' = InDispatcher(m) /\ InEngine(m)' = InEngine(m)
  BY EndMoves DEF Disconnect, dispatcherVars, engineVars

(* ClientRead sends nothing; it may end the connection.                    *)
LEMMA ClientReadMoves ==
    ASSUME Flow, NEW s \in Sessions, ClientRead(s)
    PROVE  /\ LinksOK'
           /\ \A m : /\ InGateway(m)' <= InGateway(m) /\ InQueue(m)' = InQueue(m)
                     /\ InDispatcher(m)' = InDispatcher(m) /\ InEngine(m)' = InEngine(m)
<1>1. LinksOK
  BY DEF Flow, FlowOK
<1>2. /\ toClient[s] # <<>>
      /\ UNCHANGED <<gatewayQueue, toDispatcher, fromDispatcher, toEngine>>
  BY DEF ClientRead, dispatcherVars, engineVars
<1>3. CASE \E n \in 0..Len(toGateway[s]) : End(s, n)
  BY <1>2, <1>3, EndMoves
<1>4. CASE toClient' = [toClient EXCEPT ![s] = Tail(@)] /\ toGateway' = toGateway
  <2>1. LinksOK'
    BY <1>1, <1>2, <1>4, LinkTail DEF LinksOK
  <2>2. \A m : InGateway(m) \in Nat
    BY <1>1, CountsTyped
  <2> QED BY <1>2, <1>4, <2>1, <2>2, CountsKept
<1> QED BY <1>3, <1>4 DEF ClientRead

-----------------------------------------------------------------------------
(* The steps of the Gateway.                                               *)

(* TreatLogon takes the logon, may end the connection, and may send        *)
(* UserInformation.                                                        *)
LEMMA TreatLogonMoves ==
    ASSUME Flow, NEW s \in Sessions, TreatLogon(s)
    PROVE  /\ LinksOK'
           /\ \A m : /\ InGateway(m)' <= InGateway(m) /\ InQueue(m)' = InQueue(m)
                     /\ InEngine(m)' = InEngine(m)
           /\ \/ \A m : InDispatcher(m)' = InDispatcher(m)
              \/ \A m : InDispatcher(m)' = InDispatcher(m) + Is(Information(s), m)
<1>1. LinksOK
  BY DEF Flow, FlowOK
<1>2. /\ UNCHANGED <<gatewayQueue, fromDispatcher, toEngine>> /\ toGateway[s] # <<>>
  BY DEF TreatLogon, Reads, engineVars
<1>3. Information(s) \in Messages /\ Message("Q") \in Messages /\ Message("R") \in Messages
  BY AreMessages
<1>4. CASE /\ toGateway' = [toGateway EXCEPT ![s] = Tail(@)]
           /\ Submit(s, Message("Q")) \/ Submit(s, Message("R"))
           /\ toDispatcher' = toDispatcher \/ toDispatcher' = Append(toDispatcher, Information(s))
  <2>1. toClient' \in [Sessions -> Seq(Messages)]
    BY <1>1, <1>3, <1>4, Submitted
  <2>2. LinksOK'
    <3>1. toGateway' \in [Sessions -> Seq(Messages)]
      BY <1>1, <1>2, <1>4, LinkTail DEF LinksOK
    <3>2. toDispatcher' \in Seq(Messages)
      BY <1>1, <1>3, <1>4, SeqAppend DEF LinksOK
    <3> QED BY <1>1, <1>2, <2>1, <3>1, <3>2 DEF LinksOK
  <2>3. ASSUME NEW m PROVE InGateway(m)' <= InGateway(m)
    <3>1. InGateway(m)' = InGateway(m) - (IF Head(toGateway[s]) = m THEN 1 ELSE 0)
      BY <1>1, <1>2, <1>4, GatewayTail
    <3>2. InGateway(m) \in Nat
      BY <1>1, CountsTyped
    <3> QED BY <3>1, <3>2
  <2>4. \/ \A m : InDispatcher(m)' = InDispatcher(m)
        \/ \A m : InDispatcher(m)' = InDispatcher(m) + Is(Information(s), m)
    <3>1. CASE toDispatcher' = toDispatcher
      BY <3>1, CountsKept
    <3>2. CASE toDispatcher' = Append(toDispatcher, Information(s))
      BY <1>1, <1>3, <3>2, DispatcherAppend DEF Forward, Is
    <3> QED BY <1>4, <3>1, <3>2
  <2> QED BY <1>2, <2>2, <2>3, <2>4, CountsKept
<1>5. CASE /\ \E n \in 1..Len(toGateway[s]) : toGateway' = [toGateway EXCEPT ![s] = SubSeq(@, 2, n)]
           /\ toClient' = [toClient EXCEPT ![s] = <<>>] /\ toDispatcher' = toDispatcher
  <2>1. PICK n \in 1..Len(toGateway[s]) : toGateway' = [toGateway EXCEPT ![s] = SubSeq(@, 2, n)]
    BY <1>5
  <2>2. 2 \in Nat \ {0} /\ n \in 0..Len(toGateway[s])
    OBVIOUS
  <2>3. toGateway' \in [Sessions -> Seq(Messages)]
    BY <1>1, <2>1, <2>2, LinkCut DEF LinksOK
  <2>4. LinksOK'
    BY <1>1, <1>2, <1>5, <2>3, EmptySeq DEF LinksOK
  <2>5. \A m : InGateway(m)' <= InGateway(m)
    BY <1>1, <2>1, <2>2, GatewayCut
  <2> QED BY <1>2, <1>5, <2>4, <2>5, CountsKept
<1> QED BY <1>4, <1>5 DEF TreatLogon

(* An order is taken off its link.                                         *)
LEMMA CountOrderMoves ==
    ASSUME Flow, NEW s \in Sessions, CountOrder(s), NEW o, o = Head(toGateway[s]).order
    PROVE  /\ LinksOK' /\ o \in Orders /\ InGateway(OrderMessage(o)) > 0
           /\ \A m : /\ InGateway(m)' = InGateway(m) - Is(OrderMessage(o), m)
                     /\ InQueue(m)' = InQueue(m)
                     /\ InDispatcher(m)' = InDispatcher(m) /\ InEngine(m)' = InEngine(m)
<1>1. LinksOK
  BY DEF Flow, FlowOK
<1>2. /\ toGateway' = [toGateway EXCEPT ![s] = Tail(@)] /\ toGateway[s] # <<>>
      /\ Head(toGateway[s]).type = "O" /\ UNCHANGED <<toClient, gatewayQueue, dispatcherVars, engineVars>>
  BY DEF CountOrder, Reads
<1>3. LinksOK'
  BY <1>1, <1>2, LinkTail DEF LinksOK, dispatcherVars, engineVars
<1>4. /\ Head(toGateway[s]) \in Messages /\ InGateway(Head(toGateway[s])) > 0
  BY <1>1, <1>2, Heads
<1>5. o \in Orders /\ Head(toGateway[s]) = OrderMessage(o)
  BY <1>2, <1>4, Shapes
<1>6. \A m : InGateway(m)' = InGateway(m) - Is(OrderMessage(o), m)
  BY <1>1, <1>2, <1>5, GatewayTail DEF Is
<1> QED BY <1>2, <1>3, <1>4, <1>5, <1>6, CountsKept DEF dispatcherVars, engineVars

(* ... and put into the queue under its ORDERID, or dropped there.         *)
LEMMA LoadOrderIdMoves ==
    ASSUME Flow, NEW s \in Sessions, LoadOrderId(s)
    PROVE  /\ LinksOK'
           /\ \A m : /\ InGateway(m)' = InGateway(m)
                     /\ InDispatcher(m)' = InDispatcher(m) /\ InEngine(m)' = InEngine(m)
           /\ \/ \A m : InQueue(m)' = InQueue(m)
              \/ \A m : InQueue(m)' = InQueue(m) + Is(OrderMessage(loading[s]), m)
<1>1. LinksOK /\ OrderMessage(loading[s]) \in Messages
  BY AreMessages DEF Flow, FlowOK, ServersOK, LoadOrderId
<1>2. /\ Enqueue(s, OrderMessage(loading[s]))
      /\ UNCHANGED <<toGateway, toClient, toDispatcher, fromDispatcher, toEngine>>
  BY DEF LoadOrderId, sessionVars, dispatcherVars, engineVars
<1>3. LinksOK'
  BY <1>1, <1>2, Queued DEF LinksOK
<1> QED BY <1>1, <1>2, <1>3, Queued, CountsKept

(* QueueMessage moves a cancel or an approval into the queue, or drops it. *)
LEMMA QueueMessageMoves ==
    ASSUME Flow, NEW s \in Sessions, QueueMessage(s)
    PROVE  /\ LinksOK' /\ toGateway[s] # <<>>
           /\ Head(toGateway[s]) \in Messages /\ InGateway(Head(toGateway[s])) > 0
           /\ \A m : /\ InGateway(m)' = InGateway(m) - Is(Head(toGateway[s]), m)
                     /\ InDispatcher(m)' = InDispatcher(m) /\ InEngine(m)' = InEngine(m)
           /\ \/ \A m : InQueue(m)' = InQueue(m)
              \/ \A m : InQueue(m)' = InQueue(m) + Is(Head(toGateway[s]), m)
<1>1. LinksOK
  BY DEF Flow, FlowOK
<1>2. /\ toGateway' = [toGateway EXCEPT ![s] = Tail(@)] /\ toGateway[s] # <<>>
      /\ Enqueue(s, Head(toGateway[s]))
      /\ UNCHANGED <<toClient, toDispatcher, fromDispatcher, toEngine>>
  BY DEF QueueMessage, Reads, dispatcherVars, engineVars
<1>3. Head(toGateway[s]) \in Messages /\ InGateway(Head(toGateway[s])) > 0
  BY <1>1, <1>2, Heads
<1>4. LinksOK'
  BY <1>1, <1>2, <1>3, Queued, LinkTail DEF LinksOK
<1>5. \A m : InGateway(m)' = InGateway(m) - Is(Head(toGateway[s]), m)
  BY <1>1, <1>2, GatewayTail DEF Is
<1> QED BY <1>1, <1>2, <1>3, <1>4, <1>5, Queued, CountsKept

(* A message leaves the queue of a session.                                *)
LEMMA Taken ==
    ASSUME LinksOK, NEW s \in Sessions, gatewayQueue[s] # <<>>, Take(s)
    PROVE  /\ gatewayQueue' \in [Sessions -> Seq(Messages)]
           /\ Head(gatewayQueue[s]) \in Messages /\ InQueue(Head(gatewayQueue[s])) > 0
           /\ \A m : InQueue(m)' = InQueue(m) - Is(Head(gatewayQueue[s]), m)
<1>1. gatewayQueue' \in [Sessions -> Seq(Messages)]
  BY LinkTail DEF LinksOK, Take
<1> QED BY <1>1, Heads, QueueTail DEF Is

(* OnNewOrder takes the order off the queue, accepts and forwards it, or   *)
(* refuses it.                                                             *)
LEMMA OnNewOrderMoves ==
    ASSUME Flow, NEW s \in Sessions, OnNewOrder(s), NEW o, o = Head(gatewayQueue[s]).order
    PROVE  /\ LinksOK' /\ o \in Orders /\ orderId[o] # NoId /\ o \in Known /\ o \notin accepted
           /\ InQueue(OrderMessage(o)) = 1
           /\ \A m : /\ InGateway(m)' = InGateway(m)
                     /\ InQueue(m)' = InQueue(m) - Is(OrderMessage(o), m)
                     /\ InEngine(m)' = InEngine(m)
           /\ \/ /\ accepted' = accepted
                 /\ \A m : InDispatcher(m)' = InDispatcher(m)
              \/ /\ accepted' = accepted \union {o} /\ PushReply(s, Reply("A", sent[o].tag, orderId[o]))
                 /\ \A m : InDispatcher(m)' = InDispatcher(m) + Is(OrderMessage(o), m)
<1>1. LinksOK /\ RowsOK /\ ServersOK
  BY DEF Flow, FlowOK
<1>2. /\ gatewayQueue[s] # <<>> /\ Take(s) /\ Head(gatewayQueue[s]).type = "O"
      /\ UNCHANGED <<toGateway, fromDispatcher, toEngine>>
  BY DEF OnNewOrder, engineVars
<1>3. /\ gatewayQueue' \in [Sessions -> Seq(Messages)] /\ Head(gatewayQueue[s]) \in Messages
      /\ InQueue(Head(gatewayQueue[s])) > 0
      /\ \A m : InQueue(m)' = InQueue(m) - Is(Head(gatewayQueue[s]), m)
  BY <1>1, <1>2, Taken
<1>4. o \in Orders /\ Head(gatewayQueue[s]) = OrderMessage(o)
  BY <1>2, <1>3, Shapes
<1>5. orderId[o] # NoId /\ o \notin accepted /\ InQueue(OrderMessage(o)) = 1
  <2>1. InQueue(OrderMessage(o)) \in Nat /\ InQueue(OrderMessage(o)) > 0
    BY <1>1, <1>3, <1>4, CountsTyped
  <2>2. InQueue(OrderMessage(o)) <= IF orderId[o] # NoId /\ o \notin accepted THEN 1 ELSE 0
    BY <1>4 DEF Flow, OrdersPlaced, AtQueue
  <2> QED BY <2>1, <2>2
<1>6. o \in Known
  BY <1>4, <1>5 DEF Flow, OrdersPlaced, NumberedAreSent
<1>7. /\ sent[o].tag \in Tags \union {NoTag} /\ orderId[o] \in Ids \union {NoId}
  BY <1>1, <1>4, <1>6, KnownOrders DEF ServersOK
<1>8. /\ \A type \in {"A", "J"} : Reply(type, sent[o].tag, orderId[o]) \in Messages
      /\ OrderMessage(o) \in Messages
  BY <1>4, <1>7, AreMessages
<1>9. CASE UNCHANGED <<toClient, toDispatcher, accepted>>
  <2>1. LinksOK'
    BY <1>1, <1>2, <1>3, <1>9 DEF LinksOK
  <2> QED BY <1>2, <1>3, <1>4, <1>5, <1>6, <1>9, <2>1, CountsKept
<1>10. CASE PushReply(s, Reply("J", sent[o].tag, orderId[o])) /\ UNCHANGED <<toDispatcher, accepted>>
  <2>1. LinksOK'
    BY <1>1, <1>2, <1>3, <1>8, <1>10, Pushed DEF LinksOK
  <2> QED BY <1>2, <1>3, <1>4, <1>5, <1>6, <1>10, <2>1, CountsKept
<1>11. CASE /\ PushReply(s, Reply("A", sent[o].tag, orderId[o]))
            /\ Forward(OrderMessage(o)) /\ accepted' = accepted \union {o}
  <2>1. LinksOK'
    BY <1>1, <1>2, <1>3, <1>8, <1>11, Pushed, SeqAppend DEF LinksOK, Forward
  <2>2. \A m : InDispatcher(m)' = InDispatcher(m) + Is(OrderMessage(o), m)
    BY <1>1, <1>8, <1>11, DispatcherAppend DEF Is
  <2> QED BY <1>2, <1>3, <1>4, <1>5, <1>6, <1>11, <2>1, <2>2, CountsKept
<1> QED BY <1>9, <1>10, <1>11 DEF OnNewOrder

(* OnCancelOrder takes the cancel off the queue, and forwards or refuses   *)
(* it.                                                                     *)
LEMMA OnCancelOrderMoves ==
    ASSUME Flow, NEW s \in Sessions, OnCancelOrder(s), NEW c, c = Head(gatewayQueue[s])
    PROVE  /\ LinksOK' /\ c \in Messages /\ c.type = "C" /\ InQueue(c) > 0
           /\ \A m : /\ InGateway(m)' = InGateway(m) /\ InQueue(m)' = InQueue(m) - Is(c, m)
                     /\ InEngine(m)' = InEngine(m)
           /\ \/ \A m : InDispatcher(m)' = InDispatcher(m)
              \/ \A m : InDispatcher(m)' = InDispatcher(m) + Is(c, m)
<1>1. LinksOK /\ RowsOK
  BY DEF Flow, FlowOK
<1>2. /\ gatewayQueue[s] # <<>> /\ Take(s) /\ c.type = "C"
      /\ UNCHANGED <<toGateway, fromDispatcher, toEngine>>
  BY DEF OnCancelOrder, engineVars
<1>3. /\ gatewayQueue' \in [Sessions -> Seq(Messages)] /\ c \in Messages /\ InQueue(c) > 0
      /\ \A m : InQueue(m)' = InQueue(m) - Is(c, m)
  BY <1>1, <1>2, Taken
<1>4. c.id \in Ids \union {NoId}
  BY <1>2, <1>3, Shapes
<1>5. CASE ~HasInstrument(c.of)
  <2>1. PICK t \in Tags \union {NoTag} : PushReply(s, Reply("J", t, c.id))
    BY <1>5 DEF OnCancelOrder
  <2>2. Reply("J", t, c.id) \in Messages
    BY <1>4, AreMessages
  <2>3. toDispatcher' = toDispatcher
    BY <1>5 DEF OnCancelOrder
  <2>4. LinksOK'
    BY <1>1, <1>2, <1>3, <2>1, <2>2, <2>3, Pushed DEF LinksOK
  <2> QED BY <1>2, <1>3, <2>3, <2>4, CountsKept
<1>6. CASE HasInstrument(c.of)
  <2>1. PushReply(s, Message("D")) /\ Forward(c) /\ Message("D") \in Messages
    BY <1>6, AreMessages DEF OnCancelOrder
  <2>2. LinksOK'
    BY <1>1, <1>2, <1>3, <2>1, Pushed, SeqAppend DEF LinksOK, Forward
  <2>3. \A m : InDispatcher(m)' = InDispatcher(m) + Is(c, m)
    BY <1>1, <1>3, <2>1, DispatcherAppend DEF Is
  <2> QED BY <1>2, <1>3, <2>2, <2>3, CountsKept
<1> QED BY <1>5, <1>6

(* OnApproved forwards the approval.                                       *)
LEMMA OnApprovedMoves ==
    ASSUME Flow, NEW s \in Sessions, OnApproved(s), NEW c, c = Head(gatewayQueue[s])
    PROVE  /\ LinksOK' /\ c \in Messages /\ c.type = "Y" /\ InQueue(c) > 0
           /\ \A m : /\ InGateway(m)' = InGateway(m) /\ InQueue(m)' = InQueue(m) - Is(c, m)
                     /\ InDispatcher(m)' = InDispatcher(m) + Is(c, m) /\ InEngine(m)' = InEngine(m)
<1>1. LinksOK
  BY DEF Flow, FlowOK
<1>2. /\ gatewayQueue[s] # <<>> /\ Take(s) /\ c.type = "Y" /\ Forward(c)
      /\ UNCHANGED <<toGateway, toClient, fromDispatcher, toEngine>>
  BY DEF OnApproved, engineVars, sessionVars
<1>3. /\ gatewayQueue' \in [Sessions -> Seq(Messages)] /\ c \in Messages /\ InQueue(c) > 0
      /\ \A m : InQueue(m)' = InQueue(m) - Is(c, m)
  BY <1>1, <1>2, Taken
<1>4. LinksOK'
  BY <1>1, <1>2, <1>3, SeqAppend DEF LinksOK, Forward
<1> QED BY <1>1, <1>2, <1>3, <1>4, DispatcherAppend, CountsKept DEF Is

(* DispatcherReply moves a request of the Dispatcher to a client.          *)
LEMMA DispatcherReplyMoves ==
    ASSUME Flow, DispatcherReply
    PROVE  /\ LinksOK'
           /\ \A m : /\ InGateway(m)' = InGateway(m) /\ InQueue(m)' = InQueue(m)
                     /\ InDispatcher(m)' = InDispatcher(m) /\ InEngine(m)' = InEngine(m)
<1> DEFINE m == Head(fromDispatcher)
<1>1. LinksOK
  BY DEF Flow, FlowOK
<1>2. /\ fromDispatcher # <<>> /\ fromDispatcher' = Tail(fromDispatcher)
      /\ UNCHANGED <<toGateway, gatewayQueue, toDispatcher, toEngine>>
      /\ \/ m.type = "W" /\ PushReply(m.session, m)
         \/ UNCHANGED toClient
  BY DEF DispatcherReply, engineVars
<1>3. fromDispatcher' \in Seq(Messages) /\ m \in Messages
  BY <1>1, <1>2, SeqTail DEF LinksOK
<1>4. m.type = "W" => m.session \in Sessions
  BY <1>3, Shapes
<1>5. toClient' \in [Sessions -> Seq(Messages)]
  BY <1>1, <1>2, <1>3, <1>4, Pushed DEF LinksOK
<1>6. LinksOK'
  BY <1>1, <1>2, <1>3, <1>5 DEF LinksOK
<1> QED BY <1>2, <1>6, CountsKept

-----------------------------------------------------------------------------
(* The steps of the Dispatcher and the MatchingEngine.                     *)

(* What the Dispatcher receives is the head of its link.                   *)
LEMMA Received ==
    ASSUME LinksOK, NEW type, Receive(type)
    PROVE  /\ toDispatcher' \in Seq(Messages) /\ toDispatcher # <<>>
           /\ Head(toDispatcher) \in Messages /\ Head(toDispatcher).type = type
           /\ InDispatcher(Head(toDispatcher)) > 0
           /\ \A m : InDispatcher(m)' = InDispatcher(m) - Is(Head(toDispatcher), m)
<1>1. toDispatcher' \in Seq(Messages) /\ Head(toDispatcher) \in Messages
  BY SeqTail DEF LinksOK, Receive
<1> QED BY <1>1, Heads, DispatcherTail DEF Is, Receive

(* OnConnection takes a UserInformation.                                   *)
LEMMA OnConnectionMoves ==
    ASSUME Flow, OnConnection, NEW f, f = Head(toDispatcher)
    PROVE  /\ LinksOK' /\ f \in Messages /\ f.type = "F"
           /\ \A m : /\ InGateway(m)' = InGateway(m) /\ InQueue(m)' = InQueue(m)
                     /\ InDispatcher(m)' = InDispatcher(m) - Is(f, m) /\ InEngine(m)' = InEngine(m)
<1>1. LinksOK
  BY DEF Flow, FlowOK
<1>2. Receive("F") /\ UNCHANGED <<toGateway, toClient, gatewayQueue, fromDispatcher, toEngine>>
  BY DEF OnConnection, sessionVars, engineVars
<1>3. LinksOK'
  BY <1>1, <1>2, Received DEF LinksOK
<1> QED BY <1>1, <1>2, <1>3, Received, CountsKept

(* OnOrder keeps a retail order, if its ORDERID is free, and sends any     *)
(* other on.                                                               *)
LEMMA OnOrderMoves ==
    ASSUME Flow, OnOrder, NEW o, o = Head(toDispatcher).order
    PROVE  /\ LinksOK' /\ o \in Orders /\ InDispatcher(OrderMessage(o)) > 0
           /\ o \in accepted /\ orderId[o] \in Ids /\ o \in Known
           /\ \A m : /\ InGateway(m)' = InGateway(m) /\ InQueue(m)' = InQueue(m)
                     /\ InDispatcher(m)' = InDispatcher(m) - Is(OrderMessage(o), m)
           /\ \/ /\ sent[o].kind = "retail" /\ (pending' = KeepFirst(orderId[o], o) \/ pending' = pending)
                 /\ \A m : InEngine(m)' = InEngine(m)
              \/ /\ sent[o].kind # "retail" /\ pending' = pending
                 /\ \A m : InEngine(m)' = InEngine(m) + Is(OrderMessage(o), m)
<1> DEFINE h == Head(toDispatcher)
           b == sent[o].broker
<1>1. LinksOK /\ ServersOK
  BY DEF Flow, FlowOK
<1>2. Receive("O") /\ UNCHANGED <<toGateway, toClient, gatewayQueue>>
  BY DEF OnOrder, sessionVars
<1>3. /\ toDispatcher' \in Seq(Messages) /\ h \in Messages /\ h.type = "O"
      /\ InDispatcher(h) > 0 /\ \A m : InDispatcher(m)' = InDispatcher(m) - Is(h, m)
  BY <1>1, <1>2, Received
<1>4. o \in Orders /\ h = OrderMessage(o)
  BY <1>3, Shapes
<1>5. o \in accepted
  <2>1. /\ InDispatcher(h) \in Nat /\ InEngine(h) \in Nat /\ delivered[o] \in Nat
    BY <1>1, <1>4, CountsTyped DEF ServersOK
  <2>2. InDispatcher(OrderMessage(o)) + InEngine(OrderMessage(o)) + delivered[o] > 0
    BY <1>3, <1>4, <2>1
  <2> QED BY <1>4, <2>2 DEF Flow, OrdersPlaced, OnlyAccepted
<1>6. orderId[o] \in Ids /\ o \in Known
  BY <1>1, <1>4, <1>5 DEF Flow, OrdersPlaced, NumberedAreSent, ServersOK
<1>7. CASE /\ sent[o].kind = "retail" /\ HasRoute(b) /\ pending' = KeepFirst(orderId[o], o)
           /\ fromDispatcher' = Append(fromDispatcher, RequestApproval(orderId[o], route[b][1]))
           /\ UNCHANGED toEngine
  <2>1. route[b][1] \in Sessions
    BY <1>1, <1>7 DEF HasRoute, ServersOK
  <2>2. RequestApproval(orderId[o], route[b][1]) \in Messages
    BY <1>6, <2>1, AreMessages
  <2>3. LinksOK'
    BY <1>1, <1>2, <1>3, <1>7, <2>2, SeqAppend DEF LinksOK
  <2> QED BY <1>2, <1>3, <1>4, <1>5, <1>6, <1>7, <2>3, CountsKept
<1>8. CASE /\ sent[o].kind = "retail" /\ fromDispatcher' = Append(fromDispatcher, Message("Z"))
           /\ UNCHANGED <<pending, toEngine>>
  <2>1. LinksOK'
    BY <1>1, <1>2, <1>3, <1>8, AreMessages, SeqAppend DEF LinksOK
  <2> QED BY <1>2, <1>3, <1>4, <1>5, <1>6, <1>8, <2>1, CountsKept
<1>9. CASE /\ sent[o].kind # "retail" /\ toEngine' = Append(toEngine, OrderMessage(o))
           /\ UNCHANGED <<pending, fromDispatcher>>
  <2>1. OrderMessage(o) \in Messages
    BY <1>3, <1>4
  <2>2. LinksOK'
    BY <1>1, <1>2, <1>3, <1>9, <2>1, SeqAppend DEF LinksOK
  <2>3. \A m : InEngine(m)' = InEngine(m) + Is(OrderMessage(o), m)
    BY <1>1, <1>9, <2>1, EngineAppend DEF Is
  <2> QED BY <1>2, <1>3, <1>4, <1>5, <1>6, <1>9, <2>2, <2>3, CountsKept
<1> QED BY <1>7, <1>8, <1>9 DEF OnOrder

(* OnCancel sends the cancel on.                                           *)
LEMMA OnCancelMoves ==
    ASSUME Flow, OnCancel, NEW c, c = Head(toDispatcher)
    PROVE  /\ LinksOK' /\ c \in Messages /\ c.type = "C" /\ InDispatcher(c) > 0
           /\ \A m : /\ InGateway(m)' = InGateway(m) /\ InQueue(m)' = InQueue(m)
                     /\ InDispatcher(m)' = InDispatcher(m) - Is(c, m)
                     /\ InEngine(m)' = InEngine(m) + Is(c, m)
<1>1. LinksOK
  BY DEF Flow, FlowOK
<1>2. /\ Receive("C") /\ toEngine' = Append(toEngine, c)
      /\ UNCHANGED <<toGateway, toClient, gatewayQueue, fromDispatcher>>
  BY DEF OnCancel, sessionVars
<1>3. /\ toDispatcher' \in Seq(Messages) /\ c \in Messages /\ c.type = "C" /\ InDispatcher(c) > 0
      /\ \A m : InDispatcher(m)' = InDispatcher(m) - Is(c, m)
  BY <1>1, <1>2, Received
<1>4. LinksOK'
  BY <1>1, <1>2, <1>3, SeqAppend DEF LinksOK
<1>5. \A m : InEngine(m)' = InEngine(m) + Is(c, m)
  BY <1>1, <1>2, <1>3, EngineAppend DEF Is
<1> QED BY <1>2, <1>3, <1>4, <1>5, CountsKept

(* OnApproval sends on the order kept under the ORDERID, if there is one.  *)
LEMMA OnApprovalMoves ==
    ASSUME Flow, OnApproval, NEW i, i = Head(toDispatcher).id
    PROVE  /\ LinksOK' /\ i \in Ids /\ InDispatcher(ApprovedMessage(i)) > 0
           /\ \A m : /\ InGateway(m)' = InGateway(m) /\ InQueue(m)' = InQueue(m)
                     /\ InDispatcher(m)' = InDispatcher(m) - Is(ApprovedMessage(i), m)
           /\ \/ /\ pending[i] \in Orders
                 /\ \A m : InEngine(m)' = InEngine(m) + Is(OrderMessage(pending[i]), m)
              \/ \A m : InEngine(m)' = InEngine(m)
<1> DEFINE h == Head(toDispatcher)
<1>1. LinksOK /\ ServersOK
  BY DEF Flow, FlowOK
<1>2. Receive("Y") /\ UNCHANGED <<toGateway, toClient, gatewayQueue>>
  BY DEF OnApproval, sessionVars
<1>3. /\ toDispatcher' \in Seq(Messages) /\ h \in Messages /\ h.type = "Y" /\ InDispatcher(h) > 0
      /\ \A m : InDispatcher(m)' = InDispatcher(m) - Is(h, m)
  BY <1>1, <1>2, Received
<1>4. i \in Ids /\ h = ApprovedMessage(i)
  BY <1>3, Shapes
<1>5. CASE pending[i] # 0
  <2>1. pending[i] \in Orders
    BY <1>1, <1>4, <1>5 DEF ServersOK
  <2>2. OrderMessage(pending[i]) \in Messages
    BY <2>1, AreMessages
  <2>3. toEngine' = Append(toEngine, OrderMessage(pending[i])) /\ UNCHANGED fromDispatcher
    BY <1>5 DEF OnApproval
  <2>4. LinksOK'
    BY <1>1, <1>2, <1>3, <2>2, <2>3, SeqAppend DEF LinksOK
  <2>5. \A m : InEngine(m)' = InEngine(m) + Is(OrderMessage(pending[i]), m)
    BY <1>1, <2>2, <2>3, EngineAppend DEF Is
  <2> QED BY <1>2, <1>3, <1>4, <2>1, <2>4, <2>5, CountsKept
<1>6. CASE pending[i] = 0
  <2>1. fromDispatcher' = Append(fromDispatcher, Message("Z")) /\ UNCHANGED toEngine
    BY <1>6 DEF OnApproval
  <2>2. LinksOK'
    BY <1>1, <1>2, <1>3, <2>1, AreMessages, SeqAppend DEF LinksOK
  <2> QED BY <1>2, <1>3, <1>4, <2>1, <2>2, CountsKept
<1> QED BY <1>5, <1>6

(* EngineOrder takes the order.                                            *)
LEMMA EngineOrderMoves ==
    ASSUME Flow, EngineOrder, NEW o, o = Head(toEngine).order
    PROVE  /\ LinksOK' /\ o \in Orders /\ InEngine(OrderMessage(o)) > 0
           /\ o \in accepted /\ orderId[o] \in Ids /\ o \in Known
           /\ \A m : /\ InGateway(m)' = InGateway(m) /\ InQueue(m)' = InQueue(m)
                     /\ InDispatcher(m)' = InDispatcher(m)
                     /\ InEngine(m)' = InEngine(m) - Is(OrderMessage(o), m)
<1> DEFINE h == Head(toEngine)
<1>1. LinksOK /\ ServersOK
  BY DEF Flow, FlowOK
<1>2. /\ toEngine # <<>> /\ h.type = "O" /\ toEngine' = Tail(toEngine)
      /\ UNCHANGED <<toGateway, toClient, gatewayQueue, toDispatcher, fromDispatcher>>
  BY DEF EngineOrder, EngineVarsKept, sessionVars, dispatcherVars
<1>3. toEngine' \in Seq(Messages) /\ h \in Messages /\ InEngine(h) > 0
  BY <1>1, <1>2, SeqTail, Heads DEF LinksOK
<1>4. o \in Orders /\ h = OrderMessage(o)
  BY <1>2, <1>3, Shapes
<1>5. \A m : InEngine(m)' = InEngine(m) - Is(h, m)
  BY <1>1, <1>2, EngineTail DEF Is
<1>6. o \in accepted
  <2>1. /\ InDispatcher(h) \in Nat /\ InEngine(h) \in Nat /\ delivered[o] \in Nat
    BY <1>1, <1>4, CountsTyped DEF ServersOK
  <2>2. InDispatcher(OrderMessage(o)) + InEngine(OrderMessage(o)) + delivered[o] > 0
    BY <1>3, <1>4, <2>1
  <2> QED BY <1>4, <2>2 DEF Flow, OrdersPlaced, OnlyAccepted
<1>7. orderId[o] \in Ids /\ o \in Known
  BY <1>1, <1>4, <1>6 DEF Flow, OrdersPlaced, NumberedAreSent, ServersOK
<1>8. LinksOK'
  BY <1>1, <1>2, <1>3 DEF LinksOK
<1> QED BY <1>2, <1>3, <1>4, <1>5, <1>6, <1>7, <1>8, CountsKept

(* EngineCancel takes the cancel.                                          *)
LEMMA EngineCancelMoves ==
    ASSUME Flow, EngineCancel, NEW c, c = Head(toEngine)
    PROVE  /\ LinksOK' /\ c \in Messages /\ c.type = "C" /\ InEngine(c) > 0
           /\ \A m : /\ InGateway(m)' = InGateway(m) /\ InQueue(m)' = InQueue(m)
                     /\ InDispatcher(m)' = InDispatcher(m) /\ InEngine(m)' = InEngine(m) - Is(c, m)
<1>1. LinksOK
  BY DEF Flow, FlowOK
<1>2. /\ toEngine # <<>> /\ c.type = "C" /\ toEngine' = Tail(toEngine)
      /\ UNCHANGED <<toGateway, toClient, gatewayQueue, toDispatcher, fromDispatcher>>
  BY DEF EngineCancel, EngineVarsKept, sessionVars, dispatcherVars
<1>3. toEngine' \in Seq(Messages) /\ c \in Messages /\ InEngine(c) > 0
  BY <1>1, <1>2, SeqTail, Heads DEF LinksOK
<1>4. \A m : InEngine(m)' = InEngine(m) - Is(c, m)
  BY <1>1, <1>2, EngineTail DEF Is
<1>5. LinksOK'
  BY <1>1, <1>2, <1>3 DEF LinksOK
<1> QED BY <1>2, <1>3, <1>4, <1>5, CountsKept

(* A message is not one of another type.                                   *)
LEMMA IsType ==
    /\ \A m, o : m.type # "O" => Is(m, OrderMessage(o)) = 0
    /\ \A m, i, o : m.type # "C" => Is(m, CancelMessage(i, o)) = 0
    /\ \A m, i : m.type # "Y" => Is(m, ApprovedMessage(i)) = 0
    /\ \A o, p : Is(OrderMessage(p), OrderMessage(o)) = Is(p, o)
    /\ \A i, j : Is(ApprovedMessage(i), ApprovedMessage(j)) = Is(i, j)
  BY DEF Is, OrderMessage, CancelMessage, ApprovedMessage

(* The counts are naturals, after the step.                                *)
LEMMA CountsTypedNext ==
    ASSUME LinksOK', NEW m
    PROVE  /\ InGateway(m)' \in Nat /\ InQueue(m)' \in Nat
           /\ InDispatcher(m)' \in Nat /\ InEngine(m)' \in Nat
<1>1. InGateway(m)' \in Nat /\ InQueue(m)' \in Nat
  BY SessionsFinite, PlacesFinite DEF LinksOK, InGateway, InQueue
<1>2. One(toDispatcher') \in [{1} -> Seq(Messages)] /\ One(toEngine') \in [{1} -> Seq(Messages)]
  BY OneTyped DEF LinksOK
<1>3. InDispatcher(m)' \in Nat /\ InEngine(m)' \in Nat
  BY <1>2, FS_Singleton, PlacesFinite DEF InDispatcher, InEngine
<1> QED BY <1>1, <1>3

(* The place of every order, as numbers.                                   *)
LEMMA OrderCounts ==
    ASSUME Flow, NEW o \in Orders
    PROVE  /\ InGateway(OrderMessage(o)) \in Nat /\ InQueue(OrderMessage(o)) \in Nat
           /\ InDispatcher(OrderMessage(o)) \in Nat /\ InEngine(OrderMessage(o)) \in Nat
           /\ delivered[o] \in Nat
  BY CountsTyped DEF Flow, FlowOK, ServersOK

(* A step that brings a message into no link it was not in.                *)
NoMore(m) == /\ InGateway(m)' <= InGateway(m) /\ InQueue(m)' <= InQueue(m)
             /\ InDispatcher(m)' <= InDispatcher(m) /\ InEngine(m)' <= InEngine(m)

(* The orders stay where they are when no message of theirs joins a link.  *)
LEMMA PlacedKept ==
    ASSUME Flow, LinksOK', UNCHANGED <<sent, numberVars, accepted, pending, delivered>>,
           \A o \in Orders : NoMore(OrderMessage(o))
    PROVE  Numbering' /\ OrdersPlaced'
<1> USE DEF numberVars
<1>1. \A o \in Orders : BeingNumbered(o)' <=> BeingNumbered(o)
  BY DEF BeingNumbered
<1>2. Numbering'
  <2>1. {o \in Orders : orderId[o] # NoId \/ BeingNumbered(o)}'
        = {o \in Orders : orderId[o] # NoId \/ BeingNumbered(o)}
    BY <1>1
  <2> QED BY <2>1 DEF Flow, Numbering
<1>3. Known' = Known
  BY DEF Known
<1>4. AtLoading' /\ NumberedAreSent' /\ PendingRetail'
  BY <1>3 DEF Flow, OrdersPlaced, AtLoading, NumberedAreSent, PendingRetail
<1>5. ASSUME NEW o \in Orders
      PROVE  /\ InGateway(OrderMessage(o))' <=
                  IF o \in Known' /\ orderId'[o] = NoId /\ ~BeingNumbered(o)' THEN 1 ELSE 0
             /\ InQueue(OrderMessage(o))' <= IF orderId'[o] # NoId /\ o \notin accepted' THEN 1 ELSE 0
             /\ InDispatcher(OrderMessage(o))' + InEngine(OrderMessage(o))' + delivered'[o] > 0
                    => o \in accepted'
  <2>1. /\ InGateway(OrderMessage(o))' \in Nat /\ InQueue(OrderMessage(o))' \in Nat
        /\ InDispatcher(OrderMessage(o))' \in Nat /\ InEngine(OrderMessage(o))' \in Nat
    BY CountsTypedNext
  <2>2. /\ InGateway(OrderMessage(o)) <=
             IF o \in Known /\ orderId[o] = NoId /\ ~BeingNumbered(o) THEN 1 ELSE 0
        /\ InQueue(OrderMessage(o)) <= IF orderId[o] # NoId /\ o \notin accepted THEN 1 ELSE 0
        /\ InDispatcher(OrderMessage(o)) + InEngine(OrderMessage(o)) + delivered[o] > 0 => o \in accepted
    BY DEF Flow, OrdersPlaced, AtGateway, AtQueue, OnlyAccepted
  <2> QED BY <1>1, <1>3, <2>1, <2>2, OrderCounts DEF NoMore
<1> QED BY <1>2, <1>4, <1>5 DEF OrdersPlaced, AtGateway, AtQueue, OnlyAccepted

(* The rows are kept with the state of the clients.                        *)
LEMMA RowsKept == ASSUME Flow, UNCHANGED clientVars PROVE RowsOK' /\ IsFiniteSet(cancels)'
  BY DEF Flow, FlowOK, RowsOK, clientVars

(* The servers keep their types with their state.                          *)
LEMMA ServersKept ==
    ASSUME Flow, UNCHANGED <<state, numberVars, route, pending, booked, down, accepted, delivered>>
    PROVE  ServersOK'
  BY DEF Flow, FlowOK, ServersOK, numberVars

-----------------------------------------------------------------------------
(* The steps after which the orders are where they were, or lost.          *)

(* Connect.                                                                *)
LEMMA ConnectFlow == ASSUME Flow, NEW s \in Sessions, Connect(s) PROVE Flow'
<1>1. LinksOK'
  BY ConnectMoves
<1>2. UNCHANGED <<sent, numberVars, accepted, pending, delivered>>
  BY DEF Connect, clientVars, dispatcherVars, engineVars
<1>3. ASSUME NEW o \in Orders PROVE NoMore(OrderMessage(o))
  <2>1. Is(Message("L"), OrderMessage(o)) = 0
    BY DEF Is, Message, OrderMessage
  <2> QED BY <2>1, ConnectMoves, OrderCounts DEF NoMore
<1>4. Numbering' /\ OrdersPlaced'
  BY <1>1, <1>2, <1>3, PlacedKept
<1>5. RowsOK' /\ IsFiniteSet(cancels)'
  BY RowsKept DEF Connect
<1>6. ServersOK'
  BY DEF Flow, FlowOK, ServersOK, Connect, numberVars, dispatcherVars, engineVars
<1> QED BY <1>1, <1>4, <1>5, <1>6 DEF Flow, FlowOK

(* SendCancel.                                                             *)
LEMMA SendCancelFlow == ASSUME Flow, NEW s \in Sessions, NEW p \in Orders, SendCancel(s, p) PROVE Flow'
<1>1. LinksOK'
  BY SendCancelMoves
<1>2. UNCHANGED <<sent, numberVars, accepted, pending, delivered>>
  BY DEF SendCancel, dispatcherVars, engineVars
<1>3. ASSUME NEW o \in Orders PROVE NoMore(OrderMessage(o))
  <2>1. Is(CancelMessage(shown[p], p), OrderMessage(o)) = 0
    BY DEF Is, CancelMessage, OrderMessage
  <2> QED BY <2>1, SendCancelMoves, OrderCounts DEF NoMore
<1>4. Numbering' /\ OrdersPlaced'
  BY <1>1, <1>2, <1>3, PlacedKept
<1>5. RowsOK' /\ IsFiniteSet(cancels)'
  <2> DEFINE again == {c \in cancels : c.of = p /\ c.id = shown[p]}
             c == [of |-> p, id |-> shown[p], nth |-> Cardinality(again) + 1]
  <2>1. cancels' = cancels \union {c} /\ UNCHANGED <<sent, status, shown, requests, approvals>>
    BY DEF SendCancel
  <2>2. IsFiniteSet(cancels) /\ RowsOK
    BY DEF Flow, FlowOK
  <2>3. IsFiniteSet(again) /\ Cardinality(again) \in Nat
    BY <2>2, FS_Subset, FS_CardinalityType
  <2>4. c \in [of : Orders, id : Ids \union {NoId}, nth : Nat]
    BY <2>2, <2>3 DEF RowsOK
  <2>5. IsFiniteSet(cancels')
    BY <2>1, <2>2, FS_AddElement
  <2> HIDE DEF c
  <2> QED BY <2>1, <2>2, <2>4, <2>5 DEF RowsOK
<1>6. ServersOK'
  BY ServersKept DEF SendCancel, dispatcherVars, engineVars
<1> QED BY <1>1, <1>4, <1>5, <1>6 DEF Flow, FlowOK

(* SendApproval.                                                           *)
LEMMA SendApprovalFlow == ASSUME Flow, NEW s \in Sessions, NEW i \in Ids, SendApproval(s, i) PROVE Flow'
<1>1. LinksOK'
  BY SendApprovalMoves
<1>2. UNCHANGED <<sent, numberVars, accepted, pending, delivered>>
  BY DEF SendApproval, dispatcherVars, engineVars
<1>3. ASSUME NEW o \in Orders PROVE NoMore(OrderMessage(o))
  <2>1. Is(ApprovedMessage(i), OrderMessage(o)) = 0
    BY DEF Is, ApprovedMessage, OrderMessage
  <2> QED BY <2>1, SendApprovalMoves, OrderCounts DEF NoMore
<1>4. Numbering' /\ OrdersPlaced'
  BY <1>1, <1>2, <1>3, PlacedKept
<1>5. RowsOK' /\ IsFiniteSet(cancels)'
  <2>1. approvals[i] + 1 \in 0..MaxApprovals
    BY FlowAssumption DEF SendApproval, Flow, FlowOK, RowsOK
  <2> QED BY <2>1 DEF SendApproval, Flow, FlowOK, RowsOK
<1>6. ServersOK'
  BY ServersKept DEF SendApproval, dispatcherVars, engineVars
<1> QED BY <1>1, <1>4, <1>5, <1>6 DEF Flow, FlowOK

(* Disconnect.                                                             *)
LEMMA DisconnectFlow == ASSUME Flow, NEW s \in Sessions, Disconnect(s) PROVE Flow'
<1>1. LinksOK'
  BY DisconnectMoves
<1>2. UNCHANGED <<sent, numberVars, accepted, pending, delivered>>
  BY DEF Disconnect, clientVars, dispatcherVars, engineVars
<1>3. ASSUME NEW o \in Orders PROVE NoMore(OrderMessage(o))
  BY DisconnectMoves, OrderCounts DEF NoMore
<1>4. Numbering' /\ OrdersPlaced'
  BY <1>1, <1>2, <1>3, PlacedKept
<1>5. RowsOK' /\ IsFiniteSet(cancels)'
  BY RowsKept DEF Disconnect
<1>6. ServersOK'
  BY DEF Flow, FlowOK, ServersOK, Disconnect, End, numberVars, dispatcherVars, engineVars
<1> QED BY <1>1, <1>4, <1>5, <1>6 DEF Flow, FlowOK

(* ClientRead.                                                             *)
LEMMA ClientReadFlow == ASSUME Flow, NEW s \in Sessions, ClientRead(s) PROVE Flow'
<1>1. LinksOK'
  BY ClientReadMoves
<1>2. UNCHANGED <<sent, numberVars, accepted, pending, delivered>>
  BY DEF ClientRead, dispatcherVars, engineVars
<1>3. ASSUME NEW o \in Orders PROVE NoMore(OrderMessage(o))
  BY ClientReadMoves, OrderCounts DEF NoMore
<1>4. Numbering' /\ OrdersPlaced'
  BY <1>1, <1>2, <1>3, PlacedKept
<1>5. RowsOK' /\ IsFiniteSet(cancels)'
  <2> DEFINE m == Head(toClient[s])
  <2>1. UNCHANGED <<sent, cancels, approvals>>
    BY DEF ClientRead
  <2>2. m \in Messages
    BY LinkTail DEF ClientRead, Flow, FlowOK, LinksOK
  <2>3. /\ m.type \in {"A", "J"} => m.tag \in Tags \union {NoTag} /\ m.id \in Ids \union {NoId}
        /\ m.type = "W" => m.id \in Ids
    BY <2>2, Shapes
  <2>4. /\ status' \in [Orders -> {"none", "Sent", "Accepted", "Rejected"}]
        /\ shown' \in [Orders -> Ids \union {NoId}] /\ requests' \in [Sessions -> SUBSET Ids]
    <3>1. CASE m.type \in {"A", "J"} /\ ShowAnswer(s, m)
      BY <2>3, <3>1 DEF ShowAnswer, Flow, FlowOK, RowsOK
    <3>2. CASE m.type = "W" /\ ShowRequest(s, m)
      BY <2>3, <3>2 DEF ShowRequest, Flow, FlowOK, RowsOK
    <3>3. CASE UNCHANGED <<status, shown, requests>>
      BY <3>3 DEF Flow, FlowOK, RowsOK
    <3> QED BY <3>1, <3>2, <3>3 DEF ClientRead
  <2> QED BY <2>1, <2>4 DEF Flow, FlowOK, RowsOK
<1>6. ServersOK'
  <2>1. state' \in [Sessions -> {"new", "connected", "closed"}]
    BY DEF ClientRead, End, Flow, FlowOK, ServersOK
  <2> QED BY <2>1 DEF Flow, FlowOK, ServersOK, ClientRead, numberVars, dispatcherVars, engineVars
<1> QED BY <1>1, <1>4, <1>5, <1>6 DEF Flow, FlowOK

(* TreatLogon.                                                             *)
LEMMA TreatLogonFlow == ASSUME Flow, NEW s \in Sessions, TreatLogon(s) PROVE Flow'
<1>1. LinksOK'
  BY TreatLogonMoves
<1>2. UNCHANGED <<sent, numberVars, accepted, pending, delivered>>
  BY DEF TreatLogon, clientVars, engineVars
<1>3. ASSUME NEW o \in Orders PROVE NoMore(OrderMessage(o))
  <2>1. Is(Information(s), OrderMessage(o)) = 0
    BY DEF Is, Information, OrderMessage
  <2> QED BY <2>1, TreatLogonMoves, OrderCounts DEF NoMore
<1>4. Numbering' /\ OrdersPlaced'
  BY <1>1, <1>2, <1>3, PlacedKept
<1>5. RowsOK' /\ IsFiniteSet(cancels)'
  BY RowsKept DEF TreatLogon
<1>6. ServersOK'
  BY DEF Flow, FlowOK, ServersOK, TreatLogon, numberVars, engineVars
<1> QED BY <1>1, <1>4, <1>5, <1>6 DEF Flow, FlowOK

(* QueueMessage.                                                           *)
LEMMA QueueMessageFlow == ASSUME Flow, NEW s \in Sessions, QueueMessage(s) PROVE Flow'
<1>1. LinksOK'
  BY QueueMessageMoves
<1>2. UNCHANGED <<sent, numberVars, accepted, pending, delivered>>
  BY DEF QueueMessage, clientVars, dispatcherVars, engineVars
<1>3. ASSUME NEW o \in Orders PROVE NoMore(OrderMessage(o))
  <2>1. Is(Head(toGateway[s]), OrderMessage(o)) = 0
    BY IsType DEF QueueMessage, Reads
  <2> QED BY <2>1, QueueMessageMoves, OrderCounts DEF NoMore
<1>4. Numbering' /\ OrdersPlaced'
  BY <1>1, <1>2, <1>3, PlacedKept
<1>5. RowsOK' /\ IsFiniteSet(cancels)'
  BY RowsKept DEF QueueMessage
<1>6. ServersOK'
  BY ServersKept DEF QueueMessage, dispatcherVars, engineVars
<1> QED BY <1>1, <1>4, <1>5, <1>6 DEF Flow, FlowOK

(* OnCancelOrder.                                                          *)
LEMMA OnCancelOrderFlow == ASSUME Flow, NEW s \in Sessions, OnCancelOrder(s) PROVE Flow'
<1>1. LinksOK'
  BY OnCancelOrderMoves
<1>2. UNCHANGED <<sent, numberVars, accepted, pending, delivered>>
  BY DEF OnCancelOrder, clientVars, engineVars
<1>3. ASSUME NEW o \in Orders PROVE NoMore(OrderMessage(o))
  <2>1. Is(Head(gatewayQueue[s]), OrderMessage(o)) = 0
    BY IsType DEF OnCancelOrder
  <2> QED BY <2>1, OnCancelOrderMoves, OrderCounts DEF NoMore
<1>4. Numbering' /\ OrdersPlaced'
  BY <1>1, <1>2, <1>3, PlacedKept
<1>5. RowsOK' /\ IsFiniteSet(cancels)'
  BY RowsKept DEF OnCancelOrder
<1>6. ServersOK'
  BY ServersKept DEF OnCancelOrder, engineVars
<1> QED BY <1>1, <1>4, <1>5, <1>6 DEF Flow, FlowOK

(* OnApproved.                                                             *)
LEMMA OnApprovedFlow == ASSUME Flow, NEW s \in Sessions, OnApproved(s) PROVE Flow'
<1>1. LinksOK'
  BY OnApprovedMoves
<1>2. UNCHANGED <<sent, numberVars, accepted, pending, delivered>>
  BY DEF OnApproved, clientVars, engineVars
<1>3. ASSUME NEW o \in Orders PROVE NoMore(OrderMessage(o))
  <2>1. Is(Head(gatewayQueue[s]), OrderMessage(o)) = 0
    BY IsType DEF OnApproved
  <2> QED BY <2>1, OnApprovedMoves, OrderCounts DEF NoMore
<1>4. Numbering' /\ OrdersPlaced'
  BY <1>1, <1>2, <1>3, PlacedKept
<1>5. RowsOK' /\ IsFiniteSet(cancels)'
  BY RowsKept DEF OnApproved
<1>6. ServersOK'
  BY ServersKept DEF OnApproved, sessionVars, engineVars
<1> QED BY <1>1, <1>4, <1>5, <1>6 DEF Flow, FlowOK

(* DispatcherReply.                                                        *)
LEMMA DispatcherReplyFlow == ASSUME Flow, DispatcherReply PROVE Flow'
<1>1. LinksOK'
  BY DispatcherReplyMoves
<1>2. UNCHANGED <<sent, numberVars, accepted, pending, delivered>>
  BY DEF DispatcherReply, clientVars, engineVars
<1>3. ASSUME NEW o \in Orders PROVE NoMore(OrderMessage(o))
  BY DispatcherReplyMoves, OrderCounts DEF NoMore
<1>4. Numbering' /\ OrdersPlaced'
  BY <1>1, <1>2, <1>3, PlacedKept
<1>5. RowsOK' /\ IsFiniteSet(cancels)'
  BY RowsKept DEF DispatcherReply
<1>6. ServersOK'
  BY ServersKept DEF DispatcherReply, engineVars
<1> QED BY <1>1, <1>4, <1>5, <1>6 DEF Flow, FlowOK

(* OnConnection.                                                           *)
LEMMA OnConnectionFlow == ASSUME Flow, OnConnection PROVE Flow'
<1>1. LinksOK'
  BY OnConnectionMoves
<1>2. UNCHANGED <<sent, numberVars, accepted, pending, delivered>>
  BY DEF OnConnection, clientVars, engineVars
<1>3. ASSUME NEW o \in Orders PROVE NoMore(OrderMessage(o))
  <2>1. Is(Head(toDispatcher), OrderMessage(o)) = 0
    BY OnConnectionMoves, IsType
  <2> QED BY <2>1, OnConnectionMoves, OrderCounts DEF NoMore
<1>4. Numbering' /\ OrdersPlaced'
  BY <1>1, <1>2, <1>3, PlacedKept
<1>5. RowsOK' /\ IsFiniteSet(cancels)'
  BY RowsKept DEF OnConnection
<1>6. ServersOK'
  <2> DEFINE f == Head(toDispatcher)
  <2>1. f.user \in Users /\ f.session \in Sessions
    BY OnConnectionMoves, Shapes
  <2>2. route' = [route EXCEPT ![f.user] = IF @ = None THEN <<f.session>> ELSE @]
    BY DEF OnConnection
  <2>3. route' \in [Users -> {None} \union {<<t>> : t \in Sessions}]
    BY <2>1, <2>2 DEF Flow, FlowOK, ServersOK
  <2> QED BY <1>2, <2>3 DEF Flow, FlowOK, ServersOK, OnConnection, sessionVars, numberVars, engineVars
<1> QED BY <1>1, <1>4, <1>5, <1>6 DEF Flow, FlowOK

(* OnCancel.                                                               *)
LEMMA OnCancelFlow == ASSUME Flow, OnCancel PROVE Flow'
<1>1. LinksOK'
  BY OnCancelMoves
<1>2. UNCHANGED <<sent, numberVars, accepted, pending, delivered>>
  BY DEF OnCancel, clientVars
<1>3. ASSUME NEW o \in Orders PROVE NoMore(OrderMessage(o))
  <2>1. Is(Head(toDispatcher), OrderMessage(o)) = 0
    BY OnCancelMoves, IsType
  <2> QED BY <2>1, OnCancelMoves, OrderCounts DEF NoMore
<1>4. Numbering' /\ OrdersPlaced'
  BY <1>1, <1>2, <1>3, PlacedKept
<1>5. RowsOK' /\ IsFiniteSet(cancels)'
  BY RowsKept DEF OnCancel
<1>6. ServersOK'
  BY ServersKept DEF OnCancel, sessionVars
<1> QED BY <1>1, <1>4, <1>5, <1>6 DEF Flow, FlowOK

(* EngineCancel.                                                           *)
LEMMA EngineCancelFlow == ASSUME Flow, EngineCancel PROVE Flow'
<1>1. LinksOK'
  BY EngineCancelMoves
<1>2. UNCHANGED <<sent, numberVars, accepted, pending, delivered>>
  BY DEF EngineCancel, EngineVarsKept, clientVars, dispatcherVars
<1>3. ASSUME NEW o \in Orders PROVE NoMore(OrderMessage(o))
  <2>1. Is(Head(toEngine), OrderMessage(o)) = 0
    BY EngineCancelMoves, IsType
  <2> QED BY <2>1, EngineCancelMoves, OrderCounts DEF NoMore
<1>4. Numbering' /\ OrdersPlaced'
  BY <1>1, <1>2, <1>3, PlacedKept
<1>5. RowsOK' /\ IsFiniteSet(cancels)'
  BY RowsKept DEF EngineCancel, EngineVarsKept
<1>6. ServersOK'
  <2> DEFINE c == Head(toEngine)
  <2>1. c \in Messages
    BY EngineCancelMoves
  <2>2. /\ booked' \in [Ids -> Orders \union {0}]
        /\ down' = None \/ down'[1] \in Messages
    <3>1. CASE down' = <<c>> /\ UNCHANGED booked
      BY <2>1, <3>1 DEF Flow, FlowOK, ServersOK
    <3>2. CASE booked' = [i \in Ids |-> IF i = c.id THEN 0 ELSE booked[i]] /\ UNCHANGED down
      BY <3>2 DEF Flow, FlowOK, ServersOK
    <3> QED BY <3>1, <3>2 DEF EngineCancel
  <2> QED BY <1>2, <2>2 DEF Flow, FlowOK, ServersOK, EngineCancel, EngineVarsKept, sessionVars,
                            numberVars, dispatcherVars
<1> QED BY <1>1, <1>4, <1>5, <1>6 DEF Flow, FlowOK

-----------------------------------------------------------------------------
(* The steps that move an order.                                           *)

(* SendOrder: the order is on its way to the Gateway, once.                *)
LEMMA SendOrderFlow ==
    ASSUME Flow, NEW script \in Scripts, SendOrder(script) PROVE Flow'
<1> DEFINE n == Len(sent) + 1
<1>1. LinksOK' /\ RowsOK /\ Len(sent) \in Nat
  BY SendOrderMoves, KnownOrders DEF Flow, FlowOK
<1>2. /\ n \in Orders /\ sent' \in Seq(Forms) /\ Len(sent') = n /\ IsPrefix(sent', script)
      /\ \A o \in Known : sent'[o] = sent[o]
  BY <1>1, NextOfScript DEF SendOrder
<1>3. /\ UNCHANGED <<shown, requests, cancels, approvals, numberVars, accepted, pending, delivered>>
      /\ UNCHANGED <<state, route, booked, down>> /\ status' = [status EXCEPT ![n] = "Sent"]
  BY DEF SendOrder, dispatcherVars, engineVars
<1>4. RowsOK' /\ IsFiniteSet(cancels)'
  BY <1>2, <1>3 DEF Flow, FlowOK, RowsOK
<1>5. ServersOK'
  BY <1>3, ServersKept
<1>6. \A o \in Orders : BeingNumbered(o)' <=> BeingNumbered(o)
  BY <1>3 DEF BeingNumbered, numberVars
<1>7. Numbering'
  <2>1. {o \in Orders : orderId[o] # NoId \/ BeingNumbered(o)}'
        = {o \in Orders : orderId[o] # NoId \/ BeingNumbered(o)}
    BY <1>3, <1>6 DEF numberVars
  <2> QED BY <1>3, <2>1 DEF Flow, Numbering, numberVars
<1>8. Known' = Known \union {n} /\ n \notin Known /\ Known \subseteq Orders
  <2>1. Known' = 1..n /\ Known = 1..Len(sent)
    BY <1>2 DEF Known
  <2>2. 1..n = 1..Len(sent) \union {n} /\ n \notin 1..Len(sent)
    BY <1>1
  <2> QED BY <1>1, <2>1, <2>2, KnownOrders
<1>9. orderId[n] = NoId /\ ~BeingNumbered(n)
  BY <1>2, <1>8 DEF Flow, OrdersPlaced, NumberedAreSent, AtLoading, BeingNumbered, Orders
<1>10. \A o \in accepted : o \in Orders /\ o \in Known
  BY DEF Flow, FlowOK, ServersOK, OrdersPlaced, NumberedAreSent
<1>11. AtLoading' /\ NumberedAreSent'
  BY <1>3, <1>8 DEF Flow, OrdersPlaced, AtLoading, NumberedAreSent, numberVars
<1>12. PendingRetail'
  BY <1>2, <1>3, <1>10 DEF Flow, OrdersPlaced, PendingRetail, numberVars
<1>13. ASSUME NEW o \in Orders
       PROVE  /\ InGateway(OrderMessage(o))' <=
                   IF o \in Known' /\ orderId'[o] = NoId /\ ~BeingNumbered(o)' THEN 1 ELSE 0
              /\ InQueue(OrderMessage(o))' <= IF orderId'[o] # NoId /\ o \notin accepted' THEN 1 ELSE 0
              /\ InDispatcher(OrderMessage(o))' + InEngine(OrderMessage(o))' + delivered'[o] > 0
                     => o \in accepted'
  <2>1. /\ \/ InGateway(OrderMessage(o))' = InGateway(OrderMessage(o))
           \/ InGateway(OrderMessage(o))' = InGateway(OrderMessage(o)) + Is(n, o)
        /\ InQueue(OrderMessage(o))' = InQueue(OrderMessage(o))
        /\ InDispatcher(OrderMessage(o))' = InDispatcher(OrderMessage(o))
        /\ InEngine(OrderMessage(o))' = InEngine(OrderMessage(o))
    BY SendOrderMoves, IsType
  <2>2. /\ InGateway(OrderMessage(o)) <=
             IF o \in Known /\ orderId[o] = NoId /\ ~BeingNumbered(o) THEN 1 ELSE 0
        /\ InQueue(OrderMessage(o)) <= IF orderId[o] # NoId /\ o \notin accepted THEN 1 ELSE 0
        /\ InDispatcher(OrderMessage(o)) + InEngine(OrderMessage(o)) + delivered[o] > 0 => o \in accepted
    BY DEF Flow, OrdersPlaced, AtGateway, AtQueue, OnlyAccepted
  <2>3. orderId' = orderId /\ accepted' = accepted /\ delivered' = delivered
    BY <1>3 DEF numberVars
  <2>4. CASE o = n
    <3>1. InGateway(OrderMessage(o)) = 0
      BY <1>8, <2>2, <2>4, OrderCounts
    <3>2. InGateway(OrderMessage(o))' <= 1
      BY <2>1, <2>4, <3>1 DEF Is
    <3> QED BY <1>6, <1>8, <1>9, <2>1, <2>2, <2>3, <2>4, <3>2
  <2>5. CASE o # n
    <3>1. InGateway(OrderMessage(o))' = InGateway(OrderMessage(o))
      BY <2>1, <2>5, OrderCounts DEF Is
    <3> QED BY <1>6, <1>8, <2>1, <2>2, <2>3, <2>5, <3>1
  <2> QED BY <2>4, <2>5
<1>14. OrdersPlaced'
  BY <1>11, <1>12, <1>13 DEF OrdersPlaced, AtGateway, AtQueue, OnlyAccepted
<1> QED BY <1>1, <1>4, <1>5, <1>7, <1>14 DEF Flow, FlowOK

(* No more orders can be numbered than there are.                          *)
LEMMA NumberedOrders ==
    ASSUME NEW T \in SUBSET Orders
    PROVE  IsFiniteSet(T) /\ Cardinality(T) \in 0..MaxOrders
<1>1. 1 \in Int /\ MaxOrders \in Nat /\ MaxOrders \in Int
  BY FlowAssumption
<1>2. IsFiniteSet(Orders) /\ Cardinality(Orders) = MaxOrders
  BY <1>1, FS_Interval DEF Orders
<1>3. IsFiniteSet(T) /\ Cardinality(T) <= Cardinality(Orders)
  BY <1>2, FS_Subset
<1>4. Cardinality(T) \in Nat
  BY <1>3, FS_CardinalityType
<1> QED BY <1>1, <1>2, <1>3, <1>4

(* CountOrder: from the link to the reading thread.                        *)
LEMMA CountOrderFlow == ASSUME Flow, NEW s \in Sessions, CountOrder(s) PROVE Flow'
<1> DEFINE o == Head(toGateway[s]).order
           numbered == {p \in Orders : orderId[p] # NoId \/ BeingNumbered(p)}
<1>1. /\ LinksOK' /\ o \in Orders /\ InGateway(OrderMessage(o)) > 0
      /\ \A m : /\ InGateway(m)' = InGateway(m) - Is(OrderMessage(o), m)
                /\ InQueue(m)' = InQueue(m)
                /\ InDispatcher(m)' = InDispatcher(m) /\ InEngine(m)' = InEngine(m)
  BY CountOrderMoves
<1>2. /\ loading[s] = 0 /\ loading' = [loading EXCEPT ![s] = o] /\ counter' = counter + 1
      /\ together' = together \union {{o, p} : p \in {loading[t] : t \in Sessions} \ {0}}
      /\ UNCHANGED <<clientVars, orderId, accepted, pending, delivered, state, route, booked, down>>
  BY DEF CountOrder, Reads, dispatcherVars, engineVars
<1> HIDE DEF o
<1>3. o \in Known /\ orderId[o] = NoId /\ ~BeingNumbered(o) /\ InGateway(OrderMessage(o)) = 1
  <2>1. InGateway(OrderMessage(o)) <=
            IF o \in Known /\ orderId[o] = NoId /\ ~BeingNumbered(o) THEN 1 ELSE 0
    BY <1>1 DEF Flow, OrdersPlaced, AtGateway
  <2> QED BY <1>1, <2>1, OrderCounts
<1>4. loading \in [Sessions -> Orders \union {0}] /\ 0 \notin Orders
  BY DEF Flow, FlowOK, ServersOK, Orders
<1>5. \A t \in Sessions : loading'[t] = IF t = s THEN o ELSE loading[t]
  BY <1>2, <1>4
<1>6. \A p \in Orders : BeingNumbered(p)' <=> BeingNumbered(p) \/ p = o
  BY <1>2, <1>4, <1>5 DEF BeingNumbered
<1>7. numbered' = numbered \union {o} /\ o \notin numbered
  BY <1>1, <1>2, <1>3, <1>6
<1>8. Numbering'
  <2>1. IsFiniteSet(numbered) /\ counter = Cardinality(numbered)
    BY NumberedOrders DEF Flow, Numbering
  <2>2. Cardinality(numbered \union {o}) = Cardinality(numbered) + 1
    BY <1>7, <2>1, FS_AddElement
  <2>3. counter' = Cardinality(numbered')
    BY <1>2, <1>7, <2>1, <2>2
  <2> QED BY <2>3 DEF Numbering
<1>9. counter' \in 0..MaxOrders
  <2>1. numbered' \in SUBSET Orders
    BY <1>1, <1>7
  <2> QED BY <1>8, <2>1, NumberedOrders DEF Numbering
<1>10. RowsOK' /\ IsFiniteSet(cancels)' /\ Known' = Known
  BY <1>2, RowsKept DEF Known, clientVars
<1>11. ServersOK'
  <2>1. loading' \in [Sessions -> Orders \union {0}]
    BY <1>1, <1>2, <1>4
  <2>2. together' \subseteq {{q, p} : q, p \in Orders}
    <3>1. \A p \in {loading[t] : t \in Sessions} \ {0} : p \in Orders
      BY <1>4
    <3>2. together \subseteq {{q, p} : q, p \in Orders}
      BY DEF Flow, FlowOK, ServersOK
    <3> QED BY <1>1, <1>2, <3>1, <3>2
  <2>3. UNCHANGED <<orderId, accepted, pending, delivered, state, route, booked, down>>
    BY <1>2
  <2>4. ServersOK
    BY DEF Flow, FlowOK
  <2> HIDE DEF numbered
  <2> QED BY <1>9, <2>1, <2>2, <2>3, <2>4 DEF ServersOK
<1>12. AtLoading'
  BY <1>2, <1>3, <1>5, <1>10 DEF Flow, OrdersPlaced, AtLoading, BeingNumbered
<1>13. NumberedAreSent' /\ PendingRetail'
  BY <1>2, <1>10 DEF Flow, OrdersPlaced, NumberedAreSent, PendingRetail, clientVars
<1>14. ASSUME NEW p \in Orders
       PROVE  /\ InGateway(OrderMessage(p))' <=
                   IF p \in Known' /\ orderId'[p] = NoId /\ ~BeingNumbered(p)' THEN 1 ELSE 0
              /\ InQueue(OrderMessage(p))' <= IF orderId'[p] # NoId /\ p \notin accepted' THEN 1 ELSE 0
              /\ InDispatcher(OrderMessage(p))' + InEngine(OrderMessage(p))' + delivered'[p] > 0
                     => p \in accepted'
  <2>1. /\ InGateway(OrderMessage(p))' = InGateway(OrderMessage(p)) - Is(o, p)
        /\ InQueue(OrderMessage(p))' = InQueue(OrderMessage(p))
        /\ InDispatcher(OrderMessage(p))' = InDispatcher(OrderMessage(p))
        /\ InEngine(OrderMessage(p))' = InEngine(OrderMessage(p))
    BY <1>1, IsType
  <2>2. /\ InGateway(OrderMessage(p)) <=
             IF p \in Known /\ orderId[p] = NoId /\ ~BeingNumbered(p) THEN 1 ELSE 0
        /\ InQueue(OrderMessage(p)) <= IF orderId[p] # NoId /\ p \notin accepted THEN 1 ELSE 0
        /\ InDispatcher(OrderMessage(p)) + InEngine(OrderMessage(p)) + delivered[p] > 0 => p \in accepted
    BY DEF Flow, OrdersPlaced, AtGateway, AtQueue, OnlyAccepted
  <2>3. CASE p = o
    <3>1. InGateway(OrderMessage(p))' = 0
      BY <1>3, <2>1, <2>3 DEF Is
    <3> QED BY <1>2, <1>6, <2>1, <2>2, <2>3, <3>1
  <2>4. CASE p # o
    <3>1. InGateway(OrderMessage(p))' = InGateway(OrderMessage(p))
      BY <2>1, <2>4, OrderCounts DEF Is
    <3> QED BY <1>2, <1>6, <1>10, <2>1, <2>2, <2>4, <3>1
  <2> QED BY <2>3, <2>4
<1>15. OrdersPlaced'
  BY <1>12, <1>13, <1>14 DEF OrdersPlaced, AtGateway, AtQueue, OnlyAccepted
<1> QED BY <1>1, <1>8, <1>10, <1>11, <1>15 DEF Flow, FlowOK

(* LoadOrderId: from the reading thread to the queue.                      *)
LEMMA LoadOrderIdFlow ==
    ASSUME Flow, NEW s \in Sessions, LoadOrderId(s) PROVE Flow' /\ counter \in Ids
<1> DEFINE o == loading[s]
           numbered == {p \in Orders : orderId[p] # NoId \/ BeingNumbered(p)}
<1>1. /\ LinksOK'
      /\ \A m : /\ InGateway(m)' = InGateway(m)
                /\ InDispatcher(m)' = InDispatcher(m) /\ InEngine(m)' = InEngine(m)
      /\ \/ \A m : InQueue(m)' = InQueue(m)
         \/ \A m : InQueue(m)' = InQueue(m) + Is(OrderMessage(o), m)
  BY LoadOrderIdMoves
<1>2. /\ o # 0 /\ loading' = [loading EXCEPT ![s] = 0] /\ orderId' = [orderId EXCEPT ![o] = counter]
      /\ UNCHANGED <<clientVars, counter, together, accepted, pending, delivered>>
      /\ UNCHANGED <<state, route, booked, down>>
  BY DEF LoadOrderId, sessionVars, dispatcherVars, engineVars
<1>3. /\ loading \in [Sessions -> Orders \union {0}] /\ 0 \notin Orders /\ o \in Orders
      /\ o \in Known /\ orderId[o] = NoId /\ BeingNumbered(o)
      /\ orderId \in [Orders -> Ids \union {NoId}]
      /\ \A t \in Sessions : loading[t] = o => t = s
  BY <1>2 DEF Flow, FlowOK, ServersOK, Orders, OrdersPlaced, AtLoading, BeingNumbered
<1>4. counter \in Ids
  <2>1. o \in numbered /\ numbered \in SUBSET Orders
    BY <1>3
  <2>2. counter = Cardinality(numbered) /\ IsFiniteSet(numbered) /\ counter \in 0..MaxOrders
    BY <2>1, NumberedOrders DEF Flow, Numbering
  <2>3. counter # 0
    BY <2>1, <2>2, FS_EmptySet
  <2> QED BY <2>2, <2>3, FlowAssumption DEF Ids
<1>5. counter # NoId /\ \A p \in Orders : orderId'[p] = IF p = o THEN counter ELSE orderId[p]
  BY <1>2, <1>3, <1>4 DEF Ids, NoId
<1>6. \A t \in Sessions : loading'[t] = IF t = s THEN 0 ELSE loading[t]
  BY <1>2, <1>3
<1>7. \A p \in Orders : BeingNumbered(p)' <=> BeingNumbered(p) /\ p # o
  BY <1>3, <1>6 DEF BeingNumbered
<1>8. Numbering'
  <2>1. numbered' = numbered
    BY <1>3, <1>5, <1>7
  <2> QED BY <1>2, <2>1 DEF Flow, Numbering
<1>9. RowsOK' /\ IsFiniteSet(cancels)' /\ Known' = Known
  BY <1>2, RowsKept DEF Known, clientVars
<1>10. ServersOK'
  <2>1. loading' \in [Sessions -> Orders \union {0}] /\ orderId' \in [Orders -> Ids \union {NoId}]
    BY <1>2, <1>3, <1>4
  <2> QED BY <1>2, <2>1 DEF Flow, FlowOK, ServersOK
<1>11. o \notin accepted
  BY <1>3 DEF Flow, OrdersPlaced, NumberedAreSent
<1>12. AtLoading'
  <2>1. ASSUME NEW t \in Sessions, loading'[t] # 0
        PROVE  t # s /\ loading'[t] = loading[t] /\ loading[t] # o /\ loading[t] \in Orders
    BY <1>3, <1>6, <2>1
  <2>2. ASSUME NEW t \in Sessions, loading'[t] # 0
        PROVE  loading'[t] \in Known' /\ orderId'[loading'[t]] = NoId
    BY <1>5, <1>9, <2>1, <2>2 DEF Flow, OrdersPlaced, AtLoading
  <2>3. ASSUME NEW t \in Sessions, NEW u \in Sessions, loading'[t] = loading'[u], loading'[t] # 0
        PROVE  t = u
    BY <2>1, <2>3 DEF Flow, OrdersPlaced, AtLoading
  <2> QED BY <2>2, <2>3 DEF AtLoading
<1>13. NumberedAreSent'
  BY <1>2, <1>3, <1>5, <1>9 DEF Flow, FlowOK, ServersOK, OrdersPlaced, NumberedAreSent
<1>14. PendingRetail'
  <2> SUFFICES ASSUME NEW i \in Ids, pending[i] # 0
               PROVE  /\ pending[i] \in accepted /\ sent'[pending[i]].kind = "retail"
                      /\ orderId'[pending[i]] = i
    BY <1>2 DEF PendingRetail
  <2>1. /\ pending[i] \in accepted /\ pending[i] \in Orders /\ orderId[pending[i]] = i
        /\ sent[pending[i]].kind = "retail"
    BY DEF Flow, FlowOK, ServersOK, OrdersPlaced, PendingRetail
  <2> QED BY <1>2, <1>5, <1>11, <2>1 DEF clientVars
<1>15. ASSUME NEW p \in Orders
       PROVE  /\ InGateway(OrderMessage(p))' <=
                   IF p \in Known' /\ orderId'[p] = NoId /\ ~BeingNumbered(p)' THEN 1 ELSE 0
              /\ InQueue(OrderMessage(p))' <= IF orderId'[p] # NoId /\ p \notin accepted' THEN 1 ELSE 0
              /\ InDispatcher(OrderMessage(p))' + InEngine(OrderMessage(p))' + delivered'[p] > 0
                     => p \in accepted'
  <2>1. /\ InGateway(OrderMessage(p))' = InGateway(OrderMessage(p))
        /\ \/ InQueue(OrderMessage(p))' = InQueue(OrderMessage(p))
           \/ InQueue(OrderMessage(p))' = InQueue(OrderMessage(p)) + Is(o, p)
        /\ InDispatcher(OrderMessage(p))' = InDispatcher(OrderMessage(p))
        /\ InEngine(OrderMessage(p))' = InEngine(OrderMessage(p))
    BY <1>1, IsType
  <2>2. /\ InGateway(OrderMessage(p)) <=
             IF p \in Known /\ orderId[p] = NoId /\ ~BeingNumbered(p) THEN 1 ELSE 0
        /\ InQueue(OrderMessage(p)) <= IF orderId[p] # NoId /\ p \notin accepted THEN 1 ELSE 0
        /\ InDispatcher(OrderMessage(p)) + InEngine(OrderMessage(p)) + delivered[p] > 0 => p \in accepted
    BY DEF Flow, OrdersPlaced, AtGateway, AtQueue, OnlyAccepted
  <2>3. CASE p = o
    <3>1. InQueue(OrderMessage(p))' <= 1 /\ InGateway(OrderMessage(p))' <= 0
      BY <1>3, <2>1, <2>2, <2>3, OrderCounts DEF Is
    <3> QED BY <1>2, <1>5, <1>7, <1>11, <2>1, <2>2, <2>3, <3>1
  <2>4. CASE p # o
    <3>1. InQueue(OrderMessage(p))' = InQueue(OrderMessage(p))
      BY <2>1, <2>4, OrderCounts DEF Is
    <3> QED BY <1>2, <1>5, <1>7, <1>9, <2>1, <2>2, <2>4, <3>1
  <2> QED BY <2>3, <2>4
<1>16. OrdersPlaced'
  BY <1>12, <1>13, <1>14, <1>15 DEF OrdersPlaced, AtGateway, AtQueue, OnlyAccepted
<1> QED BY <1>1, <1>4, <1>8, <1>9, <1>10, <1>16 DEF Flow, FlowOK

(* OnNewOrder: from the queue to the accepted orders.                      *)
LEMMA OnNewOrderFlow == ASSUME Flow, NEW s \in Sessions, OnNewOrder(s) PROVE Flow'
<1> DEFINE o == Head(gatewayQueue[s]).order
<1>1. /\ LinksOK' /\ o \in Orders /\ orderId[o] # NoId /\ o \in Known /\ o \notin accepted
      /\ InQueue(OrderMessage(o)) = 1
      /\ \A m : /\ InGateway(m)' = InGateway(m) /\ InQueue(m)' = InQueue(m) - Is(OrderMessage(o), m)
                /\ InEngine(m)' = InEngine(m)
      /\ \/ accepted' = accepted /\ \A m : InDispatcher(m)' = InDispatcher(m)
         \/ /\ accepted' = accepted \union {o}
            /\ \A m : InDispatcher(m)' = InDispatcher(m) + Is(OrderMessage(o), m)
  BY OnNewOrderMoves
<1>2. UNCHANGED <<clientVars, numberVars, pending, delivered, state, route, booked, down>>
  BY DEF OnNewOrder, engineVars
<1> HIDE DEF o
<1>3. RowsOK' /\ IsFiniteSet(cancels)' /\ Known' = Known
  BY <1>2, RowsKept DEF Known, clientVars
<1>4. ServersOK'
  BY <1>1, <1>2 DEF Flow, FlowOK, ServersOK, numberVars
<1>5. CASE accepted' = accepted /\ \A m : InDispatcher(m)' = InDispatcher(m)
  <2>1. UNCHANGED <<sent, numberVars, accepted, pending, delivered>>
    BY <1>2, <1>5 DEF clientVars
  <2>2. ASSUME NEW p \in Orders PROVE NoMore(OrderMessage(p))
    BY <1>1, <1>5, OrderCounts DEF NoMore, Is
  <2>3. Numbering' /\ OrdersPlaced'
    BY <1>1, <2>1, <2>2, PlacedKept
  <2> QED BY <1>1, <1>3, <1>4, <2>3 DEF Flow, FlowOK
<1>6. CASE /\ accepted' = accepted \union {o}
           /\ \A m : InDispatcher(m)' = InDispatcher(m) + Is(OrderMessage(o), m)
  <2>1. \A p \in Orders : BeingNumbered(p)' <=> BeingNumbered(p)
    BY <1>2 DEF BeingNumbered, numberVars
  <2>2. Numbering'
    <3>1. {p \in Orders : orderId[p] # NoId \/ BeingNumbered(p)}'
          = {p \in Orders : orderId[p] # NoId \/ BeingNumbered(p)}
      BY <1>2, <2>1 DEF numberVars
    <3> QED BY <1>2, <3>1 DEF Flow, Numbering, numberVars
  <2>3. AtLoading' /\ NumberedAreSent' /\ PendingRetail'
    BY <1>1, <1>2, <1>3, <1>6 DEF Flow, OrdersPlaced, AtLoading, NumberedAreSent, PendingRetail,
                                  numberVars, clientVars
  <2>4. ASSUME NEW p \in Orders
        PROVE  /\ InGateway(OrderMessage(p))' <=
                    IF p \in Known' /\ orderId'[p] = NoId /\ ~BeingNumbered(p)' THEN 1 ELSE 0
               /\ InQueue(OrderMessage(p))' <= IF orderId'[p] # NoId /\ p \notin accepted' THEN 1 ELSE 0
               /\ InDispatcher(OrderMessage(p))' + InEngine(OrderMessage(p))' + delivered'[p] > 0
                      => p \in accepted'
    <3>1. /\ InGateway(OrderMessage(p))' = InGateway(OrderMessage(p))
          /\ InQueue(OrderMessage(p))' = InQueue(OrderMessage(p)) - Is(o, p)
          /\ InDispatcher(OrderMessage(p))' = InDispatcher(OrderMessage(p)) + Is(o, p)
          /\ InEngine(OrderMessage(p))' = InEngine(OrderMessage(p))
      BY <1>1, <1>6, IsType
    <3>2. /\ InGateway(OrderMessage(p)) <=
               IF p \in Known /\ orderId[p] = NoId /\ ~BeingNumbered(p) THEN 1 ELSE 0
          /\ InQueue(OrderMessage(p)) <= IF orderId[p] # NoId /\ p \notin accepted THEN 1 ELSE 0
          /\ InDispatcher(OrderMessage(p)) + InEngine(OrderMessage(p)) + delivered[p] > 0
                 => p \in accepted
      BY DEF Flow, OrdersPlaced, AtGateway, AtQueue, OnlyAccepted
    <3>3. orderId' = orderId /\ delivered' = delivered
      BY <1>2 DEF numberVars
    <3>4. CASE p = o
      <4>1. InQueue(OrderMessage(p))' = 0 /\ p \in accepted'
        BY <1>1, <1>6, <3>1, <3>4 DEF Is
      <4> QED BY <1>3, <2>1, <3>1, <3>2, <3>3, <4>1
    <3>5. CASE p # o
      <4>1. /\ InQueue(OrderMessage(p))' = InQueue(OrderMessage(p))
            /\ InDispatcher(OrderMessage(p))' = InDispatcher(OrderMessage(p))
            /\ p \in accepted' <=> p \in accepted
        BY <1>6, <3>1, <3>5, OrderCounts DEF Is
      <4> QED BY <1>3, <2>1, <3>1, <3>2, <3>3, <4>1
    <3> QED BY <3>4, <3>5
  <2>5. OrdersPlaced'
    BY <2>3, <2>4 DEF OrdersPlaced, AtGateway, AtQueue, OnlyAccepted
  <2> QED BY <1>1, <1>3, <1>4, <2>2, <2>5 DEF Flow, FlowOK
<1> QED BY <1>1, <1>5, <1>6

(* Past the Gateway an order was accepted, whatever moves there.           *)
LEMMA PlacedPast ==
    ASSUME Flow, LinksOK', UNCHANGED <<sent, numberVars, accepted>>, PendingRetail',
           \A o \in Orders : /\ InGateway(OrderMessage(o))' = InGateway(OrderMessage(o))
                             /\ InQueue(OrderMessage(o))' = InQueue(OrderMessage(o)),
           \A o \in Orders \ accepted :
               /\ InDispatcher(OrderMessage(o))' <= InDispatcher(OrderMessage(o))
               /\ InEngine(OrderMessage(o))' <= InEngine(OrderMessage(o))
               /\ delivered'[o] = delivered[o]
    PROVE  Numbering' /\ OrdersPlaced'
<1> USE DEF numberVars
<1>1. \A o \in Orders : BeingNumbered(o)' <=> BeingNumbered(o)
  BY DEF BeingNumbered
<1>2. Numbering'
  <2>1. {o \in Orders : orderId[o] # NoId \/ BeingNumbered(o)}'
        = {o \in Orders : orderId[o] # NoId \/ BeingNumbered(o)}
    BY <1>1
  <2> QED BY <2>1 DEF Flow, Numbering
<1>3. Known' = Known
  BY DEF Known
<1>4. AtLoading' /\ NumberedAreSent' /\ AtGateway' /\ AtQueue'
  BY <1>1, <1>3 DEF Flow, OrdersPlaced, AtLoading, NumberedAreSent, AtGateway, AtQueue
<1>5. ASSUME NEW o \in Orders \ accepted
      PROVE  ~(InDispatcher(OrderMessage(o))' + InEngine(OrderMessage(o))' + delivered'[o] > 0)
  <2>1. /\ InDispatcher(OrderMessage(o))' \in Nat /\ InEngine(OrderMessage(o))' \in Nat
    BY CountsTypedNext
  <2>2. ~(InDispatcher(OrderMessage(o)) + InEngine(OrderMessage(o)) + delivered[o] > 0)
    BY DEF Flow, OrdersPlaced, OnlyAccepted
  <2> QED BY <2>1, <2>2, OrderCounts
<1>6. OnlyAccepted'
  BY <1>5 DEF OnlyAccepted
<1> QED BY <1>2, <1>4, <1>6 DEF OrdersPlaced

(* OnOrder: from the link to mOrderList or to the MatchingEngine.          *)
LEMMA OnOrderFlow == ASSUME Flow, OnOrder PROVE Flow'
<1> DEFINE o == Head(toDispatcher).order
<1>1. /\ LinksOK' /\ o \in Orders /\ o \in accepted /\ orderId[o] \in Ids
      /\ \A m : /\ InGateway(m)' = InGateway(m) /\ InQueue(m)' = InQueue(m)
                /\ InDispatcher(m)' = InDispatcher(m) - Is(OrderMessage(o), m)
      /\ \/ /\ sent[o].kind = "retail" /\ (pending' = KeepFirst(orderId[o], o) \/ pending' = pending)
            /\ \A m : InEngine(m)' = InEngine(m)
         \/ /\ pending' = pending
            /\ \A m : InEngine(m)' = InEngine(m) + Is(OrderMessage(o), m)
  BY OnOrderMoves
<1>2. UNCHANGED <<clientVars, numberVars, accepted, delivered, state, route, booked, down>>
  BY DEF OnOrder, sessionVars
<1> HIDE DEF o
<1>3. RowsOK' /\ IsFiniteSet(cancels)'
  BY <1>2, RowsKept
<1>4. pending' \in [Ids -> Orders \union {0}] /\ PendingRetail'
  <2>1. pending \in [Ids -> Orders \union {0}] /\ PendingRetail
    BY DEF Flow, FlowOK, ServersOK, OrdersPlaced
  <2>2. CASE pending' = pending
    BY <1>2, <2>1, <2>2 DEF PendingRetail, clientVars, numberVars
  <2>3. CASE sent[o].kind = "retail" /\ pending' = KeepFirst(orderId[o], o)
    <3>1. /\ pending' \in [Ids -> Orders \union {0}]
          /\ \A i \in Ids : pending'[i] = pending[i] \/ (i = orderId[o] /\ pending'[i] = o)
      BY <1>1, <2>1, <2>3 DEF KeepFirst
    <3> QED BY <1>1, <1>2, <2>1, <2>3, <3>1 DEF PendingRetail, clientVars, numberVars
  <2> QED BY <1>1, <2>2, <2>3
<1>5. ServersOK'
  BY <1>2, <1>4 DEF Flow, FlowOK, ServersOK, numberVars
<1>6. ASSUME NEW p \in Orders \ accepted
      PROVE  /\ InDispatcher(OrderMessage(p))' <= InDispatcher(OrderMessage(p))
             /\ InEngine(OrderMessage(p))' <= InEngine(OrderMessage(p))
  <2>1. Is(OrderMessage(o), OrderMessage(p)) = 0
    BY <1>1, IsType DEF Is
  <2> QED BY <1>1, <2>1, OrderCounts
<1>7. UNCHANGED <<sent, numberVars, accepted, delivered>>
  BY <1>2 DEF clientVars
<1>8. Numbering' /\ OrdersPlaced'
  BY <1>1, <1>4, <1>6, <1>7, PlacedPast
<1> QED BY <1>1, <1>3, <1>5, <1>8 DEF Flow, FlowOK

(* OnApproval: from mOrderList to the MatchingEngine.                      *)
LEMMA OnApprovalFlow == ASSUME Flow, OnApproval PROVE Flow'
<1> DEFINE i == Head(toDispatcher).id
<1>1. /\ LinksOK' /\ i \in Ids
      /\ \A m : /\ InGateway(m)' = InGateway(m) /\ InQueue(m)' = InQueue(m)
                /\ InDispatcher(m)' = InDispatcher(m) - Is(ApprovedMessage(i), m)
      /\ \/ /\ pending[i] \in Orders
            /\ \A m : InEngine(m)' = InEngine(m) + Is(OrderMessage(pending[i]), m)
         \/ \A m : InEngine(m)' = InEngine(m)
  BY OnApprovalMoves
<1>2. UNCHANGED <<clientVars, numberVars, accepted, pending, delivered, state, route, booked, down>>
  BY DEF OnApproval, sessionVars
<1> HIDE DEF i
<1>3. RowsOK' /\ IsFiniteSet(cancels)' /\ ServersOK' /\ PendingRetail'
  BY <1>2, RowsKept, ServersKept DEF Flow, OrdersPlaced, PendingRetail, clientVars, numberVars
<1>4. ASSUME NEW p \in Orders \ accepted
      PROVE  /\ InDispatcher(OrderMessage(p))' <= InDispatcher(OrderMessage(p))
             /\ InEngine(OrderMessage(p))' <= InEngine(OrderMessage(p))
  <2>1. Is(ApprovedMessage(i), OrderMessage(p)) = 0
    BY DEF Is, ApprovedMessage, OrderMessage
  <2>2. pending[i] \in Orders => Is(OrderMessage(pending[i]), OrderMessage(p)) = 0
    <3>1. pending[i] \in Orders => pending[i] # p
      BY <1>1 DEF Flow, OrdersPlaced, PendingRetail, Orders
    <3> QED BY <3>1, IsType DEF Is
  <2> QED BY <1>1, <2>1, <2>2, OrderCounts
<1>5. UNCHANGED <<sent, numberVars, accepted, delivered>>
  BY <1>2 DEF clientVars
<1>6. Numbering' /\ OrdersPlaced'
  BY <1>1, <1>3, <1>4, <1>5, PlacedPast
<1> QED BY <1>1, <1>3, <1>6 DEF Flow, FlowOK

(* EngineOrder: to the ladder.                                             *)
LEMMA EngineOrderFlow == ASSUME Flow, EngineOrder PROVE Flow'
<1> DEFINE o == Head(toEngine).order
<1>1. /\ LinksOK' /\ o \in Orders /\ o \in accepted /\ orderId[o] \in Ids
      /\ \A m : /\ InGateway(m)' = InGateway(m) /\ InQueue(m)' = InQueue(m)
                /\ InDispatcher(m)' = InDispatcher(m)
                /\ InEngine(m)' = InEngine(m) - Is(OrderMessage(o), m)
  BY EngineOrderMoves
<1>2. /\ UNCHANGED <<clientVars, numberVars, accepted, pending, state, route, down>>
      /\ booked' = [booked EXCEPT ![orderId[o]] = IF @ = 0 THEN o ELSE @]
      /\ delivered' = [delivered EXCEPT ![o] = @ + 1]
  BY DEF EngineOrder, EngineVarsKept, sessionVars, dispatcherVars
<1> HIDE DEF o
<1>3. RowsOK' /\ IsFiniteSet(cancels)' /\ PendingRetail'
  BY <1>2, RowsKept DEF Flow, OrdersPlaced, PendingRetail, clientVars, numberVars
<1>4. ServersOK'
  BY <1>1, <1>2 DEF Flow, FlowOK, ServersOK, numberVars
<1>5. ASSUME NEW p \in Orders \ accepted
      PROVE  /\ InDispatcher(OrderMessage(p))' <= InDispatcher(OrderMessage(p))
             /\ InEngine(OrderMessage(p))' <= InEngine(OrderMessage(p))
             /\ delivered'[p] = delivered[p]
  <2>1. Is(OrderMessage(o), OrderMessage(p)) = 0 /\ p # o
    BY <1>1, IsType DEF Is
  <2>2. delivered'[p] = delivered[p]
    BY <1>2, <2>1 DEF Flow, FlowOK, ServersOK
  <2> QED BY <1>1, <2>1, <2>2, OrderCounts
<1>6. UNCHANGED <<sent, numberVars, accepted>>
  BY <1>2 DEF clientVars
<1>7. Numbering' /\ OrdersPlaced'
  BY <1>1, <1>3, <1>5, <1>6, PlacedPast
<1> QED BY <1>1, <1>3, <1>4, <1>7 DEF Flow, FlowOK

-----------------------------------------------------------------------------

(* Empty links hold nothing.                                               *)
LEMMA NothingSent ==
    /\ \A m : Count([s \in Sessions |-> <<>>], m) = 0 /\ Count(One(<<>>), m) = 0
<1>1. \A m : Places([s \in Sessions |-> <<>>], m) = {} /\ Places(One(<<>>), m) = {}
  BY EmptySeq, LenProperties DEF Places, One
<1> QED BY <1>1, FS_EmptySet DEF Count

(* Nothing is on its way at the start.                                     *)
LEMMA InitFlow == Init => Flow
<1> SUFFICES ASSUME Init PROVE Flow
  OBVIOUS
<1>1. \A m : InGateway(m) = 0 /\ InQueue(m) = 0 /\ InDispatcher(m) = 0 /\ InEngine(m) = 0
  BY NothingSent DEF Init, InGateway, InQueue, InDispatcher, InEngine
<1>2. RowsOK
  <2>1. IsPrefix(sent, <<>>)
    BY EmptySeq, SubSeqEmpty DEF Init, IsPrefix
  <2> QED BY <2>1, EmptySeq, FlowAssumption DEF Init, RowsOK, NoId
<1>3. LinksOK
  BY EmptySeq DEF Init, LinksOK
<1>4. ServersOK
  BY FlowAssumption DEF Init, ServersOK, None, NoId
<1>5. IsFiniteSet(cancels)
  BY FS_EmptySet DEF Init
<1>6. Numbering
  <2>1. {o \in Orders : orderId[o] # NoId \/ BeingNumbered(o)} = {}
    BY DEF Init, BeingNumbered, Orders
  <2> QED BY <2>1, FS_EmptySet DEF Init, Numbering
<1>7. OrdersPlaced
  BY <1>1 DEF Init, OrdersPlaced, AtGateway, AtLoading, AtQueue, NumberedAreSent, OnlyAccepted,
              PendingRetail
<1> QED BY <1>2, <1>3, <1>4, <1>5, <1>6, <1>7 DEF Flow, FlowOK

(* A step that changes nothing but where the views and the sessions stand. *)
StandStill == UNCHANGED <<clientVars, sessionVars, numberVars, gatewayQueue, accepted, dispatcherVars,
                          engineVars>>
(* The other steps of the clients and of the Gateway.                      *)
ClientMoves ==
    \/ \E s \in Sessions :
        \/ Connect(s) \/ Disconnect(s) \/ ClientRead(s)
        \/ \E o \in Orders : SendCancel(s, o)
        \/ \E i \in Ids : SendApproval(s, i)
    \/ \E script \in Scripts : SendOrder(script)
GatewayMoves ==
    \/ \E s \in Sessions :
        \/ TreatLogon(s) \/ CountOrder(s) \/ LoadOrderId(s) \/ QueueMessage(s)
        \/ OnNewOrder(s) \/ OnCancelOrder(s) \/ OnApproved(s)
    \/ DispatcherReply

(* The views open and the sessions are made beside the way of the orders.  *)
LEMMA Standing ==
    /\ \A s \in Sessions : OpenViews(s) \/ AcceptClient(s) \/ MakeSession(s) => StandStill
    /\ UNCHANGED vars => StandStill
  BY DEF OpenViews, AcceptClient, MakeSession, AcceptVarsKept, StandStill, vars

(* The steps, apart.                                                       *)
LEMMA StepCases ==
    ASSUME [Next]_vars
    PROVE  StandStill \/ ClientMoves \/ GatewayMoves \/ DispatcherSide \/ EngineSide
<1>1. CASE ClientSide
  BY <1>1, Standing DEF ClientSide, ClientMoves
<1>2. CASE GatewaySide
  BY <1>2, Standing DEF GatewaySide, GatewayMoves
<1> QED BY <1>1, <1>2, Standing DEF Next

(* Every step keeps the first layer.                                       *)
LEMMA NextFlow == Flow /\ [Next]_vars => Flow'
<1> SUFFICES ASSUME Flow, [Next]_vars PROVE Flow'
  OBVIOUS
<1>1. CASE StandStill
  <2>1. UNCHANGED <<clientVars, sessionVars, numberVars, gatewayQueue, accepted, dispatcherVars,
                    engineVars>>
    BY <1>1 DEF StandStill
  <2>2. RowsOK' /\ IsFiniteSet(cancels)'
    BY <2>1, RowsKept
  <2>3. LinksOK' /\ ServersOK'
    BY <2>1, ServersKept DEF Flow, FlowOK, LinksOK, sessionVars, dispatcherVars, engineVars
  <2>4. \A o \in Orders : NoMore(OrderMessage(o))
    BY <2>1, CountsKept, OrderCounts DEF NoMore, sessionVars, dispatcherVars, engineVars
  <2>5. Numbering' /\ OrdersPlaced'
    BY <2>1, <2>3, <2>4, PlacedKept DEF clientVars, dispatcherVars, engineVars
  <2> QED BY <2>2, <2>3, <2>5 DEF Flow, FlowOK
<1>2. CASE ClientMoves
  BY <1>2, ConnectFlow, DisconnectFlow, ClientReadFlow, SendOrderFlow, SendCancelFlow,
     SendApprovalFlow DEF ClientMoves
<1>3. CASE GatewayMoves
  BY <1>3, TreatLogonFlow, CountOrderFlow, LoadOrderIdFlow, QueueMessageFlow, OnNewOrderFlow,
     OnCancelOrderFlow, OnApprovedFlow, DispatcherReplyFlow DEF GatewayMoves
<1>4. CASE DispatcherSide
  BY <1>4, OnConnectionFlow, OnOrderFlow, OnCancelFlow, OnApprovalFlow DEF DispatcherSide
<1>5. CASE EngineSide
  BY <1>5, EngineOrderFlow, EngineCancelFlow DEF EngineSide
<1> QED BY <1>1, <1>2, <1>3, <1>4, <1>5, StepCases

(* What a lookup misses is a message.                                      *)
LEMMA MissedTyped ==
    ASSUME missed \subseteq Messages, NEW s, NEW n \in Messages, PushReply(s, n) \/ Enqueue(s, n)
    PROVE  missed' \subseteq Messages
  BY DEF PushReply, Enqueue

(* The handlers that look a session up.                                    *)
LEMMA MissedByLookup ==
    ASSUME Flow, missed \subseteq Messages, NEW s \in Sessions,
           LoadOrderId(s) \/ QueueMessage(s) \/ OnNewOrder(s) \/ OnCancelOrder(s)
    PROVE  missed' \subseteq Messages
<1>1. CASE LoadOrderId(s)
  <2>1. loading[s] \in Orders /\ Enqueue(s, OrderMessage(loading[s]))
    BY <1>1 DEF LoadOrderId, Flow, FlowOK, ServersOK
  <2> QED BY <2>1, AreMessages, MissedTyped
<1>2. CASE QueueMessage(s)
  BY <1>2, QueueMessageMoves, MissedTyped DEF QueueMessage
<1>3. CASE OnNewOrder(s)
  <2> DEFINE o == Head(gatewayQueue[s]).order
  <2>1. o \in Orders /\ o \in Known
    BY <1>3, OnNewOrderMoves
  <2>2. sent[o].tag \in Tags \union {NoTag} /\ orderId[o] \in Ids \union {NoId}
    BY <2>1, KnownOrders DEF Flow, FlowOK, ServersOK
  <2>3. \A type \in {"A", "J"} : Reply(type, sent[o].tag, orderId[o]) \in Messages
    BY <2>2, AreMessages
  <2>4. \/ UNCHANGED missed \/ PushReply(s, Reply("J", sent[o].tag, orderId[o]))
        \/ PushReply(s, Reply("A", sent[o].tag, orderId[o]))
    BY <1>3 DEF OnNewOrder
  <2> HIDE DEF o
  <2> QED BY <2>3, <2>4, MissedTyped
<1>4. CASE OnCancelOrder(s)
  <2> DEFINE c == Head(gatewayQueue[s])
  <2>1. c.id \in Ids \union {NoId}
    BY <1>4, OnCancelOrderMoves, Shapes
  <2>2. \/ \E t \in Tags \union {NoTag} : PushReply(s, Reply("J", t, c.id))
        \/ PushReply(s, Message("D"))
    BY <1>4 DEF OnCancelOrder
  <2> HIDE DEF c
  <2> QED BY <2>1, <2>2, AreMessages, MissedTyped
<1> QED BY <1>1, <1>2, <1>3, <1>4

(* The sessions and the views keep their types.                            *)
LEMMA NextSessions == ASSUME Flow, SessionsOK, [Next]_vars PROVE SessionsOK'
<1>1. ASSUME UNCHANGED connectVars, missed' \subseteq Messages PROVE SessionsOK'
  BY <1>1 DEF SessionsOK, connectVars
<1>2. CASE UNCHANGED vars
  BY <1>1, <1>2 DEF vars, SessionsOK
<1>3. ASSUME NEW s \in Sessions, OpenViews(s) \/ AcceptClient(s) \/ MakeSession(s) PROVE SessionsOK'
  <2>1. CASE OpenViews(s)
    BY <2>1 DEF OpenViews, SessionsOK
  <2>2. CASE AcceptClient(s)
    BY <2>2 DEF AcceptClient, AcceptVarsKept, SessionsOK
  <2>3. CASE MakeSession(s)
    BY <2>3 DEF MakeSession, InTheMaking, AcceptVarsKept, SessionsOK
  <2> QED BY <1>3, <2>1, <2>2, <2>3
<1>4. CASE ClientSide
  <2>1. CASE \E s \in Sessions : OpenViews(s)
    BY <1>3, <2>1
  <2>2. CASE ~ \E s \in Sessions : OpenViews(s)
    <3>1. UNCHANGED connectVars /\ UNCHANGED missed
      BY <1>4, <2>2 DEF ClientSide, Connect, Disconnect, ClientRead, SendOrder, SendCancel, SendApproval
    <3> QED BY <1>1, <3>1 DEF SessionsOK
  <2> QED BY <2>1, <2>2
<1>5. CASE GatewaySide
  <2>1. ASSUME NEW s \in Sessions,
               TreatLogon(s) \/ CountOrder(s) \/ OnApproved(s)
        PROVE  SessionsOK'
    <3>1. UNCHANGED connectVars /\ UNCHANGED missed
      BY <2>1 DEF TreatLogon, CountOrder, OnApproved
    <3> QED BY <1>1, <3>1 DEF SessionsOK
  <2>2. ASSUME NEW s \in Sessions,
               LoadOrderId(s) \/ QueueMessage(s) \/ OnNewOrder(s) \/ OnCancelOrder(s)
        PROVE  SessionsOK'
    <3>1. UNCHANGED connectVars
      BY <2>2 DEF LoadOrderId, QueueMessage, OnNewOrder, OnCancelOrder
    <3>2. missed' \subseteq Messages
      BY <2>2, MissedByLookup DEF SessionsOK
    <3> QED BY <1>1, <3>1, <3>2
  <2>3. CASE DispatcherReply
    <3>1. UNCHANGED connectVars
      BY <2>3 DEF DispatcherReply
    <3>2. missed' \subseteq Messages
      <4> DEFINE m == Head(fromDispatcher)
      <4>1. m \in Messages
        BY <2>3, SeqTail DEF DispatcherReply, Flow, FlowOK, LinksOK
      <4>2. UNCHANGED missed \/ PushReply(m.session, m)
        BY <2>3 DEF DispatcherReply
      <4> HIDE DEF m
      <4> QED BY <4>1, <4>2, MissedTyped DEF SessionsOK
    <3> QED BY <1>1, <3>1, <3>2
  <2> QED BY <1>3, <1>5, <2>1, <2>2, <2>3 DEF GatewaySide
<1>6. CASE DispatcherSide \/ EngineSide
  <2>1. UNCHANGED connectVars /\ UNCHANGED missed
    BY <1>6 DEF DispatcherSide, OnConnection, OnOrder, OnCancel, OnApproval, EngineSide, EngineOrder,
                EngineCancel, EngineVarsKept
  <2> QED BY <1>1, <2>1 DEF SessionsOK
<1> QED BY <1>2, <1>4, <1>5, <1>6 DEF Next

(* Whatever the number of sessions, the users, the scripts of orders and   *)
(* the bounds, every step of a client, of the Gateway, of the Dispatcher   *)
(* and of the MatchingEngine keeps every table and link well-typed: a row  *)
(* shows an ORDERID of the Gateway or none, mOrderList and the ladder hold *)
(* orders under ORDERIDs that were given, a route leads to a session, and  *)
(* no handler meets a message it has no fields for.                        *)
THEOREM TypesKept == Spec => []TypeOK
<1>1. Init => Flow /\ SessionsOK
  BY InitFlow DEF Init, SessionsOK
<1>2. Flow /\ SessionsOK /\ [Next]_vars => (Flow /\ SessionsOK)'
  BY NextFlow, NextSessions
<1>3. Flow /\ SessionsOK => TypeOK
  BY DEF Flow, FlowOK, TypeOK
<1> QED BY <1>1, <1>2, <1>3, PTL DEF Spec

-----------------------------------------------------------------------------
(* What a step never takes back.                                           *)
Grows ==
    /\ \A o \in Known : o \in Known' /\ sent'[o] = sent[o]
    /\ \A o \in Orders : orderId[o] # NoId => orderId'[o] = orderId[o]
    /\ accepted \subseteq accepted' /\ cancels \subseteq cancels'

(* Every step.                                                             *)
LEMMA StepGrows == ASSUME Flow, [Next]_vars PROVE Grows
<1>1. ASSUME UNCHANGED <<sent, cancels, orderId, accepted>> PROVE Grows
  BY <1>1 DEF Grows, Known
<1>2. CASE StandStill
  BY <1>1, <1>2 DEF StandStill, clientVars, numberVars
<1>3. ASSUME NEW s \in Sessions, Connect(s) \/ Disconnect(s) \/ ClientRead(s)
      PROVE  Grows
  BY <1>1, <1>3 DEF Connect, Disconnect, ClientRead, clientVars, numberVars
<1>4. ASSUME NEW script \in Scripts, SendOrder(script) PROVE Grows
  <2>1. RowsOK /\ UNCHANGED <<cancels, orderId, accepted>>
    BY <1>4 DEF Flow, FlowOK, SendOrder, numberVars
  <2>2. Len(sent') = Len(sent) + 1 /\ \A o \in Known : sent'[o] = sent[o]
    BY <1>4, <2>1, NextOfScript DEF SendOrder
  <2>3. \A o \in Known : o \in Known'
    BY <2>1, <2>2, KnownOrders DEF Known
  <2> QED BY <2>1, <2>2, <2>3 DEF Grows
<1>5. ASSUME NEW s \in Sessions, NEW o \in Orders, SendCancel(s, o) PROVE Grows
  BY <1>5 DEF SendCancel, numberVars, Grows, Known
<1>6. ASSUME NEW s \in Sessions, NEW i \in Ids, SendApproval(s, i) PROVE Grows
  BY <1>1, <1>6 DEF SendApproval, numberVars
<1>7. CASE ClientMoves
  BY <1>3, <1>4, <1>5, <1>6, <1>7 DEF ClientMoves
<1>8. ASSUME NEW s \in Sessions, LoadOrderId(s) PROVE Grows
  <2>1. UNCHANGED <<sent, cancels, accepted>> /\ orderId' = [orderId EXCEPT ![loading[s]] = counter]
    BY <1>8 DEF LoadOrderId, clientVars
  <2>2. loading[s] # 0 /\ orderId[loading[s]] = NoId
    BY <1>8 DEF Flow, OrdersPlaced, AtLoading, LoadOrderId
  <2>3. \A o \in Orders : orderId[o] # NoId => orderId'[o] = orderId[o]
    BY <2>1, <2>2 DEF Flow, FlowOK, ServersOK
  <2> QED BY <2>1, <2>3 DEF Grows, Known
<1>9. ASSUME NEW s \in Sessions, OnNewOrder(s) PROVE Grows
  BY <1>9, OnNewOrderMoves DEF OnNewOrder, clientVars, numberVars, Grows, Known
<1>10. ASSUME NEW s \in Sessions,
              \/ TreatLogon(s) \/ CountOrder(s) \/ QueueMessage(s) \/ OnCancelOrder(s) \/ OnApproved(s)
       PROVE  Grows
  BY <1>1, <1>10 DEF TreatLogon, CountOrder, QueueMessage, OnCancelOrder, OnApproved, clientVars,
                     numberVars
<1>11. CASE DispatcherReply \/ DispatcherSide \/ EngineSide
  BY <1>1, <1>11 DEF DispatcherReply, DispatcherSide, OnConnection, OnOrder, OnCancel, OnApproval,
                     EngineSide, EngineOrder, EngineCancel, EngineVarsKept, clientVars, numberVars
<1>12. CASE GatewayMoves
  BY <1>8, <1>9, <1>10, <1>11, <1>12 DEF GatewayMoves
<1> QED BY <1>2, <1>7, <1>11, <1>12, StepCases DEF GatewayMoves

-----------------------------------------------------------------------------
(* What the clients are told, and what the Dispatcher asks them.           *)
Contents(q) == {q[j] : j \in DOMAIN q}

(* What a link holds after a step of it.                                   *)
LEMMA ContentsStep ==
    ASSUME NEW M, NEW q \in Seq(M)
    PROVE  /\ Contents(<<>>) = {} /\ Contents(q) \subseteq M
           /\ \A n \in M : Contents(Append(q, n)) \subseteq Contents(q) \union {n}
           /\ q # <<>> => Contents(Tail(q)) \subseteq Contents(q) /\ Head(q) \in Contents(q)
<1>1. Contents(<<>>) = {}
  BY EmptySeq, LenProperties DEF Contents
<1>2. DOMAIN q = 1..Len(q) /\ Len(q) \in Nat /\ \A j \in 1..Len(q) : q[j] \in M
  BY LenProperties, ElementOfSeq
<1>3. ASSUME NEW n \in M PROVE Contents(Append(q, n)) \subseteq Contents(q) \union {n}
  <2>1. /\ Append(q, n) \in Seq(M) /\ Len(Append(q, n)) = Len(q) + 1
        /\ \A j \in 1..Len(q) : Append(q, n)[j] = q[j]
        /\ Append(q, n)[Len(q) + 1] = n
    BY AppendProperties
  <2>2. DOMAIN Append(q, n) = 1..Len(q) + 1
    BY <2>1, LenProperties
  <2>3. \A j \in 1..Len(q) + 1 : j \in 1..Len(q) \/ j = Len(q) + 1
    BY <1>2
  <2> QED BY <1>2, <2>1, <2>2, <2>3 DEF Contents
<1>4. ASSUME q # <<>> PROVE Contents(Tail(q)) \subseteq Contents(q) /\ Head(q) \in Contents(q)
  <2>1. /\ Tail(q) \in Seq(M) /\ Len(Tail(q)) = Len(q) - 1
        /\ \A j \in 1..Len(Tail(q)) : Tail(q)[j] = q[j + 1]
    BY <1>4, HeadTailProperties
  <2>2. DOMAIN Tail(q) = 1..Len(Tail(q)) /\ Len(q) # 0 /\ Head(q) = q[1]
    BY <1>4, <2>1, LenProperties, EmptySeq
  <2>3. \A j \in 1..Len(Tail(q)) : j + 1 \in 1..Len(q)
    BY <1>2, <2>1
  <2> QED BY <1>2, <2>1, <2>2, <2>3 DEF Contents
<1> QED BY <1>1, <1>2, <1>3, <1>4 DEF Contents

(* What a client is told after a reply.                                    *)
LEMMA PushedContents ==
    ASSUME LinksOK, NEW s \in Sessions, NEW n \in Messages, PushReply(s, n), NEW x \in Sessions,
           NEW m \in Contents(toClient'[x])
    PROVE  m \in Contents(toClient[x]) \/ (x = s /\ m = n)
<1>1. toClient[x] \in Seq(Messages)
  BY DEF LinksOK
<1>2. Contents(Append(toClient[x], n)) \subseteq Contents(toClient[x]) \union {n}
  BY <1>1, ContentsStep
<1>3. toClient'[x] = toClient[x] \/ (x = s /\ toClient'[x] = Append(toClient[x], n))
  BY Pushed
<1> QED BY <1>2, <1>3

(* What a client is told after a message of the reading thread.            *)
LEMMA SubmittedContents ==
    ASSUME LinksOK, NEW s \in Sessions, NEW n \in Messages, Submit(s, n), NEW x \in Sessions,
           NEW m \in Contents(toClient'[x])
    PROVE  m \in Contents(toClient[x]) \/ m = n
<1>1. toClient[x] \in Seq(Messages)
  BY DEF LinksOK
<1>2. Contents(Append(toClient[x], n)) \subseteq Contents(toClient[x]) \union {n}
  BY <1>1, ContentsStep
<1>3. toClient'[x] = toClient[x] \/ toClient'[x] = Append(toClient[x], n)
  BY DEF Submit, LinksOK
<1> QED BY <1>2, <1>3

(* The messages a step may bring to the client of session x: an answer to  *)
(* an order of its queue.                                                  *)
Answers(m, o, x) ==
    /\ m.type \in {"A", "J"} /\ m.tag = sent[o].tag /\ m.id = orderId[o]
    /\ OrderMessage(o) \in Contents(gatewayQueue[x])
    /\ o \in Known /\ orderId[o] # NoId /\ (o \in accepted' \/ sent[o].kind = "unlisted")
(* A cancel of an order that is not listed is refused.                     *)
CancelRefused(m) ==
    m.type = "J" /\ \E c \in Messages : c.type = "C" /\ InQueue(c) > 0 /\ sent[c.of].kind = "unlisted"
(* What a session is told: what it was told before, how its logon went, a  *)
(* request for an approval, an answer to an order or to a cancel.          *)
Told(m, x) ==
    \/ m \in Contents(toClient[x]) \/ m.type \in {"Q", "R", "D"}
    \/ m.type = "W" /\ m.session = x /\ m \in Contents(fromDispatcher)
    \/ \E o \in Orders : Answers(m, o, x)
    \/ CancelRefused(m)

(* The handlers that reply.                                                *)
LEMMA ToldByGateway ==
    ASSUME Flow, NEW s \in Sessions, NEW x \in Sessions, NEW m \in Contents(toClient'[x]),
           TreatLogon(s) \/ OnNewOrder(s) \/ OnCancelOrder(s) \/ DispatcherReply
    PROVE  Told(m, x)
<1>1. LinksOK /\ RowsOK /\ ServersOK
  BY DEF Flow, FlowOK
<1>2. Contents(<<>>) = {}
  BY EmptySeq, LenProperties DEF Contents
<1>3. CASE TreatLogon(s)
  <2>1. CASE Submit(s, Message("Q")) \/ Submit(s, Message("R"))
    <3>1. /\ Message("Q") \in Messages /\ Message("Q").type = "Q"
          /\ Message("R") \in Messages /\ Message("R").type = "R"
      BY AreMessages DEF Message
    <3>2. m \in Contents(toClient[x]) \/ m = Message("Q") \/ m = Message("R")
      BY <1>1, <2>1, <3>1, SubmittedContents
    <3> QED BY <3>1, <3>2 DEF Told
  <2>2. CASE toClient' = [toClient EXCEPT ![s] = <<>>]
    <3>1. toClient'[x] = IF x = s THEN <<>> ELSE toClient[x]
      BY <1>1, <2>2 DEF LinksOK
    <3> QED BY <1>2, <3>1 DEF Told
  <2> QED BY <1>3, <2>1, <2>2 DEF TreatLogon
<1>4. CASE OnNewOrder(s)
  <2> DEFINE o == Head(gatewayQueue[s]).order
  <2>1. o \in Orders /\ o \in Known /\ orderId[o] # NoId
    BY <1>4, OnNewOrderMoves
  <2>2. /\ sent[o].tag \in Tags \union {NoTag} /\ orderId[o] \in Ids \union {NoId}
        /\ OrderMessage(o) \in Contents(gatewayQueue[s])
    <3>1. gatewayQueue[s] \in Seq(Messages) /\ gatewayQueue[s] # <<>> /\ Head(gatewayQueue[s]).type = "O"
      BY <1>1, <1>4 DEF LinksOK, OnNewOrder
    <3>2. Head(gatewayQueue[s]) \in Contents(gatewayQueue[s]) /\ Head(gatewayQueue[s]) = OrderMessage(o)
      BY <3>1, ContentsStep, SeqTail, Shapes
    <3> QED BY <1>1, <2>1, <3>2, KnownOrders DEF ServersOK
  <2>3. CASE UNCHANGED toClient
    BY <2>3 DEF Told
  <2>4. ASSUME NEW type \in {"A", "J"}, PushReply(s, Reply(type, sent[o].tag, orderId[o])),
               o \in accepted' \/ sent[o].kind = "unlisted"
        PROVE  Told(m, x)
    <3>1. Reply(type, sent[o].tag, orderId[o]) \in Messages
      BY <2>2, AreMessages
    <3>2. m \in Contents(toClient[x]) \/ (x = s /\ m = Reply(type, sent[o].tag, orderId[o]))
      BY <1>1, <2>4, <3>1, PushedContents
    <3>3. CASE x = s /\ m = Reply(type, sent[o].tag, orderId[o])
      <4>1. Answers(m, o, x)
        BY <2>1, <2>2, <2>4, <3>3 DEF Answers, Reply
      <4> HIDE DEF o
      <4> QED BY <2>1, <4>1 DEF Told
    <3> QED BY <3>2, <3>3 DEF Told
  <2>5. \/ UNCHANGED toClient
        \/ sent[o].kind = "unlisted" /\ PushReply(s, Reply("J", sent[o].tag, orderId[o]))
        \/ accepted' = accepted \union {o} /\ PushReply(s, Reply("A", sent[o].tag, orderId[o]))
    BY <1>4 DEF OnNewOrder, HasInstrument
  <2> HIDE DEF o
  <2> QED BY <2>3, <2>4, <2>5
<1>5. CASE OnCancelOrder(s)
  <2> DEFINE c == Head(gatewayQueue[s])
  <2>1. c \in Messages /\ c.type = "C" /\ InQueue(c) > 0
    BY <1>5, OnCancelOrderMoves
  <2>2. CASE ~HasInstrument(c.of)
    <3>1. PICK t \in Tags \union {NoTag} : PushReply(s, Reply("J", t, c.id))
      BY <1>5, <2>2 DEF OnCancelOrder
    <3>2. c.id \in Ids \union {NoId}
      BY <2>1, Shapes
    <3>3. Reply("J", t, c.id) \in Messages
      BY <3>2, AreMessages
    <3>4. m \in Contents(toClient[x]) \/ m = Reply("J", t, c.id)
      BY <1>1, <3>1, <3>3, PushedContents
    <3>5. m = Reply("J", t, c.id) => CancelRefused(m)
      BY <2>1, <2>2 DEF CancelRefused, Reply, HasInstrument
    <3> QED BY <3>4, <3>5 DEF Told
  <2>3. CASE HasInstrument(c.of)
    <3>1. PushReply(s, Message("D")) /\ Message("D") \in Messages /\ Message("D").type = "D"
      BY <1>5, <2>3, AreMessages DEF OnCancelOrder, Message
    <3>2. m \in Contents(toClient[x]) \/ m = Message("D")
      BY <1>1, <3>1, PushedContents
    <3> QED BY <3>1, <3>2 DEF Told
  <2> QED BY <2>2, <2>3
<1>6. CASE DispatcherReply
  <2> DEFINE h == Head(fromDispatcher)
  <2>1. fromDispatcher \in Seq(Messages) /\ fromDispatcher # <<>>
    BY <1>1, <1>6 DEF DispatcherReply, LinksOK
  <2>2. h \in Messages /\ h \in Contents(fromDispatcher)
    BY <2>1, SeqTail, ContentsStep
  <2>3. CASE h.type = "W" /\ PushReply(h.session, h)
    <3>1. h.session \in Sessions
      BY <2>2, <2>3, Shapes
    <3>2. m \in Contents(toClient[x]) \/ (x = h.session /\ m = h)
      BY <1>1, <2>2, <2>3, <3>1, PushedContents
    <3> QED BY <2>2, <2>3, <3>2 DEF Told
  <2>4. CASE UNCHANGED toClient
    BY <2>4 DEF Told
  <2> QED BY <1>6, <2>3, <2>4 DEF DispatcherReply
<1> QED BY <1>3, <1>4, <1>5, <1>6

(* Every step.                                                             *)
LEMMA StepTold ==
    ASSUME Flow, [Next]_vars, NEW x \in Sessions, NEW m \in Contents(toClient'[x])
    PROVE  Told(m, x)
<1>1. LinksOK
  BY DEF Flow, FlowOK
<1>2. ASSUME UNCHANGED toClient PROVE Told(m, x)
  BY <1>2 DEF Told
<1>3. CASE StandStill
  BY <1>2, <1>3 DEF StandStill, sessionVars
<1>4. ASSUME NEW s \in Sessions, Connect(s) PROVE Told(m, x)
  BY <1>2, <1>4 DEF Connect
<1>5. ASSUME NEW s \in Sessions, toClient' = [toClient EXCEPT ![s] = <<>>] PROVE Told(m, x)
  <2>1. toClient'[x] = IF x = s THEN <<>> ELSE toClient[x]
    BY <1>1, <1>5 DEF LinksOK
  <2>2. Contents(<<>>) = {}
    BY EmptySeq, LenProperties DEF Contents
  <2> QED BY <2>1, <2>2 DEF Told
<1>6. ASSUME NEW s \in Sessions, Disconnect(s) \/ ClientRead(s) PROVE Told(m, x)
  <2>1. CASE toClient' = [toClient EXCEPT ![s] = <<>>]
    BY <1>5, <2>1
  <2>2. CASE toClient[s] # <<>> /\ toClient' = [toClient EXCEPT ![s] = Tail(@)]
    <3>1. toClient'[x] = IF x = s THEN Tail(toClient[s]) ELSE toClient[x]
      BY <1>1, <2>2 DEF LinksOK
    <3>2. toClient[s] \in Seq(Messages)
      BY <1>1 DEF LinksOK
    <3>3. Contents(Tail(toClient[s])) \subseteq Contents(toClient[s])
      BY <2>2, <3>2, ContentsStep
    <3> QED BY <3>1, <3>3 DEF Told
  <2> QED BY <1>6, <2>1, <2>2 DEF Disconnect, ClientRead, End
<1>7. ASSUME NEW script \in Scripts, SendOrder(script) PROVE Told(m, x)
  BY <1>2, <1>7 DEF SendOrder
<1>8. ASSUME NEW s \in Sessions, NEW o \in Orders, SendCancel(s, o) PROVE Told(m, x)
  BY <1>2, <1>8 DEF SendCancel
<1>9. ASSUME NEW s \in Sessions, NEW i \in Ids, SendApproval(s, i) PROVE Told(m, x)
  BY <1>2, <1>9 DEF SendApproval
<1>10. CASE ClientMoves
  BY <1>4, <1>6, <1>7, <1>8, <1>9, <1>10 DEF ClientMoves
<1>11. ASSUME NEW s \in Sessions, CountOrder(s) \/ LoadOrderId(s) \/ QueueMessage(s) \/ OnApproved(s)
       PROVE  Told(m, x)
  BY <1>2, <1>11 DEF CountOrder, LoadOrderId, QueueMessage, OnApproved, sessionVars
<1>12. CASE GatewayMoves
  BY <1>11, <1>12, ToldByGateway DEF GatewayMoves
<1>13. CASE DispatcherSide \/ EngineSide
  BY <1>2, <1>13 DEF DispatcherSide, OnConnection, OnOrder, OnCancel, OnApproval,
                     EngineSide, EngineOrder, EngineCancel, EngineVarsKept, sessionVars
<1> QED BY <1>3, <1>10, <1>12, <1>13, StepCases

(* A message to the gateway: a request for the approval of an order that   *)
(* names the user of the route it goes back to.                            *)
Asked(m) ==
    \/ m \in Contents(fromDispatcher) \/ m.type = "Z"
    \/ \E o \in accepted :
           /\ sent[o].kind = "retail" /\ HasRoute(sent[o].broker)
           /\ m = RequestApproval(orderId[o], route[sent[o].broker][1])

(* Every step.                                                             *)
LEMMA StepAsked ==
    ASSUME Flow, [Next]_vars, NEW m \in Contents(fromDispatcher') PROVE Asked(m)
<1>1. fromDispatcher \in Seq(Messages)
  BY DEF Flow, FlowOK, LinksOK
<1>2. ASSUME UNCHANGED fromDispatcher PROVE Asked(m)
  BY <1>2 DEF Asked
<1>3. ASSUME NEW n \in Messages, fromDispatcher' = Append(fromDispatcher, n)
      PROVE  m \in Contents(fromDispatcher) \/ m = n
  <2>1. Contents(Append(fromDispatcher, n)) \subseteq Contents(fromDispatcher) \union {n}
    BY <1>1, ContentsStep
  <2> QED BY <1>3, <2>1
<1>4. Message("Z") \in Messages /\ Message("Z").type = "Z"
  BY AreMessages DEF Message
<1>5. CASE StandStill
  BY <1>2, <1>5 DEF StandStill, dispatcherVars
<1>6. CASE ClientMoves
  BY <1>2, <1>6 DEF ClientMoves, Connect, Disconnect, ClientRead, SendOrder, SendCancel, SendApproval,
                    dispatcherVars
<1>7. CASE DispatcherReply
  <2>1. fromDispatcher # <<>> /\ fromDispatcher' = Tail(fromDispatcher)
    BY <1>7 DEF DispatcherReply
  <2>2. Contents(Tail(fromDispatcher)) \subseteq Contents(fromDispatcher)
    BY <1>1, <2>1, ContentsStep
  <2> QED BY <2>1, <2>2 DEF Asked
<1>8. CASE GatewayMoves
  BY <1>2, <1>7, <1>8 DEF GatewayMoves, TreatLogon, CountOrder, LoadOrderId, QueueMessage, OnNewOrder,
                          OnCancelOrder, OnApproved, dispatcherVars
<1>9. CASE OnOrder
  <2> DEFINE o == Head(toDispatcher).order
             b == sent[o].broker
  <2>1. o \in accepted /\ orderId[o] \in Ids
    BY <1>9, OnOrderMoves
  <2>2. CASE /\ sent[o].kind = "retail" /\ HasRoute(b)
             /\ fromDispatcher' = Append(fromDispatcher, RequestApproval(orderId[o], route[b][1]))
    <3>1. route[b][1] \in Sessions
      BY <2>2 DEF HasRoute, Flow, FlowOK, ServersOK
    <3>2. RequestApproval(orderId[o], route[b][1]) \in Messages
      BY <2>1, <3>1, AreMessages
    <3>3. m \in Contents(fromDispatcher) \/ m = RequestApproval(orderId[o], route[b][1])
      BY <1>3, <2>2, <3>2
    <3> HIDE DEF o
    <3> QED BY <2>1, <2>2, <3>3 DEF Asked
  <2>3. CASE fromDispatcher' = Append(fromDispatcher, Message("Z"))
    BY <1>3, <1>4, <2>3 DEF Asked
  <2> QED BY <1>2, <1>9, <2>2, <2>3 DEF OnOrder
<1>10. CASE OnApproval
  <2>1. CASE fromDispatcher' = Append(fromDispatcher, Message("Z"))
    BY <1>3, <1>4, <2>1 DEF Asked
  <2> QED BY <1>2, <1>10, <2>1 DEF OnApproval
<1>11. CASE OnConnection \/ OnCancel \/ EngineSide
  BY <1>2, <1>11 DEF OnConnection, OnCancel, EngineSide, EngineOrder, EngineCancel, EngineVarsKept,
                     dispatcherVars
<1> QED BY <1>5, <1>6, <1>8, <1>9, <1>10, <1>11, StepCases DEF DispatcherSide

(* Whom the Dispatcher knows, and what a client has in its approval view.  *)
LEMMA StepInformation ==
    ASSUME Flow, [Next]_vars, NEW m \in Messages, m.type = "F", InDispatcher(m)' > 0
    PROVE  InDispatcher(m) > 0 \/ \E s \in Sessions : m = Information(s)
<1>1. InDispatcher(m) \in Nat
  BY CountsTyped DEF Flow, FlowOK
<1>2. ASSUME UNCHANGED toDispatcher PROVE InDispatcher(m)' = InDispatcher(m)
  BY <1>2, CountsKept
<1>3. ASSUME NEW n, n.type # "F" PROVE Is(n, m) = 0
  BY <1>3 DEF Is
<1>4. CASE StandStill \/ ClientMoves \/ EngineSide
  BY <1>2, <1>4 DEF StandStill, ClientMoves, Connect, Disconnect, ClientRead, SendOrder, SendCancel,
                    SendApproval, EngineSide, EngineOrder, EngineCancel, EngineVarsKept, dispatcherVars
<1>5. ASSUME NEW s \in Sessions, TreatLogon(s)
      PROVE  InDispatcher(m) > 0 \/ m = Information(s)
  BY <1>1, <1>5, TreatLogonMoves DEF Is
<1>6. ASSUME NEW s \in Sessions, OnNewOrder(s) PROVE InDispatcher(m) > 0
  <2>1. \A o : Is(OrderMessage(o), m) = 0
    BY <1>3 DEF OrderMessage
  <2> QED BY <1>1, <1>6, <2>1, OnNewOrderMoves
<1>7. ASSUME NEW s \in Sessions, OnCancelOrder(s) PROVE InDispatcher(m) > 0
  <2>1. Is(Head(gatewayQueue[s]), m) = 0
    BY <1>3, <1>7, OnCancelOrderMoves
  <2> QED BY <1>1, <1>7, <2>1, OnCancelOrderMoves
<1>8. ASSUME NEW s \in Sessions, OnApproved(s) PROVE InDispatcher(m) > 0
  <2>1. Is(Head(gatewayQueue[s]), m) = 0
    BY <1>3, <1>8, OnApprovedMoves
  <2> QED BY <1>1, <1>8, <2>1, OnApprovedMoves
<1>9. ASSUME NEW s \in Sessions, CountOrder(s) \/ LoadOrderId(s) \/ QueueMessage(s)
      PROVE  UNCHANGED toDispatcher
  BY <1>9 DEF CountOrder, LoadOrderId, QueueMessage, dispatcherVars
<1>10. CASE GatewayMoves
  BY <1>2, <1>5, <1>6, <1>7, <1>8, <1>9, <1>10 DEF GatewayMoves, DispatcherReply
<1>11. CASE DispatcherSide
  BY <1>1, <1>11, OnConnectionMoves, OnOrderMoves, OnCancelMoves, OnApprovalMoves
     DEF DispatcherSide, Is
<1> QED BY <1>2, <1>4, <1>10, <1>11, StepCases

(* A route comes with a UserInformation.                                   *)
LEMMA StepRoute ==
    ASSUME Flow, [Next]_vars, NEW u \in Users, route'[u] # route[u]
    PROVE  \E f \in Messages : /\ f.type = "F" /\ InDispatcher(f) > 0
                               /\ f.user = u /\ route'[u] = <<f.session>>
<1>1. OnConnection
  BY StepCases DEF StandStill, ClientMoves, Connect, Disconnect, ClientRead, SendOrder, SendCancel, SendApproval,
         GatewayMoves, TreatLogon, CountOrder, LoadOrderId, QueueMessage, OnNewOrder, OnCancelOrder,
         OnApproved, DispatcherReply, DispatcherSide, OnOrder, OnCancel, OnApproval,
         EngineSide, EngineOrder, EngineCancel, EngineVarsKept, dispatcherVars
<1> DEFINE f == Head(toDispatcher)
<1>2. f \in Messages /\ f.type = "F" /\ InDispatcher(f) > 0
  BY <1>1, Received DEF OnConnection, Flow, FlowOK
<1>3. route' = [route EXCEPT ![f.user] = IF @ = None THEN <<f.session>> ELSE @]
  BY <1>1 DEF OnConnection
<1>4. f.user = u /\ route'[u] = <<f.session>>
  BY <1>3 DEF Flow, FlowOK, ServersOK
<1> HIDE DEF f
<1> QED BY <1>2, <1>4

(* A row of the approval view comes with a request.                        *)
LEMMA StepRequests ==
    ASSUME Flow, [Next]_vars, NEW s \in Sessions, NEW i \in requests'[s], i \notin requests[s]
    PROVE  \E m \in Contents(toClient[s]) : m.type = "W" /\ m.id = i
<1>1. PICK x \in Sessions : ClientRead(x)
  BY StepCases DEF StandStill, ClientMoves, Connect, Disconnect, SendOrder, SendCancel, SendApproval,
         GatewayMoves, TreatLogon, CountOrder, LoadOrderId, QueueMessage, OnNewOrder, OnCancelOrder,
         OnApproved, DispatcherReply, DispatcherSide, OnConnection, OnOrder, OnCancel, OnApproval,
         EngineSide, EngineOrder, EngineCancel, EngineVarsKept, clientVars
<1> DEFINE m == Head(toClient[x])
<1>2. toClient[x] \in Seq(Messages) /\ toClient[x] # <<>>
  BY <1>1 DEF ClientRead, Flow, FlowOK, LinksOK
<1>3. m \in Contents(toClient[x])
  BY <1>2, ContentsStep
<1>4. m.type = "W" /\ requests' = [requests EXCEPT ![x] = @ \union {m.id}]
  BY <1>1 DEF ClientRead, ShowAnswer, ShowRequest
<1>5. x = s /\ m.id = i
  BY <1>4 DEF Flow, FlowOK, RowsOK
<1> QED BY <1>3, <1>4, <1>5

-----------------------------------------------------------------------------
(* The approvals on their way to the Dispatcher, and how often an order    *)
(* went on from there.                                                     *)
Given(i) == InGateway(ApprovedMessage(i)) + InQueue(ApprovedMessage(i)) + InDispatcher(ApprovedMessage(i))
Gone(o)  == InEngine(OrderMessage(o)) + delivered[o]

(* A direct order goes on once, a retail order while it holds its place in *)
(* mOrderList, and once for an approval.                                   *)
DirectOnce ==
    \A o \in accepted : sent[o].kind # "retail" => InDispatcher(OrderMessage(o)) + Gone(o) <= 1
(* A retail order that went on still holds its ORDERID in mOrderList.      *)
RetailPending ==
    \A o \in accepted : sent[o].kind = "retail" /\ Gone(o) > 0 => pending[orderId[o]] = o
(* Each time an order went on from mOrderList, an approval of its ORDERID  *)
(* was used up.                                                            *)
ApprovalsUsed ==
    \A i \in Ids : Given(i) + (IF pending[i] = 0 THEN 0 ELSE Gone(pending[i])) <= approvals[i]

(* Who is asked for an approval is named by an order of the ORDERID.       *)
WantedBy(i, u) ==
    \E o \in accepted : orderId[o] = i /\ sent[o].kind = "retail" /\ sent[o].broker = u
(* A route leads to the user it is filed under.                            *)
RoutesRight ==
    /\ \A u \in Users : route[u] # None => User[route[u][1]] = u
    /\ \A m \in Messages : m.type = "F" /\ InDispatcher(m) > 0 => m.user = User[m.session]
(* A request for an approval reaches the user the order names.             *)
RequestsRight ==
    /\ \A m \in Contents(fromDispatcher) : m.type = "W" => WantedBy(m.id, User[m.session])
    /\ \A s \in Sessions : \A m \in Contents(toClient[s]) : m.type = "W" => WantedBy(m.id, User[s])
    /\ \A s \in Sessions : \A i \in requests[s] : WantedBy(i, User[s])

(* The second layer.                                                       *)
Cleared == DirectOnce /\ RetailPending /\ ApprovalsUsed /\ RoutesRight /\ RequestsRight

-----------------------------------------------------------------------------

(* Every step keeps the routes and the requests right.                     *)
LEMMA RequestsStayRight ==
    ASSUME Flow, RoutesRight, RequestsRight, [Next]_vars PROVE RoutesRight' /\ RequestsRight'
<1>1. Grows
  BY StepGrows
<1>2. ASSUME NEW i, NEW u, WantedBy(i, u) PROVE WantedBy(i, u)'
  <2>1. PICK o \in accepted : orderId[o] = i /\ sent[o].kind = "retail" /\ sent[o].broker = u
    BY <1>2 DEF WantedBy
  <2>2. o \in Orders /\ orderId[o] # NoId /\ o \in Known
    BY DEF Flow, FlowOK, ServersOK, OrdersPlaced, NumberedAreSent
  <2> QED BY <1>1, <2>1, <2>2 DEF Grows, WantedBy
<1>3. RoutesRight'
  <2>1. ASSUME NEW u \in Users, route'[u] # None PROVE User[route'[u][1]] = u
    <3>1. CASE route'[u] = route[u]
      BY <2>1, <3>1 DEF RoutesRight
    <3>2. CASE route'[u] # route[u]
      <4>1. PICK f \in Messages : /\ f.type = "F" /\ InDispatcher(f) > 0
                                  /\ f.user = u /\ route'[u] = <<f.session>>
        BY <3>2, StepRoute
      <4> QED BY <4>1 DEF RoutesRight
    <3> QED BY <3>1, <3>2
  <2>2. ASSUME NEW m \in Messages, m.type = "F", InDispatcher(m)' > 0 PROVE m.user = User[m.session]
    <3>1. InDispatcher(m) > 0 \/ \E s \in Sessions : m = Information(s)
      BY <2>2, StepInformation
    <3> QED BY <2>2, <3>1 DEF RoutesRight, Information
  <2> QED BY <2>1, <2>2 DEF RoutesRight
<1>4. ASSUME NEW m \in Contents(fromDispatcher'), m.type = "W" PROVE WantedBy(m.id, User[m.session])'
  <2>1. Asked(m)
    BY StepAsked
  <2>2. CASE m \in Contents(fromDispatcher)
    BY <1>2, <1>4, <2>2 DEF RequestsRight
  <2>3. CASE \E o \in accepted : /\ sent[o].kind = "retail" /\ HasRoute(sent[o].broker)
                                 /\ m = RequestApproval(orderId[o], route[sent[o].broker][1])
    <3>1. PICK o \in accepted : /\ sent[o].kind = "retail" /\ HasRoute(sent[o].broker)
                                /\ m = RequestApproval(orderId[o], route[sent[o].broker][1])
      BY <2>3
    <3>2. User[route[sent[o].broker][1]] = sent[o].broker
      BY <3>1 DEF HasRoute, RoutesRight
    <3>3. m.id = orderId[o] /\ m.session = route[sent[o].broker][1]
      BY <3>1 DEF RequestApproval
    <3>4. WantedBy(m.id, User[m.session])
      BY <3>1, <3>2, <3>3 DEF WantedBy
    <3> QED BY <1>2, <3>4
  <2> QED BY <1>4, <2>1, <2>2, <2>3 DEF Asked
<1>5. ASSUME NEW s \in Sessions, NEW m \in Contents(toClient'[s]), m.type = "W"
      PROVE  WantedBy(m.id, User[s])'
  <2>1. Told(m, s)
    BY StepTold
  <2>2. WantedBy(m.id, User[s])
    BY <1>5, <2>1 DEF Told, Answers, CancelRefused, RequestsRight
  <2> QED BY <1>2, <2>2
<1>6. ASSUME NEW s \in Sessions, NEW i \in requests'[s] PROVE WantedBy(i, User[s])'
  <2>1. CASE i \in requests[s]
    BY <1>2, <2>1 DEF RequestsRight
  <2>2. CASE i \notin requests[s]
    <3>1. PICK m \in Contents(toClient[s]) : m.type = "W" /\ m.id = i
      BY <2>2, StepRequests
    <3>2. WantedBy(i, User[s])
      BY <3>1 DEF RequestsRight
    <3> QED BY <1>2, <3>2
  <2> QED BY <2>1, <2>2
<1>7. RequestsRight'
  BY <1>4, <1>5, <1>6 DEF RequestsRight
<1> QED BY <1>3, <1>7

-----------------------------------------------------------------------------

(* The counts of the second layer are naturals.                            *)
LEMMA ClearedTyped ==
    ASSUME Flow
    PROVE  /\ \A i : Given(i) \in Nat
           /\ \A o \in Orders : Gone(o) \in Nat
           /\ \A i \in Ids : approvals[i] \in Nat
<1>1. \A i \in Ids : approvals[i] \in Nat
  BY FlowAssumption DEF Flow, FlowOK, RowsOK
<1>2. \A i : Given(i) \in Nat
  <2> SUFFICES ASSUME NEW i PROVE Given(i) \in Nat
    OBVIOUS
  <2>1. /\ InGateway(ApprovedMessage(i)) \in Nat /\ InQueue(ApprovedMessage(i)) \in Nat
        /\ InDispatcher(ApprovedMessage(i)) \in Nat
    BY CountsTyped DEF Flow, FlowOK
  <2> QED BY <2>1 DEF Given
<1> QED BY <1>1, <1>2, OrderCounts DEF Gone

(* ... and after the step.                                                 *)
LEMMA GivenNext ==
    ASSUME LinksOK', NEW i
    PROVE  /\ InGateway(ApprovedMessage(i))' \in Nat /\ InQueue(ApprovedMessage(i))' \in Nat
           /\ InDispatcher(ApprovedMessage(i))' \in Nat /\ Given(i)' \in Nat
<1>1. /\ InGateway(ApprovedMessage(i))' \in Nat /\ InQueue(ApprovedMessage(i))' \in Nat
      /\ InDispatcher(ApprovedMessage(i))' \in Nat
  BY CountsTypedNext
<1> QED BY <1>1 DEF Given

(* A step that lets no order go on and gives no approval.                  *)
Idle ==
    /\ UNCHANGED <<pending, accepted, approvals>>
    /\ \A o \in Orders : /\ InDispatcher(OrderMessage(o))' <= InDispatcher(OrderMessage(o))
                         /\ Gone(o)' <= Gone(o)
    /\ \A i \in Ids : Given(i)' <= Given(i)

(* An idle step keeps the second layer.                                    *)
LEMMA IdleKeeps ==
    ASSUME Flow, Flow', Grows, Idle, DirectOnce, RetailPending, ApprovalsUsed
    PROVE  DirectOnce' /\ RetailPending' /\ ApprovalsUsed'
<1>1. ASSUME NEW o \in accepted
      PROVE  /\ o \in Orders /\ sent'[o] = sent[o] /\ orderId'[o] = orderId[o]
             /\ InDispatcher(OrderMessage(o))' \in Nat /\ Gone(o)' \in Nat
             /\ InDispatcher(OrderMessage(o))' <= InDispatcher(OrderMessage(o)) /\ Gone(o)' <= Gone(o)
  <2>1. o \in Orders /\ orderId[o] # NoId /\ o \in Known
    BY DEF Flow, FlowOK, ServersOK, OrdersPlaced, NumberedAreSent
  <2>2. /\ InDispatcher(OrderMessage(o))' \in Nat /\ InEngine(OrderMessage(o))' \in Nat
        /\ delivered'[o] \in Nat
    BY <2>1, CountsTypedNext DEF Flow, FlowOK, ServersOK
  <2> QED BY <2>1, <2>2 DEF Grows, Idle, Gone
<1>2. DirectOnce'
  <2> SUFFICES ASSUME NEW o \in accepted, sent[o].kind # "retail"
               PROVE  InDispatcher(OrderMessage(o))' + Gone(o)' <= 1
    BY <1>1 DEF DirectOnce, Idle
  <2>1. InDispatcher(OrderMessage(o)) + Gone(o) <= 1
    BY DEF DirectOnce
  <2>2. InDispatcher(OrderMessage(o)) \in Nat /\ Gone(o) \in Nat
    BY <1>1, OrderCounts, ClearedTyped
  <2> QED BY <1>1, <2>1, <2>2
<1>3. RetailPending'
  <2> SUFFICES ASSUME NEW o \in accepted, sent[o].kind = "retail", Gone(o)' > 0
               PROVE  pending[orderId[o]] = o
    BY <1>1 DEF RetailPending, Idle
  <2>1. Gone(o) > 0
    BY <1>1, ClearedTyped
  <2> QED BY <2>1 DEF RetailPending
<1>4. ApprovalsUsed'
  <2> SUFFICES ASSUME NEW i \in Ids
               PROVE  Given(i)' + (IF pending[i] = 0 THEN 0 ELSE Gone(pending[i])') <= approvals[i]
    BY DEF ApprovalsUsed, Idle
  <2>1. Given(i)' <= Given(i) /\ Given(i)' \in Nat /\ Given(i) \in Nat /\ approvals[i] \in Nat
    BY ClearedTyped, GivenNext DEF Idle, Flow, FlowOK
  <2>2. Given(i) + (IF pending[i] = 0 THEN 0 ELSE Gone(pending[i])) <= approvals[i]
    BY DEF ApprovalsUsed
  <2>3. CASE pending[i] = 0
    BY <2>1, <2>2, <2>3
  <2>4. CASE pending[i] # 0
    <3>1. PICK o \in accepted : o = pending[i]
      BY <2>4 DEF Flow, OrdersPlaced, PendingRetail
    <3>2. Gone(o)' <= Gone(o) /\ Gone(o)' \in Nat /\ Gone(o) \in Nat
      BY <1>1, <3>1, ClearedTyped
    <3>3. Given(i)' + Gone(o)' <= approvals[i]
      BY <2>1, <2>2, <2>4, <3>1, <3>2
    <3>4. o = pending'[i]
      BY <3>1 DEF Idle
    <3> QED BY <2>4, <3>3, <3>4
  <2> QED BY <2>3, <2>4
<1> QED BY <1>2, <1>3, <1>4

(* The count of a message that a step neither adds nor takes.              *)
LEMMA IsOther ==
    /\ \A m, n : m.type # n.type => Is(m, n) = 0
    /\ \A o, i : Is(OrderMessage(o), ApprovedMessage(i)) = 0 /\ Is(ApprovedMessage(i), OrderMessage(o)) = 0
    /\ \A o : OrderMessage(o).type = "O"
    /\ \A i : ApprovedMessage(i).type = "Y"
  BY DEF Is, OrderMessage, ApprovedMessage

(* A step is idle when no order and no approval joins a link.              *)
LEMMA IdleWhen ==
    ASSUME Flow, LinksOK', UNCHANGED <<pending, accepted, approvals, delivered>>,
           \A o \in Orders : /\ InDispatcher(OrderMessage(o))' <= InDispatcher(OrderMessage(o))
                             /\ InEngine(OrderMessage(o))' <= InEngine(OrderMessage(o)),
           \A i \in Ids : Given(i)' <= Given(i)
    PROVE  Idle
<1>1. ASSUME NEW o \in Orders PROVE Gone(o)' <= Gone(o)
  <2>1. InEngine(OrderMessage(o))' \in Nat
    BY CountsTypedNext
  <2> QED BY <2>1, OrderCounts DEF Gone
<1> QED BY <1>1 DEF Idle

(* The clients, but for SendApproval.                                      *)
LEMMA ClientIdle ==
    ASSUME Flow, LinksOK',
           \/ \E s \in Sessions : \/ Connect(s) \/ Disconnect(s) \/ ClientRead(s)
                                \/ \E o \in Orders : SendCancel(s, o)
           \/ \E script \in Scripts : SendOrder(script)
    PROVE  Idle
<1>1. UNCHANGED <<pending, accepted, approvals, delivered>>
  BY DEF Connect, Disconnect, ClientRead, SendOrder, SendCancel, clientVars, dispatcherVars, engineVars
<1>2. \A m : InQueue(m)' = InQueue(m) /\ InDispatcher(m)' = InDispatcher(m) /\ InEngine(m)' = InEngine(m)
  BY ConnectMoves, DisconnectMoves, ClientReadMoves, SendOrderMoves, SendCancelMoves
<1>3. ASSUME NEW i PROVE InGateway(ApprovedMessage(i))' <= InGateway(ApprovedMessage(i))
  <2>1. InGateway(ApprovedMessage(i)) \in Nat
    BY CountsTyped DEF Flow, FlowOK
  <2>2. /\ Is(Message("L"), ApprovedMessage(i)) = 0 /\ \A o : Is(OrderMessage(o), ApprovedMessage(i)) = 0
        /\ \A c, o : Is(CancelMessage(c, o), ApprovedMessage(i)) = 0
    BY DEF Is, Message, OrderMessage, CancelMessage, ApprovedMessage
  <2>3. ASSUME NEW s \in Sessions, Connect(s)
        PROVE  InGateway(ApprovedMessage(i))' <= InGateway(ApprovedMessage(i))
    BY <2>1, <2>2, <2>3, ConnectMoves
  <2>4. ASSUME NEW s \in Sessions, Disconnect(s) \/ ClientRead(s)
        PROVE  InGateway(ApprovedMessage(i))' <= InGateway(ApprovedMessage(i))
    BY <2>4, DisconnectMoves, ClientReadMoves
  <2>5. ASSUME NEW script \in Scripts, SendOrder(script)
        PROVE  InGateway(ApprovedMessage(i))' <= InGateway(ApprovedMessage(i))
    BY <2>1, <2>2, <2>5, SendOrderMoves
  <2>6. ASSUME NEW s \in Sessions, NEW o \in Orders, SendCancel(s, o)
        PROVE  InGateway(ApprovedMessage(i))' <= InGateway(ApprovedMessage(i))
    <3>1. InGateway(ApprovedMessage(i))' = InGateway(ApprovedMessage(i))
                                             + Is(CancelMessage(shown[o], o), ApprovedMessage(i))
      BY <2>6, SendCancelMoves
    <3> QED BY <2>1, <2>2, <3>1
  <2> QED BY <2>3, <2>4, <2>5, <2>6
<1>4. ASSUME NEW i \in Ids PROVE Given(i)' <= Given(i)
  BY <1>2, <1>3, GivenNext, CountsTyped DEF Given, Flow, FlowOK
<1>5. \A o \in Orders : /\ InDispatcher(OrderMessage(o))' <= InDispatcher(OrderMessage(o))
                        /\ InEngine(OrderMessage(o))' <= InEngine(OrderMessage(o))
  BY <1>2, OrderCounts
<1> QED BY <1>1, <1>4, <1>5, IdleWhen

(* The Gateway, unless it accepts an order.                                *)
LEMMA GatewayIdle ==
    ASSUME Flow, LinksOK', NEW s \in Sessions,
           \/ TreatLogon(s) \/ CountOrder(s) \/ LoadOrderId(s) \/ QueueMessage(s)
           \/ OnNewOrder(s) /\ accepted' = accepted
           \/ OnCancelOrder(s) \/ OnApproved(s)
    PROVE  Idle
<1>1. UNCHANGED <<pending, accepted, approvals, delivered>>
  BY DEF TreatLogon, CountOrder, LoadOrderId, QueueMessage, OnNewOrder, OnCancelOrder, OnApproved,
         clientVars, dispatcherVars, engineVars
<1>2. ASSUME NEW n, n.type = "O"
      PROVE  InDispatcher(n)' <= InDispatcher(n) /\ InEngine(n)' <= InEngine(n) 
  <2>1. InDispatcher(n) \in Nat /\ InEngine(n) \in Nat
    BY CountsTyped DEF Flow, FlowOK
  <2>2. CASE TreatLogon(s)
    <3>1. Is(Information(s), n) = 0
      BY <1>2 DEF Is, Information
    <3> QED BY <2>1, <2>2, <3>1, TreatLogonMoves
  <2>3. CASE CountOrder(s) \/ LoadOrderId(s) \/ QueueMessage(s)
    BY <2>1, <2>3, CountOrderMoves, LoadOrderIdMoves, QueueMessageMoves
  <2>4. CASE OnNewOrder(s) /\ accepted' = accepted
    BY <2>1, <2>4, OnNewOrderMoves
  <2>5. CASE OnCancelOrder(s)
    <3>1. Is(Head(gatewayQueue[s]), n) = 0
      BY <1>2, <2>5, OnCancelOrderMoves DEF Is
    <3> QED BY <2>1, <2>5, <3>1, OnCancelOrderMoves
  <2>6. CASE OnApproved(s)
    <3>1. Is(Head(gatewayQueue[s]), n) = 0
      BY <1>2, <2>6, OnApprovedMoves DEF Is
    <3> QED BY <2>1, <2>6, <3>1, OnApprovedMoves
  <2> QED BY <2>2, <2>3, <2>4, <2>5, <2>6
<1>3. ASSUME NEW n, n.type = "Y"
      PROVE  InGateway(n)' + InQueue(n)' + InDispatcher(n)' <= InGateway(n) + InQueue(n) + InDispatcher(n)
  <2>1. /\ InGateway(n) \in Nat /\ InQueue(n) \in Nat /\ InDispatcher(n) \in Nat
        /\ InGateway(n)' \in Nat /\ InQueue(n)' \in Nat /\ InDispatcher(n)' \in Nat
    BY CountsTyped, CountsTypedNext DEF Flow, FlowOK
  <2>2. \A o : Is(OrderMessage(o), n) = 0
    BY <1>3, IsOther
  <2>3. CASE TreatLogon(s)
    <3>1. Is(Information(s), n) = 0
      BY <1>3 DEF Is, Information
    <3> QED BY <2>1, <2>3, <3>1, TreatLogonMoves
  <2>4. CASE CountOrder(s)
    BY <2>1, <2>2, <2>4, CountOrderMoves
  <2>5. CASE LoadOrderId(s)
    BY <2>1, <2>2, <2>5, LoadOrderIdMoves
  <2>6. CASE QueueMessage(s)
    <3> DEFINE d == Is(Head(toGateway[s]), n)
    <3>1. d \in {0, 1}
      BY DEF Is
    <3>2. /\ InGateway(n)' = InGateway(n) - d /\ InDispatcher(n)' = InDispatcher(n)
          /\ InQueue(n)' = InQueue(n) \/ InQueue(n)' = InQueue(n) + d
      BY <2>6, QueueMessageMoves
    <3> HIDE DEF d
    <3> QED BY <2>1, <3>1, <3>2
  <2>7. CASE OnNewOrder(s) /\ accepted' = accepted
    BY <2>1, <2>2, <2>7, OnNewOrderMoves
  <2>8. CASE OnCancelOrder(s)
    <3>1. Is(Head(gatewayQueue[s]), n) = 0
      BY <1>3, <2>8, OnCancelOrderMoves DEF Is
    <3> QED BY <2>1, <2>8, <3>1, OnCancelOrderMoves
  <2>9. CASE OnApproved(s)
    BY <2>1, <2>9, OnApprovedMoves DEF Is
  <2> QED BY <2>3, <2>4, <2>5, <2>6, <2>7, <2>8, <2>9
<1>4. ASSUME NEW i \in Ids PROVE Given(i)' <= Given(i)
  BY <1>3, IsOther DEF Given
<1>5. \A o \in Orders : /\ InDispatcher(OrderMessage(o))' <= InDispatcher(OrderMessage(o))
                        /\ InEngine(OrderMessage(o))' <= InEngine(OrderMessage(o))
  BY <1>2, IsOther
<1> QED BY <1>1, <1>4, <1>5, IdleWhen

(* The MatchingEngine, and the Dispatcher where it sends no order on.      *)
LEMMA EngineIdle ==
    ASSUME Flow, LinksOK', EngineOrder \/ EngineCancel \/ OnCancel \/ OnConnection
    PROVE  Idle
<1>1. UNCHANGED <<pending, accepted, approvals>>
  BY DEF EngineOrder, EngineCancel, OnCancel, OnConnection, EngineVarsKept, clientVars, dispatcherVars,
         engineVars
<1>2. ASSUME NEW i \in Ids PROVE Given(i)' <= Given(i)
  <2> DEFINE n == ApprovedMessage(i)
  <2>1. InGateway(n) \in Nat /\ InQueue(n) \in Nat /\ InDispatcher(n) \in Nat
    BY CountsTyped DEF Flow, FlowOK
  <2> HIDE DEF n
  <2>2. InGateway(n)' = InGateway(n) /\ InQueue(n)' = InQueue(n) /\ InDispatcher(n)' <= InDispatcher(n)
    BY <2>1, EngineOrderMoves, EngineCancelMoves, OnCancelMoves, OnConnectionMoves DEF Is
  <2>3. InGateway(n)' \in Nat /\ InQueue(n)' \in Nat /\ InDispatcher(n)' \in Nat
    BY CountsTypedNext
  <2>4. InGateway(n)' + InQueue(n)' + InDispatcher(n)' <= InGateway(n) + InQueue(n) + InDispatcher(n)
    BY <2>1, <2>2, <2>3
  <2> QED BY <2>4 DEF Given, n
<1>3. ASSUME NEW o \in Orders
      PROVE  InDispatcher(OrderMessage(o))' <= InDispatcher(OrderMessage(o)) /\ Gone(o)' <= Gone(o)
  <2>1. /\ InDispatcher(OrderMessage(o)) \in Nat /\ InEngine(OrderMessage(o)) \in Nat
        /\ delivered[o] \in Nat
    BY OrderCounts
  <2>2. CASE EngineOrder
    <3> DEFINE p == Head(toEngine).order
    <3>1. p \in Orders /\ delivered' = [delivered EXCEPT ![p] = @ + 1]
      BY <2>2, EngineOrderMoves DEF EngineOrder
    <3> HIDE DEF p
    <3>2. delivered'[o] = delivered[o] + Is(p, o)
      BY <2>1, <3>1 DEF Is, Flow, FlowOK, ServersOK
    <3>3. /\ InDispatcher(OrderMessage(o))' = InDispatcher(OrderMessage(o))
          /\ InEngine(OrderMessage(o))' = InEngine(OrderMessage(o)) - Is(p, o)
      BY <2>2, EngineOrderMoves, IsType DEF p
    <3> QED BY <2>1, <3>2, <3>3 DEF Gone, Is
  <2>3. CASE EngineCancel \/ OnCancel \/ OnConnection
    <3>1. delivered'[o] = delivered[o]
      BY <2>3 DEF EngineCancel, OnCancel, OnConnection, engineVars
    <3>2. EngineCancel => Is(Head(toEngine), OrderMessage(o)) = 0
      BY EngineCancelMoves, IsOther
    <3>3. OnCancel \/ OnConnection => Is(Head(toDispatcher), OrderMessage(o)) = 0
      BY OnCancelMoves, OnConnectionMoves, IsOther
    <3>4. /\ InDispatcher(OrderMessage(o))' = InDispatcher(OrderMessage(o))
          /\ InEngine(OrderMessage(o))' = InEngine(OrderMessage(o))
      BY <2>1, <2>3, <3>2, <3>3, EngineCancelMoves, OnCancelMoves, OnConnectionMoves
    <3> QED BY <2>1, <3>1, <3>4 DEF Gone
  <2> QED BY <2>2, <2>3
<1> QED BY <1>1, <1>2, <1>3 DEF Idle

-----------------------------------------------------------------------------
(* The steps that give an approval or let an order go on.                  *)

(* What the invariants say of an accepted order holds of it after a step,  *)
(* where the order itself does not move.                                   *)
LEMMA AcceptedStay ==
    ASSUME Flow, Flow', Grows, NEW o \in accepted
    PROVE  /\ o \in Orders /\ o \in Known /\ sent'[o] = sent[o] /\ orderId'[o] = orderId[o]
           /\ orderId[o] \in Ids /\ o \in accepted'
           /\ InDispatcher(OrderMessage(o)) \in Nat /\ InEngine(OrderMessage(o)) \in Nat
           /\ delivered[o] \in Nat
           /\ InDispatcher(OrderMessage(o))' \in Nat /\ InEngine(OrderMessage(o))' \in Nat
           /\ delivered'[o] \in Nat
<1>1. o \in Orders /\ orderId[o] # NoId /\ o \in Known /\ orderId[o] \in Ids
  BY DEF Flow, FlowOK, ServersOK, OrdersPlaced, NumberedAreSent
<1>2. /\ InDispatcher(OrderMessage(o))' \in Nat /\ InEngine(OrderMessage(o))' \in Nat
      /\ delivered'[o] \in Nat
  BY <1>1, CountsTypedNext DEF Flow, FlowOK, ServersOK
<1> QED BY <1>1, <1>2, OrderCounts DEF Grows

(* SendApproval: one more approval is on its way.                          *)
LEMMA SendApprovalClears ==
    ASSUME Flow, Flow', Cleared, Grows, NEW s \in Sessions, NEW i \in Ids, SendApproval(s, i)
    PROVE  DirectOnce' /\ RetailPending' /\ ApprovalsUsed'
<1>1. /\ UNCHANGED <<sent, orderId, pending, accepted, delivered>>
      /\ approvals' = [approvals EXCEPT ![i] = @ + 1]
  BY DEF SendApproval, numberVars, dispatcherVars, engineVars
<1>2. \A m : /\ InGateway(m)' = InGateway(m) + Is(ApprovedMessage(i), m) /\ InQueue(m)' = InQueue(m)
             /\ InDispatcher(m)' = InDispatcher(m) /\ InEngine(m)' = InEngine(m)
  BY SendApprovalMoves
<1>3. \A o : Gone(o)' = Gone(o)
  BY <1>1, <1>2 DEF Gone
<1>4. DirectOnce' /\ RetailPending'
  BY <1>1, <1>2, <1>3 DEF Cleared, DirectOnce, RetailPending
<1>5. ASSUME NEW j \in Ids
      PROVE  Given(j)' + (IF pending[j] = 0 THEN 0 ELSE Gone(pending[j])) <= approvals'[j]
  <2>1. Given(j) + (IF pending[j] = 0 THEN 0 ELSE Gone(pending[j])) <= approvals[j]
    BY DEF Cleared, ApprovalsUsed
  <2>2. /\ InGateway(ApprovedMessage(j)) \in Nat /\ InQueue(ApprovedMessage(j)) \in Nat
        /\ InDispatcher(ApprovedMessage(j)) \in Nat
    BY CountsTyped DEF Flow, FlowOK
  <2>3. Given(j)' = Given(j) + Is(i, j)
    <3>1. InGateway(ApprovedMessage(j))' = InGateway(ApprovedMessage(j)) + Is(i, j)
      BY <1>2, IsType
    <3> QED BY <1>2, <2>2, <3>1 DEF Given, Is
  <2>4. approvals'[j] = approvals[j] + Is(i, j)
    BY <1>1, ClearedTyped DEF Is, Flow, FlowOK, RowsOK
  <2>5. /\ Given(j) \in Nat /\ approvals[j] \in Nat /\ Is(i, j) \in Nat
        /\ pending[j] # 0 => Gone(pending[j]) \in Nat
    BY ClearedTyped DEF Is, Flow, FlowOK, ServersOK
  <2> QED BY <2>1, <2>3, <2>4, <2>5
<1>6. ApprovalsUsed'
  BY <1>1, <1>3, <1>5 DEF ApprovalsUsed
<1> QED BY <1>4, <1>6

(* OnNewOrder: the order is on its way to the Dispatcher, once.            *)
LEMMA OnNewOrderClears ==
    ASSUME Flow, Flow', Cleared, Grows, NEW s \in Sessions, OnNewOrder(s), accepted' # accepted
    PROVE  DirectOnce' /\ RetailPending' /\ ApprovalsUsed'
<1> DEFINE o == Head(gatewayQueue[s]).order
<1>1. /\ o \in Orders /\ o \notin accepted /\ accepted' = accepted \union {o} /\ orderId[o] # NoId
      /\ \A m : /\ InGateway(m)' = InGateway(m) /\ InQueue(m)' = InQueue(m) - Is(OrderMessage(o), m)
                /\ InDispatcher(m)' = InDispatcher(m) + Is(OrderMessage(o), m)
                /\ InEngine(m)' = InEngine(m)
  BY OnNewOrderMoves
<1>2. UNCHANGED <<sent, orderId, pending, approvals, delivered>>
  BY DEF OnNewOrder, clientVars, numberVars, engineVars
<1> HIDE DEF o
<1>3. \A p : Gone(p)' = Gone(p)
  BY <1>1, <1>2 DEF Gone
<1>4. InDispatcher(OrderMessage(o)) = 0 /\ Gone(o) = 0
  <2>1. ~(InDispatcher(OrderMessage(o)) + InEngine(OrderMessage(o)) + delivered[o] > 0)
    BY <1>1 DEF Flow, OrdersPlaced, OnlyAccepted
  <2> QED BY <1>1, <2>1, OrderCounts DEF Gone
<1>5. \A p \in Orders : InDispatcher(OrderMessage(p))' = InDispatcher(OrderMessage(p)) + Is(o, p)
  BY <1>1, IsType
<1>6. DirectOnce'
  <2> SUFFICES ASSUME NEW p \in accepted', sent[p].kind # "retail"
               PROVE  InDispatcher(OrderMessage(p))' + Gone(p)' <= 1
    BY <1>2 DEF DirectOnce
  <2>1. CASE p = o
    BY <1>1, <1>3, <1>4, <1>5, <2>1 DEF Is
  <2>2. CASE p # o
    <3>1. p \in accepted
      BY <1>1, <2>2
    <3>2. InDispatcher(OrderMessage(p)) + Gone(p) <= 1 /\ p \in Orders
      BY <3>1 DEF Cleared, DirectOnce, Flow, FlowOK, ServersOK
    <3>3. InDispatcher(OrderMessage(p))' = InDispatcher(OrderMessage(p))
      BY <1>5, <2>2, <3>2, OrderCounts DEF Is
    <3> QED BY <1>3, <3>2, <3>3
  <2> QED BY <2>1, <2>2
<1>7. RetailPending'
  BY <1>1, <1>2, <1>3, <1>4 DEF Cleared, RetailPending
<1>8. \A i : Given(i)' = Given(i)
  <2> SUFFICES ASSUME NEW i PROVE Given(i)' = Given(i)
    OBVIOUS
  <2>1. InQueue(ApprovedMessage(i)) \in Nat /\ InDispatcher(ApprovedMessage(i)) \in Nat
    BY CountsTyped DEF Flow, FlowOK
  <2>2. Is(OrderMessage(o), ApprovedMessage(i)) = 0
    BY IsOther
  <2>3. /\ InGateway(ApprovedMessage(i))' = InGateway(ApprovedMessage(i))
        /\ InQueue(ApprovedMessage(i))' = InQueue(ApprovedMessage(i))
        /\ InDispatcher(ApprovedMessage(i))' = InDispatcher(ApprovedMessage(i))
    BY <1>1, <2>1, <2>2
  <2> QED BY <2>3 DEF Given
<1>9. ApprovalsUsed'
  BY <1>2, <1>3, <1>8 DEF Cleared, ApprovalsUsed
<1> QED BY <1>6, <1>7, <1>9

(* OnOrder: the order goes on, once, or takes a free ORDERID of            *)
(* mOrderList.                                                             *)
LEMMA OnOrderClears ==
    ASSUME Flow, Flow', Cleared, Grows, OnOrder
    PROVE  DirectOnce' /\ RetailPending' /\ ApprovalsUsed'
<1> DEFINE o == Head(toDispatcher).order
<1>1. /\ o \in Orders /\ InDispatcher(OrderMessage(o)) > 0 /\ o \in accepted /\ orderId[o] \in Ids
      /\ \A m : /\ InGateway(m)' = InGateway(m) /\ InQueue(m)' = InQueue(m)
                /\ InDispatcher(m)' = InDispatcher(m) - Is(OrderMessage(o), m)
      /\ \/ /\ sent[o].kind = "retail" /\ (pending' = KeepFirst(orderId[o], o) \/ pending' = pending)
            /\ \A m : InEngine(m)' = InEngine(m)
         \/ /\ sent[o].kind # "retail" /\ pending' = pending
            /\ \A m : InEngine(m)' = InEngine(m) + Is(OrderMessage(o), m)
  BY OnOrderMoves
<1>2. UNCHANGED <<sent, orderId, accepted, approvals, delivered>>
  BY DEF OnOrder, clientVars, numberVars
<1> HIDE DEF o
<1>3. \A i : Given(i)' = Given(i)
  <2> SUFFICES ASSUME NEW i PROVE Given(i)' = Given(i)
    OBVIOUS
  <2>1. InDispatcher(ApprovedMessage(i)) \in Nat
    BY CountsTyped DEF Flow, FlowOK
  <2>2. Is(OrderMessage(o), ApprovedMessage(i)) = 0
    BY IsOther
  <2>3. /\ InGateway(ApprovedMessage(i))' = InGateway(ApprovedMessage(i))
        /\ InQueue(ApprovedMessage(i))' = InQueue(ApprovedMessage(i))
        /\ InDispatcher(ApprovedMessage(i))' = InDispatcher(ApprovedMessage(i))
    BY <1>1, <2>1, <2>2
  <2> QED BY <2>3 DEF Given
<1>4. \A p \in Orders : InDispatcher(OrderMessage(p))' = InDispatcher(OrderMessage(p)) - Is(o, p)
  BY <1>1, IsType
<1>5. pending \in [Ids -> Orders \union {0}] /\ 0 \notin Orders
  BY DEF Flow, FlowOK, ServersOK, Orders
<1>6. CASE sent[o].kind = "retail" /\ \A m : InEngine(m)' = InEngine(m)
  <2>1. \A p : Gone(p)' = Gone(p)
    BY <1>2, <1>6 DEF Gone
  <2>2. DirectOnce'
    <3> SUFFICES ASSUME NEW p \in accepted, sent[p].kind # "retail"
                 PROVE  InDispatcher(OrderMessage(p))' + Gone(p)' <= 1
      BY <1>2 DEF DirectOnce
    <3>1. p # o /\ p \in Orders /\ InDispatcher(OrderMessage(p)) \in Nat
      BY <1>6, AcceptedStay
    <3>2. InDispatcher(OrderMessage(p))' = InDispatcher(OrderMessage(p))
      BY <1>4, <3>1 DEF Is
    <3> QED BY <2>1, <3>2 DEF Cleared, DirectOnce
  <2>3. \A i \in Ids : \/ pending'[i] = pending[i]
                       \/ i = orderId[o] /\ pending[i] = 0 /\ pending'[i] = o
    BY <1>1, <1>5, <1>6 DEF KeepFirst
  <2>4. RetailPending'
    <3> SUFFICES ASSUME NEW p \in accepted, sent[p].kind = "retail", Gone(p) > 0
                 PROVE  pending'[orderId[p]] = p
      BY <1>2, <2>1 DEF RetailPending
    <3>1. pending[orderId[p]] = p /\ orderId[p] \in Ids /\ p # 0
      BY <1>5, AcceptedStay DEF Cleared, RetailPending
    <3> QED BY <2>3, <3>1
  <2>5. ApprovalsUsed'
    <3> SUFFICES ASSUME NEW i \in Ids
                 PROVE  Given(i) + (IF pending'[i] = 0 THEN 0 ELSE Gone(pending'[i])) <= approvals[i]
      BY <1>2, <1>3, <2>1 DEF ApprovalsUsed
    <3>1. Given(i) + (IF pending[i] = 0 THEN 0 ELSE Gone(pending[i])) <= approvals[i]
      BY DEF Cleared, ApprovalsUsed
    <3>2. CASE pending'[i] = pending[i]
      BY <3>1, <3>2
    <3>3. CASE i = orderId[o] /\ pending[i] = 0 /\ pending'[i] = o
      <4>1. ~(Gone(o) > 0)
        BY <1>1, <1>5, <1>6, <3>3 DEF Cleared, RetailPending
      <4>2. Gone(o) = 0 /\ Given(i) \in Nat
        BY <1>1, <4>1, ClearedTyped
      <4> QED BY <3>1, <3>3, <4>2
    <3> QED BY <2>3, <3>2, <3>3
  <2> QED BY <2>2, <2>4, <2>5
<1>7. CASE /\ sent[o].kind # "retail" /\ pending' = pending
           /\ \A m : InEngine(m)' = InEngine(m) + Is(OrderMessage(o), m)
  <2>1. \A p \in Orders : Gone(p)' = Gone(p) + Is(o, p)
    <3> SUFFICES ASSUME NEW p \in Orders PROVE Gone(p)' = Gone(p) + Is(o, p)
      OBVIOUS
    <3>1. InEngine(OrderMessage(p))' = InEngine(OrderMessage(p)) + Is(o, p)
      BY <1>7, IsType
    <3> QED BY <1>2, <3>1, OrderCounts DEF Gone, Is
  <2>2. DirectOnce'
    <3> SUFFICES ASSUME NEW p \in accepted, sent[p].kind # "retail"
                 PROVE  InDispatcher(OrderMessage(p))' + Gone(p)' <= 1
      BY <1>2 DEF DirectOnce
    <3>1. /\ p \in Orders /\ InDispatcher(OrderMessage(p)) \in Nat /\ Gone(p) \in Nat
          /\ Is(o, p) \in {0, 1}
      BY AcceptedStay, ClearedTyped DEF Is
    <3>2. /\ InDispatcher(OrderMessage(p))' = InDispatcher(OrderMessage(p)) - Is(o, p)
          /\ Gone(p)' = Gone(p) + Is(o, p)
      BY <1>4, <2>1, <3>1
    <3>3. InDispatcher(OrderMessage(p)) + Gone(p) <= 1
      BY DEF Cleared, DirectOnce
    <3> QED BY <3>1, <3>2, <3>3
  <2>3. \A p \in accepted : sent[p].kind = "retail" => Gone(p)' = Gone(p)
    <3> SUFFICES ASSUME NEW p \in accepted, sent[p].kind = "retail" PROVE Gone(p)' = Gone(p)
      OBVIOUS
    <3>1. p # o /\ p \in Orders /\ Gone(p) \in Nat
      BY <1>7, AcceptedStay, ClearedTyped
    <3> QED BY <2>1, <3>1 DEF Is
  <2>4. RetailPending'
    BY <1>2, <1>7, <2>3 DEF Cleared, RetailPending
  <2>5. ApprovalsUsed'
    <3> SUFFICES ASSUME NEW i \in Ids
                 PROVE  (Given(i) + (IF pending[i] = 0 THEN 0 ELSE Gone(pending[i])) <= approvals[i])'
      BY DEF ApprovalsUsed
    <3>1. Given(i) + (IF pending[i] = 0 THEN 0 ELSE Gone(pending[i])) <= approvals[i]
      BY DEF Cleared, ApprovalsUsed
    <3>2. CASE pending[i] = 0
      BY <1>2, <1>3, <1>7, <3>1, <3>2
    <3>3. CASE pending[i] # 0
      <4>1. PICK p \in accepted : p = pending[i] /\ sent[p].kind = "retail"
        BY <3>3 DEF Flow, OrdersPlaced, PendingRetail
      <4>2. Gone(p)' = Gone(p)
        BY <2>3, <4>1
      <4>3. Given(i)' + Gone(p)' <= approvals'[i]
        BY <1>2, <1>3, <3>1, <3>3, <4>1, <4>2
      <4>4. pending'[i] = p
        BY <1>7, <4>1
      <4> QED BY <1>7, <3>3, <4>3, <4>4
    <3> QED BY <3>2, <3>3
  <2> QED BY <2>2, <2>4, <2>5
<1> QED BY <1>1, <1>6, <1>7

(* OnApproval: the approval is used up.                                    *)
LEMMA OnApprovalClears ==
    ASSUME Flow, Flow', Cleared, Grows, OnApproval
    PROVE  DirectOnce' /\ RetailPending' /\ ApprovalsUsed'
<1> DEFINE i == Head(toDispatcher).id
<1>1. /\ i \in Ids /\ InDispatcher(ApprovedMessage(i)) > 0
      /\ \A m : /\ InGateway(m)' = InGateway(m) /\ InQueue(m)' = InQueue(m)
                /\ InDispatcher(m)' = InDispatcher(m) - Is(ApprovedMessage(i), m)
      /\ \/ /\ pending[i] \in Orders
            /\ \A m : InEngine(m)' = InEngine(m) + Is(OrderMessage(pending[i]), m)
         \/ \A m : InEngine(m)' = InEngine(m)
  BY OnApprovalMoves
<1>2. UNCHANGED <<sent, orderId, pending, accepted, approvals, delivered>>
  BY DEF OnApproval, clientVars, numberVars
<1> HIDE DEF i
<1>3. \A j \in Ids : Given(j)' = Given(j) - Is(i, j) /\ Given(j) \in Nat
  <2> SUFFICES ASSUME NEW j \in Ids PROVE Given(j)' = Given(j) - Is(i, j) /\ Given(j) \in Nat
    OBVIOUS
  <2>1. /\ InGateway(ApprovedMessage(j)) \in Nat /\ InQueue(ApprovedMessage(j)) \in Nat
        /\ InDispatcher(ApprovedMessage(j)) \in Nat
    BY CountsTyped DEF Flow, FlowOK
  <2>2. InDispatcher(ApprovedMessage(j))' = InDispatcher(ApprovedMessage(j)) - Is(i, j)
    BY <1>1, IsType
  <2> QED BY <1>1, <2>1, <2>2 DEF Given, Is
<1>4. \A p \in Orders : InDispatcher(OrderMessage(p))' = InDispatcher(OrderMessage(p))
  BY <1>1, IsOther, OrderCounts
<1>5. CASE \A m : InEngine(m)' = InEngine(m)
  <2>1. \A p : Gone(p)' = Gone(p)
    BY <1>2, <1>5 DEF Gone
  <2>2. DirectOnce' /\ RetailPending'
    BY <1>2, <1>4, <2>1, AcceptedStay DEF Cleared, DirectOnce, RetailPending
  <2>3. ASSUME NEW j \in Ids
        PROVE  Given(j)' + (IF pending[j] = 0 THEN 0 ELSE Gone(pending[j])) <= approvals[j]
    <3>1. Given(j) + (IF pending[j] = 0 THEN 0 ELSE Gone(pending[j])) <= approvals[j]
      BY DEF Cleared, ApprovalsUsed
    <3>2. /\ approvals[j] \in Nat /\ Given(j) \in Nat /\ Is(i, j) \in {0, 1}
          /\ Given(j)' = Given(j) - Is(i, j)
      BY <1>3, ClearedTyped DEF Is
    <3>3. CASE pending[j] = 0
      BY <3>1, <3>2, <3>3
    <3>4. CASE pending[j] # 0
      <4>1. Gone(pending[j]) \in Nat
        BY <3>4, ClearedTyped DEF Flow, FlowOK, ServersOK
      <4> QED BY <3>1, <3>2, <3>4, <4>1
    <3> QED BY <3>3, <3>4
  <2>4. ApprovalsUsed'
    BY <1>2, <2>1, <2>3 DEF ApprovalsUsed
  <2> QED BY <2>2, <2>4
<1>6. CASE /\ pending[i] \in Orders
           /\ \A m : InEngine(m)' = InEngine(m) + Is(OrderMessage(pending[i]), m)
  <2>1. PICK o \in accepted : o = pending[i] /\ sent[o].kind = "retail" /\ orderId[o] = i
    BY <1>1, <1>6 DEF Flow, OrdersPlaced, PendingRetail, Orders
  <2>2. \A p \in Orders : Gone(p)' = Gone(p) + Is(o, p) /\ Gone(p) \in Nat
    <3> SUFFICES ASSUME NEW p \in Orders PROVE Gone(p)' = Gone(p) + Is(o, p) /\ Gone(p) \in Nat
      OBVIOUS
    <3>1. InEngine(OrderMessage(p))' = InEngine(OrderMessage(p)) + Is(o, p)
      BY <1>6, <2>1, IsType
    <3> QED BY <1>2, <3>1, OrderCounts DEF Gone, Is
  <2>3. DirectOnce'
    <3> SUFFICES ASSUME NEW p \in accepted, sent[p].kind # "retail"
                 PROVE  InDispatcher(OrderMessage(p))' + Gone(p)' <= 1
      BY <1>2 DEF DirectOnce
    <3>1. p # o /\ p \in Orders
      BY <2>1, AcceptedStay
    <3>2. Gone(p)' = Gone(p)
      BY <2>2, <3>1 DEF Is
    <3> QED BY <1>4, <3>1, <3>2 DEF Cleared, DirectOnce
  <2>4. RetailPending'
    <3> SUFFICES ASSUME NEW p \in accepted, sent[p].kind = "retail", Gone(p)' > 0
                 PROVE  pending[orderId[p]] = p
      BY <1>2 DEF RetailPending
    <3>1. CASE p = o
      BY <2>1, <3>1
    <3>2. CASE p # o
      <4>1. Gone(p)' = Gone(p)
        BY <2>2, <3>2, AcceptedStay DEF Is
      <4> QED BY <4>1 DEF Cleared, RetailPending
    <3> QED BY <3>1, <3>2
  <2>5. ASSUME NEW j \in Ids
        PROVE  (Given(j) + (IF pending[j] = 0 THEN 0 ELSE Gone(pending[j])) <= approvals[j])'
    <3>1. Given(j) + (IF pending[j] = 0 THEN 0 ELSE Gone(pending[j])) <= approvals[j]
      BY DEF Cleared, ApprovalsUsed
    <3>2. approvals[j] \in Nat /\ approvals'[j] = approvals[j] /\ pending'[j] = pending[j]
      BY <1>2, ClearedTyped
    <3>3. CASE pending[j] = 0
      <4>1. Given(j)' <= Given(j)
        BY <1>3 DEF Is
      <4> QED BY <1>3, <3>1, <3>2, <3>3, <4>1 DEF Is
    <3>4. CASE pending[j] # 0
      <4>1. PICK p \in accepted : p = pending[j] /\ orderId[p] = j
        BY <3>4 DEF Flow, OrdersPlaced, PendingRetail
      <4>2. p = o <=> j = i
        BY <2>1, <4>1
      <4>3. Gone(p)' = Gone(p) + Is(o, p) /\ Gone(p) \in Nat
        BY <2>2, AcceptedStay
      <4>4. Given(j)' + Gone(p)' <= approvals'[j]
        BY <1>3, <3>1, <3>2, <3>4, <4>1, <4>2, <4>3 DEF Is
      <4> QED BY <3>2, <3>4, <4>1, <4>4
    <3> QED BY <3>3, <3>4
  <2>6. ApprovalsUsed'
    BY <2>5 DEF ApprovalsUsed
  <2> QED BY <2>3, <2>4, <2>6
<1> QED BY <1>1, <1>5, <1>6

-----------------------------------------------------------------------------
(* The invariant, and the promise.                                         *)
LEMMA InitCleared == Init => Cleared
<1> SUFFICES ASSUME Init PROVE Cleared
  OBVIOUS
<1>1. \A m : InGateway(m) = 0 /\ InQueue(m) = 0 /\ InDispatcher(m) = 0 /\ InEngine(m) = 0
  BY NothingSent DEF Init, InGateway, InQueue, InDispatcher, InEngine
<1>2. DirectOnce /\ RetailPending
  BY DEF Init, DirectOnce, RetailPending
<1>3. ApprovalsUsed
  BY <1>1 DEF Init, ApprovalsUsed, Given
<1>4. RoutesRight
  BY <1>1 DEF Init, RoutesRight
<1>5. RequestsRight
  <2>1. Contents(<<>>) = {}
    BY ContentsStep, EmptySeq
  <2> QED BY <2>1 DEF Init, RequestsRight
<1> QED BY <1>2, <1>3, <1>4, <1>5 DEF Cleared

(* A step that moves nothing is idle.                                      *)
LEMMA StillIdle ==
    ASSUME Flow, LinksOK', UNCHANGED <<pending, accepted, approvals, delivered>>,
           \A m : /\ InGateway(m)' = InGateway(m) /\ InQueue(m)' = InQueue(m)
                  /\ InDispatcher(m)' = InDispatcher(m) /\ InEngine(m)' = InEngine(m)
    PROVE  Idle
<1>1. \A i : Given(i)' = Given(i)
  BY DEF Given
<1>2. \A i \in Ids : Given(i)' <= Given(i)
  BY <1>1, ClearedTyped
<1>3. \A o \in Orders : /\ InDispatcher(OrderMessage(o))' <= InDispatcher(OrderMessage(o))
                        /\ InEngine(OrderMessage(o))' <= InEngine(OrderMessage(o))
  BY OrderCounts
<1> QED BY <1>2, <1>3, IdleWhen

(* Every step keeps the second layer.                                      *)
LEMMA NextCleared == Flow /\ Cleared /\ [Next]_vars => Cleared'
<1> SUFFICES ASSUME Flow, Cleared, [Next]_vars PROVE Cleared'
  OBVIOUS
<1>1. Flow' /\ LinksOK' /\ Grows
  BY NextFlow, StepGrows DEF Flow, FlowOK
<1>2. RoutesRight' /\ RequestsRight'
  BY RequestsStayRight DEF Cleared
<1>3. ASSUME Idle PROVE DirectOnce' /\ RetailPending' /\ ApprovalsUsed'
  BY <1>1, <1>3, IdleKeeps DEF Cleared
<1>4. DirectOnce' /\ RetailPending' /\ ApprovalsUsed'
  <2>1. CASE StandStill
    <3>1. /\ UNCHANGED <<pending, accepted, approvals, delivered>>
          /\ \A m : /\ InGateway(m)' = InGateway(m) /\ InQueue(m)' = InQueue(m)
                    /\ InDispatcher(m)' = InDispatcher(m) /\ InEngine(m)' = InEngine(m)
      BY <2>1, CountsKept DEF StandStill, clientVars, sessionVars, dispatcherVars, engineVars
    <3>2. Idle
      BY <1>1, <3>1, StillIdle
    <3> QED BY <1>3, <3>2
  <2>2. ASSUME NEW s \in Sessions, NEW i \in Ids, SendApproval(s, i)
        PROVE  DirectOnce' /\ RetailPending' /\ ApprovalsUsed'
    BY <1>1, <2>2, SendApprovalClears
  <2>3. CASE ClientMoves
    BY <1>1, <1>3, <2>2, <2>3, ClientIdle DEF ClientMoves
  <2>4. ASSUME NEW s \in Sessions, OnNewOrder(s), accepted' # accepted
        PROVE  DirectOnce' /\ RetailPending' /\ ApprovalsUsed'
    BY <1>1, <2>4, OnNewOrderClears
  <2>5. CASE GatewayMoves
    <3>1. ASSUME NEW s \in Sessions,
                 \/ TreatLogon(s) \/ CountOrder(s) \/ LoadOrderId(s) \/ QueueMessage(s)
                 \/ OnNewOrder(s) \/ OnCancelOrder(s) \/ OnApproved(s)
          PROVE  DirectOnce' /\ RetailPending' /\ ApprovalsUsed'
      BY <1>1, <1>3, <2>4, <3>1, GatewayIdle
    <3>2. CASE DispatcherReply
      <4>1. /\ UNCHANGED <<pending, accepted, approvals, delivered>>
            /\ \A m : /\ InGateway(m)' = InGateway(m) /\ InQueue(m)' = InQueue(m)
                      /\ InDispatcher(m)' = InDispatcher(m) /\ InEngine(m)' = InEngine(m)
        BY <3>2, DispatcherReplyMoves DEF DispatcherReply, clientVars, engineVars
      <4>2. Idle
        BY <1>1, <4>1, StillIdle
      <4> QED BY <1>3, <4>2
    <3> QED BY <2>5, <3>1, <3>2 DEF GatewayMoves
  <2>6. CASE DispatcherSide \/ EngineSide
    BY <1>1, <1>3, <2>6, OnOrderClears, OnApprovalClears, EngineIdle DEF DispatcherSide, EngineSide
  <2> QED BY <2>1, <2>3, <2>5, <2>6, StepCases
<1> QED BY <1>2, <1>4 DEF Cleared

-----------------------------------------------------------------------------

(* The start of the servers is the start of the promise.                   *)
LEMMA InitPromise == Init => Promise!Init
<1> SUFFICES ASSUME Init PROVE Promise!Init
  OBVIOUS
<1>1. 1..Len(sent) = {}
  BY EmptySeq DEF Init
<1>2. [o \in 1..Len(sent) |-> Needs(o)] = [o \in {} |-> {}]
  BY <1>1
<1> QED BY <1>2 DEF Init, Promise!Init

(* SendOrder is Submit.                                                    *)
LEMMA SubmitStep ==
    ASSUME Flow, NEW script \in Scripts, SendOrder(script)
    PROVE  Promise!Next
<1> SUFFICES ASSUME NEW o, o = Len(sent) + 1 PROVE Promise!Next
  OBVIOUS
<1>1. /\ o \in Orders /\ sent'[o] \in Forms /\ Len(sent') = o
      /\ \A p \in Known : sent'[p] = sent[p]
  BY NextOfScript DEF SendOrder, Flow, FlowOK
<1>2. Needs(o)' \in {{}} \union {{u} : u \in Names}
  BY <1>1 DEF Needs, Forms
<1>3. 1..Len(sent') = 1..Len(sent) \union {o} /\ o \notin 1..Len(sent)
  BY <1>1, KnownOrders DEF Flow, FlowOK
<1>4. \A p \in 1..Len(sent) : Needs(p)' = Needs(p)
  BY <1>1 DEF Needs, Known
<1>5. UNCHANGED <<orderId, accepted, approvals, delivered>>
  BY DEF SendOrder, numberVars, engineVars
<1>6. [p \in 1..Len(sent) |-> Needs(p)]' =
          [p \in (DOMAIN [p \in 1..Len(sent) |-> Needs(p)]) \union {o} |->
              IF p = o THEN Needs(o)' ELSE [q \in 1..Len(sent) |-> Needs(q)][p]]
  BY <1>3, <1>4
<1>7. Promise!Submit(o, Needs(o)')
  BY <1>3, <1>5, <1>6 DEF Promise!Submit
<1> QED BY <1>1, <1>2, <1>7 DEF Promise!Next

(* LoadOrderId is Number.                                                  *)
LEMMA NumberStep ==
    ASSUME Flow, NEW s \in Sessions, LoadOrderId(s) PROVE Promise!Next
<1>1. counter \in Ids
  BY LoadOrderIdFlow
<1>2. loading[s] \in Known /\ orderId[loading[s]] = NoId
  BY DEF LoadOrderId, Flow, OrdersPlaced, AtLoading
<1>3. loading[s] \in Orders
  BY <1>2, KnownOrders DEF Flow, FlowOK
<1>4. Promise!Number(loading[s], counter)
  BY <1>2 DEF Promise!Number, LoadOrderId, clientVars, engineVars, Known, Needs
<1> QED BY <1>1, <1>3, <1>4 DEF Promise!Next

(* OnNewOrder is Accept, or a stutter.                                     *)
LEMMA AcceptStep ==
    ASSUME Flow, NEW s \in Sessions, OnNewOrder(s), accepted' # accepted PROVE Promise!Next
<1> DEFINE o == Head(gatewayQueue[s]).order
<1>1. o \in Orders /\ orderId[o] # NoId /\ o \notin accepted /\ accepted' = accepted \union {o}
  BY OnNewOrderMoves
<1>2. UNCHANGED <<sent, orderId, approvals, delivered>>
  BY DEF OnNewOrder, clientVars, numberVars, engineVars
<1> HIDE DEF o
<1>3. Promise!Accept(o)
  BY <1>1, <1>2 DEF Promise!Accept, Needs
<1> QED BY <1>1, <1>3 DEF Promise!Next

(* SendApproval is Approve: the client that approves was asked to, so an   *)
(* order names it.                                                         *)
LEMMA ApproveStep ==
    ASSUME Flow, Cleared, NEW s \in Sessions, NEW i \in Ids, SendApproval(s, i) PROVE Promise!Next
<1>1. WantedBy(i, User[s])
  BY DEF SendApproval, Cleared, RequestsRight
<1>2. PICK o \in accepted : orderId[o] = i /\ sent[o].kind = "retail" /\ sent[o].broker = User[s]
  BY <1>1 DEF WantedBy
<1>3. o \in Known /\ o \in Orders
  BY DEF Flow, FlowOK, ServersOK, OrdersPlaced, NumberedAreSent
<1>4. User[s] \in Names /\ User[s] \in Needs(o)
  BY <1>2, <1>3, KnownOrders DEF Flow, FlowOK, Forms, Needs
<1>5. UNCHANGED <<sent, orderId, accepted, delivered>> /\ approvals' = [approvals EXCEPT ![i] = @ + 1]
  BY DEF SendApproval, numberVars, engineVars
<1>6. Promise!Approve(User[s], i)
  BY <1>2, <1>3, <1>4, <1>5 DEF Promise!Approve, Known, Needs
<1> QED BY <1>4, <1>6 DEF Promise!Next

(* EngineOrder is Deliver: the order was accepted, and a retail order had  *)
(* an approval of its ORDERID left.                                        *)
LEMMA DeliverStep ==
    ASSUME Flow, Cleared, EngineOrder PROVE Promise!Next
<1> DEFINE o == Head(toEngine).order
<1>1. /\ o \in Orders /\ InEngine(OrderMessage(o)) > 0 /\ o \in accepted /\ orderId[o] \in Ids
      /\ o \in Known
  BY EngineOrderMoves
<1>2. delivered' = [delivered EXCEPT ![o] = @ + 1] /\ UNCHANGED <<sent, orderId, accepted, approvals>>
  BY DEF EngineOrder, EngineVarsKept, clientVars, numberVars
<1> HIDE DEF o
<1>3. /\ InEngine(OrderMessage(o)) \in Nat /\ delivered[o] \in Nat
      /\ InDispatcher(OrderMessage(o)) \in Nat /\ Gone(o) = InEngine(OrderMessage(o)) + delivered[o]
  BY <1>1, OrderCounts DEF Gone
<1>4. CASE sent[o].kind # "retail"
  <2>1. delivered[o] = 0
    BY <1>1, <1>3, <1>4 DEF Cleared, DirectOnce
  <2>2. Promise!Deliver(o)
    BY <1>1, <1>2, <1>4, <2>1 DEF Promise!Deliver, Needs, Known
  <2> QED BY <1>1, <2>2 DEF Promise!Next
<1>5. CASE sent[o].kind = "retail"
  <2>1. pending[orderId[o]] = o
    BY <1>1, <1>3, <1>5 DEF Cleared, RetailPending
  <2>2. delivered[o] < approvals[orderId[o]]
    <3>1. Given(orderId[o]) + Gone(o) <= approvals[orderId[o]]
      BY <1>1, <2>1 DEF Cleared, ApprovalsUsed, Orders
    <3>2. Given(orderId[o]) \in Nat /\ approvals[orderId[o]] \in Nat
      BY <1>1, ClearedTyped
    <3> QED BY <1>1, <1>3, <3>1, <3>2
  <2>3. ASSUME NEW p \in Known, p # o, orderId[p] = orderId[o], sent[p].kind = "retail"
        PROVE  delivered[p] = 0
    <3>1. p \in Orders /\ delivered[p] \in Nat /\ InDispatcher(OrderMessage(p)) \in Nat
          /\ InEngine(OrderMessage(p)) \in Nat
      BY KnownOrders, OrderCounts DEF Flow, FlowOK
    <3>2. CASE delivered[p] > 0
      <4>1. p \in accepted
        BY <3>1, <3>2 DEF Flow, OrdersPlaced, OnlyAccepted
      <4>2. Gone(p) > 0
        BY <3>1, <3>2 DEF Gone
      <4> QED BY <2>1, <2>3, <4>1, <4>2 DEF Cleared, RetailPending
    <3> QED BY <3>1, <3>2
  <2>4. \A p \in Known : Needs(p) # {} => sent[p].kind = "retail"
    BY DEF Needs
  <2>5. Promise!Rivals(o) = {p \in Known \ {o} : orderId[p] = orderId[o] /\ Needs(p) # {}}
    BY DEF Promise!Rivals, Known
  <2>6. \A p \in Promise!Rivals(o) : delivered[p] = 0
    BY <2>3, <2>4, <2>5
  <2>7. [p \in 1..Len(sent) |-> Needs(p)][o] # {}
    BY <1>1, <1>5 DEF Needs, Known
  <2>8. Promise!Deliver(o)
    BY <1>1, <1>2, <2>2, <2>6, <2>7 DEF Promise!Deliver, Needs
  <2> QED BY <1>1, <2>8 DEF Promise!Next
<1> QED BY <1>4, <1>5

(* Every other step is a stutter of the promise.                           *)
LEMMA PromiseStep ==
    ASSUME Flow, Cleared, [Next]_vars PROVE [Promise!Next]_Promise!vars
<1>1. ASSUME UNCHANGED <<sent, orderId, accepted, approvals, delivered>>
      PROVE  UNCHANGED Promise!vars
  BY <1>1 DEF Promise!vars, Needs
<1>2. CASE StandStill
  BY <1>1, <1>2 DEF StandStill, clientVars, numberVars, engineVars
<1>3. ASSUME NEW s \in Sessions, Connect(s) \/ Disconnect(s) \/ ClientRead(s)
      PROVE  UNCHANGED Promise!vars
  BY <1>1, <1>3 DEF Connect, Disconnect, ClientRead, clientVars, numberVars, engineVars
<1>4. ASSUME NEW s \in Sessions, NEW o \in Orders, SendCancel(s, o) PROVE UNCHANGED Promise!vars
  BY <1>1, <1>4 DEF SendCancel, numberVars, engineVars
<1>5. CASE ClientMoves
  BY <1>3, <1>4, <1>5, SubmitStep, ApproveStep DEF ClientMoves
<1>6. ASSUME NEW s \in Sessions,
             \/ TreatLogon(s) \/ CountOrder(s) \/ QueueMessage(s)
             \/ (OnNewOrder(s) /\ accepted' = accepted) \/ OnCancelOrder(s) \/ OnApproved(s)
      PROVE  UNCHANGED Promise!vars
  BY <1>1, <1>6 DEF TreatLogon, CountOrder, QueueMessage, OnNewOrder, OnCancelOrder, OnApproved,
                    clientVars, numberVars, engineVars
<1>7. CASE DispatcherReply
  BY <1>1, <1>7 DEF DispatcherReply, clientVars, numberVars, engineVars
<1>8. CASE GatewayMoves
  BY <1>6, <1>7, <1>8, NumberStep, AcceptStep DEF GatewayMoves
<1>9. CASE DispatcherSide
  BY <1>1, <1>9 DEF DispatcherSide, OnConnection, OnOrder, OnCancel, OnApproval, clientVars, numberVars,
                    engineVars
<1>10. CASE EngineSide
  <2>1. CASE EngineCancel
    BY <1>1, <2>1 DEF EngineCancel, EngineVarsKept, clientVars, numberVars
  <2> QED BY <1>10, <2>1, DeliverStep DEF EngineSide
<1> QED BY <1>2, <1>5, <1>8, <1>9, <1>10, StepCases

(* The Gateway, the Dispatcher and the MatchingEngine keep the promise of  *)
(* Clearance whatever the number of sessions, orders and approvals: an     *)
(* order reaches the ladder only after the Gateway numbered and accepted   *)
(* it, a direct one at most once, and one of a retail client never more    *)
(* often than the client it names, or one that another order of the same   *)
(* ORDERID names, approved that ORDERID.                                   *)
THEOREM ImplementsPromise == Spec => ImplementsClearance
<1>1. Init => Flow /\ Cleared
  BY InitFlow, InitCleared
<1>2. Flow /\ Cleared /\ [Next]_vars => (Flow /\ Cleared)'
  BY NextFlow, NextCleared
<1>3. Flow /\ Cleared /\ [Next]_vars => [Promise!Next]_Promise!vars
  BY PromiseStep
<1> QED BY <1>1, <1>2, <1>3, InitPromise, PTL DEF Spec, ImplementsClearance, Promise!Spec

-----------------------------------------------------------------------------
(* The cancels.  An ORDERID was given to an accepted order, unless some    *)
(* order is unlisted: those are numbered, too.                             *)
AnyUnlisted == \E o \in Known : sent[o].kind = "unlisted"
Answered(i) == AnyUnlisted \/ \E o \in accepted : orderId[o] = i
(* What the rows show, and the answers on their way to them.               *)
ShownRight ==
    /\ \A r \in Orders : shown[r] # NoId => Answered(shown[r])
    /\ \A s \in Sessions : \A m \in Contents(toClient[s]) :
           m.type \in {"A", "J"} /\ m.id # NoId => Answered(m.id)

(* The cancels on their way, and those that were sent.                     *)
OnWay(i, o) == InGateway(CancelMessage(i, o)) + InQueue(CancelMessage(i, o))
                   + InDispatcher(CancelMessage(i, o)) + InEngine(CancelMessage(i, o))
(* The cancels of an order sent with an ORDERID.                           *)
CancelsOf(o, i) == {c \in cancels : c.of = o /\ c.id = i}
(* A cancel on its way was made from a row that showed its ORDERID.        *)
CancelsMade ==
    \A o \in Orders, i \in Ids \union {NoId} :
        OnWay(i, o) > 0 => o \in Known /\ (i # NoId => Answered(i))
(* Every cancel on its way was sent, and those sent for the same row and   *)
(* ORDERID are numbered.                                                   *)
CancelsCounted ==
    /\ \A c \in cancels : c.nth \in 1..Cardinality(CancelsOf(c.of, c.id))
    /\ \A o \in Orders, i \in Ids \union {NoId} : OnWay(i, o) <= Cardinality(CancelsOf(o, i))

-----------------------------------------------------------------------------

(* What was sent stays as it was.                                          *)
LEMMA SentStays ==
    ASSUME Grows, NEW o \in Known PROVE o \in Known' /\ sent'[o] = sent[o]
  BY DEF Grows

(* An answer stays one.                                                    *)
LEMMA AnswersStay ==
    ASSUME Flow, Flow', Grows, NEW i, Answered(i) PROVE Answered(i)'
<1>1. CASE AnyUnlisted
  BY <1>1 DEF Answered, AnyUnlisted, Grows
<1>2. ASSUME NEW o \in accepted, orderId[o] = i PROVE Answered(i)'
  <2>1. o \in accepted' /\ orderId'[o] = orderId[o]
    BY <1>2, AcceptedStay
  <2> QED BY <1>2, <2>1 DEF Answered
<1> QED BY <1>1, <1>2 DEF Answered

(* The cancels on their way, as numbers.                                   *)
LEMMA OnWayTyped ==
    ASSUME Flow, LinksOK', NEW i, NEW o
    PROVE  /\ InGateway(CancelMessage(i, o)) \in Nat /\ InQueue(CancelMessage(i, o)) \in Nat
           /\ InDispatcher(CancelMessage(i, o)) \in Nat /\ InEngine(CancelMessage(i, o)) \in Nat
           /\ InGateway(CancelMessage(i, o))' \in Nat /\ InQueue(CancelMessage(i, o))' \in Nat
           /\ InDispatcher(CancelMessage(i, o))' \in Nat /\ InEngine(CancelMessage(i, o))' \in Nat
           /\ OnWay(i, o) \in Nat /\ OnWay(i, o)' \in Nat
<1>1. /\ InGateway(CancelMessage(i, o)) \in Nat /\ InQueue(CancelMessage(i, o)) \in Nat
      /\ InDispatcher(CancelMessage(i, o)) \in Nat /\ InEngine(CancelMessage(i, o)) \in Nat
  BY CountsTyped DEF Flow, FlowOK
<1>2. /\ InGateway(CancelMessage(i, o))' \in Nat /\ InQueue(CancelMessage(i, o))' \in Nat
      /\ InDispatcher(CancelMessage(i, o))' \in Nat /\ InEngine(CancelMessage(i, o))' \in Nat
  BY CountsTypedNext
<1>3. OnWay(i, o) \in Nat
  BY <1>1 DEF OnWay
<1>4. OnWay(i, o)' \in Nat
  BY <1>2 DEF OnWay
<1> QED BY <1>1, <1>2, <1>3, <1>4

(* Only SendCancel puts a cancel on its way, and only the engine takes it  *)
(* off at the end.                                                         *)
LEMMA ClientOnWay ==
    ASSUME Flow, LinksOK', NEW i, NEW o,
           \/ \E s \in Sessions : \/ Connect(s) \/ Disconnect(s) \/ ClientRead(s)
                                \/ \E j \in Ids : SendApproval(s, j)
           \/ \E script \in Scripts : SendOrder(script)
    PROVE  OnWay(i, o)' <= OnWay(i, o)
<1> DEFINE c == CancelMessage(i, o)
<1>1. /\ InGateway(c) \in Nat /\ InQueue(c) \in Nat /\ InDispatcher(c) \in Nat /\ InEngine(c) \in Nat
      /\ InGateway(c)' \in Nat
  BY OnWayTyped
<1>2. /\ Is(Message("L"), c) = 0 /\ \A p : Is(OrderMessage(p), c) = 0
      /\ \A j : Is(ApprovedMessage(j), c) = 0
  BY DEF Is, Message, OrderMessage, CancelMessage, ApprovedMessage
<1>3. OnWay(i, o) = InGateway(c) + InQueue(c) + InDispatcher(c) + InEngine(c)
  BY DEF OnWay
<1>4. OnWay(i, o)' = InGateway(c)' + InQueue(c)' + InDispatcher(c)' + InEngine(c)'
  BY DEF OnWay
<1> HIDE DEF c
<1>5. InQueue(c)' = InQueue(c) /\ InDispatcher(c)' = InDispatcher(c) /\ InEngine(c)' = InEngine(c)
  BY ConnectMoves, DisconnectMoves, ClientReadMoves, SendOrderMoves, SendApprovalMoves
<1>6. InGateway(c)' <= InGateway(c)
  <2>1. ASSUME NEW s \in Sessions, Connect(s) PROVE InGateway(c)' <= InGateway(c)
    BY <1>1, <1>2, <2>1, ConnectMoves
  <2>2. ASSUME NEW s \in Sessions, Disconnect(s) \/ ClientRead(s) PROVE InGateway(c)' <= InGateway(c)
    BY <2>2, DisconnectMoves, ClientReadMoves
  <2>3. ASSUME NEW script \in Scripts, SendOrder(script) PROVE InGateway(c)' <= InGateway(c)
    BY <1>1, <1>2, <2>3, SendOrderMoves
  <2>4. ASSUME NEW s \in Sessions, NEW j \in Ids, SendApproval(s, j)
        PROVE  InGateway(c)' <= InGateway(c)
    <3>1. InGateway(c)' = InGateway(c) + Is(ApprovedMessage(j), c)
      BY <2>4, SendApprovalMoves
    <3> QED BY <1>1, <1>2, <3>1
  <2> QED BY <2>1, <2>2, <2>3, <2>4
<1> QED BY <1>1, <1>3, <1>4, <1>5, <1>6

(* SendCancel puts one cancel on its way.                                  *)
LEMMA CancelOnWay ==
    ASSUME Flow, LinksOK', NEW s \in Sessions, NEW p \in Orders, SendCancel(s, p), NEW i, NEW o
    PROVE  OnWay(i, o)' = OnWay(i, o) + (IF i = shown[p] /\ o = p THEN 1 ELSE 0)
<1> DEFINE c == CancelMessage(i, o)
<1>1. InGateway(c) \in Nat /\ InQueue(c) \in Nat /\ InDispatcher(c) \in Nat /\ InEngine(c) \in Nat
  BY OnWayTyped
<1>2. Is(CancelMessage(shown[p], p), c) = IF i = shown[p] /\ o = p THEN 1 ELSE 0
  <2>1. CancelMessage(shown[p], p) = c => i = shown[p] /\ o = p
    BY DEF CancelMessage
  <2> QED BY <2>1 DEF Is
<1>3. OnWay(i, o) = InGateway(c) + InQueue(c) + InDispatcher(c) + InEngine(c)
  BY DEF OnWay
<1>4. OnWay(i, o)' = InGateway(c)' + InQueue(c)' + InDispatcher(c)' + InEngine(c)'
  BY DEF OnWay
<1> HIDE DEF c
<1>5. /\ InGateway(c)' = InGateway(c) + Is(CancelMessage(shown[p], p), c) /\ InQueue(c)' = InQueue(c)
      /\ InDispatcher(c)' = InDispatcher(c) /\ InEngine(c)' = InEngine(c)
  BY SendCancelMoves
<1> QED BY <1>1, <1>2, <1>3, <1>4, <1>5

(* The Gateway puts none on its way.                                       *)
LEMMA GatewayOnWay ==
    ASSUME Flow, LinksOK', NEW s \in Sessions, NEW i, NEW o,
           \/ TreatLogon(s) \/ CountOrder(s) \/ LoadOrderId(s) \/ QueueMessage(s)
           \/ OnNewOrder(s) \/ OnCancelOrder(s) \/ OnApproved(s)
    PROVE  OnWay(i, o)' <= OnWay(i, o)
<1> DEFINE c == CancelMessage(i, o)
<1>1. /\ InGateway(c) \in Nat /\ InQueue(c) \in Nat /\ InDispatcher(c) \in Nat /\ InEngine(c) \in Nat
      /\ InGateway(c)' \in Nat /\ InQueue(c)' \in Nat /\ InDispatcher(c)' \in Nat
  BY OnWayTyped
<1>2. /\ Is(Information(s), c) = 0 /\ \A p : Is(OrderMessage(p), c) = 0
  BY DEF Is, Information, OrderMessage, CancelMessage
<1>3. OnWay(i, o) = InGateway(c) + InQueue(c) + InDispatcher(c) + InEngine(c)
  BY DEF OnWay
<1>4. OnWay(i, o)' = InGateway(c)' + InQueue(c)' + InDispatcher(c)' + InEngine(c)'
  BY DEF OnWay
<1> HIDE DEF c
<1>5. CASE TreatLogon(s)
  <2>1. /\ InGateway(c)' <= InGateway(c) /\ InQueue(c)' = InQueue(c) /\ InEngine(c)' = InEngine(c)
        /\ InDispatcher(c)' = InDispatcher(c) \/ InDispatcher(c)' = InDispatcher(c) + Is(Information(s), c)
    BY <1>5, TreatLogonMoves
  <2> QED BY <1>1, <1>2, <1>3, <1>4, <2>1
<1>6. CASE CountOrder(s)
  <2>1. /\ InGateway(c)' = InGateway(c) - Is(OrderMessage(Head(toGateway[s]).order), c)
        /\ InQueue(c)' = InQueue(c)
        /\ InDispatcher(c)' = InDispatcher(c) /\ InEngine(c)' = InEngine(c)
    BY <1>6, CountOrderMoves
  <2> QED BY <1>1, <1>2, <1>3, <1>4, <2>1
<1>7. CASE LoadOrderId(s)
  <2>1. /\ InGateway(c)' = InGateway(c)
        /\ InQueue(c)' = InQueue(c) \/ InQueue(c)' = InQueue(c) + Is(OrderMessage(loading[s]), c)
        /\ InDispatcher(c)' = InDispatcher(c) /\ InEngine(c)' = InEngine(c)
    BY <1>7, LoadOrderIdMoves
  <2> QED BY <1>1, <1>2, <1>3, <1>4, <2>1
<1>8. CASE QueueMessage(s)
  <2>1. /\ InGateway(c)' = InGateway(c) - Is(Head(toGateway[s]), c)
        /\ InQueue(c)' = InQueue(c) \/ InQueue(c)' = InQueue(c) + Is(Head(toGateway[s]), c)
        /\ InDispatcher(c)' = InDispatcher(c) /\ InEngine(c)' = InEngine(c)
    BY <1>8, QueueMessageMoves
  <2> QED BY <1>1, <1>3, <1>4, <2>1 DEF Is
<1>9. CASE OnNewOrder(s)
  <2> DEFINE p == Head(gatewayQueue[s]).order
  <2>1. /\ InGateway(c)' = InGateway(c) /\ InQueue(c)' = InQueue(c) - Is(OrderMessage(p), c)
        /\ InEngine(c)' = InEngine(c)
        /\ \/ InDispatcher(c)' = InDispatcher(c)
           \/ InDispatcher(c)' = InDispatcher(c) + Is(OrderMessage(p), c)
    BY <1>9, OnNewOrderMoves
  <2> QED BY <1>1, <1>2, <1>3, <1>4, <2>1
<1>10. CASE OnCancelOrder(s) \/ OnApproved(s)
  <2> DEFINE h == Head(gatewayQueue[s])
  <2>1. /\ InGateway(c)' = InGateway(c) /\ InQueue(c)' = InQueue(c) - Is(h, c)
        /\ InEngine(c)' = InEngine(c)
        /\ InDispatcher(c)' = InDispatcher(c) \/ InDispatcher(c)' = InDispatcher(c) + Is(h, c)
    BY <1>10, OnCancelOrderMoves, OnApprovedMoves
  <2> HIDE DEF h
  <2> QED BY <1>1, <1>3, <1>4, <2>1 DEF Is
<1> QED BY <1>5, <1>6, <1>7, <1>8, <1>9, <1>10

(* Nor do the Dispatcher and the order side of the MatchingEngine.         *)
LEMMA ServersOnWay ==
    ASSUME Flow, LinksOK', NEW i, NEW o,
           \/ DispatcherReply \/ OnConnection \/ OnOrder \/ OnCancel \/ OnApproval \/ EngineOrder
    PROVE  OnWay(i, o)' <= OnWay(i, o)
<1> DEFINE c == CancelMessage(i, o)
<1>1. /\ InGateway(c) \in Nat /\ InQueue(c) \in Nat /\ InDispatcher(c) \in Nat /\ InEngine(c) \in Nat
      /\ InDispatcher(c)' \in Nat /\ InEngine(c)' \in Nat
  BY OnWayTyped
<1>2. /\ \A p : Is(OrderMessage(p), c) = 0 /\ \A j : Is(ApprovedMessage(j), c) = 0
  BY DEF Is, OrderMessage, ApprovedMessage, CancelMessage
<1>3. OnWay(i, o) = InGateway(c) + InQueue(c) + InDispatcher(c) + InEngine(c)
  BY DEF OnWay
<1>4. OnWay(i, o)' = InGateway(c)' + InQueue(c)' + InDispatcher(c)' + InEngine(c)'
  BY DEF OnWay
<1> HIDE DEF c
<1>5. InGateway(c)' = InGateway(c) /\ InQueue(c)' = InQueue(c)
  BY DispatcherReplyMoves, OnConnectionMoves, OnOrderMoves, OnCancelMoves, OnApprovalMoves,
     EngineOrderMoves
<1>6. CASE DispatcherReply
  BY <1>1, <1>3, <1>4, <1>6, DispatcherReplyMoves
<1>7. CASE OnConnection
  BY <1>1, <1>3, <1>4, <1>7, OnConnectionMoves DEF Is
<1>8. CASE OnOrder
  <2> DEFINE p == Head(toDispatcher).order
  <2>1. /\ InDispatcher(c)' = InDispatcher(c) - Is(OrderMessage(p), c)
        /\ InEngine(c)' = InEngine(c) \/ InEngine(c)' = InEngine(c) + Is(OrderMessage(p), c)
    BY <1>8, OnOrderMoves
  <2> QED BY <1>1, <1>2, <1>3, <1>4, <1>5, <2>1
<1>9. CASE OnCancel
  BY <1>1, <1>3, <1>4, <1>9, OnCancelMoves DEF Is
<1>10. CASE OnApproval
  <2> DEFINE j == Head(toDispatcher).id
  <2>1. /\ InDispatcher(c)' = InDispatcher(c) - Is(ApprovedMessage(j), c)
        /\ \/ InEngine(c)' = InEngine(c)
           \/ InEngine(c)' = InEngine(c) + Is(OrderMessage(pending[j]), c)
    BY <1>10, OnApprovalMoves
  <2> QED BY <1>1, <1>2, <1>3, <1>4, <1>5, <2>1
<1>11. CASE EngineOrder
  BY <1>1, <1>2, <1>3, <1>4, <1>11, EngineOrderMoves
<1> QED BY <1>6, <1>7, <1>8, <1>9, <1>10, <1>11

(* EngineCancel takes one off.                                             *)
LEMMA EngineOnWay ==
    ASSUME Flow, LinksOK', EngineCancel, NEW i, NEW o
    PROVE  OnWay(i, o)' = OnWay(i, o) - Is(Head(toEngine), CancelMessage(i, o))
<1> DEFINE c == CancelMessage(i, o)
<1>1. InGateway(c) \in Nat /\ InQueue(c) \in Nat /\ InDispatcher(c) \in Nat /\ InEngine(c) \in Nat
  BY OnWayTyped
<1>3. OnWay(i, o) = InGateway(c) + InQueue(c) + InDispatcher(c) + InEngine(c)
  BY DEF OnWay
<1>4. OnWay(i, o)' = InGateway(c)' + InQueue(c)' + InDispatcher(c)' + InEngine(c)'
  BY DEF OnWay
<1>5. /\ InGateway(c)' = InGateway(c) /\ InQueue(c)' = InQueue(c)
      /\ InDispatcher(c)' = InDispatcher(c) /\ InEngine(c)' = InEngine(c) - Is(Head(toEngine), c)
  BY EngineCancelMoves
<1> HIDE DEF c
<1>6. OnWay(i, o)' = OnWay(i, o) - Is(Head(toEngine), c)
  BY <1>1, <1>3, <1>4, <1>5 DEF Is
<1> QED BY <1>6 DEF c

(* Every step.                                                             *)
LEMMA StepOnWay ==
    ASSUME Flow, Flow', [Next]_vars, NEW i, NEW o
    PROVE  \/ OnWay(i, o)' <= OnWay(i, o)
           \/ \E s \in Sessions : SendCancel(s, o) /\ i = shown[o] /\ o \in Orders
<1>1. LinksOK' /\ OnWay(i, o) \in Nat
  BY OnWayTyped DEF Flow, FlowOK
<1>2. CASE StandStill
  <2>1. OnWay(i, o)' = OnWay(i, o)
    BY <1>2, CountsKept DEF OnWay, StandStill, sessionVars, dispatcherVars, engineVars
  <2> QED BY <1>1, <2>1
<1>3. ASSUME NEW s \in Sessions, NEW p \in Orders, SendCancel(s, p)
      PROVE  \/ OnWay(i, o)' <= OnWay(i, o)
             \/ \E x \in Sessions : SendCancel(x, o) /\ i = shown[o] /\ o \in Orders
  <2>1. OnWay(i, o)' = OnWay(i, o) + (IF i = shown[p] /\ o = p THEN 1 ELSE 0)
    BY <1>1, <1>3, CancelOnWay
  <2>2. CASE i = shown[p] /\ o = p
    BY <1>3, <2>2
  <2>3. CASE ~(i = shown[p] /\ o = p)
    BY <1>1, <2>1, <2>3
  <2> QED BY <2>2, <2>3
<1>4. CASE ClientMoves
  BY <1>1, <1>3, <1>4, ClientOnWay DEF ClientMoves
<1>5. CASE GatewayMoves
  BY <1>1, <1>5, GatewayOnWay, ServersOnWay DEF GatewayMoves
<1>6. CASE DispatcherSide \/ EngineOrder
  BY <1>1, <1>6, ServersOnWay DEF DispatcherSide
<1>7. CASE EngineCancel
  BY <1>1, <1>7, EngineOnWay DEF Is
<1> QED BY <1>2, <1>4, <1>5, <1>6, <1>7, StepCases DEF EngineSide

(* The ladder holds an order under its ORDERID.                            *)
BookedRight == \A i \in Ids : booked[i] # 0 => orderId[booked[i]] = i

(* Every step keeps the rows right.                                        *)
LEMMA ShownStaysRight ==
    ASSUME Flow, Flow', Grows, ShownRight, CancelsMade, [Next]_vars PROVE ShownRight'
<1>1. ASSUME NEW m, CancelRefused(m) PROVE AnyUnlisted
  <2>1. PICK c \in Messages : c.type = "C" /\ InQueue(c) > 0 /\ sent[c.of].kind = "unlisted"
    BY <1>1 DEF CancelRefused
  <2>2. c = CancelMessage(c.id, c.of) /\ c.of \in Orders /\ c.id \in Ids \union {NoId}
    BY <2>1, Shapes
  <2>3. OnWay(c.id, c.of) > 0
    <3>1. /\ InGateway(c) \in Nat /\ InQueue(c) \in Nat /\ InDispatcher(c) \in Nat /\ InEngine(c) \in Nat
      BY CountsTyped DEF Flow, FlowOK
    <3>2. OnWay(c.id, c.of) = InGateway(c) + InQueue(c) + InDispatcher(c) + InEngine(c)
      BY <2>2 DEF OnWay
    <3> QED BY <2>1, <3>1, <3>2
  <2>4. c.of \in Known
    BY <2>2, <2>3 DEF CancelsMade
  <2> QED BY <2>1, <2>4 DEF AnyUnlisted
<1>2. ASSUME NEW m, NEW x, NEW o \in Orders, Answers(m, o, x) PROVE Answered(m.id)'
  <2>1. m.id = orderId'[o]
    BY <1>2 DEF Answers, Grows
  <2>2. CASE o \in accepted'
    BY <2>1, <2>2 DEF Answered
  <2>3. CASE sent[o].kind = "unlisted"
    BY <1>2, <2>3 DEF Answers, Answered, AnyUnlisted, Grows
  <2> QED BY <1>2, <2>2, <2>3 DEF Answers
<1>3. ASSUME NEW s \in Sessions, NEW m \in Contents(toClient'[s]), m.type \in {"A", "J"}, m.id # NoId
      PROVE  Answered(m.id)'
  <2>1. Told(m, s)
    BY StepTold
  <2>2. CASE m \in Contents(toClient[s])
    BY <1>3, <2>2, AnswersStay DEF ShownRight
  <2>3. CASE CancelRefused(m)
    <3>1. AnyUnlisted'
      BY <1>1, <2>3 DEF AnyUnlisted, Grows
    <3> QED BY <3>1 DEF Answered
  <2> QED BY <1>2, <1>3, <2>1, <2>2, <2>3 DEF Told
<1>4. ASSUME NEW r \in Orders, shown'[r] # NoId PROVE Answered(shown[r])'
  <2>1. CASE shown'[r] = shown[r]
    <3>1. PICK i : i = shown[r]
      OBVIOUS
    <3>2. Answered(i)'
      BY <1>4, <2>1, <3>1, AnswersStay DEF ShownRight
    <3> QED BY <2>1, <3>1, <3>2 DEF Answered
  <2>2. CASE shown'[r] # shown[r]
    <3>1. PICK s \in Sessions : ClientRead(s)
      BY <2>2, StepCases DEF StandStill, ClientMoves, Connect, Disconnect, SendOrder, SendCancel,
         SendApproval, GatewayMoves, TreatLogon, CountOrder, LoadOrderId, QueueMessage, OnNewOrder,
         OnCancelOrder, OnApproved, DispatcherReply, DispatcherSide, OnConnection, OnOrder, OnCancel,
         OnApproval, EngineSide, EngineOrder, EngineCancel, EngineVarsKept, clientVars
    <3>2. PICK m : m = Head(toClient[s])
      OBVIOUS
    <3>3. toClient[s] \in Seq(Messages) /\ toClient[s] # <<>>
      BY <3>1 DEF ClientRead, Flow, FlowOK, LinksOK
    <3>4. m \in Contents(toClient[s])
      BY <3>2, <3>3, ContentsStep
    <3>5. m.type \in {"A", "J"} /\ \E row : shown' = [shown EXCEPT ![row] = m.id]
      BY <2>2, <3>1, <3>2 DEF ClientRead, ShowAnswer, ShowRequest
    <3>6. shown'[r] = m.id
      BY <2>2, <3>5 DEF Flow, FlowOK, RowsOK
    <3>7. Answered(m.id)'
      BY <1>4, <3>4, <3>5, <3>6, AnswersStay DEF ShownRight
    <3> QED BY <3>6, <3>7 DEF Answered
  <2> QED BY <2>1, <2>2
<1> QED BY <1>3, <1>4 DEF ShownRight

(* Every step keeps the cancels made from their rows.                      *)
LEMMA CancelsStayMade ==
    ASSUME Flow, Flow', Grows, ShownRight, CancelsMade, [Next]_vars PROVE CancelsMade'
<1> SUFFICES ASSUME NEW o \in Orders, NEW i \in Ids \union {NoId}, OnWay(i, o)' > 0
             PROVE  o \in Known' /\ (i # NoId => Answered(i)')
  BY DEF CancelsMade
<1>1. OnWay(i, o) \in Nat /\ OnWay(i, o)' \in Nat
  BY OnWayTyped DEF Flow, FlowOK
<1>2. o \in Known /\ (i # NoId => Answered(i))
  <2>1. CASE OnWay(i, o)' <= OnWay(i, o)
    BY <1>1, <2>1 DEF CancelsMade
  <2>2. ASSUME NEW s \in Sessions, SendCancel(s, o), i = shown[o]
        PROVE  o \in Known /\ (i # NoId => Answered(i))
    BY <2>2 DEF SendCancel, ShownRight, Known
  <2> QED BY <2>1, <2>2, StepOnWay
<1> QED BY <1>2, AnswersStay DEF Grows

(* Finitely many cancels were sent.                                        *)
LEMMA CancelsFinite ==
    ASSUME Flow, NEW o, NEW i
    PROVE  IsFiniteSet(CancelsOf(o, i)) /\ Cardinality(CancelsOf(o, i)) \in Nat
  BY FS_Subset, FS_CardinalityType DEF Flow, CancelsOf

(* SendCancel adds the next cancel of its row and ORDERID, and no other.   *)
LEMMA CancelAdded ==
    ASSUME Flow, CancelsCounted, NEW s \in Sessions, NEW p \in Orders, SendCancel(s, p),
           NEW h, h = shown[p], NEW n, n = Cardinality(CancelsOf(p, h))
    PROVE  /\ n \in Nat /\ Cardinality(CancelsOf(p, h)') = n + 1
           /\ cancels' = cancels \union {[of |-> p, id |-> h, nth |-> n + 1]}
           /\ \A o, i : ~(o = p /\ i = h) => CancelsOf(o, i)' = CancelsOf(o, i)
<1>1. PICK new : new = [of |-> p, id |-> h, nth |-> n + 1]
  OBVIOUS
<1>2. cancels' = cancels \union {new}
  BY <1>1 DEF SendCancel, CancelsOf
<1>3. n \in Nat /\ new \notin CancelsOf(p, h) /\ IsFiniteSet(CancelsOf(p, h))
  <2>1. \A c \in CancelsOf(p, h) : c.nth \in 1..n
    BY DEF CancelsCounted, CancelsOf
  <2> QED BY <1>1, <2>1, CancelsFinite
<1>4. CancelsOf(p, h)' = CancelsOf(p, h) \union {new}
  BY <1>1, <1>2 DEF CancelsOf
<1>5. Cardinality(CancelsOf(p, h)') = n + 1
  BY <1>3, <1>4, FS_AddElement
<1>6. \A o, i : ~(o = p /\ i = h) => CancelsOf(o, i)' = CancelsOf(o, i)
  BY <1>1, <1>2 DEF CancelsOf
<1> QED BY <1>1, <1>2, <1>3, <1>5, <1>6

(* Every step keeps the cancels counted.                                   *)
LEMMA CancelsStayCounted ==
    ASSUME Flow, Flow', Grows, CancelsCounted, [Next]_vars PROVE CancelsCounted'
<1>1. LinksOK'
  BY DEF Flow, FlowOK
<1>2. ASSUME NEW s \in Sessions, NEW p \in Orders, SendCancel(s, p) PROVE CancelsCounted'
  <2>1. PICK h : h = shown[p]
    OBVIOUS
  <2>2. PICK n : n = Cardinality(CancelsOf(p, h))
    OBVIOUS
  <2>3. /\ n \in Nat /\ Cardinality(CancelsOf(p, h)') = n + 1
        /\ cancels' = cancels \union {[of |-> p, id |-> h, nth |-> n + 1]}
        /\ \A o, i : ~(o = p /\ i = h) => CancelsOf(o, i)' = CancelsOf(o, i)
    BY <1>2, <2>1, <2>2, CancelAdded
  <2>4. ASSUME NEW c \in cancels' PROVE c.nth \in 1..Cardinality(CancelsOf(c.of, c.id)')
    <3>1. CASE c = [of |-> p, id |-> h, nth |-> n + 1]
      BY <2>3, <3>1
    <3>2. CASE c \in cancels /\ c.of = p /\ c.id = h
      BY <2>2, <2>3, <3>2 DEF CancelsCounted
    <3>3. CASE c \in cancels /\ ~(c.of = p /\ c.id = h)
      BY <2>3, <3>3 DEF CancelsCounted
    <3> QED BY <2>3, <3>1, <3>2, <3>3
  <2>5. ASSUME NEW o \in Orders, NEW i \in Ids \union {NoId}
        PROVE  OnWay(i, o)' <= Cardinality(CancelsOf(o, i)')
    <3>1. OnWay(i, o)' = OnWay(i, o) + (IF i = h /\ o = p THEN 1 ELSE 0)
      BY <1>1, <1>2, <2>1, CancelOnWay
    <3>2. OnWay(i, o) <= Cardinality(CancelsOf(o, i)) /\ OnWay(i, o) \in Nat
      BY <1>1, OnWayTyped DEF CancelsCounted
    <3>3. CASE i = h /\ o = p
      BY <2>2, <2>3, <3>1, <3>2, <3>3
    <3>4. CASE ~(i = h /\ o = p)
      BY <2>3, <3>1, <3>2, <3>4
    <3> QED BY <3>3, <3>4
  <2> QED BY <2>4, <2>5 DEF CancelsCounted
<1>3. CASE ~\E s \in Sessions : \E p \in Orders : SendCancel(s, p)
  <2>1. cancels' = cancels
    BY <1>3, StepCases DEF StandStill, ClientMoves, Connect, Disconnect, ClientRead, SendOrder, SendApproval,
         GatewayMoves, TreatLogon, CountOrder, LoadOrderId, QueueMessage, OnNewOrder, OnCancelOrder,
         OnApproved, DispatcherReply, DispatcherSide, OnConnection, OnOrder, OnCancel, OnApproval,
         EngineSide, EngineOrder, EngineCancel, EngineVarsKept, clientVars
  <2>2. \A o, i : CancelsOf(o, i)' = CancelsOf(o, i)
    BY <2>1 DEF CancelsOf
  <2>3. ASSUME NEW o \in Orders, NEW i \in Ids \union {NoId}
        PROVE  OnWay(i, o)' <= Cardinality(CancelsOf(o, i))
    <3>1. OnWay(i, o)' <= OnWay(i, o)
      BY <1>3, StepOnWay
    <3>2. OnWay(i, o) <= Cardinality(CancelsOf(o, i)) /\ OnWay(i, o) \in Nat /\ OnWay(i, o)' \in Nat
          /\ Cardinality(CancelsOf(o, i)) \in Nat
      BY <1>1, OnWayTyped, CancelsFinite DEF CancelsCounted
    <3> QED BY <3>1, <3>2
  <2> QED BY <2>1, <2>2, <2>3 DEF CancelsCounted
<1> QED BY <1>2, <1>3

(* Every step keeps the ladder right.                                      *)
LEMMA BookedStaysRight ==
    ASSUME Flow, Flow', Grows, BookedRight, [Next]_vars PROVE BookedRight'
<1>1. ASSUME NEW i \in Ids, booked[i] # 0 PROVE orderId'[booked[i]] = i /\ booked[i] \in Orders
  <2>1. booked[i] \in Orders /\ i # NoId
    BY <1>1, FlowAssumption DEF Flow, FlowOK, ServersOK, Ids, NoId
  <2>2. orderId[booked[i]] = i
    BY <1>1 DEF BookedRight
  <2> QED BY <2>1, <2>2 DEF Grows
<1>2. CASE booked' = booked
  BY <1>1, <1>2 DEF BookedRight
<1>3. CASE EngineOrder
  <2> DEFINE o == Head(toEngine).order
  <2>1. o \in Orders /\ orderId[o] \in Ids
    BY <1>3, EngineOrderMoves
  <2>2. booked' = [booked EXCEPT ![orderId[o]] = IF @ = 0 THEN o ELSE @] /\ orderId' = orderId
    BY <1>3 DEF EngineOrder, EngineVarsKept, numberVars
  <2> HIDE DEF o
  <2>3. booked \in [Ids -> Orders \union {0}]
    BY DEF Flow, FlowOK, ServersOK
  <2> QED BY <1>1, <2>1, <2>2, <2>3 DEF BookedRight
<1>4. CASE EngineCancel
  <2>1. \A i \in Ids : booked'[i] = 0 \/ booked'[i] = booked[i]
    BY <1>4 DEF EngineCancel
  <2> QED BY <1>1, <2>1 DEF BookedRight
<1>5. booked' = booked \/ EngineOrder \/ EngineCancel
  BY StepCases DEF StandStill, ClientMoves, Connect, Disconnect, ClientRead, SendOrder, SendCancel, SendApproval,
         GatewayMoves, TreatLogon, CountOrder, LoadOrderId, QueueMessage, OnNewOrder, OnCancelOrder,
         OnApproved, DispatcherReply, DispatcherSide, OnConnection, OnOrder, OnCancel, OnApproval,
         EngineSide, engineVars
<1> QED BY <1>2, <1>3, <1>4, <1>5

-----------------------------------------------------------------------------
(* A direct order that nothing else concerns: its ORDERID is its own, no   *)
(* order is unlisted, and it is cancelled once.                            *)
Clean(o) ==
    /\ \A p \in Known \ {o} : orderId[p] # orderId[o] /\ sent[p].kind # "unlisted"
    /\ \A d \in cancels : d.id = orderId[o] => d.of = o /\ d.nth <= 1
(* A direct order that nothing else concerns, accepted.                    *)
Plain(o) == o \in accepted /\ sent[o].kind = "direct" /\ Clean(o)

(* a is in the link, and no b is before it.                                *)
Ahead(q, a, b) == \E k \in DOMAIN q : q[k] = a /\ \A j \in DOMAIN q : q[j] = b => k < j
(* The cancel of an order under its ORDERID.                               *)
Own(o) == CancelMessage(orderId[o], o)
(* The order a is on its way before the cancel b.                          *)
Follows(a, b) ==
    \/ Ahead(toEngine, a, b)
    \/ Ahead(toDispatcher, a, b) /\ b \notin Contents(toEngine)
(* A plain order reaches the MatchingEngine before its cancel.             *)
CancelsBehind ==
    \A o \in Orders : Plain(o) /\ delivered[o] = 0 => Follows(OrderMessage(o), Own(o))
(* A plain order that left the ladder was cancelled.                       *)
CancelsDone ==
    \A o \in Orders : Plain(o) /\ delivered[o] > 0 /\ booked[orderId[o]] # o =>
        OnWay(orderId[o], o) + 1 <= Cardinality(CancelsOf(o, orderId[o]))

-----------------------------------------------------------------------------

(* A message that joins a link goes behind what is there.                  *)
LEMMA AheadAppend ==
    ASSUME NEW M, NEW q \in Seq(M), NEW n \in M, NEW a, NEW b
    PROVE  /\ Ahead(q, a, b) => Ahead(Append(q, n), a, b)
           /\ n = a /\ b \notin Contents(q) /\ a # b => Ahead(Append(q, n), a, b)
<1>1. DOMAIN q = 1..Len(q) /\ Len(q) \in Nat
  BY LenProperties
<1>2. /\ Append(q, n) \in Seq(M) /\ Len(Append(q, n)) = Len(q) + 1
      /\ \A j \in 1..Len(q) : Append(q, n)[j] = q[j]
      /\ Append(q, n)[Len(q) + 1] = n
  BY AppendProperties
<1>3. DOMAIN Append(q, n) = 1..Len(q) + 1
  BY <1>2, LenProperties
<1>4. \A j \in 1..Len(q) + 1 : j \in 1..Len(q) \/ j = Len(q) + 1
  BY <1>1
<1>5. ASSUME Ahead(q, a, b) PROVE Ahead(Append(q, n), a, b)
  <2>1. PICK k \in 1..Len(q) : q[k] = a /\ \A j \in 1..Len(q) : q[j] = b => k < j
    BY <1>1, <1>5 DEF Ahead
  <2>2. k \in 1..Len(q) + 1 /\ Append(q, n)[k] = a /\ k < Len(q) + 1
    BY <1>1, <1>2, <2>1
  <2>3. \A j \in 1..Len(q) + 1 : Append(q, n)[j] = b => k < j
    BY <1>2, <1>4, <2>1, <2>2
  <2> QED BY <1>3, <2>2, <2>3 DEF Ahead
<1>6. ASSUME n = a, b \notin Contents(q), a # b PROVE Ahead(Append(q, n), a, b)
  <2>1. \A j \in 1..Len(q) : q[j] # b
    BY <1>1, <1>6 DEF Contents
  <2>2. \A j \in 1..Len(q) + 1 : Append(q, n)[j] # b
    BY <1>2, <1>4, <1>6, <2>1
  <2>3. Len(q) + 1 \in 1..Len(q) + 1
    BY <1>1
  <2> QED BY <1>2, <1>3, <1>6, <2>2, <2>3 DEF Ahead
<1> QED BY <1>5, <1>6

(* What is ahead stays ahead until it is taken.                            *)
LEMMA AheadTail ==
    ASSUME NEW M, NEW q \in Seq(M), q # <<>>, NEW a, NEW b, Ahead(q, a, b)
    PROVE  Head(q) # b /\ (Head(q) # a => Ahead(Tail(q), a, b))
<1>1. DOMAIN q = 1..Len(q) /\ Len(q) \in Nat /\ Len(q) # 0
  BY LenProperties, EmptySeq
<1>2. /\ Tail(q) \in Seq(M) /\ Len(Tail(q)) = Len(q) - 1 /\ Head(q) = q[1]
      /\ \A j \in 1..Len(Tail(q)) : Tail(q)[j] = q[j + 1]
  BY HeadTailProperties
<1>3. DOMAIN Tail(q) = 1..Len(q) - 1
  BY <1>2, LenProperties
<1>4. PICK k \in 1..Len(q) : q[k] = a /\ \A j \in 1..Len(q) : q[j] = b => k < j
  BY <1>1 DEF Ahead
<1>5. Head(q) # b
  BY <1>1, <1>2, <1>4
<1>6. ASSUME Head(q) # a PROVE Ahead(Tail(q), a, b)
  <2>1. k # 1 /\ k - 1 \in 1..Len(q) - 1
    BY <1>1, <1>2, <1>4, <1>6
  <2>2. Tail(q)[k - 1] = a
    BY <1>1, <1>2, <1>4, <2>1
  <2>3. \A j \in 1..Len(q) - 1 : j + 1 \in 1..Len(q) /\ Tail(q)[j] = q[j + 1]
    BY <1>1, <1>2
  <2>4. \A j \in 1..Len(q) - 1 : Tail(q)[j] = b => k - 1 < j
    BY <1>1, <1>4, <2>3
  <2> QED BY <1>3, <2>1, <2>2, <2>4 DEF Ahead
<1> QED BY <1>5, <1>6

-----------------------------------------------------------------------------
(* What a step makes plain was so before, unless it accepts the order.     *)
LEMMA WasPlain ==
    ASSUME Flow, Flow', Grows, NEW o \in Orders, Plain(o)', o \in Known, orderId[o] # NoId
    PROVE  /\ sent[o].kind = "direct" /\ Clean(o) /\ orderId'[o] = orderId[o] /\ Own(o)' = Own(o)
<1>1. sent'[o] = sent[o] /\ orderId'[o] = orderId[o]
  BY SentStays DEF Grows
<1>2. ASSUME NEW p \in Known \ {o}
      PROVE  orderId[p] # orderId[o] /\ sent[p].kind # "unlisted"
  <2>1. p \in Known' \ {o} /\ sent'[p] = sent[p] /\ p \in Orders
    BY <1>2, SentStays, KnownOrders DEF Flow, FlowOK
  <2>2. orderId'[p] # orderId'[o] /\ sent'[p].kind # "unlisted"
    BY <2>1 DEF Plain, Clean
  <2> QED BY <1>1, <2>1, <2>2 DEF Grows
<1>3. \A d \in cancels : d.id = orderId[o] => d.of = o /\ d.nth <= 1
  BY <1>1 DEF Plain, Clean, Grows
<1>4. Own(o)' = Own(o)
  BY <1>1 DEF Own, CancelMessage
<1> QED BY <1>1, <1>2, <1>3, <1>4 DEF Plain, Clean

(* A cancel of a plain order that was made from its row is its own, and    *)
(* was made after its acceptance.                                          *)
LEMMA OwnCancels ==
    ASSUME Flow, CancelsMade, NEW o \in Orders, o \in Known, orderId[o] # NoId, Clean(o),
           sent[o].kind = "direct", OnWay(orderId[o], o) > 0
    PROVE  o \in accepted
<1>1. orderId[o] \in Ids
  BY DEF Flow, FlowOK, ServersOK
<1>2. Answered(orderId[o])
  BY <1>1 DEF CancelsMade
<1>3. ~AnyUnlisted
  BY DEF AnyUnlisted, Clean
<1>4. PICK p \in accepted : orderId[p] = orderId[o]
  BY <1>2, <1>3 DEF Answered
<1>5. p \in Known
  BY DEF Flow, FlowOK, ServersOK, OrdersPlaced, NumberedAreSent
<1> QED BY <1>4, <1>5 DEF Clean

-----------------------------------------------------------------------------
(* What is in a link counts.                                               *)
LEMMA Heard ==
    ASSUME LinksOK, NEW m
    PROVE  /\ m \in Contents(toDispatcher) => InDispatcher(m) > 0
           /\ m \in Contents(toEngine) => InEngine(m) > 0
<1>1. One(toDispatcher) \in [{1} -> Seq(Messages)] /\ One(toEngine) \in [{1} -> Seq(Messages)]
  BY OneTyped DEF LinksOK
<1>2. One(toDispatcher)[1] = toDispatcher /\ One(toEngine)[1] = toEngine
  BY DEF One
<1>3. ASSUME m \in Contents(toDispatcher) PROVE InDispatcher(m) > 0
  <2>1. PICK j \in DOMAIN One(toDispatcher)[1] : One(toDispatcher)[1][j] = m
    BY <1>2, <1>3 DEF Contents
  <2> QED BY <1>1, <2>1, FS_Singleton, CountPositive DEF InDispatcher
<1>4. ASSUME m \in Contents(toEngine) PROVE InEngine(m) > 0
  <2>1. PICK j \in DOMAIN One(toEngine)[1] : One(toEngine)[1][j] = m
    BY <1>2, <1>4 DEF Contents
  <2> QED BY <1>1, <2>1, FS_Singleton, CountPositive DEF InEngine
<1> QED BY <1>3, <1>4

(* An order stays ahead of its cancels until it is delivered.              *)
LEMMA FollowsStep ==
    ASSUME Flow, Flow', [Next]_vars, NEW o \in Orders, sent[o].kind = "direct", delivered'[o] = 0,
           NEW b, b.type = "C", Follows(OrderMessage(o), b)
    PROVE  Follows(OrderMessage(o), b)'
<1> DEFINE a == OrderMessage(o)
<1>1. /\ toDispatcher \in Seq(Messages) /\ toEngine \in Seq(Messages)
      /\ a.type = "O" /\ a.order = o /\ a # b
  <2>1. toDispatcher \in Seq(Messages) /\ toEngine \in Seq(Messages)
    BY DEF Flow, FlowOK, LinksOK
  <2>2. a.type = "O" /\ a.order = o
    BY DEF OrderMessage
  <2> QED BY <2>1, <2>2
<1> HIDE DEF a
<1>2. Follows(a, b)
  BY DEF a
<1> SUFFICES Follows(a, b)'
  BY DEF a
<1>3. ASSUME UNCHANGED <<toDispatcher, toEngine>> PROVE Follows(a, b)'
  BY <1>2, <1>3 DEF Follows
<1>4. ASSUME NEW n \in Messages, Forward(n), UNCHANGED toEngine PROVE Follows(a, b)'
  BY <1>1, <1>2, <1>4, AheadAppend DEF Follows, Forward
<1>5. ASSUME toDispatcher # <<>>, toDispatcher' = Tail(toDispatcher), Head(toDispatcher) # a
      PROVE  /\ toEngine' = toEngine => Follows(a, b)'
             /\ \A n \in Messages : toEngine' = Append(toEngine, n) /\ n # b => Follows(a, b)'
             /\ toEngine' = Append(toEngine, Head(toDispatcher)) => Follows(a, b)'
  <2>1. CASE Ahead(toEngine, a, b)
    <3>1. \A n \in Messages : Ahead(Append(toEngine, n), a, b)
      BY <1>1, <2>1, AheadAppend
    <3>2. Head(toDispatcher) \in Messages
      BY <1>1, <1>5, SeqTail
    <3> QED BY <2>1, <3>1, <3>2 DEF Follows
  <2>2. CASE Ahead(toDispatcher, a, b) /\ b \notin Contents(toEngine)
    <3>1. Head(toDispatcher) # b /\ Ahead(Tail(toDispatcher), a, b) /\ Head(toDispatcher) \in Messages
      BY <1>1, <1>5, <2>2, AheadTail, SeqTail
    <3>2. \A n \in Messages : n # b => b \notin Contents(Append(toEngine, n))
      BY <1>1, <2>2, ContentsStep
    <3> QED BY <1>5, <2>2, <3>1, <3>2 DEF Follows
  <2> QED BY <1>2, <2>1, <2>2 DEF Follows
<1>6. ASSUME toEngine # <<>>, toEngine' = Tail(toEngine), Head(toEngine) # a, UNCHANGED toDispatcher
      PROVE  Follows(a, b)'
  <2>1. Ahead(toEngine, a, b) => Ahead(Tail(toEngine), a, b)
    BY <1>1, <1>6, AheadTail
  <2>2. Contents(Tail(toEngine)) \subseteq Contents(toEngine)
    BY <1>1, <1>6, ContentsStep
  <2> QED BY <1>2, <1>6, <2>1, <2>2 DEF Follows
<1>7. CASE StandStill \/ ClientMoves
  BY <1>3, <1>7 DEF StandStill, ClientMoves, Connect, Disconnect, ClientRead, SendOrder, SendCancel,
                    SendApproval, dispatcherVars, engineVars
<1>8. CASE GatewayMoves
  <2>1. ASSUME NEW s \in Sessions, TreatLogon(s) PROVE Follows(a, b)'
    <3>1. toDispatcher' = toDispatcher \/ Forward(Information(s))
      BY <2>1 DEF TreatLogon, Forward
    <3>2. Information(s) \in Messages /\ UNCHANGED toEngine
      BY <2>1, AreMessages DEF TreatLogon, engineVars
    <3> QED BY <1>3, <1>4, <3>1, <3>2
  <2>2. ASSUME NEW s \in Sessions, CountOrder(s) \/ LoadOrderId(s) \/ QueueMessage(s)
        PROVE  Follows(a, b)'
    BY <1>3, <2>2 DEF CountOrder, LoadOrderId, QueueMessage, dispatcherVars, engineVars
  <2>3. ASSUME NEW s \in Sessions, OnNewOrder(s) PROVE Follows(a, b)'
    <3> DEFINE p == Head(gatewayQueue[s]).order
    <3>1. p \in Orders
      BY <2>3, OnNewOrderMoves
    <3>2. (toDispatcher' = toDispatcher \/ Forward(OrderMessage(p))) /\ UNCHANGED toEngine
      BY <2>3 DEF OnNewOrder, engineVars
    <3> HIDE DEF p
    <3> QED BY <1>3, <1>4, <3>1, <3>2, AreMessages
  <2>4. ASSUME NEW s \in Sessions, OnCancelOrder(s) \/ OnApproved(s) PROVE Follows(a, b)'
    <3>1. Head(gatewayQueue[s]) \in Messages
      BY <2>4, OnCancelOrderMoves, OnApprovedMoves
    <3>2. (toDispatcher' = toDispatcher \/ Forward(Head(gatewayQueue[s]))) /\ UNCHANGED toEngine
      BY <2>4 DEF OnCancelOrder, OnApproved, engineVars
    <3> QED BY <1>3, <1>4, <3>1, <3>2
  <2>5. CASE DispatcherReply
    BY <1>3, <2>5 DEF DispatcherReply, engineVars
  <2> QED BY <1>8, <2>1, <2>2, <2>3, <2>4, <2>5 DEF GatewayMoves
<1>9. CASE OnConnection \/ OnCancel
  <2>1. /\ toDispatcher # <<>> /\ toDispatcher' = Tail(toDispatcher) /\ Head(toDispatcher) # a
        /\ toEngine' = toEngine \/ toEngine' = Append(toEngine, Head(toDispatcher))
    BY <1>1, <1>9 DEF OnConnection, OnCancel, Receive, engineVars
  <2> QED BY <1>5, <2>1
<1>10. CASE OnApproval
  <2> DEFINE i == Head(toDispatcher).id
  <2>1. toDispatcher # <<>> /\ toDispatcher' = Tail(toDispatcher) /\ Head(toDispatcher) # a
    BY <1>1, <1>10 DEF OnApproval, Receive
  <2>2. \/ toEngine' = toEngine
        \/ pending[i] # 0 /\ toEngine' = Append(toEngine, OrderMessage(pending[i]))
    BY <1>10 DEF OnApproval
  <2>3. i \in Ids
    BY <1>10, OnApprovalMoves
  <2>4. \A n \in Messages : toEngine' = Append(toEngine, n) /\ n # b => Follows(a, b)'
    BY <1>5, <2>1
  <2>5. pending[i] # 0 => OrderMessage(pending[i]) \in Messages /\ OrderMessage(pending[i]) # b
    BY <2>3, AreMessages, Types DEF Flow, FlowOK, ServersOK
  <2>6. toEngine' = toEngine => Follows(a, b)'
    BY <1>5, <2>1
  <2> QED BY <2>2, <2>4, <2>5, <2>6
<1>11. CASE OnOrder
  <2> DEFINE h == Head(toDispatcher)
  <2>1. /\ toDispatcher # <<>> /\ toDispatcher' = Tail(toDispatcher)
        /\ h.type = "O" /\ h \in Messages
    BY <1>1, <1>11, SeqTail DEF OnOrder, Receive
  <2>2. h = OrderMessage(h.order) /\ OrderMessage(h.order) # b
    BY <2>1, Shapes, Types
  <2>3. CASE h # a
    <3>1. toEngine' = toEngine \/ toEngine' = Append(toEngine, h)
      BY <1>11, <2>2 DEF OnOrder
    <3> QED BY <1>5, <2>1, <2>3, <3>1
  <2>4. CASE h = a
    <3>1. toEngine' = Append(toEngine, a)
      BY <1>1, <1>11, <2>2, <2>4 DEF OnOrder
    <3>2. a \in Messages
      BY <2>1, <2>4
    <3>3. Ahead(Append(toEngine, a), a, b)
      BY <1>1, <1>2, <3>2, AheadAppend DEF Follows
    <3> QED BY <3>1, <3>3 DEF Follows
  <2> QED BY <2>3, <2>4
<1>12. CASE EngineOrder
  <2> DEFINE p == Head(toEngine).order
  <2>1. p \in Orders /\ delivered' = [delivered EXCEPT ![p] = @ + 1] /\ delivered[p] \in Nat
    BY <1>12, EngineOrderMoves, OrderCounts DEF EngineOrder
  <2>2. p # o
    BY <2>1 DEF Flow, FlowOK, ServersOK
  <2>3. toEngine # <<>> /\ toEngine' = Tail(toEngine) /\ UNCHANGED toDispatcher
    BY <1>12 DEF EngineOrder, EngineVarsKept, dispatcherVars
  <2>4. Head(toEngine) # a
    BY <1>1, <2>2
  <2> QED BY <1>6, <2>3, <2>4
<1>13. CASE EngineCancel
  <2>1. /\ toEngine # <<>> /\ toEngine' = Tail(toEngine) /\ UNCHANGED toDispatcher
        /\ Head(toEngine) # a
    BY <1>1, <1>13 DEF EngineCancel, EngineVarsKept, dispatcherVars
  <2> QED BY <1>6, <2>1
<1> QED BY <1>7, <1>8, <1>9, <1>10, <1>11, <1>12, <1>13, StepCases
    DEF DispatcherSide, EngineSide

(* What is delivered, and what a step accepts.                             *)
LEMMA StepDelivers ==
    ASSUME Flow, [Next]_vars, NEW o \in Orders
    PROVE  \/ delivered'[o] = delivered[o]
           \/ EngineOrder /\ Head(toEngine).order = o /\ delivered'[o] = delivered[o] + 1
<1>1. CASE EngineOrder
  BY <1>1 DEF EngineOrder, Flow, FlowOK, ServersOK
<1>2. delivered' = delivered \/ EngineOrder
  BY StepCases DEF StandStill, ClientMoves, Connect, Disconnect, ClientRead, SendOrder, SendCancel, SendApproval,
         GatewayMoves, TreatLogon, CountOrder, LoadOrderId, QueueMessage, OnNewOrder, OnCancelOrder,
         OnApproved, DispatcherReply, DispatcherSide, OnConnection, OnOrder, OnCancel, OnApproval,
         EngineSide, EngineCancel, engineVars
<1> QED BY <1>1, <1>2

(* Only OnNewOrder accepts, and it forwards what it accepts.               *)
LEMMA StepAccepts ==
    ASSUME Flow, [Next]_vars, NEW o \in accepted', o \notin accepted
    PROVE  \E s \in Sessions : /\ OnNewOrder(s) /\ o = Head(gatewayQueue[s]).order
                               /\ Forward(OrderMessage(o))
<1>1. PICK s \in Sessions : OnNewOrder(s)
  BY StepCases DEF StandStill, ClientMoves, Connect, Disconnect, ClientRead, SendOrder, SendCancel, SendApproval,
         GatewayMoves, TreatLogon, CountOrder, LoadOrderId, QueueMessage, OnCancelOrder,
         OnApproved, DispatcherReply, DispatcherSide, OnConnection, OnOrder, OnCancel, OnApproval,
         EngineSide, EngineOrder, EngineCancel, EngineVarsKept
<1> QED BY <1>1 DEF OnNewOrder

(* An order that a step makes plain, or that stays so.                     *)
LEMMA PlainStep ==
    ASSUME Flow, Flow', Grows, [Next]_vars, NEW o \in Orders, Plain(o)'
    PROVE  /\ o \in Known /\ orderId[o] # NoId /\ orderId[o] \in Ids
           /\ sent[o].kind = "direct" /\ Clean(o) /\ orderId'[o] = orderId[o] /\ Own(o)' = Own(o)
<1>1. o \in Known /\ orderId[o] # NoId
  <2>1. CASE o \in accepted
    BY <2>1, AcceptedStay DEF Ids, Flow, OrdersPlaced, NumberedAreSent
  <2>2. CASE o \notin accepted
    BY <2>2, StepAccepts, OnNewOrderMoves DEF Plain
  <2> QED BY <2>1, <2>2
<1> QED BY <1>1, WasPlain DEF Flow, FlowOK, ServersOK

(* Every step keeps a plain order before its cancel.                       *)
LEMMA CancelsStayBehind ==
    ASSUME Flow, Flow', Grows, CancelsMade, CancelsBehind, [Next]_vars PROVE CancelsBehind'
<1> SUFFICES ASSUME NEW o \in Orders, Plain(o)', delivered'[o] = 0
             PROVE  Follows(OrderMessage(o), Own(o))'
  BY DEF CancelsBehind
<1>1. /\ o \in Known /\ orderId[o] # NoId /\ orderId[o] \in Ids
      /\ sent[o].kind = "direct" /\ Clean(o) /\ orderId'[o] = orderId[o] /\ Own(o)' = Own(o)
  BY PlainStep
<1>2. PICK b : b = Own(o)
  OBVIOUS
<1>3. b.type = "C"
  BY <1>2, Types DEF Own
<1>4. Follows(OrderMessage(o), b)'
  <2>1. CASE o \in accepted
    <3>1. delivered[o] = 0
      BY StepDelivers, OrderCounts
    <3>2. Follows(OrderMessage(o), b)
      BY <1>1, <1>2, <2>1, <3>1 DEF CancelsBehind, Plain
    <3> QED BY <1>1, <1>3, <3>2, FollowsStep
  <2>2. CASE o \notin accepted
    <3>1. PICK s \in Sessions : OnNewOrder(s) /\ Forward(OrderMessage(o))
      BY <2>2, StepAccepts DEF Plain
    <3>2. ~(OnWay(orderId[o], o) > 0)
      BY <1>1, <2>2, OwnCancels
    <3>3. InDispatcher(b) = 0 /\ InEngine(b) = 0
      BY <1>2, <3>2, OnWayTyped DEF OnWay, Own, Flow, FlowOK
    <3>4. b \notin Contents(toDispatcher) /\ b \notin Contents(toEngine)
      BY <3>3, Heard DEF Flow, FlowOK
    <3>5. toDispatcher \in Seq(Messages) /\ OrderMessage(o) \in Messages /\ OrderMessage(o) # b
      BY <1>3, AreMessages, Types DEF Flow, FlowOK, LinksOK
    <3>6. Ahead(Append(toDispatcher, OrderMessage(o)), OrderMessage(o), b)
      BY <3>4, <3>5, AheadAppend
    <3>7. toEngine' = toEngine
      BY <3>1 DEF OnNewOrder, engineVars
    <3> QED BY <3>1, <3>4, <3>6, <3>7 DEF Follows, Forward
  <2> QED BY <2>1, <2>2
<1> QED BY <1>1, <1>2, <1>4 DEF Follows

(* A cancel that something else concerns, too.                             *)
Stray(c) ==
    \/ c.id = NoId
    \/ sent[c.of].kind # "direct"
    \/ \E d \in cancels : d.id = c.id /\ d.nth > 1
    \/ \E d \in cancels : d.id = c.id /\ d.of # c.of
    \/ \E o \in 1..Len(sent) \ {c.of} : orderId[o] = c.id \/ sent[o].kind = "unlisted"
(* The cancel that ended the MatchingEngine was such a one.                *)
DownStray == down # None => down[1].of \in Known /\ Stray(down[1])

(* The third layer.                                                        *)
Cancelled ==
    ShownRight /\ CancelsMade /\ CancelsCounted /\ BookedRight /\ CancelsBehind /\ CancelsDone /\ DownStray

-----------------------------------------------------------------------------

(* Cancels are never forgotten.                                            *)
LEMMA CancelsGrow ==
    ASSUME Flow, Flow', Grows, NEW o, NEW i
    PROVE  Cardinality(CancelsOf(o, i)) <= Cardinality(CancelsOf(o, i)')
<1>1. CancelsOf(o, i) \subseteq CancelsOf(o, i)'
  BY DEF CancelsOf, Grows
<1>2. IsFiniteSet(CancelsOf(o, i)')
  BY FS_Subset DEF Flow, CancelsOf
<1> QED BY <1>1, <1>2, FS_Subset

(* The cancels on their way, as a number.                                  *)
LEMMA OnWayIsNat == ASSUME Flow, NEW i, NEW o PROVE OnWay(i, o) \in Nat
<1>1. /\ InGateway(CancelMessage(i, o)) \in Nat /\ InQueue(CancelMessage(i, o)) \in Nat
      /\ InDispatcher(CancelMessage(i, o)) \in Nat /\ InEngine(CancelMessage(i, o)) \in Nat
  BY CountsTyped DEF Flow, FlowOK
<1> QED BY <1>1 DEF OnWay

(* The cancel the engine takes for a plain order is its own.               *)
LEMMA TakenIsOwn ==
    ASSUME Flow, CancelsCounted, NEW o \in Orders, Clean(o), orderId[o] \in Ids,
           NEW c \in Messages, c.type = "C", c.id = orderId[o], InEngine(c) > 0
    PROVE  c = Own(o)
<1>1. c = CancelMessage(c.id, c.of) /\ c.of \in Orders /\ c.id \in Ids \union {NoId}
  BY Shapes
<1>2. OnWay(c.id, c.of) > 0 /\ OnWay(c.id, c.of) \in Nat
  <2>1. InGateway(c) \in Nat /\ InQueue(c) \in Nat /\ InDispatcher(c) \in Nat /\ InEngine(c) \in Nat
    BY CountsTyped DEF Flow, FlowOK
  <2>2. OnWay(c.id, c.of) = InGateway(c) + InQueue(c) + InDispatcher(c) + InEngine(c)
    BY <1>1 DEF OnWay
  <2> QED BY <2>1, <2>2
<1>3. Cardinality(CancelsOf(c.of, c.id)) > 0
  BY <1>1, <1>2, CancelsFinite DEF CancelsCounted
<1>4. PICK d \in cancels : d.of = c.of /\ d.id = c.id
  BY <1>3, FS_EmptySet DEF CancelsOf
<1>5. c.of = o
  BY <1>4 DEF Clean
<1> QED BY <1>1, <1>5 DEF Own

(* Every step keeps a plain order on the ladder until its cancel is taken. *)
LEMMA CancelsStayDone ==
    ASSUME Flow, Flow', Grows, CancelsCounted, BookedRight, CancelsDone, [Next]_vars PROVE CancelsDone'
<1> SUFFICES ASSUME NEW o \in Orders, Plain(o)', delivered'[o] > 0, booked'[orderId'[o]] # o
             PROVE  (OnWay(orderId[o], o) + 1 <= Cardinality(CancelsOf(o, orderId[o])))'
  BY DEF CancelsDone
<1>1. PICK i : i = orderId[o]
  OBVIOUS
<1>2. /\ o \in Known /\ i # NoId /\ i \in Ids /\ sent[o].kind = "direct" /\ Clean(o) /\ orderId'[o] = i
  BY <1>1, PlainStep
<1>3. o \in accepted
  <2>1. CASE delivered[o] = 0
    BY <2>1, StepDelivers, EngineOrderMoves
  <2>2. CASE delivered[o] > 0
    BY <2>2, OrderCounts DEF Flow, OrdersPlaced, OnlyAccepted
  <2> QED BY <2>1, <2>2, OrderCounts
<1>4. /\ OnWay(i, o) \in Nat /\ OnWay(i, o)' \in Nat /\ Cardinality(CancelsOf(o, i)) \in Nat
      /\ Cardinality(CancelsOf(o, i)') \in Nat
  <2>1. IsFiniteSet(CancelsOf(o, i)')
    BY FS_Subset DEF Flow, CancelsOf
  <2> QED BY <2>1, OnWayTyped, CancelsFinite, FS_CardinalityType DEF Flow, FlowOK
<1>5. OnWay(i, o) <= Cardinality(CancelsOf(o, i))
  BY <1>2 DEF CancelsCounted
<1>6. booked'[i] # o
  BY <1>2
<1>7. OnWay(i, o)' + 1 <= Cardinality(CancelsOf(o, i)')
  <2>1. CASE delivered[o] = 0
    <3>1. EngineOrder /\ Head(toEngine).order = o
      BY <2>1, StepDelivers
    <3>2. booked' = [booked EXCEPT ![i] = IF @ = 0 THEN o ELSE @]
      BY <1>1, <3>1 DEF EngineOrder
    <3>3. booked[i] # 0 /\ booked[i] # o /\ booked[i] \in Orders
      BY <1>2, <1>6, <3>2 DEF Flow, FlowOK, ServersOK
    <3>4. orderId[booked[i]] = i
      BY <1>2, <3>3 DEF BookedRight
    <3>5. booked[i] \in Known
      BY <1>2, <3>3, <3>4 DEF Flow, OrdersPlaced, NumberedAreSent
    <3> QED BY <1>1, <1>2, <3>3, <3>4, <3>5 DEF Clean
  <2>2. CASE delivered[o] > 0 /\ booked[i] # o
    <3>1. OnWay(i, o) + 1 <= Cardinality(CancelsOf(o, i))
      BY <1>1, <1>2, <1>3, <2>2 DEF CancelsDone, Plain
    <3>2. CASE OnWay(i, o)' <= OnWay(i, o)
      BY <1>4, <3>1, <3>2, CancelsGrow
    <3>3. ASSUME NEW s \in Sessions, SendCancel(s, o), i = shown[o]
          PROVE  OnWay(i, o)' + 1 <= Cardinality(CancelsOf(o, i)')
      <4>1. Cardinality(CancelsOf(o, i)') = Cardinality(CancelsOf(o, i)) + 1
        BY <3>3, CancelAdded
      <4>2. OnWay(i, o)' = OnWay(i, o) + 1
        BY <3>3, CancelOnWay DEF Flow, FlowOK
      <4> QED BY <1>4, <3>1, <4>1, <4>2
    <3> QED BY <3>2, <3>3, StepOnWay
  <2>3. CASE booked[i] = o
    <3>1. EngineCancel
      <4>1. EngineOrder => booked'[i] = o
        <5>1. EngineOrder => booked' = [booked EXCEPT ![orderId[Head(toEngine).order]] =
                                             IF @ = 0 THEN Head(toEngine).order ELSE @]
          BY DEF EngineOrder
        <5>2. o # 0 /\ booked \in [Ids -> Orders \union {0}]
          BY <1>3, FlowAssumption DEF Orders, Flow, FlowOK, ServersOK
        <5> QED BY <1>2, <2>3, <5>1, <5>2
      <4> QED BY <1>6, <2>3, <4>1, StepCases
           DEF StandStill, ClientMoves, Connect, Disconnect, ClientRead, SendOrder, SendCancel,
               SendApproval, GatewayMoves, TreatLogon, CountOrder, LoadOrderId, QueueMessage, OnNewOrder,
               OnCancelOrder, OnApproved, DispatcherReply, DispatcherSide, OnConnection, OnOrder,
               OnCancel, OnApproval, EngineSide, engineVars
    <3>2. PICK c : c = Head(toEngine)
      OBVIOUS
    <3>3. c \in Messages /\ c.type = "C" /\ InEngine(c) > 0
      BY <3>1, <3>2, EngineCancelMoves
    <3>4. c.id = i
      BY <1>2, <1>6, <2>3, <3>1, <3>2 DEF EngineCancel
    <3>5. c = CancelMessage(i, o)
      BY <1>1, <1>2, <3>3, <3>4, TakenIsOwn DEF Own
    <3>6. OnWay(i, o)' = OnWay(i, o) - 1
      <4>1. OnWay(i, o)' = OnWay(i, o) - Is(c, CancelMessage(i, o))
        BY <3>1, <3>2, EngineOnWay DEF Flow, FlowOK
      <4> QED BY <3>5, <4>1 DEF Is
    <3> QED BY <1>4, <1>5, <3>6, CancelsGrow
  <2> QED BY <2>1, <2>2, <2>3, OrderCounts
<1> QED BY <1>2, <1>7 DEF OnWay, CancelsOf

(* The engine takes a cancel of an ORDERID it does not hold.               *)
LEMMA DownByStray ==
    ASSUME Flow, CancelsMade, CancelsCounted, BookedRight, CancelsBehind, CancelsDone, EngineCancel,
           NEW c, c = Head(toEngine), c.id # NoId => booked[c.id] = 0
    PROVE  c.of \in Known /\ Stray(c)
<1>1. /\ c \in Messages /\ c.type = "C" /\ InEngine(c) > 0 /\ toEngine # <<>>
      /\ toEngine \in Seq(Messages)
  BY EngineCancelMoves DEF EngineCancel, Flow, FlowOK, LinksOK
<1>2. PICK o \in Orders, i \in Ids \union {NoId} : o = c.of /\ i = c.id /\ c = CancelMessage(i, o)
  BY <1>1, Shapes
<1>3. OnWay(i, o) > 0
  <2>1. InGateway(c) \in Nat /\ InQueue(c) \in Nat /\ InDispatcher(c) \in Nat /\ InEngine(c) \in Nat
    BY CountsTyped DEF Flow, FlowOK
  <2>2. OnWay(i, o) = InGateway(c) + InQueue(c) + InDispatcher(c) + InEngine(c)
    BY <1>2 DEF OnWay
  <2> QED BY <1>1, <2>1, <2>2
<1>4. o \in Known /\ (i # NoId => Answered(i))
  BY <1>3 DEF CancelsMade
<1>5. ASSUME ~Stray(c) PROVE FALSE
  <2>1. /\ i # NoId /\ sent[o].kind = "direct"
        /\ \A d \in cancels : d.id = i => ~(d.nth > 1) /\ d.of = o
        /\ \A p \in Known \ {o} : orderId[p] # i /\ sent[p].kind # "unlisted"
    BY <1>2, <1>5 DEF Stray, Known
  <2>2. orderId[o] = i /\ o \in accepted
    <3>1. ~AnyUnlisted
      BY <2>1 DEF AnyUnlisted
    <3>2. PICK p \in accepted : orderId[p] = i
      BY <1>4, <2>1, <3>1 DEF Answered
    <3>3. p \in Known
      BY DEF Flow, OrdersPlaced, NumberedAreSent, FlowOK, ServersOK
    <3> QED BY <2>1, <3>2, <3>3
  <2>3. \A d \in cancels : d.nth \in Nat
    BY DEF Flow, FlowOK, RowsOK
  <2>4. Plain(o) /\ Own(o) = c
    BY <1>2, <2>1, <2>2, <2>3 DEF Plain, Clean, Own
  <2>5. CASE delivered[o] = 0
    <3>1. Follows(OrderMessage(o), c)
      BY <2>4, <2>5 DEF CancelsBehind
    <3>2. c \in Contents(toEngine)
      BY <1>1, ContentsStep
    <3>3. ~Ahead(toEngine, OrderMessage(o), c)
      BY <1>1, AheadTail
    <3> QED BY <3>1, <3>2, <3>3 DEF Follows
  <2>6. CASE delivered[o] > 0
    <3>1. booked[i] # o
      BY <1>2, <2>1, FlowAssumption DEF Orders
    <3>2. OnWay(i, o) + 1 <= Cardinality(CancelsOf(o, i))
      BY <2>2, <2>4, <2>6, <3>1 DEF CancelsDone
    <3>3. CancelsOf(o, i) \subseteq {[of |-> o, id |-> i, nth |-> 1]}
      <4> SUFFICES ASSUME NEW d \in cancels, d.of = o, d.id = i
                   PROVE  d = [of |-> o, id |-> i, nth |-> 1]
        BY DEF CancelsOf
      <4>1. d \in [of : Orders, id : Ids \union {NoId}, nth : Nat]
        BY DEF Flow, FlowOK, RowsOK
      <4>2. d.nth \in 1..Cardinality(CancelsOf(o, i)) /\ ~(d.nth > 1)
        BY <2>1 DEF CancelsCounted
      <4>3. d.nth = 1
        BY <4>1, <4>2, CancelsFinite
      <4> QED BY <4>1, <4>3
    <3>4. Cardinality(CancelsOf(o, i)) <= 1
      <4>1. PICK only : only = [of |-> o, id |-> i, nth |-> 1]
        OBVIOUS
      <4>2. IsFiniteSet({only}) /\ Cardinality({only}) = 1
        BY FS_Singleton
      <4> QED BY <3>3, <4>1, <4>2, FS_Subset
    <3> QED BY <1>3, <3>2, <3>4, CancelsFinite, OnWayIsNat
  <2> QED BY <2>5, <2>6, OrderCounts
<1> QED BY <1>2, <1>4, <1>5

(* What makes a cancel a stray one stays.                                  *)
LEMMA StrayStays ==
    ASSUME Flow, Flow', Grows, NEW c, c.of \in Known, Stray(c)
    PROVE  c.of \in Known' /\ Stray(c)'
<1>1. c.of \in Known' /\ sent'[c.of] = sent[c.of]
  BY SentStays
<1>2. CASE c.id = NoId \/ sent[c.of].kind # "direct"
  BY <1>1, <1>2 DEF Stray
<1>3. CASE \E d \in cancels : d.id = c.id /\ (d.nth > 1 \/ d.of # c.of)
  BY <1>1, <1>3 DEF Stray, Grows
<1>4. ASSUME c.id # NoId, NEW o \in Known \ {c.of},
             orderId[o] = c.id \/ sent[o].kind = "unlisted"
      PROVE  Stray(c)'
  <2>1. o \in Known' /\ sent'[o] = sent[o] /\ o \in Orders
    BY SentStays, KnownOrders DEF Flow, FlowOK
  <2>2. orderId[o] = c.id => orderId'[o] = c.id
    BY <1>4, <2>1 DEF Grows
  <2>3. orderId'[o] = c.id \/ sent'[o].kind = "unlisted"
    BY <1>1, <1>4, <2>1, <2>2
  <2> QED BY <2>1, <2>3 DEF Stray, Known
<1> QED BY <1>1, <1>2, <1>3, <1>4 DEF Stray, Known

(* Only a stray cancel ends the MatchingEngine.                            *)
LEMMA DownStaysStray ==
    ASSUME Flow, Flow', Grows, Cancelled, [Next]_vars PROVE DownStray'
<1>1. CASE down' = down
  <2>1. PICK c : c = down[1]
    OBVIOUS
  <2>2. CASE down # None
    <3>1. c.of \in Known /\ Stray(c)
      BY <2>1, <2>2 DEF Cancelled, DownStray
    <3>2. Stray(c)' /\ c.of \in Known'
      BY <3>1, StrayStays
    <3> QED BY <1>1, <2>1, <3>2 DEF DownStray, Stray, Known
  <2> QED BY <1>1, <2>2 DEF DownStray
<1>2. CASE down' # down
  <2>1. EngineCancel
    BY <1>2, StepCases DEF StandStill, ClientMoves, Connect, Disconnect, ClientRead, SendOrder, SendCancel,
         SendApproval, GatewayMoves, TreatLogon, CountOrder, LoadOrderId, QueueMessage, OnNewOrder,
         OnCancelOrder, OnApproved, DispatcherReply, DispatcherSide, OnConnection, OnOrder, OnCancel,
         OnApproval, EngineSide, EngineOrder, engineVars
  <2>2. PICK c : c = Head(toEngine)
    OBVIOUS
  <2>3. down' = <<c>> /\ (c.id # NoId => booked[c.id] = 0)
    BY <1>2, <2>1, <2>2 DEF EngineCancel
  <2>4. c.of \in Known /\ Stray(c)
    BY <2>1, <2>2, <2>3, DownByStray DEF Cancelled
  <2>5. c.of \in Known' /\ Stray(c)'
    BY <2>4, StrayStays
  <2>6. down'[1] = c
    BY <2>3
  <2> QED BY <2>5, <2>6 DEF DownStray, Stray, Known
<1> QED BY <1>1, <1>2

(* No cancel was sent at the start.                                        *)
LEMMA InitCancelled == Init => Cancelled
<1> SUFFICES ASSUME Init PROVE Cancelled
  OBVIOUS
<1>1. \A m : InGateway(m) = 0 /\ InQueue(m) = 0 /\ InDispatcher(m) = 0 /\ InEngine(m) = 0
  BY NothingSent DEF Init, InGateway, InQueue, InDispatcher, InEngine
<1>2. ShownRight
  <2>1. Contents(<<>>) = {}
    BY ContentsStep, EmptySeq
  <2> QED BY <2>1 DEF Init, ShownRight
<1>3. \A i, o : OnWay(i, o) = 0
  BY <1>1 DEF OnWay
<1>4. CancelsMade
  BY <1>3 DEF CancelsMade
<1>5. CancelsCounted
  <2>1. \A o, i : CancelsOf(o, i) = {}
    BY DEF Init, CancelsOf
  <2>2. \A o, i : Cardinality(CancelsOf(o, i)) = 0
    BY <2>1, FS_EmptySet
  <2>3. cancels = {}
    BY DEF Init
  <2> QED BY <1>3, <2>2, <2>3 DEF CancelsCounted
<1>6. BookedRight
  BY DEF Init, BookedRight
<1>7. CancelsBehind /\ CancelsDone
  BY DEF Init, CancelsBehind, CancelsDone, Plain
<1>8. DownStray
  BY DEF Init, DownStray
<1> QED BY <1>2, <1>4, <1>5, <1>6, <1>7, <1>8 DEF Cancelled

(* Every step keeps the third layer.                                       *)
LEMMA NextCancelled == Flow /\ Cancelled /\ [Next]_vars => Cancelled'
<1> SUFFICES ASSUME Flow, Cancelled, [Next]_vars PROVE Cancelled'
  OBVIOUS
<1>1. Flow' /\ Grows
  BY NextFlow, StepGrows
<1>2. ShownRight' /\ CancelsMade' /\ CancelsCounted' /\ BookedRight'
  BY <1>1, ShownStaysRight, CancelsStayMade, CancelsStayCounted, BookedStaysRight DEF Cancelled
<1>3. CancelsBehind' /\ CancelsDone' /\ DownStray'
  BY <1>1, CancelsStayBehind, CancelsStayDone, DownStaysStray DEF Cancelled
<1> QED BY <1>2, <1>3 DEF Cancelled

(* Whatever the number of sessions, orders and cancels, the null order     *)
(* that matching::OrderManager::onCancelOrder dereferences is met only by  *)
(* a stray cancel: one sent before the row showed an ORDERID, a second one *)
(* for an ORDERID, one of an order that does not go straight to the        *)
(* engine, one while an order is not listed, or one whose ORDERID another  *)
(* order has.  A client that cancels each of its listed orders once, and   *)
(* shares no ORDERID, never sends one.                                     *)
THEOREM StrayCancels == Spec => []DownOnlyByStrayCancel
<1>1. Init => Flow /\ Cancelled
  BY InitFlow, InitCancelled
<1>2. Flow /\ Cancelled /\ [Next]_vars => (Flow /\ Cancelled)'
  BY NextFlow, NextCancelled
<1>3. Cancelled => DownOnlyByStrayCancel
  BY DEF Cancelled, DownStray, Stray, DownOnlyByStrayCancel
<1> QED BY <1>1, <1>2, <1>3, PTL DEF Spec
=============================================================================
