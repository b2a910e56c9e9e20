----------------------------- MODULE OrderFlow ------------------------------
(***************************************************************************)
(* The way of an order: Broker (EntryBox, OrderBottleTreeView,             *)
(* ApprovalTreeView) -> Gateway (GatewaySession, gateway::OrderManager) -> *)
(* Dispatcher (dispatcher::OrderManager) -> MatchingEngine, and the        *)
(* replies and requests for approval on their way back.                    *)
(*                                                                         *)
(* A link is FIFO and holds what is in the send ring, on the wire and in   *)
(* the receiver.  The Gateway's accept thread makes a session in steps     *)
(* (stage): subscribed to the Sequencer, its reading thread started, its   *)
(* connection marked, the session inserted in mTCPServerSession; replies   *)
(* find it only then.  A session has, besides its link, a queue of the     *)
(* Sequencer (gatewayQueue): its reading thread stamps a message and       *)
(* pushes it there, the consumer takes it out.  A lookup in one of the two *)
(* maps while the accept thread inserts there is a data race: it finds the *)
(* session or misses it.  The Dispatcher and the MatchingEngine have one   *)
(* session that carries orders, so that its link and its queue are one.    *)
(* Sessions have descriptors of their own; what happens when one is used   *)
(* again is the subject of module Sessions.                                *)
(* At the client a session has views of its own: the rows of the orders    *)
(* sent from it, and the requests for approval that came over it.          *)
(* ORDERIDs count from the Gateway's mServerId.  An order is named by its  *)
(* arrival number; `of` in a cancel is the row it was made from, which the *)
(* program does not send.                                                  *)
(***************************************************************************)
EXTENDS Naturals, SequencesExt, FiniteSetsExt

CONSTANTS
    Sessions,     \* connections to the Gateway
    User,         \* the login each of them uses
    Registered,   \* the users the UserManager knows
    Brokers,      \* those of them whose mType is not "Retail"
    Names,        \* what the field Broker Id may hold, the brokers among it
    Scripts,      \* the sequences of orders that may be sent
    Tags,         \* CLIENTORDERIDs, other than NoTag
    Approvers,    \* the sessions with an approval view
    Acting,       \* the sessions that cancel and approve
    Ending,       \* the sessions whose connection may end
    MaxSubscriptions, \* CONNECTION_MAX_INDEX of the Sequencer
    MaxOrders, MaxApprovals \* bounds of the model; a script bounds the cancels

Orders == 1..MaxOrders
Users  == {User[s] : s \in Sessions}
Kinds  == {"direct", "retail", "unlisted", "algo"}
(* An EntryBox belongs to the view of one session and may send over another *)
(* one; `cancels` bounds how often the row is cancelled.                   *)
Forms  == [view : Sessions, session : Sessions, kind : Kinds, broker : Names, tag : Tags,
           cancels : Nat]
NoId   == 0
NoTag  == 0 \* any CLIENTORDERID that no row has

ASSUME FlowAssumption ==
    /\ IsFiniteSet(Sessions) /\ DOMAIN User = Sessions
    /\ Ending \union Acting \union Approvers \subseteq Sessions
    /\ Brokers \subseteq Registered /\ Brokers \subseteq Names
    /\ \A script \in Scripts : script \in Seq(Forms) /\ Len(script) <= MaxOrders
    /\ MaxOrders \in Nat /\ MaxApprovals \in Nat /\ MaxSubscriptions \in Nat

VARIABLES
    sent,         \* the orders sent so far: view, session, kind, broker, tag
    status,       \* mOrderStatus of an order's row
    shown,        \* mOrderId of an order's row
    requests,     \* per session: ORDERIDs in its approval view
    open,         \* the sessions whose views are open
    state,        \* of a connection: new, connected or closed
    stage,        \* how far the Gateway's accept thread is with a session
    subscribed,   \* the sessions with a queue in the Gateway's Sequencer
    toGateway, toClient,            \* per session
    counter,      \* mOrderId of the Gateway
    loading,      \* per session: the order between fetch_add and load, or 0
    orderId,      \* ORDERID of an order, NoId before it has one
    gatewayQueue, \* per session: its queue of the Gateway's Sequencer
    toDispatcher, fromDispatcher,
    route,        \* mBrokerRoutingData and mRetailRoutingData
    pending,      \* mOrderList of the Dispatcher: ORDERID -> order
    toEngine,
    booked,       \* mOrderList of the MatchingEngine: ORDERID -> order
    down,         \* the cancel that dereferenced null, or None
    accepted,     \* history: orders answered with Accepted
    delivered,    \* history: how often the engine received an order
    cancels,      \* history: the cancels sent, as rows and ORDERIDs
    approvals,    \* history: per ORDERID, approvals sent
    together,     \* history: pairs of orders that were being numbered at once
    missed        \* history: messages dropped by a lookup during an insertion

clientVars     == <<sent, status, shown, requests, cancels, approvals>>
connectVars    == <<open, stage, subscribed>>
sessionVars    == <<state, toGateway, toClient>>
numberVars     == <<counter, loading, orderId, together>>
dispatcherVars == <<toDispatcher, fromDispatcher, route, pending>>
engineVars     == <<toEngine, booked, down, delivered>>
vars == <<clientVars, connectVars, sessionVars, numberVars, gatewayQueue, accepted, missed,
          dispatcherVars, engineVars>>

None == <<>>
Ids  == 1..MaxOrders

Message(type)      == [type |-> type]
OrderMessage(o)    == [type |-> "O", order |-> o]
CancelMessage(i,o) == [type |-> "C", id |-> i, of |-> o]
ApprovedMessage(i) == [type |-> "Y", id |-> i]
Information(s)     == [type |-> "F", user |-> User[s], session |-> s]
RequestApproval(i, s) == [type |-> "W", id |-> i, session |-> s]
Reply(type, t, i)  == [type |-> type, tag |-> t, id |-> i]

Init ==
    /\ sent = <<>> /\ cancels = {}
    /\ status = [o \in Orders |-> "none"]
    /\ shown = [o \in Orders |-> NoId]
    /\ requests = [s \in Sessions |-> {}]
    /\ open = {} /\ subscribed = {} /\ missed = {}
    /\ stage = [s \in Sessions |-> "none"]
    /\ approvals = [i \in Ids |-> 0]
    /\ state = [s \in Sessions |-> "new"]
    /\ toGateway = [s \in Sessions |-> <<>>]
    /\ toClient = [s \in Sessions |-> <<>>]
    /\ counter = 0 /\ together = {}
    /\ loading = [s \in Sessions |-> 0]
    /\ orderId = [o \in Orders |-> NoId]
    /\ gatewayQueue = [s \in Sessions |-> <<>>]
    /\ accepted = {}
    /\ toDispatcher = <<>> /\ fromDispatcher = <<>>
    /\ route = [u \in Users |-> None]
    /\ pending = [i \in Ids |-> 0]
    /\ toEngine = <<>> /\ down = None
    /\ booked = [i \in Ids |-> 0]
    /\ delivered = [o \in Orders |-> 0]

SessionOf(o) == sent[o].session

(* mOrdersIds of a view keeps the first row of a CLIENTORDERID.            *)
RowIn(v, t) ==
    LET rows == {p \in 1..Len(sent) : sent[p].view = v /\ sent[p].tag = t}
    IN  IF rows = {} THEN 0 ELSE Min(rows)

(* The row that the answers to an order change: the callbacks of a session *)
(* are those of its own view.                                              *)
RowOf(o) == RowIn(SessionOf(o), sent[o].tag)

(* submit: dropped before start() has set mIsConnected.                    *)
Submit(s, message) ==
    toClient' = IF stage[s] \in {"connected", "listed"} /\ state[s] = "connected"
                THEN [toClient EXCEPT ![s] = Append(@, message)]
                ELSE toClient

(* The accept thread may be inserting another session just now.            *)
Inserting(s) == \E t \in Sessions \ {s} : stage[t] = "connected"
Subscribing(s) == \E t \in subscribed \ {s} : stage[t] = "subscribing"

(* pushReplyToTCPSeverClient: a session that is not inserted yet, or is    *)
(* closed, gets nothing.                                                   *)
PushReply(s, message) ==
    \/ /\ stage[s] = "listed" /\ state[s] = "connected"
       /\ toClient' = [toClient EXCEPT ![s] = Append(@, message)]
       /\ UNCHANGED missed
    \/ /\ stage[s] = "listed" /\ state[s] = "connected" /\ Inserting(s)
       /\ missed' = missed \union {message}
       /\ UNCHANGED toClient
    \/ /\ ~(stage[s] = "listed" /\ state[s] = "connected")
       /\ UNCHANGED <<toClient, missed>>

(* Sequencer::push: the messages of a session it refused are dropped.      *)
Enqueue(s, message) ==
    \/ /\ s \in subscribed
       /\ gatewayQueue' = [gatewayQueue EXCEPT ![s] = Append(@, message)]
       /\ UNCHANGED missed
    \/ /\ s \in subscribed /\ Subscribing(s)
       /\ missed' = missed \union {message}
       /\ UNCHANGED gatewayQueue
    \/ /\ s \notin subscribed
       /\ UNCHANGED <<gatewayQueue, missed>>

(* A connection ends; n messages were received and are still read.         *)
End(s, n) ==
    /\ state' = [state EXCEPT ![s] = "closed"]
    /\ toGateway' = [toGateway EXCEPT ![s] = SubSeq(@, 1, n)]
    /\ toClient' = [toClient EXCEPT ![s] = <<>>]

-----------------------------------------------------------------------------
(* The Broker application.                                                 *)

(* OrderBottleView: the session connects and sends its Logon ...           *)
Connect(s) ==
    /\ state[s] = "new"
    /\ state' = [state EXCEPT ![s] = "connected"]
    /\ toGateway' = [toGateway EXCEPT ![s] = Append(@, Message("L"))]
    /\ UNCHANGED <<clientVars, connectVars, toClient, numberVars, gatewayQueue, accepted, missed,
                   dispatcherVars, engineVars>>

(* ... and its views register their callbacks.  BrokerSession::onDisconnect *)
(* leaves mIsConnected set.                                                *)
OpenViews(s) ==
    /\ state[s] # "new" /\ s \notin open
    /\ open' = open \union {s}
    /\ UNCHANGED <<clientVars, stage, subscribed, sessionVars, numberVars, gatewayQueue, accepted,
                   missed, dispatcherVars, engineVars>>

(* SendBuyOrder, SendSellOrder: the row is added to the view the EntryBox  *)
(* was opened from, then the order is pushed to the session picked there,  *)
(* which may be unconnected, or closed.                                    *)
SendOrder(script) ==
    LET o == Len(sent) + 1
        s == script[o].session
    IN  /\ IsStrictPrefix(sent, script)
        /\ script[o].view \in open /\ (s \in open \/ state[s] = "new")
        /\ sent' = Append(sent, script[o])
        /\ status' = [status EXCEPT ![o] = "Sent"]
        /\ toGateway' = IF state[s] = "connected"
                        THEN [toGateway EXCEPT ![s] = Append(@, OrderMessage(o))]
                        ELSE toGateway
        /\ UNCHANGED <<shown, requests, cancels, approvals, connectVars, state, toClient,
                       numberVars, gatewayQueue, accepted, missed, dispatcherVars, engineVars>>

(* CancelOrder of a row, whatever its status, over the session of its      *)
(* view: ORDERID is what the row shows.                                    *)
SendCancel(s, o) ==
    /\ s \in Acting /\ state[s] = "connected"
    /\ o \in 1..Len(sent) /\ sent[o].view = s
    /\ Cardinality({c \in cancels : c.of = o}) < sent[o].cancels
    /\ LET again == {c \in cancels : c.of = o /\ c.id = shown[o]}
       IN  cancels' = cancels \union {[of |-> o, id |-> shown[o], nth |-> Cardinality(again) + 1]}
    /\ toGateway' = [toGateway EXCEPT ![s] = Append(@, CancelMessage(shown[o], o))]
    /\ UNCHANGED <<sent, status, shown, requests, approvals, connectVars, state, toClient,
                   numberVars, gatewayQueue, accepted, missed, dispatcherVars, engineVars>>

(* ApproveOrder: the row stays and may be approved again.                  *)
SendApproval(s, i) ==
    /\ s \in Acting /\ state[s] = "connected"
    /\ i \in requests[s]
    /\ approvals[i] < MaxApprovals
    /\ approvals' = [approvals EXCEPT ![i] = @ + 1]
    /\ toGateway' = [toGateway EXCEPT ![s] = Append(@, ApprovedMessage(i))]
    /\ UNCHANGED <<sent, status, shown, requests, cancels, connectVars, state, toClient,
                   numberVars, gatewayQueue, accepted, missed, dispatcherVars, engineVars>>

(* The client's connection ends.                                           *)
Disconnect(s) ==
    /\ s \in Ending
    /\ state[s] = "connected"
    /\ \E n \in 0..Len(toGateway[s]) : End(s, n)
    /\ UNCHANGED <<clientVars, connectVars, numberVars, gatewayQueue, accepted, missed,
                   dispatcherVars, engineVars>>

(* OnOrderAccepted, OnOrderRejected of the session's view: the row of the  *)
(* CLIENTORDERID, if any.                                                  *)
ShowAnswer(s, m) ==
    /\ LET row == RowIn(s, m.tag)
       IN  IF row = 0
           THEN UNCHANGED <<status, shown>>
           ELSE /\ status' = [status EXCEPT ![row] = IF m.type = "A" THEN "Accepted" ELSE "Rejected"]
                /\ shown' = [shown EXCEPT ![row] = m.id]
    /\ UNCHANGED requests

(* OnOrderApproval: a row of the approval view, once that is there.        *)
ShowRequest(s, m) ==
    /\ requests' = IF s \in open \intersect Approvers
                   THEN [requests EXCEPT ![s] = @ \union {m.id}]
                   ELSE requests
    /\ UNCHANGED <<status, shown>>

(* BrokerSession: LogonRejected closes the connection; a Canceled or a     *)
(* LogonAccepted changes no row.                                           *)
ClientRead(s) ==
    /\ toClient[s] # <<>>
    /\ LET m == Head(toClient[s])
       IN  \/ /\ m.type = "R"
              /\ \E n \in 0..Len(toGateway[s]) : End(s, n)
              /\ UNCHANGED <<status, shown, requests>>
           \/ /\ \/ m.type \in {"A", "J"} /\ ShowAnswer(s, m)
                 \/ m.type = "W" /\ ShowRequest(s, m)
                 \/ m.type \in {"Q", "D"} /\ UNCHANGED <<status, shown, requests>>
              /\ toClient' = [toClient EXCEPT ![s] = Tail(@)]
              /\ UNCHANGED <<state, toGateway>>
    /\ UNCHANGED <<sent, cancels, approvals, connectVars, numberVars, gatewayQueue, accepted,
                   missed, dispatcherVars, engineVars>>

-----------------------------------------------------------------------------
(* The accept thread of the Gateway makes one session at a time.           *)

InTheMaking(s) == stage[s] \in {"subscribing", "reading", "connected"}

AcceptVarsKept == UNCHANGED <<clientVars, open, sessionVars, numberVars, gatewayQueue, accepted,
                              missed, dispatcherVars, engineVars>>

(* createNewTCPServerSesion: the Sequencer may refuse the session, which   *)
(* nobody asks.                                                            *)
AcceptClient(s) ==
    /\ state[s] # "new" /\ stage[s] = "none"
    /\ \A t \in Sessions : ~InTheMaking(t)
    /\ stage' = [stage EXCEPT ![s] = "subscribing"]
    /\ subscribed' = IF Cardinality(subscribed) < MaxSubscriptions
                     THEN subscribed \union {s} ELSE subscribed
    /\ AcceptVarsKept

(* The rest of it: open starts the reading thread and then sets            *)
(* mIsConnected; the session is inserted last.                             *)
MakeSession(s) ==
    /\ InTheMaking(s)
    /\ stage' = [stage EXCEPT ![s] = CASE @ = "subscribing" -> "reading"
                                        [] @ = "reading" -> "connected"
                                        [] @ = "connected" -> "listed"]
    /\ UNCHANGED subscribed /\ AcceptVarsKept

-----------------------------------------------------------------------------
(* The reading thread of a session of the Gateway.                         *)

(* It runs once it was started.                                            *)
Reads(s, types) ==
    /\ stage[s] \in {"reading", "connected", "listed"} /\ loading[s] = 0
    /\ toGateway[s] # <<>> /\ Head(toGateway[s]).type \in types

(* TreatLogon: LogonAccepted is submitted, and the Information goes to the *)
(* Dispatcher straight from this thread; an unknown user is disconnected,  *)
(* if his session is found.                                                *)
TreatLogon(s) ==
    /\ Reads(s, {"L"})
    /\ \/ /\ User[s] \in Registered
          /\ Submit(s, Message("Q"))
          /\ toDispatcher' = Append(toDispatcher, Information(s))
          /\ toGateway' = [toGateway EXCEPT ![s] = Tail(@)]
          /\ UNCHANGED state
       \/ /\ User[s] \notin Registered /\ stage[s] = "listed"
          /\ state' = [state EXCEPT ![s] = "closed"]
          /\ \E n \in 1..Len(toGateway[s]) :
                 toGateway' = [toGateway EXCEPT ![s] = SubSeq(@, 2, n)]
          /\ toClient' = [toClient EXCEPT ![s] = <<>>]
          /\ UNCHANGED toDispatcher
       \/ /\ User[s] \notin Registered /\ (stage[s] = "listed" => Inserting(s))
          /\ Submit(s, Message("R"))
          /\ toGateway' = [toGateway EXCEPT ![s] = Tail(@)]
          /\ UNCHANGED <<state, toDispatcher>>
    /\ UNCHANGED <<clientVars, connectVars, numberVars, gatewayQueue, accepted, missed,
                   fromDispatcher, route, pending, engineVars>>

(* TreatNewOrder, first half of AddOrderId: fetch_add.                     *)
CountOrder(s) ==
    /\ Reads(s, {"O"})
    /\ LET o == Head(toGateway[s]).order
           others == {loading[t] : t \in Sessions} \ {0}
       IN  /\ loading' = [loading EXCEPT ![s] = o]
           /\ together' = together \union {{o, p} : p \in others}
    /\ counter' = counter + 1
    /\ toGateway' = [toGateway EXCEPT ![s] = Tail(@)]
    /\ UNCHANGED <<clientVars, connectVars, state, toClient, orderId, gatewayQueue, accepted,
                   missed, dispatcherVars, engineVars>>

(* Slip: the number is taken once for all orders of the session.           *)
LoadOncePerSession(s) ==
    LET earlier == {orderId[o] : o \in {p \in 1..Len(sent) : SessionOf(p) = s}} \ {NoId}
    IN  /\ loading[s] # 0
        /\ orderId' = [orderId EXCEPT ![loading[s]] = IF earlier = {} THEN counter ELSE Min(earlier)]
        /\ Enqueue(s, OrderMessage(loading[s]))
        /\ loading' = [loading EXCEPT ![s] = 0]
        /\ UNCHANGED <<clientVars, connectVars, sessionVars, counter, together, accepted,
                       dispatcherVars, engineVars>>

(* Slip: the number after the one the counter was raised to.               *)
LoadNext(s) ==
    /\ loading[s] # 0
    /\ orderId' = [orderId EXCEPT ![loading[s]] = counter + 1]
    /\ Enqueue(s, OrderMessage(loading[s]))
    /\ loading' = [loading EXCEPT ![s] = 0]
    /\ UNCHANGED <<clientVars, connectVars, sessionVars, counter, together, accepted,
                   dispatcherVars, engineVars>>

(* Second half: load, then the message goes to the Sequencer.              *)
LoadOrderId(s) ==
    /\ loading[s] # 0
    /\ orderId' = [orderId EXCEPT ![loading[s]] = counter]
    /\ Enqueue(s, OrderMessage(loading[s]))
    /\ loading' = [loading EXCEPT ![s] = 0]
    /\ UNCHANGED <<clientVars, connectVars, sessionVars, counter, together, accepted,
                   dispatcherVars, engineVars>>

(* TreatNewCancel and TreatApproved only stamp the session.                *)
QueueMessage(s) ==
    /\ Reads(s, {"C", "Y"})
    /\ Enqueue(s, Head(toGateway[s]))
    /\ toGateway' = [toGateway EXCEPT ![s] = Tail(@)]
    /\ UNCHANGED <<clientVars, connectVars, state, toClient, numberVars, accepted, dispatcherVars,
                   engineVars>>

-----------------------------------------------------------------------------
(* gateway::OrderManager, on the consumer thread; a Sequencer hands over    *)
(* the messages of a session in order (module Sequencer).                   *)

Take(s) == gatewayQueue' = [gatewayQueue EXCEPT ![s] = Tail(@)]
Forward(message) == toDispatcher' = Append(toDispatcher, message)

(* A TWAP order; a child of one is treated as any other order.             *)
IsAlgoOrder(o) == sent[o].kind = "algo"
(* scanOrderCreation, scanOrderCancellation: the instrument is looked up.  *)
HasInstrument(o) == sent[o].kind # "unlisted"

(* Slip: an order that the scan refuses is dropped without a Reject.       *)
DropRefused(s) ==
    /\ gatewayQueue[s] # <<>> /\ Head(gatewayQueue[s]).type = "O"
    /\ LET o == Head(gatewayQueue[s]).order
       IN  IF IsAlgoOrder(o) \/ ~HasInstrument(o)
           THEN UNCHANGED <<toClient, missed, toDispatcher, accepted>>
           ELSE /\ PushReply(s, Reply("A", sent[o].tag, orderId[o]))
                /\ Forward(OrderMessage(o))
                /\ accepted' = accepted \union {o}
    /\ Take(s)
    /\ UNCHANGED <<clientVars, connectVars, state, toGateway, numberVars, fromDispatcher, route,
                   pending, engineVars>>

(* onNewOrder: an algorithmic order is left without an answer; the         *)
(* instrument decides between Reject and Accepted, which is sent before    *)
(* the order is forwarded.                                                 *)
OnNewOrder(s) ==
    /\ gatewayQueue[s] # <<>> /\ Head(gatewayQueue[s]).type = "O"
    /\ LET o == Head(gatewayQueue[s]).order
       IN  \/ /\ IsAlgoOrder(o)
              /\ UNCHANGED <<toClient, missed, toDispatcher, accepted>>
           \/ /\ ~IsAlgoOrder(o) /\ ~HasInstrument(o)
              /\ PushReply(s, Reply("J", sent[o].tag, orderId[o]))
              /\ UNCHANGED <<toDispatcher, accepted>>
           \/ /\ ~IsAlgoOrder(o) /\ HasInstrument(o)
              /\ PushReply(s, Reply("A", sent[o].tag, orderId[o]))
              /\ Forward(OrderMessage(o))
              /\ accepted' = accepted \union {o}
    /\ Take(s)
    /\ UNCHANGED <<clientVars, connectVars, state, toGateway, numberVars, fromDispatcher, route,
                   pending, engineVars>>

(* onCancelOrder: confirmed and forwarded without a look at the order.     *)
(* CancelOrder never set the CLIENTORDERID that a Reject returns.          *)
OnCancelOrder(s) ==
    /\ gatewayQueue[s] # <<>> /\ Head(gatewayQueue[s]).type = "C"
    /\ LET c == Head(gatewayQueue[s])
       IN  IF ~HasInstrument(c.of)
           THEN /\ \E t \in Tags \union {NoTag} : PushReply(s, Reply("J", t, c.id))
                /\ UNCHANGED toDispatcher
           ELSE PushReply(s, Message("D")) /\ Forward(c)
    /\ Take(s)
    /\ UNCHANGED <<clientVars, connectVars, state, toGateway, numberVars, accepted, fromDispatcher,
                   route, pending, engineVars>>

(* TreatApproved.                                                          *)
OnApproved(s) ==
    /\ gatewayQueue[s] # <<>> /\ Head(gatewayQueue[s]).type = "Y"
    /\ Forward(Head(gatewayQueue[s]))
    /\ Take(s)
    /\ UNCHANGED <<clientVars, connectVars, sessionVars, numberVars, accepted, missed,
                   fromDispatcher, route, pending, engineVars>>

(* gateway::DispatcherSession: RequestApproval is a reply to the session   *)
(* it names; an OrderRejected ("Z") has no handler.                        *)
DispatcherReply ==
    /\ fromDispatcher # <<>>
    /\ LET m == Head(fromDispatcher)
       IN  \/ m.type = "W" /\ PushReply(m.session, m)
           \/ m.type = "Z" /\ UNCHANGED <<toClient, missed>>
    /\ fromDispatcher' = Tail(fromDispatcher)
    /\ UNCHANGED <<clientVars, connectVars, state, toGateway, numberVars, gatewayQueue, accepted,
                   toDispatcher, route, pending, engineVars>>

-----------------------------------------------------------------------------
(* dispatcher::OrderManager.                                               *)

Receive(type) ==
    /\ toDispatcher # <<>> /\ Head(toDispatcher).type = type
    /\ toDispatcher' = Tail(toDispatcher)

(* Slip: the newest route replaces the one that requests went to.          *)
OnConnectionReplace ==
    /\ Receive("F")
    /\ LET f == [user |-> Head(toDispatcher).user, session |-> Head(toDispatcher).session]
       IN  route' = [route EXCEPT ![f.user] = <<f.session>>]
    /\ UNCHANGED <<clientVars, connectVars, sessionVars, numberVars, gatewayQueue, accepted, missed,
                   fromDispatcher, pending, engineVars>>

(* onClientConnection, onBrokerConnection: the first route of a user is    *)
(* kept.  No component ever sends a disconnection.                         *)
OnConnection ==
    /\ Receive("F")
    /\ LET f == [user |-> Head(toDispatcher).user, session |-> Head(toDispatcher).session]
       IN  route' = [route EXCEPT ![f.user] = IF @ = None THEN <<f.session>> ELSE @]
    /\ UNCHANGED <<clientVars, connectVars, sessionVars, numberVars, gatewayQueue, accepted, missed,
                   fromDispatcher, pending, engineVars>>

(* Slip: the newest order of an ORDERID takes the place of the first.      *)
KeepLast(i, o) == [pending EXCEPT ![i] = o]
(* mOrderList.insert.                                                      *)
KeepFirst(i, o) == [pending EXCEPT ![i] = IF @ = 0 THEN o ELSE @]

HasRoute(name) == name \in Brokers \intersect Users /\ route[name] # None

(* TreatNewOrder: only orders for a broker that has logged on wait for an  *)
(* approval; insert keeps the first order of an ORDERID.                   *)
OnOrder ==
    /\ Receive("O")
    /\ LET o == Head(toDispatcher).order
           i == orderId[o]
           b == sent[o].broker
       IN  \/ /\ sent[o].kind = "retail" /\ HasRoute(b)
              /\ pending' = KeepFirst(i, o)
              /\ fromDispatcher' = Append(fromDispatcher, RequestApproval(i, route[b][1]))
              /\ UNCHANGED toEngine
           \/ /\ sent[o].kind = "retail" /\ ~HasRoute(b)
              /\ fromDispatcher' = Append(fromDispatcher, Message("Z"))
              /\ UNCHANGED <<pending, toEngine>>
           \/ /\ sent[o].kind # "retail"
              /\ toEngine' = Append(toEngine, OrderMessage(o))
              /\ UNCHANGED <<pending, fromDispatcher>>
    /\ UNCHANGED <<clientVars, connectVars, sessionVars, numberVars, gatewayQueue, accepted, missed,
                   route, booked, down, delivered>>

(* Slip: cancels are sent ahead of the orders that wait to be sent.        *)
OnCancelFirst ==
    /\ Receive("C")
    /\ toEngine' = <<Head(toDispatcher)>> \o toEngine
    /\ UNCHANGED <<clientVars, connectVars, sessionVars, numberVars, gatewayQueue, accepted, missed,
                   fromDispatcher, route, pending, booked, down, delivered>>

(* TreatNewCancel: passed on, whether the order has gone there or waits.   *)
OnCancel ==
    /\ Receive("C")
    /\ toEngine' = Append(toEngine, Head(toDispatcher))
    /\ UNCHANGED <<clientVars, connectVars, sessionVars, numberVars, gatewayQueue, accepted, missed,
                   fromDispatcher, route, pending, booked, down, delivered>>

(* TreatApproved: the order stays in mOrderList.                           *)
OnApproval ==
    /\ Receive("Y")
    /\ LET o == pending[Head(toDispatcher).id]
       IN  IF o # 0
           THEN toEngine' = Append(toEngine, OrderMessage(o)) /\ UNCHANGED fromDispatcher
           ELSE fromDispatcher' = Append(fromDispatcher, Message("Z")) /\ UNCHANGED toEngine
    /\ UNCHANGED <<clientVars, connectVars, sessionVars, numberVars, gatewayQueue, accepted, missed,
                   route, pending, booked, down, delivered>>

-----------------------------------------------------------------------------
(* matching::OrderManager, as far as an order's arrival goes.              *)

EngineVarsKept == UNCHANGED <<clientVars, connectVars, sessionVars, numberVars, gatewayQueue,
                              accepted, missed, dispatcherVars>>

(* onNewOrder: insert keeps the first order of an ORDERID.                 *)
EngineOrder ==
    /\ down = None
    /\ toEngine # <<>> /\ Head(toEngine).type = "O"
    /\ LET o == Head(toEngine).order
       IN  /\ booked' = [booked EXCEPT ![orderId[o]] = IF @ = 0 THEN o ELSE @]
           /\ delivered' = [delivered EXCEPT ![o] = @ + 1]
    /\ toEngine' = Tail(toEngine)
    /\ UNCHANGED down /\ EngineVarsKept

(* onCancelOrder: mOrderList[ORDERID] is dereferenced once the STOCK has a *)
(* handler, that is, once an order for it arrived.                         *)
EngineCancel ==
    /\ down = None
    /\ toEngine # <<>> /\ Head(toEngine).type = "C"
    /\ LET c == Head(toEngine)
           handler == \E o \in Orders : delivered[o] > 0
           stored  == IF c.id = NoId THEN 0 ELSE booked[c.id]
       IN  IF handler /\ stored = 0
           THEN down' = <<c>> /\ UNCHANGED booked
           ELSE /\ booked' = [i \in Ids |-> IF i = c.id THEN 0 ELSE booked[i]]
                /\ UNCHANGED down
    /\ toEngine' = Tail(toEngine)
    /\ UNCHANGED delivered /\ EngineVarsKept

-----------------------------------------------------------------------------
GatewaySide ==
    \/ \E s \in Sessions :
        \/ AcceptClient(s) \/ MakeSession(s)
        \/ TreatLogon(s) \/ CountOrder(s) \/ LoadOrderId(s) \/ QueueMessage(s)
        \/ OnNewOrder(s) \/ OnCancelOrder(s) \/ OnApproved(s)
    \/ DispatcherReply

DispatcherSide == OnConnection \/ OnOrder \/ OnCancel \/ OnApproval
EngineSide     == EngineOrder \/ EngineCancel

ClientSide ==
    \/ \E s \in Sessions :
        \/ Connect(s) \/ OpenViews(s) \/ Disconnect(s) \/ ClientRead(s)
        \/ \E o \in Orders : SendCancel(s, o)
        \/ \E i \in Ids : SendApproval(s, i)
    \/ \E script \in Scripts : SendOrder(script)

Next == ClientSide \/ GatewaySide \/ DispatcherSide \/ EngineSide

(* The threads of the servers and the reading thread of a client are       *)
(* always running; the Sequencer comes back to every queue.                *)
Fairness ==
    /\ WF_vars(DispatcherReply) /\ WF_vars(DispatcherSide) /\ WF_vars(EngineSide)
    /\ \A s \in Sessions :
        /\ WF_vars(ClientRead(s))
        /\ WF_vars(TreatLogon(s) \/ CountOrder(s) \/ LoadOrderId(s) \/ QueueMessage(s))
        /\ WF_vars(OnNewOrder(s) \/ OnCancelOrder(s) \/ OnApproved(s))

Spec == Init /\ [][Next]_vars /\ Fairness
-----------------------------------------------------------------------------
Messages ==
    [type : {"L", "Q", "R", "D", "Z"}] \union [type : {"O"}, order : Orders]
    \union [type : {"C"}, id : Ids \union {NoId}, of : Orders] \union [type : {"Y"}, id : Ids]
    \union [type : {"F"}, user : Users, session : Sessions]
    \union [type : {"W"}, id : Ids, session : Sessions]
    \union [type : {"A", "J"}, tag : Tags \union {NoTag}, id : Ids \union {NoId}]

RowsOK ==
    /\ sent \in Seq(Forms) /\ \E script \in Scripts \union {<<>>} : IsPrefix(sent, script)
    /\ status \in [Orders -> {"none", "Sent", "Accepted", "Rejected"}]
    /\ shown \in [Orders -> Ids \union {NoId}]
    /\ requests \in [Sessions -> SUBSET Ids] /\ approvals \in [Ids -> 0..MaxApprovals]
    /\ cancels \subseteq [of : Orders, id : Ids \union {NoId}, nth : Nat]

LinksOK ==
    /\ toGateway \in [Sessions -> Seq(Messages)] /\ toClient \in [Sessions -> Seq(Messages)]
    /\ gatewayQueue \in [Sessions -> Seq(Messages)]
    /\ toDispatcher \in Seq(Messages) /\ fromDispatcher \in Seq(Messages)
    /\ toEngine \in Seq(Messages)

SessionsOK ==
    /\ open \subseteq Sessions /\ subscribed \subseteq Sessions /\ missed \subseteq Messages
    /\ stage \in [Sessions -> {"none", "subscribing", "reading", "connected", "listed"}]

ServersOK ==
    /\ state \in [Sessions -> {"new", "connected", "closed"}]
    /\ counter \in 0..MaxOrders /\ loading \in [Sessions -> Orders \union {0}]
    /\ orderId \in [Orders -> Ids \union {NoId}]
    /\ route \in [Users -> {None} \union {<<s>> : s \in Sessions}]
    /\ pending \in [Ids -> Orders \union {0}] /\ booked \in [Ids -> Orders \union {0}]
    /\ down = None \/ down[1] \in Messages
    /\ accepted \subseteq Orders /\ delivered \in [Orders -> Nat]
    /\ together \subseteq {{o, p} : o, p \in Orders}

(* Types of every variable, the content of the links included.             *)
TypeOK == RowsOK /\ LinksOK /\ SessionsOK /\ ServersOK

(* Two orders carry the same ORDERID only if two reading threads stood     *)
(* between fetch_add and load of AddOrderId at the same time.              *)
SharedIdsOnlyTogether ==
    \A o, p \in Orders :
        o # p /\ orderId[o] = orderId[p] /\ orderId[o] # NoId => {o, p} \in together

(* Orders and cancels travel through three servers, some queues and as     *)
(* many connections, and a cancel must not overtake its order: matching::  *)
(* OrderManager::onCancelOrder dereferences null only for a cancel that    *)
(* was made from a row without an answer, or of an order that did not go   *)
(* straight to the engine, or a second time, or whose ORDERID is not of    *)
(* that order alone, be it that its row shows the answer to another one    *)
(* (a Reject of a cancel lands on any row).                                *)
DownOnlyByStrayCancel ==
    down # None =>
        LET c == down[1]
        IN  \/ c.id = NoId
            \/ sent[c.of].kind # "direct"
            \/ \E d \in cancels : d.id = c.id /\ d.nth > 1
            \/ \E d \in cancels : d.id = c.id /\ d.of # c.of
            \/ \E o \in 1..Len(sent) \ {c.of} : orderId[o] = c.id \/ sent[o].kind = "unlisted"

(* The brokers an order waits for, for module Clearance.                   *)
Needs(o) == IF sent[o].kind = "retail" THEN {sent[o].broker} ELSE {}

(* Every execution of the servers is one of Clearance: an order reaches    *)
(* the engine only after its acceptance, and a retail order at most once   *)
(* for each approval under its ORDERID by a broker named for it.           *)
Promise == INSTANCE Clearance WITH
    Orders <- Orders, Ids <- Ids, Users <- Names, NoId <- NoId,
    needs <- [o \in 1..Len(sent) |-> Needs(o)], id <- orderId, accepted <- accepted,
    cleared <- approvals, delivered <- delivered
ImplementsClearance == Promise!Spec

(* The session is listed and has a queue.                                  *)
Served(s) == stage[s] = "listed" /\ s \in subscribed

(* An order has been pushed by its client and not been treated yet.        *)
OnItsWay(o) ==
    LET s == SessionOf(o)
    IN  loading[s] = o \/ OrderMessage(o) \in ToSet(toGateway[s]) \union ToSet(gatewayQueue[s])

(* A lookup missed the session of the order, or of its answer.             *)
MissedOrder(o) ==
    \E m \in missed : m = OrderMessage(o) \/ (m.type \in {"A", "J"} /\ m.id = orderId[o])

(* Every order on its way over a session that was made completely, and not *)
(* refused by the Sequencer, is answered, and its row leaves "Sent": unless *)
(* it is algorithmic, or its row is not the one of its CLIENTORDERID in    *)
(* the view of that session, or the connection ends, or a lookup misses    *)
(* the session while another is inserted.                                  *)
OrdersAreAnswered ==
    \A o \in Orders :
        /\ o \in 1..Len(sent) /\ RowOf(o) = o /\ sent[o].kind # "algo"
        /\ OnItsWay(o) /\ Served(SessionOf(o))
        ~> status[o] # "Sent" \/ state[SessionOf(o)] = "closed" \/ MissedOrder(o)

(* An accepted order for a broker is shown in the approval view of the     *)
(* session he first logged on with, even if he has logged on again since:  *)
(* provided that session was made completely and its view is open when the *)
(* order is on its way to the Dispatcher, unless it ends, or a lookup      *)
(* misses it.                                                              *)
WaitingOrdersAreShown ==
    \A o \in Orders, s \in Approvers :
        /\ o \in 1..Len(sent) /\ sent[o].kind = "retail"
        /\ HasRoute(sent[o].broker) /\ route[sent[o].broker] = <<s>>
        /\ OrderMessage(o) \in ToSet(toDispatcher)
        /\ stage[s] = "listed" /\ s \in open
        ~> \/ orderId[o] \in requests[s] \/ state[s] = "closed"
           \/ RequestApproval(orderId[o], s) \in missed
=============================================================================
