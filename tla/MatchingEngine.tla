--------------------------- MODULE MatchingEngine ----------------------------
(***************************************************************************)
(* The matching engine of one STOCK: matching::OrderManager                *)
(* (MatchingEngine/MatchingEngine/OrderBook.hpp), the core::TradeHandler   *)
(* it keeps for the STOCK (Lib/Internal/functionnal/TradeHandler.hpp) and  *)
(* the intern::Limit queues (Message/Intern/Limit.hpp).                    *)
(*                                                                         *)
(* All of it runs on the sequencer's consumer thread, one message at a     *)
(* time: while a new order is handled (pc # "idle") only the steps of that *)
(* handler are enabled, one action per iteration of a loop of Match.       *)
(*                                                                         *)
(* An order is named by its arrival number, its position in orders: two    *)
(* trading::Order objects may carry the same ORDERID.  filled and          *)
(* cancelled are history variables; notified is what the last step passed  *)
(* to the observers.                                                       *)
(***************************************************************************)
EXTENDS PriceLadder, Sequences

CONSTANTS
    Ids,        \* ORDERIDs
    Prices,     \* PRICEs (no server validates them)
    Shares,     \* SHARES of an incoming order
    Narrow,     \* 2^32: the modulus of uint32_t, the type of Limit::PRICE
    MaxOrders   \* bound of the model: orders accepted in a run

ASSUME EngineAssumption ==
    /\ Prices \subseteq 0 .. Wrap - 1
    /\ Shares \subseteq Nat
    /\ MaxOrders \in Nat
    /\ Narrow \in Nat /\ High < Narrow /\ Narrow <= Wrap

VARIABLES
    ladder,     \* mBuyLimitSide and mSellLimitSide
    queue,      \* the mOrderList of each Limit, from Head to Tail
    orders,     \* the orders received
    rem,        \* REMAININGSHARES
    known,      \* mOrderList: ORDERID -> the order stored, 0 for none
    handler,    \* whether mTradeHandlerList has a handler for the STOCK
    pc,         \* where the handler of a new order stands
    llimit,     \* the local llimit of Match
    filled,     \* history: shares executed for an order
    cancelled,  \* history: orders whose REMAININGSHARES a cancel zeroed
    notified    \* events of the last step: execs ("E"), published orders ("X")

vars == <<ladder, queue, orders, rem, known, handler, pc, llimit, filled,
          cancelled, notified>>

Sides == {"B", "S"}
Opposite(s) == IF s = "B" THEN "S" ELSE "B"

Order    == [id : Ids, side : Sides, price : Prices, shares : Shares]
Arrivals == 1 .. MaxOrders
None     == 0

(* The index of the level an order of that PRICE rests on: operator[]      *)
(* takes an int and Limit::PRICE is a uint32_t, of the PRICE's 64 bits.    *)
Level(price) == price % Narrow

Exec(o, price, shares) ==
    [type |-> "E", order |-> o, price |-> price, shares |-> shares]
Publish(o) ==
    [type |-> "X", order |-> o, price |-> Level(orders[o].price),
     shares |-> rem[o] % Narrow]

Init ==
    /\ ladder = [s \in Sides |-> NewLadder]
    /\ queue = [s \in Sides |-> [p \in Indexes |-> <<>>]]
    /\ orders = <<>>
    /\ rem = [o \in Arrivals |-> 0]
    /\ known = [id \in Ids |-> None]
    /\ handler = FALSE
    /\ pc = "idle"
    /\ llimit = 0
    /\ filled = [o \in Arrivals |-> 0]
    /\ cancelled = {}
    /\ notified = <<>>

-----------------------------------------------------------------------------
(* The order being handled while pc # "idle", and the side it matches.     *)
Incoming == Len(orders)
Against  == Opposite(orders[Incoming].side)

(* The level Match starts from: firstIndex of the asks for a buy order,    *)
(* lastIndex of the bids for a sell order.                                 *)
Best(s) == IF s = "S" THEN FirstIndex(ladder["S"]) ELSE LastIndex(ladder["B"])

(* onNewOrder up to the loop of Match, which an empty side skips.  insert  *)
(* keeps the entry of an ORDERID that is already stored.                   *)
NewOrder(o) ==
    /\ pc = "idle"
    /\ Len(orders) < MaxOrders
    /\ orders' = Append(orders, o)
    /\ rem' = [rem EXCEPT ![Len(orders) + 1] = o.shares]
    /\ known' = IF known[o.id] = None
                THEN [known EXCEPT ![o.id] = Len(orders) + 1]
                ELSE known
    /\ handler' = TRUE
    /\ IF Empty(ladder[Opposite(o.side)])
       THEN pc' = "rest" /\ llimit' = 0
       ELSE pc' = "match" /\ llimit' = Best(Opposite(o.side))
    /\ notified' = <<>>
    /\ UNCHANGED <<ladder, queue, filled, cancelled>>

(* onNewOrder of a BUYSELL other than 'B' and 'S' only makes the handler.  *)
NewOrderOfNoSide ==
    /\ pc = "idle"
    /\ handler' = TRUE
    /\ notified' = <<>>
    /\ UNCHANGED <<ladder, queue, orders, rem, known, pc, llimit, filled, cancelled>>

(* Slip: the loop of the sell orders keeps the comparison of the buy one.  *)
WithinBuyLimit == llimit <= orders[Incoming].price

WithinLimit ==
    IF orders[Incoming].side = "B" THEN llimit <= orders[Incoming].price
                                   ELSE llimit >= orders[Incoming].price

(* The condition of the loops over the levels.                             *)
Crossing == pc = "match" /\ WithinLimit /\ rem[Incoming] # 0

(* Slip: Execute does not reduce the incoming order.                       *)
ExecuteHeadOnly ==
    /\ Crossing
    /\ Holds(ladder[Against], llimit)
    /\ queue[Against][llimit] # <<>>
    /\ LET head == Head(queue[Against][llimit])
           qty  == IF rem[head] < rem[Incoming] THEN rem[head] ELSE rem[Incoming]
       IN  /\ rem' = [rem EXCEPT ![head] = @ - qty]
           /\ filled' = [filled EXCEPT ![head] = @ + qty, ![Incoming] = @ + qty]
           /\ queue' = IF rem[head] = qty
                       THEN [queue EXCEPT ![Against][llimit] = Tail(@)]
                       ELSE queue
           /\ notified' = <<Exec(head, llimit, qty), Exec(Incoming, llimit, qty)>>
    /\ UNCHANGED <<ladder, orders, known, handler, pc, llimit, cancelled>>

(* Slip: Head leaves the queue only when something was traded.             *)
ExecuteHeadKept ==
    /\ Crossing
    /\ Holds(ladder[Against], llimit)
    /\ queue[Against][llimit] # <<>>
    /\ LET head == Head(queue[Against][llimit])
           qty  == IF rem[head] < rem[Incoming] THEN rem[head] ELSE rem[Incoming]
       IN  /\ rem' = [rem EXCEPT ![head] = @ - qty, ![Incoming] = @ - qty]
           /\ filled' = [filled EXCEPT ![head] = @ + qty, ![Incoming] = @ + qty]
           /\ queue' = IF rem[head] = qty /\ qty > 0
                       THEN [queue EXCEPT ![Against][llimit] = Tail(@)]
                       ELSE queue
           /\ notified' = <<Exec(head, llimit, qty), Exec(Incoming, llimit, qty)>>
    /\ UNCHANGED <<ladder, orders, known, handler, pc, llimit, cancelled>>

(* Slip: the branch in which shares of Head remain notifies Head only.     *)
ExecuteHeadUntold ==
    /\ Crossing
    /\ Holds(ladder[Against], llimit)
    /\ queue[Against][llimit] # <<>>
    /\ LET head == Head(queue[Against][llimit])
           qty  == IF rem[head] < rem[Incoming] THEN rem[head] ELSE rem[Incoming]
       IN  /\ rem' = [rem EXCEPT ![head] = @ - qty, ![Incoming] = @ - qty]
           /\ filled' = [filled EXCEPT ![head] = @ + qty, ![Incoming] = @ + qty]
           /\ queue' = IF rem[head] = qty
                       THEN [queue EXCEPT ![Against][llimit] = Tail(@)]
                       ELSE queue
           /\ notified' = IF rem[head] > qty
                          THEN <<Exec(head, llimit, qty)>>
                          ELSE <<Exec(head, llimit, qty), Exec(Incoming, llimit, qty)>>
    /\ UNCHANGED <<ladder, orders, known, handler, pc, llimit, cancelled>>

(* Execute(Head, incoming, level price): the smaller REMAININGSHARES trade *)
(* (0 when Head was cancelled), Head leaves the queue when nothing of it   *)
(* remains, and both orders are notified, Head's first.                    *)
ExecuteHead ==
    /\ Crossing
    /\ Holds(ladder[Against], llimit)
    /\ queue[Against][llimit] # <<>>
    /\ LET head == Head(queue[Against][llimit])
           qty  == IF rem[head] < rem[Incoming] THEN rem[head] ELSE rem[Incoming]
       IN  /\ rem' = [rem EXCEPT ![head] = @ - qty, ![Incoming] = @ - qty]
           /\ filled' = [filled EXCEPT ![head] = @ + qty, ![Incoming] = @ + qty]
           /\ queue' = IF rem[head] = qty
                       THEN [queue EXCEPT ![Against][llimit] = Tail(@)]
                       ELSE queue
           /\ notified' = <<Exec(head, llimit, qty), Exec(Incoming, llimit, qty)>>
    /\ UNCHANGED <<ladder, orders, known, handler, pc, llimit, cancelled>>

(* Slip: llimit is not moved to the level next() or previous() found.      *)
NextLevelStale ==
    /\ Crossing
    /\ Holds(ladder[Against], llimit)
    /\ queue[Against][llimit] = <<>>
    /\ ladder' = IF Against = "S" THEN [ladder EXCEPT !["S"] = NextFull(@)]
                                  ELSE [ladder EXCEPT !["B"] = PreviousFull(@)]
    /\ notified' = <<>>
    /\ UNCHANGED <<queue, orders, rem, known, handler, pc, llimit, filled, cancelled>>

(* The queue of the level is exhausted and shares remain: next(), or       *)
(* previous() for a sell order.                                            *)
NextLevel ==
    /\ Crossing
    /\ Holds(ladder[Against], llimit)
    /\ queue[Against][llimit] = <<>>
    /\ IF Against = "S"
       THEN /\ ladder' = [ladder EXCEPT !["S"] = NextFull(@)]
            /\ llimit' = NextIndex(ladder["S"])
       ELSE /\ ladder' = [ladder EXCEPT !["B"] = PreviousFull(@)]
            /\ llimit' = PreviousIndex(ladder["B"])
    /\ notified' = <<>>
    /\ UNCHANGED <<queue, orders, rem, known, handler, pc, filled, cancelled>>

(* operator[] returned the null mNoValue and Match dereferences it: the    *)
(* process dies.                                                           *)
NullLevel ==
    /\ Crossing
    /\ ~Holds(ladder[Against], llimit)
    /\ pc' = "nullLevel"
    /\ notified' = <<>>
    /\ UNCHANGED <<ladder, queue, orders, rem, known, handler, llimit, filled, cancelled>>

LeaveMatch ==
    /\ pc = "match"
    /\ ~(WithinLimit /\ rem[Incoming] # 0)
    /\ pc' = "rest"
    /\ llimit' = 0
    /\ notified' = <<>>
    /\ UNCHANGED <<ladder, queue, orders, rem, known, handler, filled, cancelled>>

(* What follows Match in onNewOrder.  onBuyOrder and onSellOrder append to *)
(* the queue of an existing level or start a new Limit, add it to the      *)
(* ladder - which refuses a price it cannot store - and publish the order. *)
RestOrReturn ==
    /\ pc = "rest"
    /\ pc' = "idle"
    /\ LET s == orders[Incoming].side
           p == Level(orders[Incoming].price)
       IN  IF rem[Incoming] = 0
           THEN /\ notified' = <<>>
                /\ UNCHANGED <<ladder, queue>>
           ELSE /\ queue' = IF p \notin Indexes THEN queue ELSE
                            [queue EXCEPT ![s][p] = IF Holds(ladder[s], p)
                                                    THEN Append(@, Incoming)
                                                    ELSE <<Incoming>>]
                /\ ladder' = [ladder EXCEPT ![s] = Add(@, p)]
                /\ notified' = <<Publish(Incoming)>>
    /\ UNCHANGED <<orders, rem, known, handler, llimit, filled, cancelled>>

-----------------------------------------------------------------------------
(* The orders of an ORDERID that onRemoveBuyOrder or onRemoveSellOrder can *)
(* find on the level of the stored order o, as positions in its queue.     *)
Found(o) ==
    LET s == orders[o].side
        p == Level(orders[o].price)
    IN  IF Holds(ladder[s], p)
        THEN {k \in DOMAIN queue[s][p] : orders[queue[s][p][k]].id = orders[o].id}
        ELSE {}

(* onCancelOrder when the handler of the STOCK exists: the first order of  *)
(* that ORDERID in the queue gets REMAININGSHARES 0 and stays queued.  An  *)
(* ORDERID that is not stored yields a null order, which is dereferenced.  *)
Cancel(id) ==
    /\ pc = "idle"
    /\ handler
    /\ IF known[id] = None
       THEN /\ pc' = "nullOrder"
            /\ UNCHANGED <<rem, known, cancelled>>
       ELSE /\ pc' = pc
            /\ known' = [known EXCEPT ![id] = None]
            /\ LET o     == known[id]
                   level == queue[orders[o].side][Level(orders[o].price)]
               IN  IF Found(o) = {}
                   THEN UNCHANGED <<rem, cancelled>>
                   ELSE /\ rem' = [rem EXCEPT ![level[Min(Found(o))]] = 0]
                        /\ cancelled' = cancelled \union {level[Min(Found(o))]}
    /\ notified' = <<>>
    /\ UNCHANGED <<ladder, queue, orders, handler, llimit, filled>>

(* onCancelOrder when mTradeHandlerList has no handler for the STOCK the   *)
(* cancel names: the ORDERID is only forgotten.                            *)
CancelWithoutHandler(id) ==
    /\ pc = "idle"
    /\ known' = [known EXCEPT ![id] = None]
    /\ notified' = <<>>
    /\ UNCHANGED <<ladder, queue, orders, rem, handler, pc, llimit, filled, cancelled>>

-----------------------------------------------------------------------------
Handle == ExecuteHead \/ NextLevel \/ NullLevel \/ LeaveMatch \/ RestOrReturn

Next ==
    \/ \E o \in Order : NewOrder(o)
    \/ NewOrderOfNoSide
    \/ Handle
    \/ \E id \in Ids : Cancel(id) \/ CancelWithoutHandler(id)

Spec == Init /\ [][Next]_vars

(* A handler that has been entered runs on: the consumer thread is not     *)
(* blocked by anything in it.                                              *)
FairSpec == Spec /\ WF_vars(Handle)

-----------------------------------------------------------------------------
Received == 1 .. Len(orders)

(* The orders whose handler has returned.                                  *)
Resting ==
    IF pc \in {"idle", "nullOrder"} THEN Received ELSE Received \ {Incoming}

TypeOK ==
    /\ ladder \in [Sides -> Ladder]
    /\ queue \in [Sides -> [Indexes -> Seq(Arrivals)]]
    /\ orders \in Seq(Order) /\ Len(orders) <= MaxOrders
    /\ rem \in [Arrivals -> Nat] /\ filled \in [Arrivals -> Nat]
    /\ known \in [Ids -> Arrivals \union {None}]
    /\ handler \in BOOLEAN
    /\ pc \in {"idle", "match", "rest", "nullLevel", "nullOrder"}
    /\ llimit \in 0 .. Wrap - 1
    /\ cancelled \subseteq Arrivals

(* Execute and the cancels never create or lose a share: what an order has *)
(* left and what it traded add up to its SHARES, until a cancel withdraws  *)
(* the rest for good.                                                      *)
SharesConserved ==
    \A o \in Received :
        /\ o \notin cancelled => rem[o] + filled[o] = orders[o].shares
        /\ o \in cancelled => rem[o] = 0 /\ filled[o] <= orders[o].shares

(* No live order gets lost: whatever levels Match gave up and whatever     *)
(* levels were added again, an order that rests with shares left on a      *)
(* price the book stores is queued on its level, and the level is held.    *)
LiveOrdersQueued ==
    \A o \in Resting :
        LET s == orders[o].side
            p == Level(orders[o].price)
        IN  rem[o] > 0 /\ p \in Indexes =>
              /\ Holds(ladder[s], p)
              /\ \E k \in DOMAIN queue[s][p] : queue[s][p][k] = o

(* Match dereferences mSellLimitSide[llimit] and mBuyLimitSide[llimit]     *)
(* without a test.  Only an order priced below the first level of the book *)
(* or at the largest uint64_t ever meets a null level there.               *)
NullLevelOnlyOffBook ==
    pc = "nullLevel" =>
        \/ orders[Incoming].side = "S" /\ orders[Incoming].price < Low
        \/ orders[Incoming].side = "B" /\ orders[Incoming].price = NoNext

(* The executions reported by a step are the fills it made, no more and no *)
(* less: every order that traded is told so exactly once, with the shares  *)
(* it traded, and executions come in pairs, one of an order at rest and    *)
(* one of the incoming order, of the same shares and at the price of the   *)
(* level the former rests on.                                              *)
NotifiedFills ==
    LET execs == {k \in DOMAIN notified' : notified'[k].type = "E"}
        sent(k) == notified'[k]
    IN  /\ \A o \in Arrivals :
              filled'[o] # filled[o] => \E k \in execs : sent(k).order = o
        /\ \A k \in execs :
              /\ sent(k).shares = filled'[sent(k).order] - filled[sent(k).order]
              /\ \A j \in execs : sent(j).order = sent(k).order => j = k
              /\ \E r, i \in execs :
                    /\ sent(r).order \in Resting /\ sent(i).order = Incoming
                    /\ k \in {r, i}
                    /\ sent(r).shares = sent(i).shares
                    /\ sent(r).price = Level(orders[sent(r).order].price)
                    /\ sent(i).price = sent(r).price

ExecsReportFills == [][NotifiedFills]_vars

(* The conjuncts of the inductive invariant beside the ones above.         *)
EndsExist ==
    /\ EndsHeld(ladder["S"])
    /\ EndsHeld(ladder["B"]) \/ Stuck(ladder["B"])

QueuesInOrder ==
    \A s \in Sides, p \in Indexes :
        LET q == queue[s][p] IN
        \A k \in 1 .. Len(q) :
            /\ q[k] \in Resting
            /\ orders[q[k]].side = s /\ Level(orders[q[k]].price) = p
            /\ \A j \in 1 .. k - 1 : q[j] < q[k]

EmptyOffLadder ==
    \A s \in Sides, p \in Indexes : ~Holds(ladder[s], p) => queue[s][p] = <<>>

AtBestOrBeyond ==
    pc = "match" =>
        \/ llimit = IF Against = "S" THEN NoNext ELSE NoPrevious
        \/ /\ llimit = Best(Against)
           /\ \/ Holds(ladder[Against], llimit)
              \/ Against = "B" /\ Stuck(ladder["B"])

HistoryBounds ==
    /\ pc \in {"match", "rest", "nullLevel"} => Len(orders) > 0
    /\ cancelled \subseteq Received
    /\ \A id \in Ids : known[id] \in Received \union {None}
    /\ \A o \in Arrivals \ Received : filled[o] = 0

(* While Match runs, the level it stands on is the recorded best one of    *)
(* the opposite side and exists, queues hold resting orders of their level *)
(* in order of arrival, and a level that is not held queues nothing.       *)
IInv ==
    /\ TypeOK
    /\ SharesConserved
    /\ LiveOrdersQueued
    /\ NullLevelOnlyOffBook
    /\ EndsExist
    /\ QueuesInOrder
    /\ EmptyOffLadder
    /\ AtBestOrBeyond
    /\ HistoryBounds

(* Every new order is handled to the end: Match leaves its loops.          *)
HandlerReturns == pc \in {"match", "rest"} ~> pc \in {"idle", "nullLevel"}

(* No PRICE is taken for another one that the book stores.                 *)
BookedAsPriced == \A p \in Prices : Level(p) \in Indexes => Level(p) = p

(* The engine implements the promise of Exchange, for PRICEs that are      *)
(* BookedAsPriced.                                                         *)
Promise == INSTANCE Exchange
ImplementsExchange == Promise!Spec
=============================================================================
