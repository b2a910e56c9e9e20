------------------------ MODULE MatchingEngine_proofs ------------------------
(***************************************************************************)
(* The matching engine keeps its inductive invariant for every book size,  *)
(* bitmap word, set of prices, of ORDERIDs and of share counts and every   *)
(* number of orders; its safety properties and the promise of Exchange     *)
(* follow.                                                                 *)
(***************************************************************************)
EXTENDS MatchingEngine, PriceLadder_proofs, SequenceTheorems

(* The two ladders as TypeOK and EndsExist see them.                       *)
LEMMA LaddersTyped ==
    ASSUME TypeOK
    PROVE  \A s \in Sides : ladder[s] \in Ladder /\ Opposite(s) \in Sides
BY DEF TypeOK, Sides, Opposite

(* The level of a PRICE fits in a uint32_t.                                *)
LEMMA LevelTyped ==
    ASSUME NEW price \in 0 .. Wrap - 1
    PROVE  Level(price) \in 0 .. Wrap - 1
BY LadderAssumption, EngineAssumption DEF Level

(* The orders received and what they carry.                                *)
LEMMA ReceivedTyped ==
    ASSUME TypeOK
    PROVE  /\ Len(orders) \in Nat /\ Received \subseteq Arrivals /\ Resting \subseteq Received
           /\ \A o \in Received :
                 /\ o \in Nat /\ orders[o] \in Order /\ orders[o].side \in Sides
                 /\ orders[o].price \in 0 .. Wrap - 1 /\ orders[o].shares \in Nat
<1>1. orders \in Seq(Order) /\ Len(orders) \in Nat /\ Len(orders) <= MaxOrders
  BY DEF TypeOK
<1>2. Received \subseteq Arrivals /\ Resting \subseteq Received
  BY <1>1, EngineAssumption DEF Received, Arrivals, Resting
<1>3. \A o \in Received : orders[o] \in Order /\ o \in Nat
  BY <1>1 DEF Received
<1>4. QED
  BY <1>1, <1>2, <1>3, EngineAssumption DEF Order, Sides

(* The order a running handler is about.                                   *)
LEMMA IncomingReceived ==
    ASSUME IInv, pc \in {"match", "rest", "nullLevel"}
    PROVE  /\ Len(orders) \in Nat /\ Incoming \in Received /\ Incoming \in Arrivals
           /\ orders[Incoming] \in Order
           /\ orders[Incoming].side \in Sides /\ Against \in Sides
           /\ orders[Incoming].price \in 0 .. Wrap - 1
           /\ Resting = Received \ {Incoming}
<1>1. orders \in Seq(Order) /\ Len(orders) \in Nat /\ Len(orders) > 0 /\ Len(orders) <= MaxOrders
  BY DEF IInv, TypeOK, HistoryBounds
<1>2. Incoming \in Received /\ Incoming \in Arrivals
  BY <1>1, EngineAssumption DEF Incoming, Received, Arrivals
<1>3. orders[Incoming] \in Order
  BY <1>1, <1>2 DEF Received, Incoming
<1>4. QED
  BY <1>1, <1>2, <1>3, EngineAssumption DEF Order, Against, Opposite, Sides, Resting

(* The order at the head of the level Match stands on.                     *)
LEMMA HeadRests ==
    ASSUME IInv, ExecuteHead
    PROVE  /\ llimit \in Indexes
           /\ queue[Against][llimit] \in Seq(Arrivals)
           /\ Len(queue[Against][llimit]) \in Nat \ {0}
           /\ Head(queue[Against][llimit]) = queue[Against][llimit][1]
           /\ Head(queue[Against][llimit]) \in Received
           /\ Head(queue[Against][llimit]) \in Arrivals
           /\ Head(queue[Against][llimit]) < Incoming
           /\ orders[Head(queue[Against][llimit])].side = Against
           /\ Level(orders[Head(queue[Against][llimit])].price) = llimit
<1> DEFINE q == queue[Against][llimit]
<1>1. pc = "match" /\ llimit \in Indexes /\ q # <<>>
  BY DEF ExecuteHead, Crossing, Holds
<1>2. Against \in Sides /\ Resting = Received \ {Incoming} /\ Len(orders) \in Nat
  BY <1>1, IncomingReceived
<1>3. q \in Seq(Arrivals)
  BY <1>1, <1>2 DEF IInv, TypeOK
<1>4. Len(q) \in Nat \ {0} /\ Head(q) = q[1] /\ q[1] \in Arrivals
  BY <1>1, <1>3
<1>5. q[1] \in Resting /\ orders[q[1]].side = Against /\ Level(orders[q[1]].price) = llimit
  BY <1>1, <1>2, <1>4 DEF IInv, QueuesInOrder
<1>6. q[1] \in Received /\ q[1] < Incoming
  BY <1>2, <1>5 DEF Received, Incoming
<1>7. QED
  BY <1>1, <1>3, <1>4, <1>5, <1>6

-----------------------------------------------------------------------------
LEMMA InitInv == Init => IInv
<1> SUFFICES ASSUME Init PROVE IInv
  OBVIOUS
<1> USE DEF Init
<1>1. Len(orders) = 0 /\ Received = {} /\ orders \in Seq(Order)
  BY DEF Received
<1>2. \A s \in Sides : ladder[s] = NewLadder
  OBVIOUS
<1>3. TypeOK
  <2>1. ladder \in [Sides -> Ladder]
    BY NewLadderHeld
  <2>2. <<>> \in Seq(Arrivals)
    OBVIOUS
  <2>3. queue \in [Sides -> [Indexes -> Seq(Arrivals)]]
    BY <2>2
  <2>4. rem \in [Arrivals -> Nat] /\ filled \in [Arrivals -> Nat]
    OBVIOUS
  <2>5. llimit \in 0 .. Wrap - 1
    BY LadderAssumption
  <2>6. known \in [Ids -> Arrivals \union {None}]
    BY DEF None
  <2>7. Len(orders) <= MaxOrders /\ cancelled \subseteq Arrivals
    BY <1>1, EngineAssumption
  <2>8. handler \in BOOLEAN /\ pc \in {"idle", "match", "rest", "nullLevel", "nullOrder"}
    OBVIOUS
  <2> HIDE DEF Init
  <2>9. QED
    BY <1>1, <2>1, <2>3, <2>4, <2>5, <2>6, <2>7, <2>8 DEF TypeOK
<1>4. EndsExist
  BY <1>2, NewLadderHeld DEF EndsExist, Sides
<1>5. \A s \in Sides, p \in Indexes : queue[s][p] = <<>>
  OBVIOUS
<1>6. QueuesInOrder /\ EmptyOffLadder
  BY <1>5 DEF QueuesInOrder, EmptyOffLadder
<1>7. SharesConserved /\ LiveOrdersQueued /\ NullLevelOnlyOffBook
  BY <1>1 DEF SharesConserved, LiveOrdersQueued, NullLevelOnlyOffBook, Resting
<1>8. AtBestOrBeyond /\ HistoryBounds
  BY <1>1 DEF AtBestOrBeyond, HistoryBounds
<1>9. QED
  BY <1>3, <1>4, <1>6, <1>7, <1>8 DEF IInv

(* onNewOrder up to the loop of Match.                                     *)
LEMMA NewOrderInv ==
    ASSUME IInv, NEW o \in Order, NewOrder(o)
    PROVE  IInv'
<1> DEFINE n == Len(orders) + 1
<1> USE DEF IInv
<1>1. /\ orders \in Seq(Order) /\ Len(orders) \in Nat /\ n \in Arrivals
      /\ n \notin Received /\ n \in Nat
  BY EngineAssumption DEF NewOrder, TypeOK, Arrivals, Received
<1>2. /\ orders' \in Seq(Order) /\ Len(orders') = n /\ orders'[n] = o
      /\ \A x \in Received : orders'[x] = orders[x]
  BY <1>1 DEF NewOrder, Received
<1>3. Received' = Received \union {n} /\ Incoming' = n /\ Against' = Opposite(o.side)
  BY <1>1, <1>2 DEF Received, Incoming, Against
<1>4. o.side \in Sides /\ Opposite(o.side) \in Sides /\ o.price \in 0 .. Wrap - 1 /\ o.shares \in Nat
  BY EngineAssumption DEF Order, Sides, Opposite
<1>5. pc = "idle" /\ pc' \in {"rest", "match"}
  BY DEF NewOrder
<1>6. Resting = Received /\ Resting' = Received
  BY <1>1, <1>3, <1>5 DEF Resting
<1>7. /\ rem' = [rem EXCEPT ![n] = o.shares] /\ rem \in [Arrivals -> Nat]
      /\ UNCHANGED <<ladder, queue, filled, cancelled>>
  BY DEF NewOrder, TypeOK
<1>8. TypeOK'
  <2>1. rem' \in [Arrivals -> Nat]
    BY <1>1, <1>4, <1>7
  <2>2. known' \in [Ids -> Arrivals \union {None}]
    BY <1>1 DEF NewOrder, TypeOK
  <2>3. llimit' \in 0 .. Wrap - 1
    <3>1. \A l \in Ladder : FirstIndex(l) \in 0 .. Wrap - 1 /\ LastIndex(l) \in 0 .. Wrap - 1
      BY LadderAssumption DEF Ladder, FirstIndex, LastIndex
    <3>2. QED
      BY <3>1, LadderAssumption DEF NewOrder, Best, TypeOK, Sides
  <2>4. Len(orders') <= MaxOrders
    BY <1>1, <1>2, EngineAssumption DEF Arrivals
  <2>5. cancelled' \subseteq Arrivals /\ handler' \in BOOLEAN
    BY DEF NewOrder, TypeOK
  <2>6. QED
    BY <1>2, <1>5, <1>7, <2>1, <2>2, <2>3, <2>4, <2>5 DEF TypeOK
<1>9. SharesConserved'
  <2>1. n \notin cancelled /\ filled[n] = 0
    BY <1>1 DEF HistoryBounds
  <2>2. rem'[n] = o.shares /\ \A x \in Received : x # n /\ rem'[x] = rem[x]
    BY <1>1, <1>7
  <2>3. QED
    BY <1>2, <1>3, <1>4, <1>7, <2>1, <2>2 DEF SharesConserved
<1>10. \A x \in Received : x # n /\ x \in Arrivals /\ rem'[x] = rem[x]
  <2>1. \A x \in Received : x # n /\ x \in Arrivals
    BY <1>1, EngineAssumption DEF TypeOK, Received, Arrivals
  <2>2. QED
    BY <1>1, <1>7, <2>1
<1>11. LiveOrdersQueued'
  BY <1>2, <1>6, <1>7, <1>10 DEF LiveOrdersQueued
<1>12. QueuesInOrder'
  BY <1>2, <1>6, <1>7 DEF QueuesInOrder
<1>13. EndsExist' /\ EmptyOffLadder' /\ NullLevelOnlyOffBook'
  BY <1>5, <1>7 DEF EndsExist, EmptyOffLadder, NullLevelOnlyOffBook
<1>14. AtBestOrBeyond'
  <2> SUFFICES ASSUME pc' = "match"
               PROVE  /\ llimit' = Best(Against)'
                      /\ \/ Holds(ladder[Against], llimit)'
                         \/ Against' = "B" /\ Stuck(ladder["B"])
    BY <1>7 DEF AtBestOrBeyond
  <2>1. ~Empty(ladder[Against'])
    BY <1>3 DEF NewOrder
  <2>2. llimit' = Best(Against')
    BY <1>3 DEF NewOrder
  <2>3. CASE Against' = "S"
    BY <1>7, <2>1, <2>2, <2>3, EndIndexesHold DEF Best, EndsExist, TypeOK, Sides
  <2>4. CASE Against' = "B"
    BY <1>7, <2>1, <2>2, <2>4, EndIndexesHold DEF Best, EndsExist, TypeOK, Sides
  <2>5. QED
    BY <1>3, <1>4, <2>3, <2>4 DEF Sides
<1>15. HistoryBounds'
  <2>1. \A id \in Ids : known'[id] \in Received' \union {None}
    BY <1>1, <1>3 DEF NewOrder, HistoryBounds, TypeOK
  <2>2. QED
    BY <1>1, <1>2, <1>3, <1>7, <2>1 DEF HistoryBounds
<1>16. QED
  BY <1>8, <1>9, <1>11, <1>12, <1>13, <1>14, <1>15

-----------------------------------------------------------------------------
(* What one Execute does to the two orders and to the others.              *)
LEMMA ExecuteMoves ==
    ASSUME IInv, ExecuteHead
    PROVE  \E head \in Received \ {Incoming}, qty \in Nat :
             /\ head = Head(queue[Against][llimit])
             /\ head \in Arrivals /\ qty <= rem[head] /\ qty <= rem[Incoming]
             /\ rem' \in [Arrivals -> Nat] /\ filled' \in [Arrivals -> Nat]
             /\ \A o \in {head, Incoming} :
                   rem'[o] = rem[o] - qty /\ filled'[o] = filled[o] + qty
             /\ \A o \in Arrivals \ {head, Incoming} :
                   rem'[o] = rem[o] /\ filled'[o] = filled[o]
             /\ queue' = IF rem[head] = qty
                         THEN [queue EXCEPT ![Against][llimit] = Tail(@)] ELSE queue
<1> DEFINE head == Head(queue[Against][llimit])
           n    == Incoming
           qty  == IF rem[head] < rem[n] THEN rem[head] ELSE rem[n]
<1>1. pc = "match"
  BY DEF ExecuteHead, Crossing
<1>2. head \in Received /\ head \in Arrivals /\ head < n /\ n \in Arrivals /\ n \in Nat /\ head \in Nat
  BY <1>1, HeadRests, IncomingReceived DEF Incoming, Received
<1>3. rem \in [Arrivals -> Nat] /\ filled \in [Arrivals -> Nat]
  BY DEF IInv, TypeOK
<1>4. /\ rem' = [rem EXCEPT ![head] = @ - qty, ![n] = @ - qty]
      /\ filled' = [filled EXCEPT ![head] = @ + qty, ![n] = @ + qty]
      /\ queue' = IF rem[head] = qty
                  THEN [queue EXCEPT ![Against][llimit] = Tail(@)] ELSE queue
  BY DEF ExecuteHead
<1> HIDE DEF head, n
<1>5. head # n
  BY <1>2
<1>6. rem[head] \in Nat /\ rem[n] \in Nat /\ filled[head] \in Nat /\ filled[n] \in Nat
  BY <1>2, <1>3
<1>7. qty \in Nat /\ qty <= rem[head] /\ qty <= rem[n]
  BY <1>6
<1> HIDE DEF qty
<1>8. /\ rem[head] - qty \in Nat /\ rem[n] - qty \in Nat
      /\ filled[head] + qty \in Nat /\ filled[n] + qty \in Nat
  BY <1>6, <1>7
<1>9. /\ rem' \in [Arrivals -> Nat] /\ filled' \in [Arrivals -> Nat]
      /\ \A o \in {head, n} : rem'[o] = rem[o] - qty /\ filled'[o] = filled[o] + qty
      /\ \A o \in Arrivals \ {head, n} : rem'[o] = rem[o] /\ filled'[o] = filled[o]
  BY <1>2, <1>3, <1>4, <1>5, <1>8
<1>10. head \in Received \ {Incoming} /\ qty \in Nat
  BY <1>2, <1>5, <1>7 DEF n
<1> USE <1>10
<1> WITNESS head \in Received \ {Incoming}, qty \in Nat
<1>11. head = Head(queue[Against][llimit]) /\ n = Incoming
  BY DEF head, n
<1>12. QED
  BY <1>2, <1>4, <1>7, <1>9, <1>11

(* The queue Match stands on, without its head.                            *)
LEMMA TailQueue ==
    ASSUME NEW q \in Seq(Arrivals), Len(q) \in Nat \ {0}
    PROVE  /\ Tail(q) \in Seq(Arrivals) /\ Len(Tail(q)) = Len(q) - 1
           /\ \A k \in 1 .. Len(q) - 1 : Tail(q)[k] = q[k + 1]
           /\ Head(q) = q[1] /\ DOMAIN q = 1 .. Len(q) /\ DOMAIN Tail(q) = 1 .. Len(q) - 1
BY DEF Arrivals

LEMMA ExecuteHeadInv ==
    ASSUME IInv, ExecuteHead
    PROVE  IInv'
<1>1. PICK head \in Received \ {Incoming}, qty \in Nat :
             /\ head = Head(queue[Against][llimit])
             /\ head \in Arrivals /\ qty <= rem[head] /\ qty <= rem[Incoming]
             /\ rem' \in [Arrivals -> Nat] /\ filled' \in [Arrivals -> Nat]
             /\ \A o \in {head, Incoming} :
                   rem'[o] = rem[o] - qty /\ filled'[o] = filled[o] + qty
             /\ \A o \in Arrivals \ {head, Incoming} :
                   rem'[o] = rem[o] /\ filled'[o] = filled[o]
             /\ queue' = IF rem[head] = qty
                         THEN [queue EXCEPT ![Against][llimit] = Tail(@)] ELSE queue
  BY ExecuteMoves
<1> DEFINE q == queue[Against][llimit]
<1>2. /\ pc = "match" /\ UNCHANGED <<ladder, orders, known, handler, pc, llimit, cancelled>>
      /\ Holds(ladder[Against], llimit)
  BY DEF ExecuteHead, Crossing
<1>3. /\ Against \in Sides /\ Incoming \in Received /\ Incoming \in Arrivals /\ Len(orders) \in Nat
      /\ Received \subseteq Arrivals /\ Resting = Received \ {Incoming}
  BY <1>2, IncomingReceived, ReceivedTyped DEF IInv
<1>4. /\ llimit \in Indexes /\ q \in Seq(Arrivals) /\ Len(q) \in Nat \ {0}
  BY HeadRests
<1>5. /\ Tail(q) \in Seq(Arrivals) /\ Len(Tail(q)) = Len(q) - 1
      /\ \A k \in 1 .. Len(q) - 1 : Tail(q)[k] = q[k + 1]
      /\ head = q[1] /\ DOMAIN q = 1 .. Len(q) /\ DOMAIN Tail(q) = 1 .. Len(q) - 1
  BY <1>1, <1>4, TailQueue
<1>6. Received' = Received /\ Resting' = Resting /\ Incoming' = Incoming /\ Against' = Against
  BY <1>2 DEF Received, Resting, Incoming, Against
<1>7. /\ rem \in [Arrivals -> Nat] /\ filled \in [Arrivals -> Nat]
      /\ queue \in [Sides -> [Indexes -> Seq(Arrivals)]]
  BY DEF IInv, TypeOK
<1>8. \A s \in Sides, p \in Indexes :
          queue'[s][p] = IF rem[head] = qty /\ s = Against /\ p = llimit
                         THEN Tail(q) ELSE queue[s][p]
  BY <1>1, <1>3, <1>4, <1>7
<1>9. queue' \in [Sides -> [Indexes -> Seq(Arrivals)]]
  BY <1>1, <1>3, <1>4, <1>5, <1>7
<1> HIDE DEF q
<1>10. TypeOK'
  BY <1>1, <1>2, <1>9 DEF IInv, TypeOK
<1>11. SharesConserved'
  <2> SUFFICES ASSUME NEW o \in Received
               PROVE  /\ o \notin cancelled => rem'[o] + filled'[o] = orders[o].shares
                      /\ o \in cancelled => rem'[o] = 0 /\ filled'[o] <= orders[o].shares
    BY <1>2, <1>6 DEF SharesConserved
  <2>1. /\ o \in Arrivals /\ rem[o] \in Nat /\ filled[o] \in Nat
        /\ rem'[o] \in Nat /\ filled'[o] \in Nat
    BY <1>1, <1>3, <1>7
  <2>2. /\ o \notin cancelled => rem[o] + filled[o] = orders[o].shares
        /\ o \in cancelled => rem[o] = 0 /\ filled[o] <= orders[o].shares
    BY DEF IInv, SharesConserved
  <2>3. CASE o \in {head, Incoming}
    <3>1. rem'[o] = rem[o] - qty /\ filled'[o] = filled[o] + qty /\ qty <= rem[o]
      BY <1>1, <2>3
    <3>2. QED
      BY <2>1, <2>2, <3>1
  <2>4. CASE o \notin {head, Incoming}
    BY <1>1, <2>1, <2>2, <2>4
  <2>5. QED
    BY <2>3, <2>4
<1>12. LiveOrdersQueued'
  <2> SUFFICES ASSUME NEW o \in Resting, rem'[o] > 0, Level(orders[o].price) \in Indexes
               PROVE  /\ Holds(ladder[orders[o].side], Level(orders[o].price))
                      /\ \E k \in DOMAIN queue'[orders[o].side][Level(orders[o].price)] :
                            queue'[orders[o].side][Level(orders[o].price)][k] = o
    BY <1>2, <1>6 DEF LiveOrdersQueued
  <2> DEFINE s == orders[o].side
             p == Level(orders[o].price)
  <2>1. o \in Arrivals /\ o # Incoming /\ rem[o] \in Nat /\ rem'[o] \in Nat
    BY <1>1, <1>3, <1>7
  <2>2. rem[o] > 0 /\ (rem[head] = qty => o # head)
    BY <1>1, <2>1
  <2>3. PICK k \in DOMAIN queue[s][p] : Holds(ladder[s], p) /\ queue[s][p][k] = o
    BY <2>2 DEF IInv, LiveOrdersQueued
  <2>4. s \in Sides
    BY <1>3, ReceivedTyped DEF IInv
  <2>5. CASE rem[head] = qty /\ s = Against /\ p = llimit
    <3>1. queue[s][p] = q /\ queue'[s][p] = Tail(q)
      BY <1>8, <2>4, <2>5 DEF q
    <3>2. k \in 1 .. Len(q) /\ k # 1 /\ q[k] = o
      BY <1>5, <2>2, <2>3, <2>5, <3>1
    <3>3. k - 1 \in 1 .. Len(q) - 1 /\ Tail(q)[k - 1] = o
      BY <1>4, <1>5, <3>2
    <3>4. QED
      BY <1>5, <2>3, <3>1, <3>3
  <2>6. CASE ~(rem[head] = qty /\ s = Against /\ p = llimit)
    BY <1>8, <2>3, <2>4, <2>6
  <2>7. QED
    BY <2>5, <2>6
<1>13. QueuesInOrder'
  <2> SUFFICES ASSUME NEW s \in Sides, NEW p \in Indexes, NEW k \in 1 .. Len(queue'[s][p])
               PROVE  /\ queue'[s][p][k] \in Resting
                      /\ orders[queue'[s][p][k]].side = s /\ Level(orders[queue'[s][p][k]].price) = p
                      /\ \A j \in 1 .. k - 1 : queue'[s][p][j] < queue'[s][p][k]
    BY <1>2, <1>6 DEF QueuesInOrder
  <2>1. \A i \in 1 .. Len(queue[s][p]) :
            /\ queue[s][p][i] \in Resting
            /\ orders[queue[s][p][i]].side = s /\ Level(orders[queue[s][p][i]].price) = p
            /\ \A j \in 1 .. i - 1 : queue[s][p][j] < queue[s][p][i]
    BY DEF IInv, QueuesInOrder
  <2>2. CASE rem[head] = qty /\ s = Against /\ p = llimit
    <3>1. queue[s][p] = q /\ queue'[s][p] = Tail(q)
      BY <1>8, <2>2 DEF q
    <3>2. k \in 1 .. Len(q) - 1 /\ k + 1 \in 1 .. Len(q) /\ Tail(q)[k] = q[k + 1]
      BY <1>4, <1>5, <3>1
    <3>3. \A j \in 1 .. k - 1 : j + 1 \in 1 .. (k + 1) - 1 /\ Tail(q)[j] = q[j + 1]
      BY <1>4, <1>5, <3>2
    <3>4. QED
      BY <2>1, <3>1, <3>2, <3>3
  <2>3. CASE ~(rem[head] = qty /\ s = Against /\ p = llimit)
    BY <1>8, <2>1, <2>3
  <2>4. QED
    BY <2>2, <2>3
<1>14. EmptyOffLadder'
  BY <1>2, <1>8 DEF IInv, EmptyOffLadder
<1>15. EndsExist' /\ NullLevelOnlyOffBook'
  BY <1>2 DEF IInv, EndsExist, NullLevelOnlyOffBook
<1>16. AtBestOrBeyond'
  BY <1>2, <1>6 DEF IInv, AtBestOrBeyond, Best
<1>17. HistoryBounds'
  BY <1>1, <1>2, <1>3, <1>6 DEF IInv, HistoryBounds
<1>18. QED
  BY <1>10, <1>11, <1>12, <1>13, <1>14, <1>15, <1>16, <1>17 DEF IInv

-----------------------------------------------------------------------------
(* The values by which next() and previous() say "no level" are no index.  *)
LEMMA NoLevelOffBook == NoNext \notin Indexes /\ NoPrevious \notin Indexes
BY LadderAssumption DEF NoNext, NoPrevious, Indexes

(* A level Match can dereference is the recorded end of its ladder.        *)
LEMMA StandsOnBest ==
    ASSUME IInv, pc = "match", Holds(ladder[Against], llimit)
    PROVE  /\ Against \in Sides /\ ladder[Against] \in Ladder
           /\ llimit \in Indexes /\ llimit = Best(Against) /\ EndsHeld(ladder[Against])
<1>1. Against \in Sides /\ ladder[Against] \in Ladder
  BY IncomingReceived DEF IInv, TypeOK
<1>2. llimit \in Indexes
  BY DEF Holds
<1>3. llimit = Best(Against)
  BY <1>2, NoLevelOffBook DEF IInv, AtBestOrBeyond
<1>4. CASE Against = "S"
  BY <1>1, <1>2, <1>3, <1>4 DEF IInv, EndsExist
<1>5. CASE Against = "B"
  <2>1. ~Stuck(ladder["B"])
    <3> SUFFICES ASSUME Stuck(ladder["B"]) PROVE FALSE
      OBVIOUS
    <3>1. llimit = Low - 1
      BY <1>1, <1>3, <1>5, StuckLast DEF Best
    <3>2. QED
      BY <1>2, <3>1, LadderAssumption DEF Indexes
  <2>2. QED
    BY <1>1, <1>2, <1>3, <1>5, <2>1 DEF IInv, EndsExist
<1>6. QED
  BY <1>1, <1>4, <1>5 DEF Sides

(* What next() and previous() do to the ladder Match walks and to the      *)
(* index it stands on.                                                     *)
LEMMA LevelGivenUp ==
    ASSUME IInv, NextLevel
    PROVE  /\ \A s \in Sides : s # Against => ladder'[s] = ladder[s]
           /\ ladder' \in [Sides -> Ladder] /\ EndsExist'
           /\ \A i : Holds(ladder'[Against], i) => Holds(ladder[Against], i)
           /\ \A i : Holds(ladder[Against], i) /\ i # llimit => Holds(ladder'[Against], i)
           /\ llimit' \in 0 .. Wrap - 1
           /\ \/ llimit' = IF Against = "S" THEN NoNext ELSE NoPrevious
              \/ /\ llimit' = IF Against = "S" THEN FirstIndex(ladder'["S"])
                                               ELSE LastIndex(ladder'["B"])
                 /\ Holds(ladder'[Against], llimit')
<1>1. pc = "match" /\ Holds(ladder[Against], llimit)
  BY DEF NextLevel, Crossing
<1>2. /\ Against \in Sides /\ ladder[Against] \in Ladder
      /\ llimit = Best(Against) /\ EndsHeld(ladder[Against])
  BY <1>1, StandsOnBest
<1>3. ladder \in [Sides -> Ladder] /\ EndsExist
  BY DEF IInv, TypeOK
<1>4. \A l \in Ladder : FirstIndex(l) \in 0 .. Wrap - 1 /\ LastIndex(l) \in 0 .. Wrap - 1
  BY LadderAssumption DEF Ladder, FirstIndex, LastIndex
<1>5. NoNext \in 0 .. Wrap - 1 /\ NoPrevious \in 0 .. Wrap - 1
  BY LadderAssumption DEF NoNext, NoPrevious
<1>6. CASE Against = "S"
  <2>1. /\ ladder' = [ladder EXCEPT !["S"] = NextFull(@)]
        /\ llimit' = NextIndex(ladder["S"])
    BY <1>6 DEF NextLevel
  <2>2. ladder'["S"] = NextFull(ladder["S"]) /\ ladder'["B"] = ladder["B"]
    BY <1>3, <2>1 DEF Sides
  <2>3. /\ NextFull(ladder["S"]) \in Ladder /\ EndsHeld(NextFull(ladder["S"]))
        /\ ladder["S"] \in Ladder /\ EndsHeld(ladder["S"])
    BY <1>2, <1>6, NextLadder
  <2>4. ladder' \in [Sides -> Ladder]
    BY <1>3, <2>1, <2>3
  <2>5. EndsExist'
    BY <1>3, <2>2, <2>3 DEF EndsExist
  <2>6. /\ \A i : Holds(ladder'["S"], i) => Holds(ladder["S"], i)
        /\ \A i : Holds(ladder["S"], i) /\ i # llimit => Holds(ladder'["S"], i)
        /\ \/ llimit' = NoNext
           \/ llimit' = FirstIndex(ladder'["S"]) /\ Holds(ladder'["S"], llimit')
    BY <1>2, <1>6, <2>1, <2>2, <2>3, NextGivesUpFirst DEF Best
  <2>7. llimit' \in 0 .. Wrap - 1
    BY <1>4, <1>5, <2>2, <2>3, <2>6
  <2>8. QED
    BY <1>6, <2>2, <2>4, <2>5, <2>6, <2>7 DEF Sides
<1>7. CASE Against = "B"
  <2>1. /\ ladder' = [ladder EXCEPT !["B"] = PreviousFull(@)]
        /\ llimit' = PreviousIndex(ladder["B"])
    BY <1>7 DEF NextLevel
  <2>2. ladder'["B"] = PreviousFull(ladder["B"]) /\ ladder'["S"] = ladder["S"]
    BY <1>3, <2>1 DEF Sides
  <2>3. /\ PreviousFull(ladder["B"]) \in Ladder
        /\ EndsHeld(PreviousFull(ladder["B"])) \/ Stuck(PreviousFull(ladder["B"]))
        /\ ladder["B"] \in Ladder /\ EndsHeld(ladder["B"])
    BY <1>2, <1>7, PreviousLadder
  <2>4. ladder' \in [Sides -> Ladder]
    BY <1>3, <2>1, <2>3
  <2>5. EndsExist'
    BY <1>3, <2>2, <2>3 DEF EndsExist
  <2>6. /\ \A i : Holds(ladder'["B"], i) => Holds(ladder["B"], i)
        /\ \A i : Holds(ladder["B"], i) /\ i # llimit => Holds(ladder'["B"], i)
        /\ \/ llimit' = NoPrevious
           \/ llimit' = LastIndex(ladder'["B"]) /\ Holds(ladder'["B"], llimit')
    BY <1>2, <1>7, <2>1, <2>2, <2>3, PreviousGivesUpLast DEF Best
  <2>7. llimit' \in 0 .. Wrap - 1
    BY <1>4, <1>5, <2>2, <2>3, <2>6
  <2>8. QED
    BY <1>7, <2>2, <2>4, <2>5, <2>6, <2>7 DEF Sides
<1>8. QED
  BY <1>2, <1>6, <1>7 DEF Sides

LEMMA NextLevelInv ==
    ASSUME IInv, NextLevel
    PROVE  IInv'
<1>1. /\ pc = "match" /\ queue[Against][llimit] = <<>> /\ Holds(ladder[Against], llimit)
      /\ UNCHANGED <<queue, orders, rem, known, handler, pc, filled, cancelled>>
  BY DEF NextLevel, Crossing
<1>2. /\ Against \in Sides /\ llimit \in Indexes /\ Resting \subseteq Received
      /\ \A o \in Received : orders[o].side \in Sides
  BY <1>1, StandsOnBest, ReceivedTyped DEF IInv
<1>3. Received' = Received /\ Resting' = Resting /\ Incoming' = Incoming /\ Against' = Against
  BY <1>1 DEF Received, Resting, Incoming, Against
<1>4. /\ \A s \in Sides : s # Against => ladder'[s] = ladder[s]
      /\ ladder' \in [Sides -> Ladder] /\ EndsExist' /\ llimit' \in 0 .. Wrap - 1
      /\ \A i : Holds(ladder'[Against], i) => Holds(ladder[Against], i)
      /\ \A i : Holds(ladder[Against], i) /\ i # llimit => Holds(ladder'[Against], i)
  BY LevelGivenUp
<1>5. TypeOK'
  BY <1>1, <1>4 DEF IInv, TypeOK
<1>6. SharesConserved' /\ HistoryBounds'
  BY <1>1, <1>3 DEF IInv, SharesConserved, HistoryBounds
<1>7. LiveOrdersQueued'
  <2> SUFFICES ASSUME NEW o \in Resting, rem[o] > 0, Level(orders[o].price) \in Indexes
               PROVE  /\ Holds(ladder'[orders[o].side], Level(orders[o].price))
                      /\ \E k \in DOMAIN queue[orders[o].side][Level(orders[o].price)] :
                            queue[orders[o].side][Level(orders[o].price)][k] = o
    BY <1>1, <1>3 DEF LiveOrdersQueued
  <2>1. /\ Holds(ladder[orders[o].side], Level(orders[o].price))
        /\ \E k \in DOMAIN queue[orders[o].side][Level(orders[o].price)] :
              queue[orders[o].side][Level(orders[o].price)][k] = o
    BY DEF IInv, LiveOrdersQueued
  <2>2. CASE orders[o].side = Against /\ Level(orders[o].price) = llimit
    BY <1>1, <2>1, <2>2
  <2>3. CASE ~(orders[o].side = Against /\ Level(orders[o].price) = llimit)
    BY <1>2, <1>4, <2>1, <2>3
  <2>4. QED
    BY <2>2, <2>3
<1>8. QueuesInOrder'
  BY <1>1, <1>3 DEF IInv, QueuesInOrder
<1>9. EmptyOffLadder'
  <2> SUFFICES ASSUME NEW s \in Sides, NEW p \in Indexes, ~Holds(ladder'[s], p)
               PROVE  queue[s][p] = <<>>
    BY <1>1 DEF EmptyOffLadder
  <2>1. CASE s = Against /\ p = llimit
    BY <1>1, <2>1
  <2>2. CASE ~(s = Against /\ p = llimit)
    BY <1>4, <2>2 DEF IInv, EmptyOffLadder
  <2>3. QED
    BY <2>1, <2>2
<1>10. NullLevelOnlyOffBook'
  BY <1>1 DEF NullLevelOnlyOffBook
<1>11. AtBestOrBeyond'
  <2>1. \/ llimit' = IF Against = "S" THEN NoNext ELSE NoPrevious
        \/ /\ llimit' = IF Against = "S" THEN FirstIndex(ladder'["S"])
                                         ELSE LastIndex(ladder'["B"])
           /\ Holds(ladder'[Against], llimit')
    BY LevelGivenUp
  <2>2. QED
    BY <1>3, <2>1 DEF AtBestOrBeyond, Best
<1>12. QED
  BY <1>4, <1>5, <1>6, <1>7, <1>8, <1>9, <1>10, <1>11 DEF IInv

-----------------------------------------------------------------------------
(* A null level is met only where the price itself is off the book.        *)
LEMMA NullLevelInv ==
    ASSUME IInv, NullLevel
    PROVE  IInv'
<1>1. /\ pc = "match" /\ pc' = "nullLevel" /\ WithinLimit /\ ~Holds(ladder[Against], llimit)
      /\ UNCHANGED <<ladder, queue, orders, rem, known, handler, llimit, filled, cancelled>>
  BY DEF NullLevel, Crossing
<1>2. /\ orders[Incoming].side \in Sides /\ orders[Incoming].price \in 0 .. Wrap - 1
      /\ Against \in Sides
  BY <1>1, IncomingReceived
<1>3. /\ Received' = Received /\ Resting' = Resting /\ Incoming' = Incoming
  BY <1>1 DEF Received, Resting, Incoming
<1>4. NullLevelOnlyOffBook'
  <2>1. CASE orders[Incoming].side = "B"
    <3>1. Against = "S" /\ llimit <= orders[Incoming].price
      BY <1>1, <2>1 DEF Against, Opposite, WithinLimit
    <3>2. llimit = Wrap - 1
      BY <1>1, <3>1 DEF IInv, AtBestOrBeyond, NoNext
    <3>3. QED
      BY <1>1, <1>2, <1>3, <2>1, <3>1, <3>2, LadderAssumption DEF NullLevelOnlyOffBook, NoNext
  <2>2. CASE orders[Incoming].side = "S"
    <3>1. Against = "B" /\ llimit >= orders[Incoming].price
      BY <1>1, <2>2 DEF Against, Opposite, WithinLimit
    <3>2. llimit = 0 \/ llimit = Low - 1
      <4>1. ladder["B"] \in Ladder
        BY DEF IInv, TypeOK, Sides
      <4>2. CASE llimit = NoPrevious
        BY <4>2 DEF NoPrevious
      <4>3. CASE llimit # NoPrevious
        <5>1. llimit = LastIndex(ladder["B"]) /\ Stuck(ladder["B"])
          BY <1>1, <3>1, <4>3 DEF IInv, AtBestOrBeyond, Best
        <5>2. QED
          BY <4>1, <5>1, StuckLast
      <4>4. QED
        BY <4>2, <4>3
    <3>3. orders[Incoming].price < Low
      BY <1>2, <3>1, <3>2, LadderAssumption
    <3>4. QED
      BY <1>1, <1>3, <2>2, <3>3 DEF NullLevelOnlyOffBook
  <2>3. QED
    BY <1>2, <2>1, <2>2 DEF Sides
<1>5. TypeOK' /\ EndsExist' /\ EmptyOffLadder'
  BY <1>1 DEF IInv, TypeOK, EndsExist, EmptyOffLadder
<1>6. SharesConserved' /\ HistoryBounds' /\ AtBestOrBeyond'
  BY <1>1, <1>3 DEF IInv, SharesConserved, HistoryBounds, AtBestOrBeyond
<1>7. LiveOrdersQueued' /\ QueuesInOrder'
  BY <1>1, <1>3 DEF IInv, LiveOrdersQueued, QueuesInOrder
<1>8. QED
  BY <1>4, <1>5, <1>6, <1>7 DEF IInv

LEMMA LeaveMatchInv ==
    ASSUME IInv, LeaveMatch
    PROVE  IInv'
<1>1. /\ pc = "match" /\ pc' = "rest" /\ llimit' = 0
      /\ UNCHANGED <<ladder, queue, orders, rem, known, handler, filled, cancelled>>
  BY DEF LeaveMatch
<1>2. Received' = Received /\ Resting' = Resting
  BY <1>1 DEF Received, Resting, Incoming
<1>3. 0 \in 0 .. Wrap - 1
  BY LadderAssumption
<1>4. TypeOK' /\ EndsExist' /\ EmptyOffLadder'
  BY <1>1, <1>3 DEF IInv, TypeOK, EndsExist, EmptyOffLadder
<1>5. SharesConserved' /\ HistoryBounds' /\ AtBestOrBeyond' /\ NullLevelOnlyOffBook'
  BY <1>1, <1>2 DEF IInv, SharesConserved, HistoryBounds, AtBestOrBeyond, NullLevelOnlyOffBook
<1>6. LiveOrdersQueued' /\ QueuesInOrder'
  BY <1>1, <1>2 DEF IInv, LiveOrdersQueued, QueuesInOrder
<1>7. QED
  BY <1>4, <1>5, <1>6 DEF IInv

-----------------------------------------------------------------------------
(* The queue of the level a resting order joins.                           *)
LEMMA JoinedQueue ==
    ASSUME NEW q \in Seq(Arrivals), NEW n \in Arrivals, NEW held \in BOOLEAN, NEW joined,
           joined = IF held THEN Append(q, n) ELSE <<n>>
    PROVE  /\ joined \in Seq(Arrivals) /\ Len(joined) \in Nat \ {0} /\ Len(q) \in Nat
           /\ DOMAIN joined = 1 .. Len(joined) /\ DOMAIN q = 1 .. Len(q)
           /\ joined[Len(joined)] = n
           /\ \A k \in 1 .. Len(joined) - 1 : k \in 1 .. Len(q) /\ joined[k] = q[k]
           /\ held => \A k \in 1 .. Len(q) : k \in 1 .. Len(joined) /\ joined[k] = q[k]
<1>1. CASE held
  BY <1>1
<1>2. CASE ~held
  BY <1>2
<1>3. QED
  BY <1>1, <1>2

(* onBuyOrder and onSellOrder.                                             *)
LEMMA RestInv ==
    ASSUME IInv, RestOrReturn, rem[Incoming] # 0
    PROVE  IInv'
<1> DEFINE n == Incoming
           t == orders[n].side
           b == Level(orders[n].price)
<1>1. /\ pc = "rest" /\ pc' = "idle"
      /\ queue' = IF b \notin Indexes THEN queue ELSE
                  [queue EXCEPT ![t][b] = IF Holds(ladder[t], b) THEN Append(@, n) ELSE <<n>>]
      /\ ladder' = [ladder EXCEPT ![t] = Add(@, b)]
      /\ UNCHANGED <<orders, rem, known, handler, llimit, filled, cancelled>>
  BY DEF RestOrReturn
<1>2. /\ n \in Received /\ n \in Arrivals /\ n \in Nat /\ t \in Sides /\ b \in 0 .. Wrap - 1
      /\ Resting = Received \ {n} /\ n = Len(orders)
  BY <1>1, IncomingReceived, LevelTyped DEF Incoming
<1>3. Received' = Received /\ Resting' = Received /\ n' = n
  BY <1>1 DEF Received, Resting, Incoming
<1>4. /\ queue \in [Sides -> [Indexes -> Seq(Arrivals)]] /\ ladder \in [Sides -> Ladder]
      /\ \A o \in Received : orders[o].side \in Sides /\ o \in Nat /\ o <= n
  BY <1>2, ReceivedTyped DEF IInv, TypeOK, Received
<1> HIDE DEF n, t, b
<1>5. /\ ladder'[t] = Add(ladder[t], b) /\ \A s \in Sides : s # t => ladder'[s] = ladder[s]
      /\ ladder' \in [Sides -> Ladder]
      /\ EndsHeld(ladder[t]) => EndsHeld(ladder'[t])
      /\ Stuck(ladder[t]) => Stuck(ladder'[t])
  BY <1>1, <1>2, <1>4, AddLadder
<1>6. \A s \in Sides : \A i : Holds(ladder'[s], i) <=>
          Holds(ladder[s], i) \/ (s = t /\ i = b /\ i \in Indexes)
  BY <1>2, <1>4, <1>5, AddHolds
<1> DEFINE joined == IF Holds(ladder[t], b) THEN Append(queue[t][b], n) ELSE <<n>>
<1>7. b \in Indexes =>
        /\ joined \in Seq(Arrivals) /\ Len(joined) \in Nat \ {0} /\ Len(queue[t][b]) \in Nat
        /\ DOMAIN joined = 1 .. Len(joined) /\ DOMAIN queue[t][b] = 1 .. Len(queue[t][b])
        /\ joined[Len(joined)] = n
        /\ \A k \in 1 .. Len(joined) - 1 :
              k \in 1 .. Len(queue[t][b]) /\ joined[k] = queue[t][b][k]
        /\ Holds(ladder[t], b) => \A k \in 1 .. Len(queue[t][b]) :
              k \in 1 .. Len(joined) /\ joined[k] = queue[t][b][k]
  <2>1. Holds(ladder[t], b) \in BOOLEAN
    BY DEF Holds
  <2>2. b \in Indexes => queue[t][b] \in Seq(Arrivals)
    BY <1>2, <1>4
  <2>3. QED
    BY <1>2, <2>1, <2>2, JoinedQueue
<1>8. /\ queue' \in [Sides -> [Indexes -> Seq(Arrivals)]]
      /\ \A s \in Sides, p \in Indexes :
            queue'[s][p] = IF s = t /\ p = b THEN joined ELSE queue[s][p]
  BY <1>1, <1>2, <1>4, <1>7
<1> HIDE DEF joined
<1>9. TypeOK'
  BY <1>1, <1>5, <1>8 DEF IInv, TypeOK
<1>10. SharesConserved' /\ HistoryBounds' /\ NullLevelOnlyOffBook' /\ AtBestOrBeyond'
  BY <1>1, <1>3 DEF IInv, SharesConserved, HistoryBounds, NullLevelOnlyOffBook, AtBestOrBeyond
<1>11. EndsExist'
  <2>1. t = "S" \/ t = "B"
    BY <1>2 DEF Sides
  <2>2. QED
    BY <1>5, <2>1 DEF IInv, EndsExist, Sides
<1>12. EmptyOffLadder'
  BY <1>6, <1>8 DEF IInv, EmptyOffLadder
<1>13. LiveOrdersQueued'
  <2> SUFFICES ASSUME NEW o \in Received, rem[o] > 0, Level(orders[o].price) \in Indexes
               PROVE  /\ Holds(ladder'[orders[o].side], Level(orders[o].price))
                      /\ \E k \in DOMAIN queue'[orders[o].side][Level(orders[o].price)] :
                            queue'[orders[o].side][Level(orders[o].price)][k] = o
    BY <1>1, <1>3 DEF LiveOrdersQueued
  <2> DEFINE s == orders[o].side
             p == Level(orders[o].price)
  <2>1. CASE o = n
    <3>1. s = t /\ p = b /\ b \in Indexes
      BY <2>1 DEF t, b
    <3>2. queue'[s][p] = joined /\ Holds(ladder'[s], p)
      BY <1>2, <1>6, <1>8, <3>1
    <3>3. Len(joined) \in DOMAIN joined /\ joined[Len(joined)] = n
      BY <1>7, <3>1
    <3>4. QED
      BY <2>1, <3>2, <3>3
  <2>2. CASE o # n
    <3>1. PICK k \in DOMAIN queue[s][p] : Holds(ladder[s], p) /\ queue[s][p][k] = o
      BY <1>2, <2>2 DEF IInv, LiveOrdersQueued
    <3>2. s \in Sides /\ Holds(ladder'[s], p)
      BY <1>4, <1>6, <3>1
    <3>3. CASE s = t /\ p = b
      <4>1. k \in 1 .. Len(queue[t][b]) /\ Holds(ladder[t], b) /\ b \in Indexes
        BY <1>7, <3>1, <3>3
      <4>2. k \in DOMAIN joined /\ joined[k] = o
        BY <1>7, <3>1, <3>3, <4>1
      <4>3. queue'[s][p] = joined
        BY <1>8, <3>2, <3>3
      <4>4. QED
        BY <3>2, <4>2, <4>3
    <3>4. CASE ~(s = t /\ p = b)
      BY <1>8, <3>1, <3>2, <3>4
    <3>5. QED
      BY <3>3, <3>4
  <2>3. QED
    BY <2>1, <2>2
<1>14. QueuesInOrder'
  <2> SUFFICES ASSUME NEW s \in Sides, NEW p \in Indexes, NEW k \in 1 .. Len(queue'[s][p])
               PROVE  /\ queue'[s][p][k] \in Received
                      /\ orders[queue'[s][p][k]].side = s /\ Level(orders[queue'[s][p][k]].price) = p
                      /\ \A j \in 1 .. k - 1 : queue'[s][p][j] < queue'[s][p][k]
    BY <1>1, <1>3 DEF QueuesInOrder
  <2>1. \A i \in 1 .. Len(queue[s][p]) :
            /\ queue[s][p][i] \in Received /\ queue[s][p][i] # n
            /\ orders[queue[s][p][i]].side = s /\ Level(orders[queue[s][p][i]].price) = p
            /\ \A j \in 1 .. i - 1 : queue[s][p][j] < queue[s][p][i]
    BY <1>2 DEF IInv, QueuesInOrder
  <2>2. CASE s = t /\ p = b
    <3>1. queue'[s][p] = joined /\ b \in Indexes
      BY <1>8, <2>2
    <3>2. k \in 1 .. Len(joined) /\ Len(joined) \in Nat
      BY <1>7, <3>1
    <3>3. CASE k = Len(joined)
      <4>1. joined[k] = n
        BY <1>7, <3>1, <3>3
      <4>2. \A j \in 1 .. k - 1 : joined[j] \in Received /\ joined[j] # n
        BY <1>7, <2>1, <2>2, <3>1, <3>3
      <4>3. \A j \in 1 .. k - 1 : joined[j] < n
        <5> SUFFICES ASSUME NEW j \in 1 .. k - 1 PROVE joined[j] < n
          OBVIOUS
        <5>1. joined[j] \in Nat /\ joined[j] <= n /\ joined[j] # n
          BY <1>4, <4>2
        <5>2. QED
          BY <1>2, <5>1
      <4>4. QED
        BY <1>2, <2>2, <3>1, <4>1, <4>3 DEF t, b
    <3>4. CASE k # Len(joined)
      <4>1. k \in 1 .. Len(joined) - 1
        BY <3>2, <3>4
      <4>2. k \in 1 .. Len(queue[t][b]) /\ joined[k] = queue[t][b][k]
        BY <1>7, <3>1, <4>1
      <4>3. \A j \in 1 .. k - 1 : joined[j] = queue[t][b][j]
        BY <1>7, <3>1, <4>1
      <4>4. QED
        BY <2>1, <2>2, <3>1, <4>2, <4>3
    <3>5. QED
      BY <3>3, <3>4
  <2>3. CASE ~(s = t /\ p = b)
    BY <1>8, <2>1, <2>3
  <2>4. QED
    BY <2>2, <2>3
<1>15. QED
  BY <1>9, <1>10, <1>11, <1>12, <1>13, <1>14 DEF IInv

LEMMA RestOrReturnInv ==
    ASSUME IInv, RestOrReturn
    PROVE  IInv'
<1>1. CASE rem[Incoming] = 0
  <2>1. /\ pc = "rest" /\ pc' = "idle"
        /\ UNCHANGED <<ladder, queue, orders, rem, known, handler, llimit, filled, cancelled>>
    BY <1>1 DEF RestOrReturn
  <2>2. Received' = Received /\ Resting' = Received /\ Resting = Received \ {Incoming}
    BY <2>1, IncomingReceived DEF Received, Resting, Incoming
  <2>3. TypeOK' /\ EndsExist' /\ EmptyOffLadder'
    BY <2>1 DEF IInv, TypeOK, EndsExist, EmptyOffLadder
  <2>4. SharesConserved' /\ HistoryBounds' /\ AtBestOrBeyond' /\ NullLevelOnlyOffBook'
    BY <2>1, <2>2 DEF IInv, SharesConserved, HistoryBounds, AtBestOrBeyond, NullLevelOnlyOffBook
  <2>5. LiveOrdersQueued'
    BY <1>1, <2>1, <2>2 DEF IInv, LiveOrdersQueued
  <2>6. QueuesInOrder'
    BY <2>1, <2>2 DEF IInv, QueuesInOrder
  <2>7. QED
    BY <2>3, <2>4, <2>5, <2>6 DEF IInv
<1>2. QED
  BY <1>1, RestInv

-----------------------------------------------------------------------------
(* The order a cancel finds is one that rests.                             *)
LEMMA FoundRests ==
    ASSUME IInv, pc = "idle", NEW o \in Received, Found(o) # {}
    PROVE  queue[orders[o].side][Level(orders[o].price)][Min(Found(o))] \in Received
<1> DEFINE s == orders[o].side
           p == Level(orders[o].price)
<1>1. s \in Sides /\ Holds(ladder[s], p)
  BY ReceivedTyped DEF IInv, Found
<1>2. p \in Indexes
  BY <1>1 DEF Holds
<1>3. queue[s][p] \in Seq(Arrivals)
  BY <1>1, <1>2 DEF IInv, TypeOK
<1>4. DOMAIN queue[s][p] = 1 .. Len(queue[s][p]) /\ Len(queue[s][p]) \in Nat
  BY <1>3
<1>5. Found(o) \subseteq 1 .. Len(queue[s][p])
  BY <1>1, <1>4 DEF Found
<1>6. Found(o) \in SUBSET Nat
  BY <1>4, <1>5
<1>7. Min(Found(o)) \in 1 .. Len(queue[s][p])
  BY <1>5, <1>6, MinOfNats
<1>8. queue[s][p][Min(Found(o))] \in Resting
  BY <1>1, <1>2, <1>7 DEF IInv, QueuesInOrder
<1>9. QED
  BY <1>8 DEF Resting

LEMMA CancelInv ==
    ASSUME IInv, NEW id \in Ids, Cancel(id)
    PROVE  IInv'
<1>1. /\ pc = "idle" /\ pc' \in {"idle", "nullOrder"}
      /\ UNCHANGED <<ladder, queue, orders, handler, llimit, filled>>
  BY DEF Cancel
<1>2. Received' = Received /\ Resting' = Received /\ Resting = Received
  BY <1>1 DEF Received, Resting
<1>3. \/ UNCHANGED <<rem, cancelled>>
      \/ \E x \in Received : /\ rem' = [rem EXCEPT ![x] = 0]
                            /\ cancelled' = cancelled \union {x}
  <2>1. CASE known[id] = None
    BY <2>1 DEF Cancel
  <2>2. CASE known[id] # None /\ Found(known[id]) = {}
    BY <2>2 DEF Cancel
  <2>3. CASE known[id] # None /\ Found(known[id]) # {}
    <3>1. known[id] \in Received
      BY <2>3 DEF IInv, HistoryBounds
    <3>2. queue[orders[known[id]].side][Level(orders[known[id]].price)][Min(Found(known[id]))] \in Received
      BY <1>1, <2>3, <3>1, FoundRests
    <3>3. QED
      BY <2>3, <3>2 DEF Cancel
  <2>4. QED
    BY <2>1, <2>2, <2>3
<1>4. /\ known' \in [Ids -> Arrivals \union {None}]
      /\ \A i \in Ids : known'[i] \in Received \union {None}
  BY DEF Cancel, IInv, TypeOK, HistoryBounds
<1>5. Received \subseteq Arrivals /\ rem \in [Arrivals -> Nat]
  BY ReceivedTyped DEF IInv, TypeOK
<1>6. /\ rem' \in [Arrivals -> Nat] /\ cancelled' \subseteq Received
      /\ \A o \in Received : rem'[o] = rem[o] \/ rem'[o] = 0
      /\ \A o \in Received : o \notin cancelled' => o \notin cancelled /\ rem'[o] = rem[o]
      /\ \A o \in Received : o \in cancelled' => rem'[o] = 0
  BY <1>3, <1>5 DEF IInv, HistoryBounds, SharesConserved
<1>7. TypeOK' /\ EndsExist' /\ EmptyOffLadder'
  BY <1>1, <1>4, <1>5, <1>6 DEF IInv, TypeOK, EndsExist, EmptyOffLadder
<1>8. SharesConserved'
  <2> SUFFICES ASSUME NEW o \in Received
               PROVE  /\ o \notin cancelled' => rem'[o] + filled[o] = orders[o].shares
                      /\ o \in cancelled' => rem'[o] = 0 /\ filled[o] <= orders[o].shares
    BY <1>1, <1>2 DEF SharesConserved
  <2>1. rem[o] \in Nat /\ filled[o] \in Nat
    BY <1>5 DEF IInv, TypeOK
  <2>2. /\ o \notin cancelled => rem[o] + filled[o] = orders[o].shares
        /\ o \in cancelled => rem[o] = 0 /\ filled[o] <= orders[o].shares
    BY DEF IInv, SharesConserved
  <2>3. filled[o] <= orders[o].shares
    BY <2>1, <2>2
  <2>4. QED
    BY <1>6, <2>2, <2>3
<1>9. LiveOrdersQueued'
  <2>1. \A o \in Received : rem'[o] > 0 => rem[o] > 0
    BY <1>6
  <2>2. QED
    BY <1>1, <1>2, <2>1 DEF IInv, LiveOrdersQueued
<1>10. QueuesInOrder'
  BY <1>1, <1>2 DEF IInv, QueuesInOrder
<1>11. AtBestOrBeyond' /\ NullLevelOnlyOffBook' /\ HistoryBounds'
  BY <1>1, <1>2, <1>4, <1>6 DEF IInv, AtBestOrBeyond, NullLevelOnlyOffBook, HistoryBounds
<1>12. QED
  BY <1>7, <1>8, <1>9, <1>10, <1>11 DEF IInv

(* The steps that leave the book, the orders and their shares alone.       *)
LEMMA BookUnchangedInv ==
    ASSUME IInv, UNCHANGED <<ladder, queue, orders, rem, pc, llimit, filled, cancelled>>,
           handler' \in BOOLEAN, known' \in [Ids -> Arrivals \union {None}],
           \A i \in Ids : known'[i] \in Received \union {None}
    PROVE  IInv'
<1>1. Received' = Received /\ Resting' = Resting /\ Incoming' = Incoming /\ Against' = Against
  BY DEF Received, Resting, Incoming, Against
<1>2. TypeOK' /\ EndsExist' /\ EmptyOffLadder'
  BY DEF IInv, TypeOK, EndsExist, EmptyOffLadder
<1>3. SharesConserved' /\ HistoryBounds' /\ NullLevelOnlyOffBook'
  BY <1>1 DEF IInv, SharesConserved, HistoryBounds, NullLevelOnlyOffBook
<1>4. AtBestOrBeyond'
  BY <1>1 DEF IInv, AtBestOrBeyond, Best
<1>5. LiveOrdersQueued' /\ QueuesInOrder'
  BY <1>1 DEF IInv, LiveOrdersQueued, QueuesInOrder
<1>6. QED
  BY <1>2, <1>3, <1>4, <1>5 DEF IInv

LEMMA NextInv ==
    ASSUME IInv, [Next]_vars
    PROVE  IInv'
<1>1. /\ handler \in BOOLEAN /\ known \in [Ids -> Arrivals \union {None}]
      /\ \A i \in Ids : known[i] \in Received \union {None}
  BY DEF IInv, TypeOK, HistoryBounds
<1>2. CASE \E o \in Order : NewOrder(o)
  BY <1>2, NewOrderInv
<1>3. CASE NewOrderOfNoSide
  BY <1>1, <1>3, BookUnchangedInv DEF NewOrderOfNoSide
<1>4. CASE Handle
  BY <1>4, ExecuteHeadInv, NextLevelInv, NullLevelInv, LeaveMatchInv, RestOrReturnInv DEF Handle
<1>5. CASE \E id \in Ids : Cancel(id)
  BY <1>5, CancelInv
<1>6. ASSUME NEW id \in Ids, CancelWithoutHandler(id)
      PROVE  IInv'
  <2>1. /\ known' \in [Ids -> Arrivals \union {None}]
        /\ \A i \in Ids : known'[i] \in Received \union {None}
    BY <1>1, <1>6 DEF CancelWithoutHandler
  <2>2. QED
    BY <1>1, <1>6, <2>1, BookUnchangedInv DEF CancelWithoutHandler
<1>7. CASE UNCHANGED vars
  BY <1>1, <1>7, BookUnchangedInv DEF vars
<1>8. QED
  BY <1>2, <1>3, <1>4, <1>5, <1>6, <1>7 DEF Next

-----------------------------------------------------------------------------
(* The inductive invariant of the matching engine.                         *)
THEOREM EngineInvariant == Spec => []IInv
<1>1. IInv /\ [Next]_vars => IInv'
  BY NextInv
<1>2. QED
  BY InitInv, <1>1, PTL DEF Spec

(* No execution and no cancel creates or loses a share.                    *)
THEOREM SharesNeverLost == Spec => []SharesConserved
<1>1. IInv => SharesConserved
  BY DEF IInv
<1>2. QED
  BY EngineInvariant, <1>1, PTL

(* An order that rests with shares left stays queued on a held level.      *)
THEOREM NoLiveOrderLost == Spec => []LiveOrdersQueued
<1>1. IInv => LiveOrdersQueued
  BY DEF IInv
<1>2. QED
  BY EngineInvariant, <1>1, PTL

(* Match meets a null level only for an order priced off the book.         *)
THEOREM NullLevelNeedsOffBookPrice == Spec => []NullLevelOnlyOffBook
<1>1. IInv => NullLevelOnlyOffBook
  BY DEF IInv
<1>2. QED
  BY EngineInvariant, <1>1, PTL

-----------------------------------------------------------------------------
(* What Execute notifies, for both orders.                                 *)
LEMMA ExecuteHeadNotifies ==
    ASSUME IInv, ExecuteHead
    PROVE  NotifiedFills
<1> DEFINE head == Head(queue[Against][llimit])
           n    == Incoming
           qty  == IF rem[head] < rem[n] THEN rem[head] ELSE rem[n]
<1>1. /\ head \in Arrivals /\ n \in Arrivals /\ head # n /\ Level(orders[head].price) = llimit
      /\ rem[head] \in Nat /\ rem[n] \in Nat /\ filled[head] \in Nat /\ filled[n] \in Nat
      /\ head \in Resting
  <2>1. pc = "match"
    BY DEF ExecuteHead, Crossing
  <2>2. /\ head \in Received /\ head \in Arrivals /\ n \in Arrivals /\ head < n
        /\ Level(orders[head].price) = llimit /\ n \in Nat
    BY <2>1, HeadRests, IncomingReceived DEF Incoming
  <2>3. head # n
    BY <2>2
  <2>4. head \in Resting
    BY <2>1, <2>2, <2>3 DEF Resting
  <2>5. QED
    BY <2>2, <2>3, <2>4 DEF IInv, TypeOK
<1>2. qty \in Nat
  BY <1>1
<1>3. /\ filled' = [filled EXCEPT ![head] = @ + qty, ![n] = @ + qty]
      /\ notified' = <<Exec(head, llimit, qty), Exec(n, llimit, qty)>>
  BY DEF ExecuteHead
<1>4. filled \in [Arrivals -> Nat]
  BY DEF IInv, TypeOK
<1> HIDE DEF head, n, qty
<1>5. filled'[head] - filled[head] = qty /\ filled'[n] - filled[n] = qty
  BY <1>1, <1>2, <1>3, <1>4
<1>6. \A o \in Arrivals : filled'[o] # filled[o] => o = head \/ o = n
  BY <1>3, <1>4
<1>7. /\ DOMAIN notified' = {1, 2}
      /\ notified'[1] = [type |-> "E", order |-> head, price |-> llimit, shares |-> qty]
      /\ notified'[2] = [type |-> "E", order |-> n, price |-> llimit, shares |-> qty]
  BY <1>3 DEF Exec
<1>8. /\ notified'[1].type = "E" /\ notified'[1].order = head
      /\ notified'[1].price = llimit /\ notified'[1].shares = qty
      /\ notified'[2].type = "E" /\ notified'[2].order = n
      /\ notified'[2].price = llimit /\ notified'[2].shares = qty
  BY <1>7
<1> DEFINE execs == {k \in DOMAIN notified' : notified'[k].type = "E"}
<1>9. execs = {1, 2}
  BY <1>7, <1>8
<1>10. n = Incoming
  BY DEF n
<1> HIDE DEF execs
<1>11. \A o \in Arrivals : filled'[o] # filled[o] => \E k \in execs : notified'[k].order = o
  BY <1>6, <1>8, <1>9
<1>12. ASSUME NEW k \in execs
       PROVE  /\ notified'[k].shares = filled'[notified'[k].order] - filled[notified'[k].order]
              /\ \A j \in execs : notified'[j].order = notified'[k].order => j = k
  BY <1>1, <1>5, <1>8, <1>9
<1>13. ASSUME NEW k \in execs
       PROVE  \E r, i \in execs :
                 /\ notified'[r].order \in Resting /\ notified'[i].order = Incoming
                 /\ k \in {r, i}
                 /\ notified'[r].shares = notified'[i].shares
                 /\ notified'[r].price = Level(orders[notified'[r].order].price)
                 /\ notified'[i].price = notified'[r].price
  <2>1. 1 \in execs /\ 2 \in execs /\ k \in {1, 2}
    BY <1>9
  <2>2. QED
    BY <1>1, <1>8, <1>10, <2>1
<1>14. QED
  BY <1>11, <1>12, <1>13 DEF NotifiedFills, execs

(* A step that changes no filled and reports no execution.                 *)
LEMMA SilentStep ==
    ASSUME UNCHANGED filled, \A k \in DOMAIN notified' : notified'[k].type # "E"
    PROVE  NotifiedFills
BY DEF NotifiedFills

(* For every book and every sequence of orders and cancels: the executions *)
(* the observers get are the fills of the step, each side of a fill once.  *)
THEOREM ReportsAreFills == Spec => ExecsReportFills
<1>1. ASSUME IInv, Next
      PROVE  NotifiedFills
  <2>1. CASE ExecuteHead
    BY <1>1, <2>1, ExecuteHeadNotifies
  <2>2. CASE RestOrReturn
    <3>1. /\ UNCHANGED filled
          /\ notified' = <<>> \/ notified' = <<Publish(Incoming)>>
      BY <2>2 DEF RestOrReturn
    <3>2. \A k \in DOMAIN notified' : notified'[k].type # "E"
      BY <3>1 DEF Publish
    <3>3. QED
      BY <3>1, <3>2, SilentStep
  <2>3. CASE ~ExecuteHead /\ ~RestOrReturn
    <3>1. notified' = <<>> /\ UNCHANGED filled
      BY <1>1, <2>3 DEF Next, Handle, NewOrder, NewOrderOfNoSide, NextLevel, NullLevel,
                        LeaveMatch, Cancel, CancelWithoutHandler
    <3>2. \A k \in DOMAIN notified' : notified'[k].type # "E"
      BY <3>1
    <3>3. QED
      BY <3>1, <3>2, SilentStep
  <2>4. QED
    BY <2>1, <2>2, <2>3
<1>2. IInv /\ [Next]_vars => [NotifiedFills]_vars
  BY <1>1
<1>3. QED
  BY EngineInvariant, <1>2, PTL DEF Spec, ExecsReportFills

-----------------------------------------------------------------------------
(* The engine serves, among the orders of a side and a price, the first.   *)
LEMMA HeadIsFirstInLine ==
    ASSUME IInv, ExecuteHead
    PROVE  Promise!FirstInLine(Head(queue[Against][llimit]))
<1> DEFINE q == queue[Against][llimit]
           head == Head(q)
<1>1. /\ pc = "match" /\ llimit \in Indexes /\ head = q[1] /\ head \in Nat /\ head < Incoming
      /\ orders[head].side = Against /\ Level(orders[head].price) = llimit
  BY HeadRests, ReceivedTyped DEF ExecuteHead, Crossing, IInv
<1>2. /\ Against \in Sides /\ Resting = Received \ {Incoming} /\ Incoming \in Nat
      /\ Incoming = Len(orders) /\ Received \subseteq Arrivals
  BY <1>1, IncomingReceived, ReceivedTyped DEF Incoming, IInv
<1>3. q \in Seq(Arrivals) /\ DOMAIN q = 1 .. Len(q) /\ Len(q) \in Nat
  BY HeadRests
<1> SUFFICES ASSUME NEW x \in 1 .. head - 1, orders[x].side = Against, Level(orders[x].price) = llimit,
                    rem[x] # 0
             PROVE  FALSE
  BY <1>1 DEF Promise!FirstInLine
<1>4. x \in Resting /\ x < head /\ x \in Nat
  BY <1>1, <1>2 DEF Received
<1>5. rem[x] > 0
  BY <1>2, <1>4 DEF IInv, TypeOK
<1>6. PICK k \in DOMAIN q : q[k] = x
  BY <1>1, <1>4, <1>5 DEF IInv, LiveOrdersQueued
<1>7. k \in 1 .. Len(q) /\ k # 1
  BY <1>1, <1>3, <1>4, <1>6
<1>8. 1 \in 1 .. k - 1
  BY <1>3, <1>7
<1>9. q[1] < q[k]
  BY <1>1, <1>2, <1>7, <1>8 DEF IInv, QueuesInOrder
<1>10. QED
  BY <1>1, <1>4, <1>6, <1>9

(* One Execute is a trade of the promise, or nothing when one of the two   *)
(* orders has no shares left.                                              *)
LEMMA ExecuteHeadKeepsPromise ==
    ASSUME IInv, ExecuteHead, BookedAsPriced
    PROVE  [Promise!Next]_(Promise!vars)
<1> DEFINE head == Head(queue[Against][llimit])
           n    == Len(orders)
           qty  == IF rem[head] < rem[n] THEN rem[head] ELSE rem[n]
<1>1. pc = "match" /\ WithinLimit
  BY DEF ExecuteHead, Crossing
<1>2. /\ head \in Received /\ head \in Arrivals /\ head < n /\ n \in Arrivals
      /\ orders[head].side = Against /\ Level(orders[head].price) = llimit /\ orders[n].side \in Sides
  BY <1>1, HeadRests, IncomingReceived DEF Incoming
<1>3. /\ rem' = [rem EXCEPT ![head] = @ - qty, ![n] = @ - qty]
      /\ filled' = [filled EXCEPT ![head] = @ + qty, ![n] = @ + qty]
      /\ UNCHANGED orders
  BY DEF ExecuteHead, Incoming
<1>4. rem \in [Arrivals -> Nat] /\ filled \in [Arrivals -> Nat]
  BY DEF IInv, TypeOK
<1>5. rem[head] \in Nat /\ rem[n] \in Nat /\ filled[head] \in Nat /\ filled[n] \in Nat
  BY <1>2, <1>4
<1>6. /\ qty \in Nat /\ qty <= rem[head] /\ qty <= rem[n]
      /\ qty = rem[head] \/ qty = rem[n]
  BY <1>5
<1>7. Promise!FirstInLine(head)
  BY HeadIsFirstInLine
<1>8. Promise!Compatible(head, n)
  <2>1. llimit \in Indexes /\ orders[head] \in Order
    BY <1>2, HeadRests, ReceivedTyped DEF IInv
  <2>2. orders[head].price = llimit
    BY <1>2, <2>1 DEF BookedAsPriced, Order
  <2>3. QED
    BY <1>1, <1>2, <2>2 DEF Promise!Compatible, WithinLimit, Against, Opposite, Incoming, Sides
<1> HIDE DEF head, n, qty
<1>9. CASE qty = 0
  <2>1. rem' = rem /\ filled' = filled
    BY <1>2, <1>3, <1>4, <1>5, <1>9
  <2>2. QED
    BY <1>3, <2>1 DEF Promise!vars
<1>10. CASE qty > 0
  <2>1. qty \in 1 .. rem[head]
    BY <1>5, <1>6, <1>10
  <2>2. Promise!Trade(head, qty)
    BY <1>2, <1>3, <1>6, <1>7, <1>8, <1>10 DEF Promise!Trade, n
  <2>3. head \in Promise!Received
    BY <1>2 DEF Received, Promise!Received
  <2>4. QED
    BY <2>1, <2>2, <2>3 DEF Promise!Next
<1>11. QED
  BY <1>6, <1>9, <1>10

(* A cancel withdraws the order it finds, or nothing.                      *)
LEMMA CancelKeepsPromise ==
    ASSUME IInv, NEW id \in Ids, Cancel(id)
    PROVE  [Promise!Next]_(Promise!vars)
<1>1. pc = "idle" /\ UNCHANGED <<orders, filled>>
  BY DEF Cancel
<1>2. CASE UNCHANGED rem
  BY <1>1, <1>2 DEF Promise!vars
<1>3. CASE ~UNCHANGED rem
  <2>1. known[id] # None /\ Found(known[id]) # {}
    BY <1>3 DEF Cancel
  <2>2. known[id] \in Received
    BY <2>1 DEF IInv, HistoryBounds
  <2> DEFINE x == queue[orders[known[id]].side][Level(orders[known[id]].price)][Min(Found(known[id]))]
  <2>3. x \in Received
    BY <1>1, <2>1, <2>2, FoundRests
  <2>4. rem' = [rem EXCEPT ![x] = 0]
    BY <2>1 DEF Cancel
  <2> HIDE DEF x
  <2>5. Promise!Withdraw(x) /\ x \in Promise!Received
    BY <1>1, <2>3, <2>4 DEF Promise!Withdraw, Promise!Received, Received
  <2>6. QED
    BY <2>5 DEF Promise!Next
<1>4. QED
  BY <1>2, <1>3

(* The engine keeps the promise of Exchange, as long as no PRICE is taken  *)
(* for another one when it is narrowed to the level.                       *)
THEOREM EngineKeepsPromise ==
    ASSUME BookedAsPriced
    PROVE  Spec => ImplementsExchange
<1>1. Init => Promise!Init
  BY DEF Init, Promise!Init, Arrivals, Promise!Arrivals
<1>2. ASSUME IInv, [Next]_vars
      PROVE  [Promise!Next]_(Promise!vars)
  <2>1. ASSUME NEW o \in Order, NewOrder(o)
        PROVE  Promise!Next
    BY <2>1 DEF NewOrder, Promise!Next, Promise!Submit, Order, Promise!Order, Sides, Promise!Sides
  <2>2. CASE ExecuteHead
    BY <1>2, <2>2, ExecuteHeadKeepsPromise
  <2>3. CASE \E id \in Ids : Cancel(id)
    BY <1>2, <2>3, CancelKeepsPromise
  <2>4. CASE UNCHANGED <<orders, rem, filled>>
    BY <2>4 DEF Promise!vars
  <2>5. CASE \/ NewOrderOfNoSide \/ NextLevel \/ NullLevel \/ LeaveMatch \/ RestOrReturn
             \/ \E id \in Ids : CancelWithoutHandler(id)
             \/ UNCHANGED vars
    BY <2>4, <2>5 DEF NewOrderOfNoSide, NextLevel, NullLevel, LeaveMatch, RestOrReturn,
                      CancelWithoutHandler, vars
  <2>6. QED
    BY <1>2, <2>1, <2>2, <2>3, <2>5 DEF Next, Handle
<1>3. QED
  BY EngineInvariant, <1>1, <1>2, PTL DEF Spec, ImplementsExchange, Promise!Spec
=============================================================================
