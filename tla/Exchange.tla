------------------------------ MODULE Exchange -------------------------------
(***************************************************************************)
(* What a matching engine promises its clients, without ladders, queues or *)
(* loops: only the newest order takes shares from older ones, at a price   *)
(* both accept, never more than either has left, and among the resting     *)
(* orders of one side and one price the earliest is served first.  It does *)
(* not promise the best price: see the README.                             *)
(***************************************************************************)
EXTENDS Integers, Sequences

CONSTANTS Ids, Prices, Shares, MaxOrders

VARIABLES
    orders,   \* the orders submitted so far
    rem,      \* shares an order still asks for
    filled    \* shares an order has traded

vars == <<orders, rem, filled>>

Sides    == {"B", "S"}
Order    == [id : Ids, side : Sides, price : Prices, shares : Shares]
Arrivals == 1 .. MaxOrders
Received == 1 .. Len(orders)

Init ==
    /\ orders = <<>>
    /\ rem = [o \in Arrivals |-> 0]
    /\ filled = [o \in Arrivals |-> 0]

Submit(o) ==
    /\ Len(orders) < MaxOrders
    /\ orders' = Append(orders, o)
    /\ rem' = [rem EXCEPT ![Len(orders) + 1] = o.shares]
    /\ UNCHANGED filled

(* The two orders are on opposite sides and their limits meet.             *)
Compatible(a, b) ==
    \/ orders[a].side = "B" /\ orders[b].side = "S" /\ orders[a].price >= orders[b].price
    \/ orders[a].side = "S" /\ orders[b].side = "B" /\ orders[a].price <= orders[b].price

(* No earlier order of the same side and price still wants shares.         *)
FirstInLine(o) ==
    \A x \in 1 .. o - 1 :
        orders[x].side = orders[o].side /\ orders[x].price = orders[o].price
            => rem[x] = 0

(* The newest order takes qty shares from the resting order: all that one  *)
(* of the two has left.                                                    *)
Trade(resting, qty) ==
    LET taker == Len(orders) IN
    /\ resting < taker
    /\ Compatible(resting, taker)
    /\ FirstInLine(resting)
    /\ qty > 0
    /\ qty <= rem[resting] /\ qty <= rem[taker]
    /\ qty = rem[resting] \/ qty = rem[taker]
    /\ rem' = [rem EXCEPT ![resting] = @ - qty, ![taker] = @ - qty]
    /\ filled' = [filled EXCEPT ![resting] = @ + qty, ![taker] = @ + qty]
    /\ UNCHANGED orders

Withdraw(o) ==
    /\ rem' = [rem EXCEPT ![o] = 0]
    /\ UNCHANGED <<orders, filled>>

Next ==
    \/ \E o \in Order : Submit(o)
    \/ \E o \in Received : Withdraw(o) \/ \E qty \in 1 .. rem[o] : Trade(o, qty)

Spec == Init /\ [][Next]_vars
=============================================================================
