----------------------------- MODULE DepthLists ------------------------------
(***************************************************************************)
(* The two ladders of a TradeHandler, mBuyLimitSide and mSellLimitSide     *)
(* (Lib/Internal/functionnal/TradeHandler.hpp), driven the way the handler *)
(* drives them: add when an order comes to rest on a level, next on the    *)
(* asks and previous on the bids when the matching loop has exhausted the  *)
(* level at the recorded end.                                              *)
(***************************************************************************)
EXTENDS PriceLadder

CONSTANT Prices     \* the prices orders carry; Gateway and Dispatcher check none

ASSUME PricesAssumption == Prices \subseteq 0 .. Wrap - 1

Sides == {"B", "S"}

VARIABLE ladder     \* ladder["B"]: mBuyLimitSide, ladder["S"]: mSellLimitSide

Init == ladder = [s \in Sides |-> NewLadder]

(* onBuyOrder and onSellOrder end with add(PRICE, limit).                  *)
RestOrder(s, p) == ladder' = [ladder EXCEPT ![s] = Add(@, p)]

(* Match reached the end of the queue of the lowest recorded ask.          *)
ExhaustAsk ==
    /\ Holds(ladder["S"], FirstIndex(ladder["S"]))
    /\ ladder' = [ladder EXCEPT !["S"] = NextFull(@)]

(* Match reached the end of the queue of the highest recorded bid.         *)
ExhaustBid ==
    /\ Holds(ladder["B"], LastIndex(ladder["B"]))
    /\ ladder' = [ladder EXCEPT !["B"] = PreviousFull(@)]

Next ==
    \/ \E s \in Sides, p \in Prices : RestOrder(s, p)
    \/ ExhaustAsk
    \/ ExhaustBid

Spec == Init /\ [][Next]_ladder

-----------------------------------------------------------------------------
(* Ladders are records of two uint64_t ends and a set of offsets.          *)
TypeOK == ladder \in [Sides -> Ladder]

(* The recorded ends of a non-empty side are levels that exist, so that    *)
(* Match, which dereferences operator[] of an end without a test, finds a  *)
(* Limit there; only bids whose mMaxIndex-- wrapped are excepted.          *)
EndsExist ==
    /\ EndsHeld(ladder["S"])
    /\ EndsHeld(ladder["B"]) \/ Stuck(ladder["B"])

(* The levels of a side that lie between its recorded ends: the ones the   *)
(* matching loop can still come to.                                        *)
InReach(l) == {b \in l.bits : l.min <= b /\ b <= l.max}

(* Neither add nor next() hides an ask from Match: a level that lies       *)
(* between the recorded ends stays between them, whatever is added to      *)
(* either side and however the ends move, until it is the lowest of them   *)
(* and Match has exhausted it.  (An ask that add itself never took into    *)
(* reach is out of it from the start: AskMinIsLowest.)                     *)
AsksStayInReach ==
    [][\A b \in InReach(ladder["S"]) :
          b \in InReach(ladder["S"]') \/ (b = ladder["S"].min /\ ExhaustAsk)]_ladder

(* mMinIndex of a non-empty side of asks is "The min index holding some    *)
(* value" (the comment on mMinIndex in CustomArray.hpp).                   *)
AskMinIsLowest ==
    LET l == ladder["S"] IN ~Empty(l) => \A b \in l.bits : l.min <= b

(* mMaxIndex of a non-empty side of bids is "The max index holding some    *)
(* value" (the comment on mMaxIndex in CustomArray.hpp).                   *)
BidMaxIsHighest ==
    LET l == ladder["B"] IN ~Empty(l) => \A b \in l.bits : b <= l.max

(* empty() is "true if the Container is empty" (the comment on empty in    *)
(* CustomArray.hpp): bids without any level are Empty.                     *)
BidsWithoutLevelAreEmpty ==
    LET l == ladder["B"] IN l.bits = {} => Empty(l)
=============================================================================
