-------------------------- MODULE DepthLists_proofs --------------------------
(***************************************************************************)
(* For every LOW, HIGH, word size and set of prices: the ends Match starts *)
(* from are levels that exist, except for stuck bids.                      *)
(***************************************************************************)
EXTENDS DepthLists, PriceLadder_proofs

Inv == TypeOK /\ EndsExist

(* Every recorded end of a non-empty side is a level that holds a Limit,   *)
(* whatever sequence of resting orders and exhausted levels led there;     *)
(* only the bids' ladder may be stuck instead.                             *)
THEOREM EndsAlwaysExist == Spec => [](TypeOK /\ EndsExist)
<1>1. Init => Inv
  BY NewLadderHeld DEF Init, Inv, TypeOK, EndsExist, Sides
<1>2. Inv /\ [Next]_ladder => Inv'
  <2> SUFFICES ASSUME Inv, [Next]_ladder PROVE Inv'
    OBVIOUS
  <2> USE DEF Inv, TypeOK, EndsExist, Sides
  <2>1. ASSUME NEW s \in Sides, NEW p \in Prices, RestOrder(s, p)
        PROVE  Inv'
    <3>1. p \in 0 .. Wrap - 1
      BY PricesAssumption
    <3>2. /\ Add(ladder[s], p) \in Ladder
          /\ EndsHeld(ladder[s]) => EndsHeld(Add(ladder[s], p))
          /\ Stuck(ladder[s]) => Stuck(Add(ladder[s], p))
      BY <3>1, AddLadder
    <3>3. QED
      BY <2>1, <3>2 DEF RestOrder
  <2>2. ASSUME ExhaustAsk PROVE Inv'
    BY <2>2, NextLadder DEF ExhaustAsk
  <2>3. ASSUME ExhaustBid PROVE Inv'
    <3>1. ~Stuck(ladder["B"])
      BY <2>3, StuckLast, LadderAssumption DEF ExhaustBid, Holds, Indexes
    <3>2. QED
      BY <2>3, <3>1, PreviousLadder DEF ExhaustBid
  <2>4. CASE UNCHANGED ladder
    BY <2>4
  <2>5. QED
    BY <2>1, <2>2, <2>3, <2>4 DEF Next
<1>3. QED
  BY <1>1, <1>2, PTL DEF Spec, Inv

(* Type correctness: the ends stay in uint64_t and the set bits are        *)
(* offsets of the array, through every add, next and previous.             *)
THEOREM LaddersTyped == Spec => []TypeOK
BY EndsAlwaysExist, PTL

(* next() moves the lower end to the nearest level above it, so that every *)
(* other level between the ends is still between them.                     *)
LEMMA NextKeepsReach ==
    ASSUME NEW l \in Ladder, EndsHeld(l), ~Empty(l),
           NEW b \in InReach(l), b # l.min
    PROVE  b \in InReach(NextFull(l))
<1>1. /\ l.min \in Offsets /\ l.max \in Offsets /\ l.min \in Nat /\ l.max \in Nat
      /\ l.min <= l.max /\ l.max <= High - Low
  BY EndsAreOffsets
<1>2. b \in l.bits \ {l.min} /\ b \in Nat /\ l.bits \in SUBSET Offsets
  BY LadderAssumption DEF InReach, Ladder, Offsets
<1>3. l.min < b /\ b <= l.max /\ l.min # l.max
  BY <1>1, <1>2 DEF InReach
<1>4. /\ NextFull(l).min = BitAbove(l.bits, l.min)
      /\ NextFull(l).max = l.max
      /\ NextFull(l).bits = l.bits \ {l.min}
  BY <1>3 DEF NextFull
<1>5. BitAbove(l.bits, l.min) <= b
  BY <1>1, <1>2, <1>3, BitAboveFound
<1>6. QED
  BY <1>2, <1>3, <1>4, <1>5 DEF InReach

(* In an array that starts at index 1, as the order book's does, add moves *)
(* an end of a non-empty side outwards only.                               *)
LEMMA AddKeepsReach ==
    ASSUME Low = 1, NEW l \in Ladder, NEW p \in Nat, NEW b \in InReach(l)
    PROVE  b \in InReach(Add(l, p))
<1>1. /\ b \in l.bits /\ b \in Nat /\ l.min \in Nat /\ l.max \in Nat
      /\ l.min <= b /\ b <= l.max
  BY LadderAssumption DEF InReach, Ladder, Offsets
<1>2. CASE p \notin Indexes
  BY <1>2 DEF Add
<1>3. CASE p \in Indexes
  <2>1. ~Empty(l)
    BY <1>1 DEF Empty
  <2>2. /\ Add(l, p).min = IF p < l.min THEN p - Low ELSE l.min
        /\ Add(l, p).max = IF p > l.max THEN p - Low ELSE l.max
        /\ b \in Add(l, p).bits
    BY <1>1, <1>3, <2>1 DEF Add
  <2>3. Add(l, p).min <= b /\ b <= Add(l, p).max
    BY <1>1, <2>2
  <2>4. QED
    BY <2>2, <2>3 DEF InReach
<1>4. QED
  BY <1>2, <1>3

(* For every size of the book and of the bitmap's words and every set of   *)
(* prices: no add and no next() hides an ask that lies between the         *)
(* recorded ends; only its own exhaustion takes it out.  LOW is 1, as for  *)
(* both sides of a TradeHandler: add would hide levels in an array that    *)
(* starts higher.                                                          *)
THEOREM AsksKeptInReach ==
    ASSUME Low = 1
    PROVE  Spec => AsksStayInReach
<1> DEFINE Kept == \A b \in InReach(ladder["S"]) :
                     b \in InReach(ladder["S"]') \/ (b = ladder["S"].min /\ ExhaustAsk)
<1>1. Inv /\ [Next]_ladder => [Kept]_ladder
  <2> SUFFICES ASSUME Inv, [Next]_ladder,
                      NEW b \in InReach(ladder["S"]),
                      ~(b = ladder["S"].min /\ ExhaustAsk)
               PROVE  b \in InReach(ladder["S"]')
    OBVIOUS
  <2> USE DEF Inv, TypeOK, EndsExist, Sides
  <2>1. ASSUME NEW s \in Sides, NEW p \in Prices, RestOrder(s, p)
        PROVE  b \in InReach(ladder["S"]')
    <3>1. p \in Nat
      BY PricesAssumption, LadderAssumption
    <3>2. CASE s = "S"
      <4>1. ladder["S"]' = Add(ladder["S"], p)
        BY <2>1, <3>2 DEF RestOrder
      <4>2. QED
        BY <3>1, <4>1, AddKeepsReach
    <3>3. CASE s = "B"
      BY <2>1, <3>3 DEF RestOrder
    <3>4. QED
      BY <3>2, <3>3
  <2>2. ASSUME ExhaustAsk PROVE b \in InReach(ladder["S"]')
    <3>1. /\ ladder["S"] \in Ladder /\ EndsHeld(ladder["S"])
          /\ ladder["S"]' = NextFull(ladder["S"])
      BY <2>2 DEF ExhaustAsk
    <3>2. ~Empty(ladder["S"])
      BY LadderAssumption, <3>1 DEF InReach, Empty, Ladder, Offsets
    <3>3. QED
      BY <2>2, <3>1, <3>2, NextKeepsReach
  <2>3. ASSUME ExhaustBid PROVE b \in InReach(ladder["S"]')
    BY <2>3 DEF ExhaustBid
  <2>4. CASE UNCHANGED ladder
    BY <2>4
  <2>5. QED
    BY <2>1, <2>2, <2>3, <2>4 DEF Next
<1>2. Spec => [][Kept]_ladder
  BY <1>1, EndsAlwaysExist, PTL DEF Spec, Inv
<1>3. QED
  BY <1>2 DEF AsksStayInReach
=============================================================================
