------------------------- MODULE PriceLadder_proofs --------------------------
(***************************************************************************)
(* What the operations of a ladder return, preserve and bound, for every   *)
(* LOW, HIGH, word size and width of the ends.                             *)
(***************************************************************************)
EXTENDS PriceLadder, Counting

(* The first bit of a position's word is not above the position.           *)
LEMMA WordStartBelow ==
    ASSUME NEW pos \in Nat
    PROVE  WordStart(pos) \in Int /\ WordStart(pos) <= pos /\ pos < WordStart(pos) + WordBits
<1>1. pos % WordBits \in 0 .. WordBits - 1
  BY LadderAssumption
<1>2. QED
  BY <1>1, LadderAssumption DEF WordStart

(* bitmap::next finds a set bit when the bit it clears is not the last one *)
(* of the scan, and goes no further than any bit above the cleared one.    *)
LEMMA BitAboveFound ==
    ASSUME NEW bits \in SUBSET Offsets, NEW pos \in Offsets,
           NEW b \in bits, pos < b
    PROVE  BitAbove(bits, pos) \in bits \ {pos} /\ BitAbove(bits, pos) <= b
<1> DEFINE S == {x \in bits \ {pos} : x >= WordStart(pos)}
<1>1. Offsets \subseteq Nat
  BY LadderAssumption DEF Offsets
<1>2. WordStart(pos) \in Int /\ WordStart(pos) <= pos
  BY <1>1, WordStartBelow
<1>3. b \in S
  BY <1>1, <1>2
<1>4. S \in SUBSET Nat
  BY <1>1
<1>5. Min(S) \in S /\ Min(S) <= b
  BY <1>3, <1>4, MinOfNats
<1>6. QED
  BY <1>5 DEF BitAbove

(* bitmap::previous finds a set bit when some bit below the cleared one is *)
(* set.                                                                    *)
LEMMA BitBelowFound ==
    ASSUME NEW bits \in SUBSET Offsets, NEW pos \in Offsets,
           NEW b \in bits, b < pos
    PROVE  BitBelow(bits, pos) \in bits \ {pos}
<1> DEFINE seen == {x \in bits \ {pos} : x < WordStart(pos) + WordBits}
           S == {x \in seen : x >= WordStart(Max(seen))}
<1>1. Offsets \subseteq Nat /\ High - Low \in Nat
  BY LadderAssumption DEF Offsets
<1>2. WordStart(pos) \in Int /\ pos < WordStart(pos) + WordBits
  BY <1>1, WordStartBelow
<1>3. b \in seen
  BY <1>1, <1>2, LadderAssumption
<1>4. seen \in SUBSET (0 .. High - Low)
  BY DEF Offsets
<1>5. Max(seen) \in seen
  BY <1>1, <1>3, <1>4, MaxOfNats
<1>6. Max(seen) \in S
  BY <1>1, <1>5, WordStartBelow
<1>7. S \in SUBSET Nat
  BY <1>1
<1>8. Min(S) \in S
  BY <1>6, <1>7, MinOfNats
<1>9. QED
  BY <1>8 DEF BitBelow

(* uint64_t arithmetic below 2^64 is exact.                                *)
LEMMA NoWrap ==
    ASSUME NEW n \in Nat, n < Wrap
    PROVE  n % Wrap = n
BY LadderAssumption

-----------------------------------------------------------------------------
LEMMA EndsAreOffsets ==
    ASSUME NEW l \in Ladder, EndsHeld(l), ~Empty(l)
    PROVE  /\ l.min \in Offsets /\ l.max \in Offsets
           /\ l.min \in Nat /\ l.max \in Nat /\ l.min <= l.max
           /\ l.max <= High - Low
<1>1. l.min \in Offsets /\ l.max \in Offsets
  BY DEF EndsHeld, Ladder
<1>2. QED
  BY <1>1, LadderAssumption DEF Offsets, Empty

(* The recorded ends of a non-empty ladder whose ends are held are levels  *)
(* operator[] returns.                                                     *)
LEMMA EndIndexesHold ==
    ASSUME NEW l \in Ladder, EndsHeld(l), ~Empty(l)
    PROVE  /\ FirstIndex(l) = l.min + Low /\ Holds(l, FirstIndex(l))
           /\ LastIndex(l) = l.max + Low  /\ Holds(l, LastIndex(l))
<1>1. /\ l.min \in 0 .. High - Low /\ l.max \in 0 .. High - Low
      /\ l.min \in l.bits /\ l.max \in l.bits
  BY EndsAreOffsets DEF Offsets, EndsHeld
<1>2. /\ l.min + Low \in Nat /\ l.min + Low < Wrap
      /\ l.max + Low \in Nat /\ l.max + Low < Wrap
  BY <1>1, LadderAssumption
<1>3. FirstIndex(l) = l.min + Low /\ LastIndex(l) = l.max + Low
  BY <1>2, NoWrap DEF FirstIndex, LastIndex
<1>4. QED
  BY <1>1, <1>3, LadderAssumption DEF Holds, Indexes

(* mMaxIndex + LOW wraps to LOW - 1 on a stuck ladder.                     *)
LEMMA StuckLast ==
    ASSUME NEW l \in Ladder, Stuck(l)
    PROVE  LastIndex(l) = Low - 1 /\ ~Empty(l)
<1>1. Wrap - 1 + Low = (Low - 1) + 1 * Wrap /\ Low - 1 \in 0 .. Wrap - 1
  BY LadderAssumption
<1>2. (Wrap - 1 + Low) % Wrap = Low - 1
  BY <1>1, LadderAssumption
<1>3. QED
  BY <1>2, LadderAssumption DEF Stuck, LastIndex, Empty

(* A new array is empty.                                                   *)
LEMMA NewLadderHeld == NewLadder \in Ladder /\ EndsHeld(NewLadder) /\ Empty(NewLadder)
BY LadderAssumption DEF NewLadder, Ladder, EndsHeld, Empty, Offsets

(* add keeps the ends held, and cannot revive a stuck ladder.              *)
LEMMA AddLadder ==
    ASSUME NEW l \in Ladder, NEW index \in 0 .. Wrap - 1
    PROVE  /\ Add(l, index) \in Ladder
           /\ EndsHeld(l) => EndsHeld(Add(l, index))
           /\ Stuck(l) => Stuck(Add(l, index))
<1>1. CASE index \notin Indexes
  BY <1>1 DEF Add
<1>2. CASE index \in Indexes
  <2>1. index - Low \in Offsets /\ index - Low \in 0 .. Wrap - 1
    BY <1>2, LadderAssumption DEF Indexes, Offsets
  <2>2. Add(l, index) \in Ladder
    BY <1>2, <2>1 DEF Add, Ladder
  <2>3. ASSUME EndsHeld(l) PROVE EndsHeld(Add(l, index))
    BY <1>2, <2>1, <2>3 DEF Add, Ladder, EndsHeld
  <2>4. ASSUME Stuck(l) PROVE Stuck(Add(l, index))
    BY <1>2, <2>4, LadderAssumption DEF Add, Ladder, Stuck, Empty, Indexes
  <2>5. QED
    BY <2>2, <2>3, <2>4
<1>3. QED
  BY <1>1, <1>2

(* next keeps the ends held.                                               *)
LEMMA NextLadder ==
    ASSUME NEW l \in Ladder, EndsHeld(l)
    PROVE  NextFull(l) \in Ladder /\ EndsHeld(NextFull(l))
<1>1. CASE Empty(l)
  BY <1>1 DEF NextFull
<1>2. CASE ~Empty(l) /\ l.min = l.max
  <2>1. l.min + 1 \in Nat /\ l.min + 1 < Wrap /\ l.min \in Nat
    BY <1>2, EndsAreOffsets, LadderAssumption
  <2>2. NextFull(l) = [min |-> l.min + 1, max |-> l.max, bits |-> l.bits \ {l.min}]
    BY <1>2, <2>1, NoWrap DEF NextFull
  <2>3. QED
    BY <1>2, <2>1, <2>2, LadderAssumption DEF Ladder, EndsHeld, Empty
<1>3. CASE ~Empty(l) /\ l.min # l.max
  <2> DEFINE b == BitAbove(l.bits, l.min)
  <2>1. l.min \in Offsets /\ l.max \in l.bits /\ l.min < l.max /\ l.bits \in SUBSET Offsets
    BY <1>3, EndsAreOffsets DEF EndsHeld, Ladder
  <2>2. b \in l.bits \ {l.min} /\ b <= l.max
    BY <2>1, BitAboveFound
  <2>3. NextFull(l) = [min |-> b, max |-> l.max, bits |-> l.bits \ {l.min}]
    BY <1>3 DEF NextFull
  <2>4. b \in 0 .. Wrap - 1
    BY <2>1, <2>2, LadderAssumption DEF Offsets
  <2> HIDE DEF b
  <2>5. QED
    BY <2>1, <2>2, <2>3, <2>4 DEF Ladder, EndsHeld
<1>4. QED
  BY <1>1, <1>2, <1>3

(* previous keeps the ends held, or gives up the last level at LOW and     *)
(* leaves the ladder stuck.                                                *)
LEMMA PreviousLadder ==
    ASSUME NEW l \in Ladder, EndsHeld(l)
    PROVE  PreviousFull(l) \in Ladder /\ (EndsHeld(PreviousFull(l)) \/ Stuck(PreviousFull(l)))
<1>1. CASE Empty(l)
  BY <1>1 DEF PreviousFull
<1>2. CASE ~Empty(l) /\ l.min = l.max /\ l.max = 0
  <2>1. (0 + Wrap - 1) % Wrap = Wrap - 1
    <3>1. Wrap - 1 \in Nat /\ Wrap - 1 < Wrap
      BY LadderAssumption
    <3>2. QED
      BY <3>1, NoWrap
  <2>2. PreviousFull(l) = [min |-> l.min, max |-> Wrap - 1, bits |-> l.bits \ {l.max}]
    BY <1>2, <2>1 DEF PreviousFull
  <2>3. QED
    BY <1>2, <2>2, LadderAssumption DEF Ladder, Stuck
<1>3. CASE ~Empty(l) /\ l.min = l.max /\ l.max # 0
  <2>1. l.max \in Nat /\ l.max - 1 \in Nat /\ l.max - 1 < Wrap
    BY <1>3, EndsAreOffsets, LadderAssumption
  <2>2. (l.max + Wrap - 1) % Wrap = l.max - 1
    <3>1. l.max + Wrap - 1 = (l.max - 1) + 1 * Wrap /\ l.max - 1 \in 0 .. Wrap - 1
      BY <2>1, LadderAssumption
    <3>2. QED
      BY <3>1, LadderAssumption
  <2>3. PreviousFull(l) = [min |-> l.min, max |-> l.max - 1, bits |-> l.bits \ {l.max}]
    BY <1>3, <2>2 DEF PreviousFull
  <2>4. QED
    BY <1>3, <2>1, <2>3, LadderAssumption DEF Ladder, EndsHeld, Empty
<1>4. CASE ~Empty(l) /\ l.min # l.max
  <2> DEFINE b == BitBelow(l.bits, l.max)
  <2>1. l.max \in Offsets /\ l.min \in l.bits /\ l.min < l.max /\ l.bits \in SUBSET Offsets
    BY <1>4, EndsAreOffsets DEF EndsHeld, Ladder
  <2>2. b \in l.bits \ {l.max}
    BY <2>1, BitBelowFound
  <2>3. PreviousFull(l) = [min |-> l.min, max |-> b, bits |-> l.bits \ {l.max}]
    BY <1>4 DEF PreviousFull
  <2>4. b \in 0 .. Wrap - 1
    BY <2>1, <2>2, LadderAssumption DEF Offsets
  <2> HIDE DEF b
  <2>5. QED
    BY <2>1, <2>2, <2>3, <2>4 DEF Ladder, EndsHeld
<1>5. QED
  BY <1>1, <1>2, <1>3, <1>4

-----------------------------------------------------------------------------
(* The levels held after add.                                              *)
LEMMA AddHolds ==
    ASSUME NEW l \in Ladder, NEW index \in 0 .. Wrap - 1, NEW i
    PROVE  Holds(Add(l, index), i) <=> Holds(l, i) \/ (i = index /\ i \in Indexes)
<1>1. CASE index \notin Indexes
  BY <1>1 DEF Add
<1>2. CASE index \in Indexes
  <2>1. Add(l, index).bits = l.bits \union {index - Low}
    BY <1>2 DEF Add
  <2>2. i \in Indexes => (i - Low = index - Low <=> i = index)
    BY <1>2, LadderAssumption DEF Indexes
  <2>3. QED
    BY <1>2, <2>1, <2>2 DEF Holds
<1>3. QED
  BY <1>1, <1>2

(* next gives up the level at firstIndex and no other; the index it        *)
(* returns is a level, the new firstIndex.                                 *)
LEMMA NextGivesUpFirst ==
    ASSUME NEW l \in Ladder, EndsHeld(l)
    PROVE  /\ \A i : Holds(NextFull(l), i) => Holds(l, i)
           /\ \A i : Holds(l, i) /\ i # FirstIndex(l) => Holds(NextFull(l), i)
           /\ \/ NextIndex(l) = NoNext
              \/ /\ NextIndex(l) = FirstIndex(NextFull(l))
                 /\ Holds(NextFull(l), NextIndex(l))
<1>1. CASE Empty(l)
  BY <1>1 DEF NextFull, NextIndex
<1>2. CASE ~Empty(l)
  <2>1. NextFull(l).bits = l.bits \ {l.min}
    BY <1>2 DEF NextFull
  <2>2. FirstIndex(l) = l.min + Low
    BY <1>2, EndIndexesHold
  <2>3. \A i \in Indexes : i # l.min + Low => i - Low # l.min
    BY <1>2, EndsAreOffsets, LadderAssumption DEF Indexes
  <2>4. CASE l.min = l.max
    BY <2>1, <2>2, <2>3, <2>4 DEF Holds, NextIndex
  <2>5. CASE l.min # l.max
    <3> DEFINE b == BitAbove(l.bits, l.min)
    <3>1. b \in l.bits \ {l.min} /\ b <= l.max
      BY <1>2, <2>5, EndsAreOffsets, BitAboveFound DEF EndsHeld, Ladder
    <3>2. NextFull(l).min = b /\ NextFull(l).max = l.max
      BY <1>2, <2>5 DEF NextFull
    <3>3. ~Empty(NextFull(l))
      <4>1. b \in Int /\ l.max \in Int
        BY <3>1, LadderAssumption DEF Ladder, Offsets
      <4> HIDE DEF b
      <4>2. QED
        BY <3>1, <3>2, <4>1 DEF Empty
    <3>4. Holds(NextFull(l), FirstIndex(NextFull(l)))
      BY <3>3, NextLadder, EndIndexesHold
    <3>5. NextIndex(l) = FirstIndex(NextFull(l))
      BY <1>2, <2>5 DEF NextIndex
    <3>6. QED
      BY <2>1, <2>2, <2>3, <3>4, <3>5 DEF Holds
  <2>6. QED
    BY <2>4, <2>5
<1>3. QED
  BY <1>1, <1>2

(* previous gives up the level at lastIndex and no other; the index it     *)
(* returns is a level, the new lastIndex.                                  *)
LEMMA PreviousGivesUpLast ==
    ASSUME NEW l \in Ladder, EndsHeld(l)
    PROVE  /\ \A i : Holds(PreviousFull(l), i) => Holds(l, i)
           /\ \A i : Holds(l, i) /\ i # LastIndex(l) => Holds(PreviousFull(l), i)
           /\ \/ PreviousIndex(l) = NoPrevious
              \/ /\ PreviousIndex(l) = LastIndex(PreviousFull(l))
                 /\ Holds(PreviousFull(l), PreviousIndex(l))
<1>1. CASE Empty(l)
  BY <1>1 DEF PreviousFull, PreviousIndex
<1>2. CASE ~Empty(l)
  <2>1. PreviousFull(l).bits = l.bits \ {l.max}
    BY <1>2 DEF PreviousFull
  <2>2. LastIndex(l) = l.max + Low
    BY <1>2, EndIndexesHold
  <2>3. \A i \in Indexes : i # l.max + Low => i - Low # l.max
    BY <1>2, EndsAreOffsets, LadderAssumption DEF Indexes
  <2>4. CASE l.min = l.max
    BY <2>1, <2>2, <2>3, <2>4 DEF Holds, PreviousIndex
  <2>5. CASE l.min # l.max
    <3> DEFINE b == BitBelow(l.bits, l.max)
    <3>1. b \in l.bits \ {l.max}
      <4>1. l.max \in Offsets /\ l.min \in l.bits /\ l.min < l.max /\ l.bits \in SUBSET Offsets
        BY <1>2, <2>5, EndsAreOffsets DEF EndsHeld, Ladder
      <4>2. QED
        BY <4>1, BitBelowFound
    <3>2. PreviousFull(l).max = b
      BY <1>2, <2>5 DEF PreviousFull
    <3>3. b \in Offsets
      BY <3>1 DEF Ladder
    <3> HIDE DEF b
    <3>4. b + Low \in Nat /\ b + Low < Wrap /\ b + Low \in Indexes /\ b + Low - Low = b
      BY <3>3, LadderAssumption DEF Offsets, Indexes
    <3>5. LastIndex(PreviousFull(l)) = b + Low
      BY <3>2, <3>4, NoWrap DEF LastIndex
    <3>6. Holds(PreviousFull(l), LastIndex(PreviousFull(l)))
      <4>1. (b + Low) - Low \in PreviousFull(l).bits
        <5>1. b \in PreviousFull(l).bits
          BY <2>1, <3>1
        <5>2. b \in Int /\ Low \in Int
          BY <3>3, LadderAssumption DEF Offsets
        <5>3. (b + Low) - Low = b
          BY <5>2
        <5>4. QED
          BY <5>1, <5>3
      <4>2. Holds(PreviousFull(l), b + Low)
        BY <3>4, <4>1 DEF Holds
      <4>3. QED
        BY <3>5, <4>2
    <3>7. PreviousIndex(l) = LastIndex(PreviousFull(l))
      BY <1>2, <2>5 DEF PreviousIndex
    <3>8. QED
      BY <2>1, <2>2, <2>3, <3>6, <3>7 DEF Holds
  <2>6. QED
    BY <2>4, <2>5
<1>3. QED
  BY <1>1, <1>2
=============================================================================
