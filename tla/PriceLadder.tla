----------------------------- MODULE PriceLadder -----------------------------
(***************************************************************************)
(* The container that holds one side of the order book: core::CustomArray  *)
(* over core::bitmap (Lib/Internal/container/CustomArray.hpp).  A ladder   *)
(* remembers which price levels hold a Limit (the set bits), the offset of *)
(* the lowest and of the highest of them, and moves one of the two ends    *)
(* when the matching loop has exhausted a level.                           *)
(*                                                                         *)
(* What is kept: every comparison, early return and assignment of add,     *)
(* operator[], next, previous, bitmap::next and bitmap::previous,          *)
(* including the 1-based/0-based comparison in add, the lowest-bit-of-word *)
(* search in bitmap::previous and the uint64_t arithmetic of the ends.     *)
(* What is abstracted: the stored pointer (the queue of the level is kept  *)
(* by the module that uses the ladder), the bit masks (a word of the       *)
(* bitmap is a block of WordBits consecutive offsets).                     *)
(***************************************************************************)
EXTENDS Integers, FiniteSetsExt

CONSTANTS
    Low,       \* LOW: the lowest index the array stores (1 for an order book)
    High,      \* HIGH: the highest one (1000000 for an order book)
    WordBits,  \* bits of a word of the bitmap (32)
    Wrap       \* 2^64: the modulus of uint64_t

(* LOW >= 1 and LOW < HIGH are the code's static_asserts; the width of the *)
(* ends is larger than any index.                                          *)
ASSUME LadderAssumption ==
    /\ Low \in Nat /\ High \in Nat /\ WordBits \in Nat /\ Wrap \in Nat
    /\ 1 <= Low /\ Low < High
    /\ 1 <= WordBits
    /\ High + Low < Wrap

Indexes == Low .. High
Offsets == 0 .. High - Low

(* mMinIndex and mMaxIndex are offsets into mTab, in uint64_t.             *)
Ladder == [min : 0 .. Wrap - 1, max : 0 .. Wrap - 1, bits : SUBSET Offsets]

(* A new array: mMinIndex{HIGH}, mMaxIndex{LOW} and no bit set.            *)
NewLadder == [min |-> High, max |-> Low, bits |-> {}]

Empty(l) == l.min > l.max

(* operator[]: a pointer other than mNoValue is returned exactly for an    *)
(* index of the array whose bit is set.                                    *)
Holds(l, index) == index \in Indexes /\ index - Low \in l.bits

FirstIndex(l) == (l.min + Low) % Wrap
LastIndex(l)  == (l.max + Low) % Wrap

(* What next() and previous() return when the array has no further level.  *)
NoNext     == Wrap - 1
NoPrevious == 0

-----------------------------------------------------------------------------
(* Slip: the 1-based index is taken for the offset.                        *)
AddAtIndex(l, index) ==
    IF index \notin Indexes
    THEN l
    ELSE [min  |-> IF Empty(l) \/ index < l.min THEN index ELSE l.min,
          max  |-> IF Empty(l) \/ index > l.max THEN index ELSE l.max,
          bits |-> l.bits \union {index}]

(* add(aIndex, aValue).  The ends are offsets but are compared with the    *)
(* 1-based index.  An index out of range is refused (the caller ignores    *)
(* the returned false).                                                    *)
Add(l, index) ==
    LET offset == index - Low IN
    IF index \notin Indexes
    THEN l
    ELSE [min  |-> IF Empty(l) \/ index < l.min THEN offset ELSE l.min,
          max  |-> IF Empty(l) \/ index > l.max THEN offset ELSE l.max,
          bits |-> l.bits \union {offset}]

WordStart(pos) == pos - (pos % WordBits)

(* Slip: of the first word with a bit set, the highest one is returned.    *)
BitAboveOfWord(bits, pos) ==
    LET seen == {b \in bits \ {pos} : b >= WordStart(pos)}
    IN  Max({b \in seen : b < WordStart(Min(seen)) + WordBits})

(* bitmap::next: clear pos, then scan from the first bit of its word up.   *)
BitAbove(bits, pos) == Min({b \in bits \ {pos} : b >= WordStart(pos)})

(* bitmap::previous: clear pos, then look at its word and the words below  *)
(* it; of the first one with a bit set the LOWEST bit is returned          *)
(* (__builtin_ctz).                                                        *)
BitBelow(bits, pos) ==
    LET seen == {b \in bits \ {pos} : b < WordStart(pos) + WordBits}
    IN  Min({b \in seen : b >= WordStart(Max(seen))})

(* Slip: the next level is taken to be the next tick.                      *)
NextFullByTick(l) ==
    IF Empty(l)
    THEN l
    ELSE [min |-> (l.min + 1) % Wrap, max |-> l.max, bits |-> l.bits \ {l.min}]

(* next(): the level at mMinIndex is given up; the index it returns is     *)
(* NextIndex.                                                              *)
NextFull(l) ==
    IF Empty(l)
    THEN l
    ELSE [min  |-> IF l.min = l.max THEN (l.min + 1) % Wrap
                                    ELSE BitAbove(l.bits, l.min),
          max  |-> l.max,
          bits |-> l.bits \ {l.min}]

NextIndex(l) ==
    IF Empty(l) \/ l.min = l.max THEN NoNext ELSE FirstIndex(NextFull(l))

(* Slip: mMaxIndex is signed.                                              *)
PreviousFullSigned(l) ==
    IF Empty(l)
    THEN l
    ELSE [min  |-> l.min,
          max  |-> IF l.min = l.max THEN l.max - 1 ELSE BitBelow(l.bits, l.max),
          bits |-> l.bits \ {l.max}]

(* previous(): the level at mMaxIndex is given up; mMaxIndex-- wraps when  *)
(* the last level is at LOW.                                               *)
PreviousFull(l) ==
    IF Empty(l)
    THEN l
    ELSE [min  |-> l.min,
          max  |-> IF l.min = l.max THEN (l.max + Wrap - 1) % Wrap
                                    ELSE BitBelow(l.bits, l.max),
          bits |-> l.bits \ {l.max}]

PreviousIndex(l) ==
    IF Empty(l) \/ l.min = l.max THEN NoPrevious ELSE LastIndex(PreviousFull(l))

-----------------------------------------------------------------------------
(* The bids' ladder after mMaxIndex-- wrapped: it is no longer Empty and   *)
(* no add moves its ends again.                                            *)
Stuck(l) == l.min = 0 /\ l.max = Wrap - 1

(* A ladder whose both ends are levels.                                    *)
EndsHeld(l) == Empty(l) \/ {l.min, l.max} \subseteq l.bits
=============================================================================
