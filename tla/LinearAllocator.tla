--------------------------- MODULE LinearAllocator ---------------------------
(***************************************************************************)
(* LinearAllocator: memory is handed out from the front of a block to its  *)
(* end, then from a new block, and never comes back.  The rings of the     *)
(* exchange hold pointers into it: a message that waits to be sent is good *)
(* as long as its place is not handed out again.                           *)
(***************************************************************************)
EXTENDS Naturals, Sequences

CONSTANTS
    Total,     \* mTotalSize: bytes of a block
    Alignment, \* mAllignement
    Base       \* the address of a block; the blocks are mapped alike

VARIABLE arena \* the block in use, mOffset, and (history) what was handed out

ArenaAssumption == Total \in Nat /\ Alignment \in Nat \ {0} /\ Base \in Nat

Fresh == [block |-> 1, offset |-> 0, taken |-> <<>>]

(* CalculatePadding: an address that is aligned gets a whole Alignment.    *)
CalculatePadding(offset) == Alignment - ((Base + offset) % Alignment)

Padding(a) == IF a.offset % Alignment = 0 THEN 0 ELSE CalculatePadding(a.offset)
Fits(a, size) == a.offset + Padding(a) + size <= Total

Take(block, offset, size, taken) ==
    [block |-> block, offset |-> offset + size,
     taken |-> Append(taken, [block |-> block, from |-> offset + 1, size |-> size])]

(* Slip: no new block is made when the old one is used up.                 *)
AllocateInPlace(a, size) ==
    Take(a.block, Padding(a) + (IF Fits(a, size) THEN a.offset ELSE 0), size, a.taken)

(* Allocate: the padding of the old block is added in a new one, too; the  *)
(* address returned is the one after the offset.                           *)
Allocate(a, size) ==
    IF Fits(a, size)
    THEN Take(a.block, a.offset + Padding(a), size, a.taken)
    ELSE Take(a.block + 1, Padding(a), size, a.taken)

Init == arena = Fresh
Next == \E size \in Nat : arena' = Allocate(arena, size)
Spec == Init /\ [][Next]_arena
-----------------------------------------------------------------------------
(* No byte is handed out twice: whatever was asked for, two allocations    *)
(* never overlap.                                                          *)
Apart ==
    \A i, j \in DOMAIN arena.taken :
        LET s == arena.taken[i]
            t == arena.taken[j]
        IN  i # j /\ s.block = t.block =>
                s.from + s.size <= t.from \/ t.from + t.size <= s.from

(* An allocation that fits a block with its padding sticks out of the      *)
(* block by no more than the one byte the address is moved on.             *)
Inside ==
    \A i \in DOMAIN arena.taken :
        LET s == arena.taken[i]
        IN  s.size + Alignment <= Total => s.from + s.size <= Total + 1
=============================================================================
