------------------------------ MODULE Decoder -------------------------------
(***************************************************************************)
(* Decoder::ensure: bytes of a stream are appended to a circular buffer,   *)
(* and messages are cut off its front by the size registered for the type  *)
(* in their first byte.  The bytes come in units, every message being a    *)
(* whole number of them: unit <<i, 1>> starts the i-th message of the      *)
(* stream and carries its type, <<i, n>> is a later one.                   *)
(***************************************************************************)
EXTENDS Naturals, FiniteSets, SequencesExt

CONSTANTS
    Capacity, \* of mBuffer, in units
    Stream,   \* the types of the messages of the stream
    SizeOf    \* mMessageSizes, in units, by type

ASSUME DecoderAssumption ==
    /\ Capacity \in Nat \ {0}
    /\ Stream \in Seq(DOMAIN SizeOf) /\ \A t \in DOMAIN SizeOf : SizeOf[t] \in Nat \ {0}

Length(i) == SizeOf[Stream[i]]
Message(i) == [n \in 1..Length(i) |-> <<i, n>>]

(* The messages of the stream follow one another: the first k are Ends[k]  *)
(* units long.                                                             *)
Ends[k \in 0..Len(Stream)] == IF k = 0 THEN 0 ELSE Ends[k - 1] + Length(k)

InStream ==
    LET MessageAt(p) == CHOOSE i \in 1..Len(Stream) : Ends[i - 1] < p /\ p <= Ends[i]
    IN  [p \in 1..Ends[Len(Stream)] |-> <<MessageAt(p), p - Ends[MessageAt(p) - 1]>>]

(* Memory that is not of the buffer's contents.                            *)
Junk == <<0, 0>>

EmptyBuffer == [cells |-> [p \in 0..Capacity - 1 |-> Junk], first |-> 0, size |-> 0]

(* circular_buffer::push_back: a full buffer loses its oldest unit.        *)
PushBack(b, unit) ==
    LET full == b.size = Capacity
    IN  [cells |-> [b.cells EXCEPT ![(b.first + b.size) % Capacity] = unit],
         first |-> IF full THEN (b.first + 1) % Capacity ELSE b.first,
         size  |-> IF full THEN Capacity ELSE b.size + 1]

(* What ensure is given is pushed unit by unit.                            *)
PushAll(b, units) ==
    LET Pushed[k \in 0..Len(units)] ==
            IF k = 0 THEN b ELSE PushBack(Pushed[k - 1], units[k])
    IN  Pushed[Len(units)]

(* Slip: only what array_one() holds is taken off.                         *)
PopArrayOne(b, n) ==
    LET m == IF b.first + n > Capacity THEN Capacity - b.first ELSE n
    IN  [b EXCEPT !.first = (@ + m) % Capacity, !.size = @ - m]

PopFront(b, n) == [b EXCEPT !.first = (@ + n) % Capacity, !.size = @ - n]

(* mMessageSizes of the byte at an offset: no type is 0.                   *)
SizeAt(b, k) ==
    LET unit == b.cells[(b.first + k) % Capacity]
    IN  IF unit[2] = 1 THEN Length(unit[1]) ELSE 0

(* Bytes without a type are dropped; with nothing else in the buffer, the  *)
(* loop goes on with bytes that are no longer in it.                       *)
Unknown(b) == {k \in 0..b.size - 1 : \A j \in 0..k : SizeAt(b, j) = 0}
Skip(b) == PopFront(b, Cardinality(Unknown(b)))
NeverReturns(b) == b.size > 0 /\ Cardinality(Unknown(b)) = b.size

HasFrame(b) ==
    LET c == Skip(b) IN c.size > 0 /\ SizeAt(c, 0) <= c.size

(* memcpy from array_one(): it runs past the end of the array, though the  *)
(* message goes on at its beginning.                                       *)
Frame(b) ==
    LET c == Skip(b)
    IN  [n \in 1..SizeAt(c, 0) |->
            IF c.first + n <= Capacity THEN c.cells[c.first + n - 1] ELSE Junk]

AfterFrame(b) == PopFront(Skip(b), SizeAt(Skip(b), 0))
=============================================================================
