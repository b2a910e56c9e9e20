-------------------------- MODULE MarketData_proofs --------------------------
(***************************************************************************)
(* Proofs about the MarketDataServer and the Decoder's memory.             *)
(*                                                                         *)
(* The inductive invariant has three parts.  FeedInv: the Decoder's buffer *)
(* holds the units of the stream from the end of the last message that was *)
(* cut off to the last unit received, each in the cell of its place modulo *)
(* the capacity, and its memory is Sound.  RingInv: the places of the ring *)
(* and who is at it.  OnceInv: while the two threads have kept apart, what *)
(* was shown, the packets, what the broadcasting thread holds and the ring *)
(* up to the size that will be stored are one path, in the order of the    *)
(* stream, on which every message that was pushed and is not gone lies     *)
(* once.                                                                   *)
(***************************************************************************)
EXTENDS MarketData, Counting

-----------------------------------------------------------------------------
(* Numbers.                                                                *)

(* Division with remainder.                                                *)
LEMMA Quotient ==
    ASSUME NEW C \in Nat \ {0}, NEW a \in Nat
    PROVE  \E q \in Nat : a = C * q + (a % C) /\ a % C \in 0..C - 1
<1>1. a % C = a - C * (a \div C)
  OBVIOUS
<1>2. a \div C \in Nat /\ a % C \in 0..C - 1
  OBVIOUS
<1>3. PICK q \in Nat : q = a \div C
  BY <1>2
<1>4. PICK r \in 0..C - 1 : r = a % C
  BY <1>2
<1>5. PICK m \in Nat : m = C * q
  OBVIOUS
<1>6. r = a - m
  BY <1>1, <1>3, <1>4, <1>5
<1>7. a = m + r
  BY <1>6
<1>8. a = C * q + (a % C)
  BY <1>4, <1>5, <1>7
<1> QED BY <1>2, <1>8

(* The remainder is the one there is.                                     *)
LEMMA Remainder ==
    ASSUME NEW C \in Nat \ {0}, NEW q \in Nat, NEW r \in 0..C - 1, NEW a \in Nat, a = C * q + r
    PROVE  a % C = r
OBVIOUS

(* A remainder may be taken before adding.                                 *)
LEMMA ModPlus ==
    ASSUME NEW C \in Nat \ {0}, NEW a \in Nat, NEW b \in Nat
    PROVE  ((a % C) + b) % C = (a + b) % C
<1>1. PICK q \in Nat : a = C * q + (a % C) /\ a % C \in 0..C - 1
  BY Quotient
<1>2. PICK r \in 0..C - 1 : r = a % C
  BY <1>1
<1>3. PICK p \in Nat : r + b = C * p + ((r + b) % C) /\ (r + b) % C \in 0..C - 1
  <2>1. r + b \in Nat
    BY <1>2
  <2> QED BY <2>1, Quotient
<1>4. PICK s \in 0..C - 1 : s = (r + b) % C
  BY <1>3
<1>5. q + p \in Nat /\ C * (q + p) = C * q + C * p
  OBVIOUS
<1>6. a + b = C * (q + p) + s
  <2>1. a = C * q + r /\ r + b = C * p + s
    BY <1>1, <1>2, <1>3, <1>4
  <2>2. PICK m \in Nat : m = C * q
    OBVIOUS
  <2>3. PICK n \in Nat : n = C * p
    OBVIOUS
  <2>4. a = m + r /\ r + b = n + s
    BY <2>1, <2>2, <2>3
  <2>5. a + b = m + n + s
    BY <2>4
  <2> QED BY <1>5, <2>2, <2>3, <2>5
<1>7. PICK m \in Nat : m = a + b
  OBVIOUS
<1>8. PICK n \in Nat : n = q + p
  OBVIOUS
<1>9. m % C = s
  <2>1. m = C * n + s
    BY <1>6, <1>7, <1>8
  <2> QED BY <2>1, Remainder
<1> QED BY <1>2, <1>4, <1>7, <1>9

(* Fewer than C apart, two places are different.                          *)
LEMMA ModApart ==
    ASSUME NEW C \in Nat \ {0}, NEW a \in Nat, NEW b \in Nat, a < b, b < a + C
    PROVE  a % C # b % C
<1> SUFFICES ASSUME a % C = b % C PROVE FALSE
  OBVIOUS
<1>1. PICK q \in Nat : a = C * q + (a % C) /\ a % C \in 0..C - 1
  BY Quotient
<1>2. PICK p \in Nat : b = C * p + (b % C) /\ b % C \in 0..C - 1
  BY Quotient
<1>3. C * q < C * p /\ C * p < C * q + C
  <2>1. C * q \in Nat /\ C * p \in Nat
    OBVIOUS
  <2> QED BY <1>1, <1>2, <2>1
<1>4. q < p => C * q + C <= C * p
  OBVIOUS
<1>5. p <= q => C * p <= C * q
  OBVIOUS
<1> QED BY <1>3, <1>4, <1>5

(* Induction up to a bound, over a set.                                    *)
LEMMA UpTo ==
    ASSUME NEW S, NEW m \in Nat, 0 \in S, \A k \in 1..m : k - 1 \in S => k \in S
    PROVE  0..m \subseteq S
<1> DEFINE Without == {k \in 0..m : k \notin S}
<1> SUFFICES ASSUME Without # {} PROVE FALSE
  OBVIOUS
<1>1. Without \in SUBSET Nat
  OBVIOUS
<1>2. PICK k \in Without : \A y \in Without : k <= y
  <2> HIDE DEF Without
  <2> QED BY <1>1, MinOfNats
<1>3. k \in 1..m /\ k \notin S
  BY <1>2
<1>4. k - 1 \notin Without
  <2>1. ~(k <= k - 1)
    BY <1>3
  <2> HIDE DEF Without
  <2> QED BY <1>2, <2>1
<1>5. k - 1 \in S
  BY <1>3, <1>4
<1> QED BY <1>3, <1>5

-----------------------------------------------------------------------------
(* The stream.                                                             *)

(* The messages are as long as their types say, and one of which a unit is *)
(* missing leaves room for what is received at once.                       *)
LEMMA LengthTyped ==
    /\ Len(Stream) \in Nat
    /\ \A i \in 1..Len(Stream) : Length(i) \in Nat \ {0} /\ Length(i) - 1 + Chunk <= Capacity
BY DecoderAssumption, MarketDataAssumption DEF Length

(* The recursion that defines Ends has a solution.                         *)
LEMMA EndsDef ==
    Ends = [k \in 0..Len(Stream) |-> IF k = 0 THEN 0 ELSE Ends[k - 1] + Length(k)]
<1> DEFINE Solves(f, m) == f = [k \in 0..m |-> IF k = 0 THEN 0 ELSE f[k - 1] + Length(k)]
           Solved == {m \in Nat : \E f : Solves(f, m)}
<1>1. 0 \in Solved
  <2> DEFINE f == [k \in 0..0 |-> 0]
  <2>1. \A k \in 0..0 : f[k] = IF k = 0 THEN 0 ELSE f[k - 1] + Length(k)
    OBVIOUS
  <2>2. Solves(f, 0)
    BY <2>1
  <2> QED BY <2>2
<1>2. ASSUME NEW m \in 1..Len(Stream), m - 1 \in Solved PROVE m \in Solved
  <2>1. PICK f : Solves(f, m - 1)
    BY <1>2
  <2> DEFINE g == [k \in 0..m |-> IF k < m THEN f[k] ELSE f[m - 1] + Length(m)]
  <2>2. ASSUME NEW k \in 0..m PROVE g[k] = IF k = 0 THEN 0 ELSE g[k - 1] + Length(k)
    <3>1. CASE k < m
      <4>1. k \in 0..m - 1 /\ g[k] = f[k] /\ (k # 0 => g[k - 1] = f[k - 1])
        BY <1>2, <3>1, LengthTyped
      <4>2. f[k] = IF k = 0 THEN 0 ELSE f[k - 1] + Length(k)
        BY <2>1, <4>1
      <4> QED BY <4>1, <4>2
    <3>2. CASE k = m
      BY <3>2, LengthTyped
    <3> QED BY <3>1, <3>2, LengthTyped
  <2>3. Solves(g, m)
    BY <2>2
  <2>4. m \in Nat
    BY LengthTyped
  <2> QED BY <2>3, <2>4
<1>3. \E f : Solves(f, Len(Stream))
  <2>1. 0..Len(Stream) \subseteq Solved
    <3> HIDE DEF Solved
    <3> QED BY <1>1, <1>2, UpTo, LengthTyped
  <2> QED BY <2>1, LengthTyped
<1> QED BY <1>3 DEF Ends

(* Every message has its place.                                            *)
LEMMA EndsTyped ==
    /\ Ends[0] = 0
    /\ \A k \in 1..Len(Stream) : Ends[k] = Ends[k - 1] + Length(k)
    /\ \A k \in 0..Len(Stream) : Ends[k] \in Nat
<1>1. /\ Ends[0] = 0
      /\ \A k \in 1..Len(Stream) : Ends[k] = Ends[k - 1] + Length(k)
  BY EndsDef, LengthTyped
<1> DEFINE S == {k \in Nat : Ends[k] \in Nat}
<1>2. 0 \in S
  BY <1>1
<1>3. ASSUME NEW k \in 1..Len(Stream), k - 1 \in S PROVE k \in S
  BY <1>1, <1>3, LengthTyped
<1>4. 0..Len(Stream) \subseteq S
  <2> HIDE DEF S
  <2> QED BY <1>2, <1>3, UpTo, LengthTyped
<1> QED BY <1>1, <1>4

(* A later message ends later.                                             *)
LEMMA EndsGrow ==
    \A j, k \in 0..Len(Stream) : j <= k => Ends[j] <= Ends[k]
<1> SUFFICES ASSUME NEW j \in 0..Len(Stream) PROVE \A k \in 0..Len(Stream) : j <= k => Ends[j] <= Ends[k]
  OBVIOUS
<1> DEFINE S == {k \in Nat : j <= k => Ends[j] <= Ends[k]}
<1>1. 0 \in S
  BY EndsTyped, LengthTyped
<1>2. ASSUME NEW k \in 1..Len(Stream), k - 1 \in S PROVE k \in S
  <2>1. Ends[k] = Ends[k - 1] + Length(k) /\ Ends[k - 1] \in Nat /\ Ends[j] \in Nat /\ Length(k) \in Nat
    BY EndsTyped, LengthTyped
  <2>2. j <= k => j = k \/ j <= k - 1
    BY LengthTyped
  <2> QED BY <1>2, <2>1, <2>2
<1>3. 0..Len(Stream) \subseteq S
  <2> HIDE DEF S
  <2> QED BY <1>1, <1>2, UpTo, LengthTyped
<1> QED BY <1>3

(* The unit of the stream at a place of a message.                         *)
LEMMA UnitAt ==
    ASSUME NEW i \in 1..Len(Stream), NEW n \in 1..Length(i)
    PROVE  /\ Ends[i - 1] + n \in 1..Ends[Len(Stream)]
           /\ InStream[Ends[i - 1] + n] = <<i, n>>
<1> DEFINE MessageAt(p) == CHOOSE k \in 1..Len(Stream) : Ends[k - 1] < p /\ p <= Ends[k]
<1>1. PICK p : p = Ends[i - 1] + n
  OBVIOUS
<1>2. /\ p \in Nat /\ Ends[i - 1] < p /\ p <= Ends[i] /\ Ends[i - 1] \in Nat /\ Ends[i] \in Nat
      /\ Ends[i] <= Ends[Len(Stream)] /\ Ends[Len(Stream)] \in Nat
  BY <1>1, EndsTyped, EndsGrow, LengthTyped
<1>3. ASSUME NEW k \in 1..Len(Stream), Ends[k - 1] < p, p <= Ends[k] PROVE k = i
  <2>1. /\ Ends[k - 1] \in Nat /\ Ends[k] \in Nat /\ Ends[i] \in Nat
        /\ k - 1 \in 0..Len(Stream) /\ i - 1 \in 0..Len(Stream)
        /\ k \in 0..Len(Stream) /\ i \in 0..Len(Stream)
    BY EndsTyped, LengthTyped
  <2>2. i <= k - 1 => Ends[i] <= Ends[k - 1]
    BY <2>1, EndsGrow
  <2>3. k <= i - 1 => Ends[k] <= Ends[i - 1]
    BY <2>1, EndsGrow
  <2>4. ~(i <= k - 1) /\ ~(k <= i - 1)
    BY <1>2, <1>3, <2>1, <2>2, <2>3
  <2> QED BY <2>4, LengthTyped
<1>4. MessageAt(p) = i
  BY <1>2, <1>3
<1>5. InStream = [q \in 1..Ends[Len(Stream)] |-> <<MessageAt(q), q - Ends[MessageAt(q) - 1]>>]
  BY DEF InStream
<1> HIDE DEF MessageAt
<1>6. p \in 1..Ends[Len(Stream)]
  BY <1>2
<1>7. InStream[p] = <<i, p - Ends[i - 1]>>
  BY <1>4, <1>5, <1>6
<1>8. p - Ends[i - 1] = n
  BY <1>1, <1>2, LengthTyped
<1> QED BY <1>1, <1>6, <1>7, <1>8

(* The stream is a sequence.                                               *)
LEMMA StreamTyped ==
    /\ Ends[Len(Stream)] \in Nat /\ Len(InStream) = Ends[Len(Stream)]
    /\ InStream \in Seq(Range(InStream))
    /\ \A p \in 1..Ends[Len(Stream)] : InStream[p] \in Range(InStream)
<1>1. Ends[Len(Stream)] \in Nat
  BY EndsTyped, LengthTyped
<1>2. DOMAIN InStream = 1..Ends[Len(Stream)] /\ Len(InStream) = Ends[Len(Stream)]
  BY <1>1 DEF InStream
<1>3. \A p \in 1..Ends[Len(Stream)] : InStream[p] \in Range(InStream)
  BY <1>2 DEF Range
<1>4. InStream \in Seq(Range(InStream))
  <2> DEFINE R == Range(InStream)
  <2>1. InStream = [p \in 1..Ends[Len(Stream)] |-> InStream[p]]
    BY DEF InStream
  <2> HIDE DEF R
  <2> QED BY <1>1, <1>3, <2>1 DEF R
<1> QED BY <1>1, <1>2, <1>3, <1>4

-----------------------------------------------------------------------------
(* The Decoder's buffer.                                                   *)
Cells == Range(InStream) \union {Junk}

(* The buffer holds the units of the stream after the first c, up to the   *)
(* r-th, each in the cell that its place gives it.                         *)
Holds(b, c, r) ==
    /\ b = [cells |-> b.cells, first |-> c % Capacity, size |-> r - c]
    /\ b.cells \in [0..Capacity - 1 -> Cells]
    /\ \A p \in c + 1..r : b.cells[(p - 1) % Capacity] = InStream[p]

(* A unit that finds room is pushed after the others.                      *)
LEMMA PushBackHolds ==
    ASSUME NEW b, NEW c \in Nat, NEW r \in Nat, c <= r, r < c + Capacity, r + 1 <= Len(InStream),
           Holds(b, c, r)
    PROVE  Holds(PushBack(b, InStream[r + 1]), c, r + 1)
<1> DEFINE d == PushBack(b, InStream[r + 1])
<1>1. Capacity \in Nat \ {0}
  BY DecoderAssumption
<1>2. b.first = c % Capacity /\ b.size = r - c /\ b.cells \in [0..Capacity - 1 -> Cells]
  BY DEF Holds
<1>3. (b.first + b.size) % Capacity = r % Capacity
  <2>1. PICK k \in Nat : k = r - c
    OBVIOUS
  <2>2. ((c % Capacity) + k) % Capacity = (c + k) % Capacity
    BY <1>1, ModPlus
  <2> QED BY <1>2, <2>1, <2>2
<1>4. b.size # Capacity
  BY <1>1, <1>2
<1>5. d = [cells |-> [b.cells EXCEPT ![r % Capacity] = InStream[r + 1]],
           first |-> c % Capacity, size |-> r - c + 1]
  BY <1>2, <1>3, <1>4 DEF PushBack
<1>6. r % Capacity \in 0..Capacity - 1
  BY <1>1
<1>7. InStream[r + 1] \in Cells
  BY StreamTyped DEF Cells
<1> HIDE DEF d
<1>8. /\ d.cells \in [0..Capacity - 1 -> Cells] /\ d.cells[r % Capacity] = InStream[r + 1]
      /\ \A k \in 0..Capacity - 1 : k # r % Capacity => d.cells[k] = b.cells[k]
  <2>1. d.cells = [b.cells EXCEPT ![r % Capacity] = InStream[r + 1]]
    BY <1>5
  <2> QED BY <1>2, <1>6, <1>7, <2>1
<1>9. ASSUME NEW p \in c + 1..r + 1 PROVE d.cells[(p - 1) % Capacity] = InStream[p]
  <2>1. CASE p = r + 1
    <3>1. p - 1 = r
      BY <2>1
    <3> QED BY <1>8, <2>1, <3>1
  <2>2. CASE p # r + 1
    <3>1. PICK q \in Nat : q = p - 1
      OBVIOUS
    <3>2. q < r /\ r < q + Capacity /\ p \in c + 1..r
      BY <1>1, <2>2, <3>1
    <3>3. q % Capacity # r % Capacity
      BY <1>1, <3>2, ModApart
    <3>4. q % Capacity \in 0..Capacity - 1
      BY <1>1
    <3>5. d.cells[q % Capacity] = b.cells[q % Capacity]
      BY <1>8, <3>3, <3>4
    <3>6. b.cells[q % Capacity] = InStream[p]
      BY <3>1, <3>2 DEF Holds
    <3> QED BY <3>1, <3>5, <3>6
  <2> QED BY <2>1, <2>2
<1>10. r + 1 - c = r - c + 1
  OBVIOUS
<1>11. d = [cells |-> d.cells, first |-> c % Capacity, size |-> r + 1 - c]
  BY <1>5, <1>10
<1>12. Holds(d, c, r + 1)
  BY <1>8, <1>9, <1>11 DEF Holds
<1> QED BY <1>12 DEF d

(* The recursion in PushAll has a solution.                                *)
LEMMA PushAllDef ==
    ASSUME NEW b, NEW units, Len(units) \in Nat
    PROVE  \E f : /\ PushAll(b, units) = f[Len(units)] /\ f[0] = b
                  /\ \A k \in 1..Len(units) : f[k] = PushBack(f[k - 1], units[k])
<1> DEFINE N == Len(units)
           Solves(f, m) == f = [k \in 0..m |-> IF k = 0 THEN b ELSE PushBack(f[k - 1], units[k])]
           Solved == {m \in Nat : \E f : Solves(f, m)}
<1>1. 0 \in Solved
  <2> DEFINE f == [k \in 0..0 |-> b]
  <2>1. \A k \in 0..0 : f[k] = IF k = 0 THEN b ELSE PushBack(f[k - 1], units[k])
    OBVIOUS
  <2>2. Solves(f, 0)
    BY <2>1
  <2> QED BY <2>2
<1>2. ASSUME NEW m \in 1..N, m - 1 \in Solved PROVE m \in Solved
  <2>1. PICK f : Solves(f, m - 1)
    BY <1>2
  <2> DEFINE g == [k \in 0..m |-> IF k < m THEN f[k] ELSE PushBack(f[m - 1], units[m])]
  <2>2. ASSUME NEW k \in 0..m PROVE g[k] = IF k = 0 THEN b ELSE PushBack(g[k - 1], units[k])
    <3>1. CASE k < m
      <4>1. k \in 0..m - 1 /\ g[k] = f[k] /\ (k # 0 => g[k - 1] = f[k - 1])
        BY <1>2, <3>1
      <4>2. f[k] = IF k = 0 THEN b ELSE PushBack(f[k - 1], units[k])
        BY <2>1, <4>1
      <4> QED BY <4>1, <4>2
    <3>2. CASE k = m
      <4>1. m # 0 /\ m - 1 \in 0..m /\ m - 1 < m /\ m \in 0..m /\ ~(m < m)
        OBVIOUS
      <4>2. g[m - 1] = f[m - 1] /\ g[m] = PushBack(f[m - 1], units[m])
        BY <4>1
      <4> QED BY <3>2, <4>1, <4>2
    <3> QED BY <3>1, <3>2
  <2>3. Solves(g, m)
    BY <2>2
  <2> HIDE DEF g, Solves
  <2>4. m \in Nat /\ \E e : Solves(e, m)
    BY <2>3
  <2> QED BY <2>4
<1>3. PICK f : Solves(f, N)
  <2>1. 0..N \subseteq Solved
    <3> HIDE DEF Solved
    <3> QED BY <1>1, <1>2, UpTo
  <2> QED BY <2>1
<1> DEFINE h == CHOOSE h : Solves(h, N)
<1>4. Solves(h, N)
  BY <1>3
<1>5. PushAll(b, units) = h[N]
  BY DEF PushAll
<1> HIDE DEF h
<1>6. h[0] = b /\ \A k \in 1..N : h[k] = PushBack(h[k - 1], units[k])
  <2>1. 0 \in 0..N /\ \A k \in 1..N : k \in 0..N /\ k # 0
    OBVIOUS
  <2> QED BY <1>4, <2>1
<1> QED BY <1>5, <1>6

(* What a recv brings is in the buffer.                                    *)
LEMMA PushAllHolds ==
    ASSUME NEW b, NEW c \in Nat, NEW r \in Nat, NEW n \in Nat,
           c <= r, r + n <= c + Capacity, r + n <= Len(InStream), Holds(b, c, r)
    PROVE  Holds(PushAll(b, SubSeq(InStream, r + 1, r + n)), c, r + n)
<1> DEFINE units == SubSeq(InStream, r + 1, r + n)
<1>1. Len(units) = n /\ \A k \in 1..n : units[k] = InStream[r + k]
  <2>1. InStream \in Seq(Range(InStream)) /\ Len(InStream) \in Nat
    BY StreamTyped
  <2>2. Len(units) = n
    BY <2>1, SubSeqProperties
  <2>3. ASSUME NEW k \in 1..n PROVE units[k] = InStream[r + k]
    <3>1. units[k] = InStream[r + 1 + k - 1]
      BY <2>1, <2>2, SubSeqProperties
    <3> QED BY <3>1
  <2> QED BY <2>2, <2>3
<1> HIDE DEF units
<1>2. PICK f : /\ PushAll(b, units) = f[n] /\ f[0] = b
               /\ \A k \in 1..n : f[k] = PushBack(f[k - 1], units[k])
  <2>1. PICK u : u = units
    OBVIOUS
  <2>2. Len(u) = n
    BY <1>1, <2>1
  <2>3. \E f : /\ PushAll(b, u) = f[Len(u)] /\ f[0] = b
               /\ \A k \in 1..Len(u) : f[k] = PushBack(f[k - 1], u[k])
    BY <2>2, PushAllDef
  <2> QED BY <2>1, <2>2, <2>3
<1> DEFINE S == {k \in Nat : Holds(f[k], c, r + k)}
<1>3. 0 \in S
  BY <1>2
<1>4. ASSUME NEW k \in 1..n, k - 1 \in S PROVE k \in S
  <2>1. PICK j \in Nat : j = k - 1
    OBVIOUS
  <2>2. PICK q \in Nat : q = r + j
    OBVIOUS
  <2>3. Holds(f[j], c, q) /\ c <= q /\ q < c + Capacity /\ q + 1 <= Len(InStream)
    BY <1>4, <2>1, <2>2, StreamTyped, DecoderAssumption
  <2>4. Holds(PushBack(f[j], InStream[q + 1]), c, q + 1)
    BY <2>3, PushBackHolds
  <2>5. q + 1 = r + k /\ f[k] = PushBack(f[j], InStream[q + 1])
    BY <1>1, <1>2, <2>1, <2>2
  <2> QED BY <2>4, <2>5
<1>5. 0..n \subseteq S
  <2> HIDE DEF S
  <2> QED BY <1>3, <1>4, UpTo
<1>6. n \in S
  BY <1>5
<1> QED BY <1>2, <1>6 DEF units

(* Units that are popped are those that came first.                        *)
LEMMA PopFrontHolds ==
    ASSUME NEW b, NEW c \in Nat, NEW r \in Nat, NEW n \in Nat, c + n <= r, Holds(b, c, r)
    PROVE  /\ Holds(PopFront(b, n), c + n, r)
           /\ n = 0 => PopFront(b, n) = b
<1> DEFINE d == PopFront(b, n)
<1>1. Capacity \in Nat \ {0}
  BY DecoderAssumption
<1>2. /\ b = [cells |-> b.cells, first |-> c % Capacity, size |-> r - c]
      /\ b.cells \in [0..Capacity - 1 -> Cells]
  BY DEF Holds
<1>3. d = [cells |-> b.cells, first |-> ((c % Capacity) + n) % Capacity, size |-> (r - c) - n]
  <2>1. PICK e : e = b.cells
    OBVIOUS
  <2>2. PICK f : f = c % Capacity
    OBVIOUS
  <2>3. b = [cells |-> e, first |-> f, size |-> r - c]
    BY <1>2, <2>1, <2>2
  <2>4. d = [b EXCEPT !.first = (f + n) % Capacity, !.size = (r - c) - n]
    BY <2>3 DEF PopFront
  <2>5. d = [cells |-> e, first |-> (f + n) % Capacity, size |-> (r - c) - n]
    <3> HIDE DEF d
    <3> QED BY <2>3, <2>4
  <2> QED BY <2>1, <2>2, <2>5
<1>4. ((c % Capacity) + n) % Capacity = (c + n) % Capacity /\ (r - c) - n = r - (c + n)
  <2>1. ((c % Capacity) + n) % Capacity = (c + n) % Capacity
    BY <1>1, ModPlus
  <2> QED BY <2>1
<1> HIDE DEF d
<1>5. d = [cells |-> b.cells, first |-> (c + n) % Capacity, size |-> r - (c + n)]
  BY <1>3, <1>4
<1>6. d.cells = b.cells
  BY <1>5
<1>7. \A p \in c + n + 1..r : d.cells[(p - 1) % Capacity] = InStream[p]
  <2>1. \A p \in c + n + 1..r : p \in c + 1..r
    OBVIOUS
  <2> QED BY <1>6, <2>1 DEF Holds
<1>8. Holds(d, c + n, r)
  BY <1>2, <1>5, <1>6, <1>7 DEF Holds
<1>9. n = 0 => d = b
  BY <1>2, <1>5
<1> QED BY <1>8, <1>9 DEF d

(* What memcpy takes of the array for a message.                           *)
FrameOf(i) ==
    [n \in 1..Length(i) |-> IF (Ends[i - 1] % Capacity) + n <= Capacity THEN <<i, n>> ELSE Junk]

(* At the start of a message, with some of it in the buffer, ensure finds  *)
(* the size of the message.                                                *)
LEMMA StartOfMessage ==
    ASSUME NEW b, NEW k \in 0..Len(Stream), NEW r \in Nat, Ends[k] < r, r <= Len(InStream),
           Holds(b, Ends[k], r)
    PROVE  k + 1 \in 1..Len(Stream) /\ SizeAt(b, 0) = Length(k + 1)
<1>1. Ends[k] \in Nat /\ Capacity \in Nat \ {0} /\ k \in Nat /\ Len(Stream) \in Nat
  BY EndsTyped, DecoderAssumption, LengthTyped
<1>2. k + 1 \in 1..Len(Stream)
  <2>1. k # Len(Stream)
    BY <1>1, StreamTyped
  <2> QED BY <1>1, <2>1
<1>3. PICK c \in Nat : c = Ends[k]
  BY <1>1
<1>4. b.first = c % Capacity /\ b.cells[c % Capacity] = InStream[c + 1]
  <2>1. c + 1 \in c + 1..r /\ (c + 1) - 1 = c
    BY <1>3
  <2>2. \A p \in c + 1..r : b.cells[(p - 1) % Capacity] = InStream[p]
    BY <1>3 DEF Holds
  <2>3. b.cells[((c + 1) - 1) % Capacity] = InStream[c + 1]
    BY <2>1, <2>2
  <2> QED BY <1>3, <2>1, <2>3 DEF Holds
<1>5. InStream[c + 1] = <<k + 1, 1>>
  <2>1. 1 \in 1..Length(k + 1) /\ (k + 1) - 1 = k
    BY <1>1, <1>2, LengthTyped
  <2> QED BY <1>2, <1>3, <2>1, UnitAt
<1>6. (b.first + 0) % Capacity = c % Capacity
  <2>1. c % Capacity \in 0..Capacity - 1
    BY <1>1
  <2> QED BY <1>1, <1>4, <2>1
<1> QED BY <1>2, <1>4, <1>5, <1>6 DEF SizeAt

(* ensure never meets bytes without a type, and leaves the buffer alone    *)
(* while a message is not complete.                                        *)
LEMMA NothingUnknown ==
    ASSUME NEW b, NEW k \in 0..Len(Stream), NEW r \in Nat, Ends[k] <= r, r <= Len(InStream),
           Holds(b, Ends[k], r)
    PROVE  Skip(b) = b /\ ~NeverReturns(b)
<1>1. Ends[k] \in Nat
  BY EndsTyped
<1>2. b.size = r - Ends[k]
  BY DEF Holds
<1>3. Unknown(b) = {}
  <2> SUFFICES ASSUME NEW j \in 0..b.size - 1, \A i \in 0..j : SizeAt(b, i) = 0 PROVE FALSE
    BY DEF Unknown
  <2>1. Ends[k] < r /\ 0 \in 0..j
    BY <1>1, <1>2
  <2>2. SizeAt(b, 0) = Length(k + 1) /\ Length(k + 1) # 0
    BY <2>1, StartOfMessage, LengthTyped
  <2> QED BY <2>1, <2>2
<1>4. Cardinality(Unknown(b)) = 0
  BY <1>3, FS_EmptySet
<1>5. Skip(b) = b
  <2>1. PopFront(b, 0) = b
    <3>1. PICK c \in Nat : c = Ends[k]
      BY <1>1
    <3>2. Holds(b, c, r) /\ c + 0 <= r
      BY <3>1
    <3> QED BY <3>2, PopFrontHolds
  <2> QED BY <1>4, <2>1 DEF Skip
<1>6. ~NeverReturns(b)
  BY <1>1, <1>2, <1>4 DEF NeverReturns
<1> QED BY <1>5, <1>6

(* ensure cuts off the next message exactly when it is complete; what it   *)
(* copies is the message up to the end of the array.                       *)
LEMMA EnsureCuts ==
    ASSUME NEW b, NEW k \in 0..Len(Stream), NEW r \in Nat, Ends[k] <= r, r <= Len(InStream),
           Holds(b, Ends[k], r)
    PROVE  /\ HasFrame(b) <=> k < Len(Stream) /\ Ends[k + 1] <= r
           /\ HasFrame(b) => Frame(b) = FrameOf(k + 1) /\ Holds(AfterFrame(b), Ends[k + 1], r)
<1>1. /\ Ends[k] \in Nat /\ Capacity \in Nat \ {0} /\ k \in Nat /\ Len(Stream) \in Nat
      /\ Skip(b) = b
  <2>1. Skip(b) = b
    BY NothingUnknown
  <2> QED BY <2>1, EndsTyped, DecoderAssumption, LengthTyped
<1>2. /\ b = [cells |-> b.cells, first |-> Ends[k] % Capacity, size |-> r - Ends[k]]
      /\ b.size = r - Ends[k] /\ b.first = Ends[k] % Capacity
  BY DEF Holds
<1>3. CASE Ends[k] = r
  <2>1. ~HasFrame(b)
    BY <1>1, <1>2, <1>3 DEF HasFrame
  <2>2. ~(k < Len(Stream) /\ Ends[k + 1] <= r)
    <3> SUFFICES ASSUME k < Len(Stream) PROVE ~(Ends[k + 1] <= r)
      OBVIOUS
    <3>1. k + 1 \in 1..Len(Stream) /\ (k + 1) - 1 = k
      BY <1>1
    <3>2. Ends[k + 1] = Ends[k] + Length(k + 1) /\ Length(k + 1) \in Nat \ {0}
      BY <3>1, EndsTyped, LengthTyped
    <3> QED BY <1>1, <1>3, <3>2
  <2> QED BY <2>1, <2>2
<1>4. CASE Ends[k] # r
  <2>1. k + 1 \in 1..Len(Stream) /\ SizeAt(b, 0) = Length(k + 1) /\ (k + 1) - 1 = k
    BY <1>1, <1>4, StartOfMessage
  <2>2. Ends[k + 1] = Ends[k] + Length(k + 1) /\ Length(k + 1) \in Nat \ {0}
    BY <2>1, EndsTyped, LengthTyped
  <2>3. HasFrame(b) <=> Ends[k + 1] <= r
    BY <1>1, <1>2, <1>4, <2>1, <2>2 DEF HasFrame
  <2>4. k < Len(Stream)
    BY <1>1, <2>1
  <2>5. ASSUME Ends[k + 1] <= r PROVE Holds(AfterFrame(b), Ends[k + 1], r)
    <3>1. AfterFrame(b) = PopFront(b, Length(k + 1))
      BY <1>1, <2>1 DEF AfterFrame
    <3>2. PICK c \in Nat : c = Ends[k]
      BY <1>1
    <3>3. PICK n \in Nat : n = Length(k + 1)
      BY <2>2
    <3>4. c + n <= r /\ Holds(b, c, r)
      BY <2>2, <2>5, <3>2, <3>3
    <3>5. Holds(PopFront(b, n), c + n, r)
      BY <3>4, PopFrontHolds
    <3> QED BY <2>2, <3>1, <3>2, <3>3, <3>5
  <2>6. ASSUME Ends[k + 1] <= r PROVE Frame(b) = FrameOf(k + 1)
    <3>1. PICK c \in Nat : c = Ends[k]
      BY <1>1
    <3>2. PICK f \in 0..Capacity - 1 : f = c % Capacity
      BY <1>1
    <3>3. ASSUME NEW n \in 1..Length(k + 1), f + n <= Capacity
          PROVE  b.cells[f + n - 1] = <<k + 1, n>>
      <4>1. PICK m \in Nat : m = n - 1
        BY <2>2
      <4>2. (c + m) % Capacity = f + n - 1
        <5>1. ((c % Capacity) + m) % Capacity = (c + m) % Capacity
          BY <1>1, ModPlus
        <5>2. f + m \in Nat /\ f + m < Capacity /\ f + m = f + n - 1
          BY <1>1, <2>2, <3>3, <4>1
        <5>3. (f + m) % Capacity = f + m
          <6>1. PICK a \in Nat : a = f + m
            BY <5>2
          <6>2. a < Capacity
            BY <5>2, <6>1
          <6>3. a % Capacity = a
            BY <1>1, <6>2
          <6> QED BY <6>1, <6>3
        <5> QED BY <3>2, <5>1, <5>2, <5>3
      <4>3. PICK p \in Nat : p = c + n
        BY <2>2
      <4>4. p \in c + 1..r /\ p - 1 = c + m
        BY <2>2, <2>6, <3>1, <4>1, <4>3
      <4>5. b.cells[(p - 1) % Capacity] = InStream[p]
        BY <3>1, <4>4 DEF Holds
      <4>6. InStream[p] = <<k + 1, n>>
        BY <2>1, <3>1, <4>3, UnitAt
      <4> QED BY <4>2, <4>4, <4>5, <4>6
    <3>4. Frame(b) = [n \in 1..Length(k + 1) |->
                        IF f + n <= Capacity THEN b.cells[f + n - 1] ELSE Junk]
      BY <1>1, <1>2, <2>1, <3>1, <3>2 DEF Frame
    <3>5. FrameOf(k + 1) = [n \in 1..Length(k + 1) |->
                              IF f + n <= Capacity THEN <<k + 1, n>> ELSE Junk]
      BY <2>1, <3>1, <3>2 DEF FrameOf
    <3> QED BY <3>3, <3>4, <3>5
  <2> QED BY <2>3, <2>4, <2>5, <2>6
<1> QED BY <1>3, <1>4

-----------------------------------------------------------------------------
(* The Decoder's memory.                                                   *)
Taken == [block : Nat, from : Nat, size : Nat]

(* Of what was handed out nothing overlaps or sticks out of its block; it  *)
(* lies before the offset, moved on by one, if it is of the block in use,  *)
(* and is of no later block.                                               *)
Sound(a) ==
    /\ a \in [block : Nat, offset : Nat, taken : Seq(Taken)]
    /\ \A i \in DOMAIN a.taken :
          /\ a.taken[i].block <= a.block
          /\ a.taken[i].block = a.block => a.taken[i].from + a.taken[i].size <= a.offset + 1
          /\ a.taken[i].size + Alignment <= Total =>
                 a.taken[i].from + a.taken[i].size <= Total + 1
    /\ \A i, j \in DOMAIN a.taken :
          i # j /\ a.taken[i].block = a.taken[j].block =>
              \/ a.taken[i].from + a.taken[i].size <= a.taken[j].from
              \/ a.taken[j].from + a.taken[j].size <= a.taken[i].from

(* That is what Apart and Inside say.                                      *)
LEMMA SoundIsApart ==
    ASSUME Sound(arena) PROVE Memory!Apart /\ Memory!Inside
BY DEF Sound, Memory!Apart, Memory!Inside

(* Nothing was handed out of a new allocator.                              *)
LEMMA FreshSound == Sound(Memory!Fresh)
BY DEF Memory!Fresh, Sound

(* Less than a block is left out for the alignment.                        *)
LEMMA PaddingBounded ==
    ASSUME NEW a, a.offset \in Nat
    PROVE  Memory!Padding(a) \in 0..Alignment
<1>1. Alignment \in Nat \ {0} /\ Base \in Nat
  BY MarketDataAssumption DEF Memory!ArenaAssumption
<1>2. (Base + a.offset) % Alignment \in 0..Alignment - 1
  BY <1>1
<1> QED BY <1>1, <1>2 DEF Memory!Padding, Memory!CalculatePadding

(* The two cases of Allocate: the block in use and the end of what was     *)
(* taken of it, or a new block.                                            *)
LEMMA TakeSound ==
    ASSUME NEW a, Sound(a), NEW n \in Nat, NEW block \in Nat, NEW offset \in Nat,
           \/ block = a.block /\ offset >= a.offset /\ offset + n <= Total
           \/ block = a.block + 1 /\ offset <= Alignment
    PROVE  Sound(Memory!Take(block, offset, n, a.taken))
<1> DEFINE place == [block |-> block, from |-> offset + 1, size |-> n]
           t == Append(a.taken, place)
           b == [block |-> block, offset |-> offset + n, taken |-> t]
<1>1. place \in Taken /\ a.taken \in Seq(Taken) /\ a.block \in Nat /\ a.offset \in Nat
  BY DEF Taken, Sound
<1>2. Total \in Nat /\ Alignment \in Nat \ {0}
  BY MarketDataAssumption DEF Memory!ArenaAssumption
<1>3. Memory!Take(block, offset, n, a.taken) = b
  BY DEF Memory!Take
<1>4. b \in [block : Nat, offset : Nat, taken : Seq(Taken)]
  <2>1. t \in Seq(Taken)
    <3> HIDE DEF place
    <3> QED BY <1>1
  <2> HIDE DEF t
  <2> QED BY <2>1
<1>5. ASSUME NEW i \in DOMAIN t
      PROVE  \/ i \in DOMAIN a.taken /\ t[i] = a.taken[i] /\ a.taken[i] \in Taken
             \/ i = Len(a.taken) + 1 /\ t[i] = place
  <2> HIDE DEF place
  <2> QED BY <1>1, <1>5
<1>6. ASSUME NEW i \in DOMAIN a.taken
      PROVE  /\ a.taken[i].block \in Nat /\ a.taken[i].from \in Nat /\ a.taken[i].size \in Nat
             /\ a.taken[i].block <= block
             /\ a.taken[i].block = block => a.taken[i].from + a.taken[i].size <= offset + 1
             /\ a.taken[i].size + Alignment <= Total =>
                    a.taken[i].from + a.taken[i].size <= Total + 1
  <2>1. a.taken[i] \in Taken
    BY <1>1, <1>6
  <2>2. a.taken[i].block \in Nat /\ a.taken[i].from \in Nat /\ a.taken[i].size \in Nat
    BY <2>1 DEF Taken
  <2>3. /\ a.taken[i].block <= a.block
        /\ a.taken[i].block = a.block => a.taken[i].from + a.taken[i].size <= a.offset + 1
        /\ a.taken[i].size + Alignment <= Total =>
               a.taken[i].from + a.taken[i].size <= Total + 1
    BY <1>6 DEF Sound
  <2>4. CASE block = a.block /\ offset >= a.offset
    BY <1>1, <2>2, <2>3, <2>4
  <2>5. CASE block = a.block + 1
    BY <1>1, <2>2, <2>3, <2>5
  <2> QED BY <2>4, <2>5
<1> HIDE DEF t
<1>7. place.block = block /\ place.from = offset + 1 /\ place.size = n
  OBVIOUS
<1> HIDE DEF place
<1>8. n + Alignment <= Total => offset + 1 + n <= Total + 1
  BY <1>2
<1>9. ASSUME NEW i \in DOMAIN t
      PROVE  /\ t[i].block <= block
             /\ t[i].block = block => t[i].from + t[i].size <= offset + n + 1
             /\ t[i].size + Alignment <= Total => t[i].from + t[i].size <= Total + 1
  <2>1. CASE i \in DOMAIN a.taken /\ t[i] = a.taken[i]
    BY <1>6, <2>1
  <2>2. CASE t[i] = place
    BY <1>7, <1>8, <2>2
  <2> QED BY <1>5, <1>9, <2>1, <2>2
<1>10. ASSUME NEW i \in DOMAIN t, NEW j \in DOMAIN t, i # j, t[i].block = t[j].block
       PROVE  t[i].from + t[i].size <= t[j].from \/ t[j].from + t[j].size <= t[i].from
  <2>1. CASE i \in DOMAIN a.taken /\ t[i] = a.taken[i] /\ j \in DOMAIN a.taken /\ t[j] = a.taken[j]
    BY <1>10, <2>1 DEF Sound
  <2>2. CASE i \in DOMAIN a.taken /\ t[i] = a.taken[i] /\ t[j] = place
    BY <1>6, <1>7, <1>10, <2>2
  <2>3. CASE j \in DOMAIN a.taken /\ t[j] = a.taken[j] /\ t[i] = place
    BY <1>6, <1>7, <1>10, <2>3
  <2> QED BY <1>5, <1>10, <2>1, <2>2, <2>3
<1>11. Sound(b)
  <2>1. b.block = block /\ b.offset = offset + n /\ b.taken = t
    OBVIOUS
  <2> HIDE DEF b
  <2> QED BY <1>4, <1>9, <1>10, <2>1 DEF Sound
<1> QED BY <1>3, <1>11

(* Whatever is asked for, Allocate hands out no byte twice.                *)
LEMMA AllocateSound ==
    ASSUME NEW a, Sound(a), NEW n \in Nat
    PROVE  Sound(Memory!Allocate(a, n))
<1>1. /\ a.block \in Nat /\ a.offset \in Nat /\ Total \in Nat /\ Alignment \in Nat
      /\ Memory!Padding(a) \in Nat /\ Memory!Padding(a) <= Alignment
  <2>1. a.block \in Nat /\ a.offset \in Nat /\ Total \in Nat /\ Alignment \in Nat
    BY MarketDataAssumption DEF Sound, Memory!ArenaAssumption
  <2>2. Memory!Padding(a) \in 0..Alignment
    BY <2>1, PaddingBounded
  <2> QED BY <2>1, <2>2
<1>2. PICK p \in Nat : p = Memory!Padding(a)
  BY <1>1
<1>3. CASE Memory!Fits(a, n)
  <2>1. a.offset + p \in Nat /\ a.offset + p >= a.offset /\ a.offset + p + n <= Total
    BY <1>1, <1>2, <1>3 DEF Memory!Fits
  <2>2. Sound(Memory!Take(a.block, a.offset + p, n, a.taken))
    BY <1>1, <2>1, TakeSound
  <2> QED BY <1>2, <1>3, <2>2 DEF Memory!Allocate
<1>4. CASE ~Memory!Fits(a, n)
  <2>1. a.block + 1 \in Nat /\ p <= Alignment
    BY <1>1, <1>2
  <2>2. Sound(Memory!Take(a.block + 1, p, n, a.taken))
    BY <1>1, <2>1, TakeSound
  <2> QED BY <1>2, <1>4, <2>2 DEF Memory!Allocate
<1> QED BY <1>3, <1>4

(* Two allocations never overlap, whatever sizes are asked for.            *)
THEOREM AllocationsApart == Memory!Spec => []Memory!Apart
<1>1. Memory!Init => Sound(arena)
  BY FreshSound DEF Memory!Init
<1>2. Sound(arena) /\ [Memory!Next]_arena => Sound(arena)'
  BY AllocateSound DEF Memory!Next
<1> QED BY <1>1, <1>2, SoundIsApart, PTL DEF Memory!Spec

(* An allocation leaves its block by at most one byte.                     *)
THEOREM AllocationsInside == Memory!Spec => []Memory!Inside
<1>1. Memory!Init => Sound(arena)
  BY FreshSound DEF Memory!Init
<1>2. Sound(arena) /\ [Memory!Next]_arena => Sound(arena)'
  BY AllocateSound DEF Memory!Next
<1> QED BY <1>1, <1>2, SoundIsApart, PTL DEF Memory!Spec

-----------------------------------------------------------------------------
(* The ring.                                                               *)

(* n items of a ring, from place f on.                                     *)
From(cells, f, n) == [k \in 1..n |-> cells[(f + k - 1) % RingCapacity]]

(* An item is placed after the n that are there.                           *)
Placed(cells, f, n, x, new) ==
    /\ cells \in [0..RingCapacity - 1 -> Items] /\ f \in 0..RingCapacity - 1
    /\ n \in Nat /\ n < RingCapacity /\ x \in Items
    /\ new = [cells EXCEPT ![(f + n) % RingCapacity] = x]

(* It is the last one then.                                                *)
LEMMA RingAppend ==
    ASSUME NEW cells, NEW f, NEW n, NEW x, NEW new, Placed(cells, f, n, x, new)
    PROVE  /\ From(cells, f, n) \in Seq(Items)
           /\ From(new, f, n + 1) = From(cells, f, n) \o <<x>>
<1> DEFINE R == RingCapacity
           s == From(cells, f, n)
<1>0. /\ cells \in [0..R - 1 -> Items] /\ f \in 0..R - 1 /\ n \in Nat /\ n < R /\ x \in Items
      /\ new = [cells EXCEPT ![(f + n) % R] = x]
  BY DEF Placed
<1>1. R \in Nat \ {0} /\ f \in Nat /\ n \in Nat /\ f + n \in Nat
  BY <1>0, MarketDataAssumption
<1>2. \A a \in Nat : a % R \in 0..R - 1
  BY <1>1
<1>3. s \in [1..n -> Items]
  <2>1. ASSUME NEW k \in 1..n PROVE cells[(f + k - 1) % R] \in Items
    <3>1. PICK a \in Nat : a = f + k - 1
      BY <1>1
    <3> QED BY <1>0, <1>2, <3>1
  <2> QED BY <2>1 DEF From
<1>4. s \in Seq(Items) /\ Len(s) = n
  BY <1>1, <1>3
<1>5. ASSUME NEW k \in 1..n PROVE new[(f + k - 1) % R] = s[k]
  <2>1. PICK a \in Nat : a = f + k - 1
    BY <1>1
  <2>2. PICK b \in Nat : b = f + n
    BY <1>1
  <2>3. a < b /\ b < a + R
    BY <1>0, <1>1, <2>1, <2>2
  <2>4. a % R # b % R
    BY <1>1, <2>3, ModApart
  <2>5. a % R \in 0..R - 1
    BY <1>2
  <2>6. new[a % R] = cells[a % R]
    BY <1>0, <2>2, <2>4, <2>5
  <2> QED BY <2>1, <2>6 DEF From
<1>6. new[(f + (n + 1) - 1) % R] = x
  <2>1. PICK b \in Nat : b = f + n
    BY <1>1
  <2>2. f + (n + 1) - 1 = b
    BY <1>1, <2>1
  <2>3. b % R \in 0..R - 1
    BY <1>2
  <2>4. new[b % R] = x
    BY <1>0, <2>1, <2>3
  <2> QED BY <2>2, <2>4
<1>7. s \o <<x>> = [k \in 1..n + 1 |-> IF k <= n THEN s[k] ELSE x]
  BY <1>1, <1>4
<1>8. From(new, f, n + 1) = [k \in 1..n + 1 |-> IF k <= n THEN s[k] ELSE x]
  <2> HIDE DEF s
  <2>1. ASSUME NEW k \in 1..n + 1
        PROVE  new[(f + k - 1) % R] = IF k <= n THEN s[k] ELSE x
    <3>1. CASE k <= n
      BY <1>1, <1>5, <3>1
    <3>2. CASE k = n + 1
      <4>1. ~(k <= n) /\ f + k - 1 = f + (n + 1) - 1
        BY <1>1, <3>2
      <4> QED BY <1>6, <4>1
    <3>3. k <= n \/ k = n + 1
      BY <1>1
    <3> QED BY <3>1, <3>2, <3>3
  <2> QED BY <2>1 DEF From
<1> QED BY <1>4, <1>7, <1>8

(* A ring of some items, of which the second one lies at g.                *)
Filled(cells, f, n, g) ==
    /\ cells \in [0..RingCapacity - 1 -> Items] /\ f \in 0..RingCapacity - 1
    /\ n \in 1..RingCapacity /\ g = (f + 1) % RingCapacity

(* The item at the front, and the rest.                                    *)
LEMMA RingHead ==
    ASSUME NEW cells, NEW f, NEW n, NEW g, Filled(cells, f, n, g)
    PROVE  /\ g \in 0..RingCapacity - 1 /\ cells[f] \in Items
           /\ From(cells, g, n - 1) \in Seq(Items)
           /\ From(cells, f, n) = <<cells[f]>> \o From(cells, g, n - 1)
<1> DEFINE R == RingCapacity
<1>0. cells \in [0..R - 1 -> Items] /\ f \in 0..R - 1 /\ n \in 1..R /\ g = (f + 1) % R
  BY DEF Filled
<1>1. R \in Nat \ {0} /\ f \in Nat /\ n \in Nat
  BY <1>0, MarketDataAssumption
<1>2. \A a \in Nat : a % R \in 0..R - 1
  BY <1>1
<1>3. g \in 0..R - 1 /\ g = (f + 1) % R
  <2>1. PICK a \in Nat : a = f + 1
    BY <1>1
  <2> QED BY <1>0, <1>2, <2>1
<1> DEFINE s == From(cells, g, n - 1)
<1>4. s \in Seq(Items) /\ Len(s) = n - 1
  <2>1. ASSUME NEW k \in 1..n - 1 PROVE cells[(g + k - 1) % R] \in Items
    <3>1. PICK a \in Nat : a = g + k - 1
      BY <1>1, <1>3
    <3> QED BY <1>0, <1>2, <3>1
  <2>2. s \in [1..n - 1 -> Items]
    BY <2>1 DEF From
  <2>3. n - 1 \in Nat
    BY <1>0, <1>1
  <2> QED BY <2>2, <2>3
<1>5. ASSUME NEW k \in 1..n - 1 PROVE cells[(f + (k + 1) - 1) % R] = s[k]
  <2>1. PICK j \in Nat : j = k - 1
    BY <1>1
  <2>2. PICK a \in Nat : a = f + 1
    BY <1>1
  <2>3. ((a % R) + j) % R = (a + j) % R
    BY <1>1, ModPlus
  <2>4. g + k - 1 = g + j /\ f + (k + 1) - 1 = a + j
    BY <1>1, <1>3, <2>1, <2>2
  <2> QED BY <1>3, <2>2, <2>3, <2>4 DEF From
<1>6. cells[(f + 1 - 1) % R] = cells[f] /\ cells[f] \in Items
  <2>1. f + 1 - 1 = f /\ f % R = f
    BY <1>0, <1>1
  <2> QED BY <1>0, <2>1
<1>7. <<cells[f]>> \o s = [k \in 1..n |-> IF k = 1 THEN cells[f] ELSE s[k - 1]]
  <2> HIDE DEF s
  <2>1. n \in Nat /\ 1 + (n - 1) = n
    BY <1>1
  <2> QED BY <1>4, <1>6, <2>1
<1>8. From(cells, f, n) = [k \in 1..n |-> IF k = 1 THEN cells[f] ELSE s[k - 1]]
  <2> HIDE DEF s
  <2>1. ASSUME NEW k \in 1..n
        PROVE  cells[(f + k - 1) % R] = IF k = 1 THEN cells[f] ELSE s[k - 1]
    <3>1. CASE k = 1
      BY <1>6, <3>1
    <3>2. CASE k # 1
      <4>1. k - 1 \in 1..n - 1 /\ (k - 1) + 1 = k
        BY <1>1, <3>2
      <4>2. cells[(f + ((k - 1) + 1) - 1) % R] = s[k - 1]
        BY <1>5, <4>1
      <4> QED BY <3>2, <4>1, <4>2
    <3> QED BY <3>1, <3>2
  <2> QED BY <2>1 DEF From
<1> QED BY <1>3, <1>4, <1>6, <1>7, <1>8

(* A full ring gives up the item at the front for the new one.             *)
LEMMA RingTurn ==
    ASSUME NEW cells \in [0..RingCapacity - 1 -> Items], NEW f \in 0..RingCapacity - 1, NEW x \in Items
    PROVE  /\ (f + RingCapacity) % RingCapacity = f
           /\ From([cells EXCEPT ![f] = x], (f + 1) % RingCapacity, RingCapacity)
                = From(cells, (f + 1) % RingCapacity, RingCapacity - 1) \o <<x>>
           /\ (((f + 1) % RingCapacity) + RingCapacity) % RingCapacity = (f + 1) % RingCapacity
<1> DEFINE R == RingCapacity
<1>1. R \in Nat \ {0}
  BY MarketDataAssumption
<1>2. \A g \in 0..R - 1 : (g + R) % R = g
  BY <1>1
<1>3. PICK g \in 0..R - 1 : g = (f + 1) % R
  BY <1>1
<1>4. (g + (R - 1)) % R = f
  <2>1. PICK a \in Nat : a = f + 1
    BY <1>1
  <2>2. PICK j \in Nat : j = R - 1
    BY <1>1
  <2>3. ((a % R) + j) % R = (a + j) % R
    BY <1>1, ModPlus
  <2>4. a + j = f + R
    BY <1>1, <2>1, <2>2
  <2>5. (f + R) % R = f
    BY <1>2
  <2> QED BY <1>3, <2>1, <2>2, <2>3, <2>4, <2>5
<1>5. R - 1 \in Nat /\ R - 1 < R /\ (R - 1) + 1 = R
  BY <1>1
<1>6. From([cells EXCEPT ![f] = x], g, (R - 1) + 1) = From(cells, g, R - 1) \o <<x>>
  <2>1. Placed(cells, g, R - 1, x, [cells EXCEPT ![f] = x])
    BY <1>4, <1>5 DEF Placed
  <2>2. PICK d : d = [cells EXCEPT ![f] = x]
    OBVIOUS
  <2>3. PICK n : n = R - 1
    OBVIOUS
  <2>4. Placed(cells, g, n, x, d)
    BY <2>1, <2>2, <2>3
  <2>5. From(d, g, n + 1) = From(cells, g, n) \o <<x>>
    BY <2>4, RingAppend
  <2> QED BY <2>2, <2>3, <2>5
<1>7. From([cells EXCEPT ![f] = x], g, R) = From(cells, g, R - 1) \o <<x>>
  BY <1>4, <1>5, <1>6
<1> QED BY <1>2, <1>3, <1>7

-----------------------------------------------------------------------------
(* What is on its way, in sequences.                                       *)

(* Every item of two sequences after one another is of one of them.        *)
LEMMA ItemAt ==
    ASSUME NEW s \in Seq(Items), NEW t \in Seq(Items)
    PROVE  /\ s \o t \in Seq(Items) /\ DOMAIN (s \o t) = 1..Len(s) + Len(t)
           /\ Len(s) \in Nat /\ Len(t) \in Nat /\ DOMAIN s = 1..Len(s) /\ DOMAIN t = 1..Len(t)
           /\ \A j \in 1..Len(s) : (s \o t)[j] = s[j]
           /\ \A j \in 1..Len(t) : (s \o t)[Len(s) + j] = t[j]
           /\ \A j \in Len(s) + 1..Len(s) + Len(t) : (s \o t)[j] = t[j - Len(s)]
OBVIOUS

(* A message among some items is that of one of them.                      *)
LEMMA SentOf ==
    ASSUME NEW u \in Seq(Items), NEW n
    PROVE  n \in Sent(u) <=> \E j \in 1..Len(u) : u[j].of = n /\ n # 0
<1>1. DOMAIN u = 1..Len(u)
  OBVIOUS
<1> QED BY <1>1 DEF Sent, Messages, Range

(* The messages of two sequences after one another.                        *)
LEMMA SentConcat ==
    ASSUME NEW s \in Seq(Items), NEW t \in Seq(Items)
    PROVE  Sent(s \o t) = Sent(s) \union Sent(t)
<1>1. PICK u : u = s \o t
  OBVIOUS
<1>2. PICK a : a = Len(s)
  OBVIOUS
<1>3. PICK b : b = Len(t)
  OBVIOUS
<1>4. u \in Seq(Items) /\ Len(u) = a + b /\ a \in Nat /\ b \in Nat
  BY <1>1, <1>2, <1>3
<1>5. \A j \in 1..a : u[j] = s[j]
  BY <1>1, <1>2, ItemAt
<1>6. \A j \in 1..b : u[a + j] = t[j]
  BY <1>1, <1>2, <1>3, ItemAt
<1>7. ASSUME NEW n PROVE n \in Sent(u) <=> \E j \in 1..a + b : u[j].of = n /\ n # 0
  BY <1>4, SentOf
<1>8. ASSUME NEW n PROVE n \in Sent(s) <=> \E j \in 1..a : s[j].of = n /\ n # 0
  BY <1>2, SentOf
<1>9. ASSUME NEW n PROVE n \in Sent(t) <=> \E j \in 1..b : t[j].of = n /\ n # 0
  BY <1>3, SentOf
<1>10. ASSUME NEW n, n \in Sent(u) PROVE n \in Sent(s) \/ n \in Sent(t)
  <2>1. PICK j \in 1..a + b : u[j].of = n /\ n # 0
    BY <1>7, <1>10
  <2>2. CASE j <= a
    <3>1. j \in 1..a
      BY <1>4, <2>2
    <3> QED BY <1>5, <1>8, <2>1, <3>1
  <2>3. CASE j > a
    <3>1. PICK k : k = j - a
      OBVIOUS
    <3>2. k \in 1..b /\ j = a + k
      BY <1>4, <2>3, <3>1
    <3> QED BY <1>6, <1>9, <2>1, <3>2
  <2> QED BY <1>4, <2>2, <2>3
<1>11. ASSUME NEW n, n \in Sent(s) PROVE n \in Sent(u)
  <2>1. PICK j \in 1..a : s[j].of = n /\ n # 0
    BY <1>8, <1>11
  <2>2. j \in 1..a + b
    BY <1>4
  <2> QED BY <1>5, <1>7, <2>1, <2>2
<1>12. ASSUME NEW n, n \in Sent(t) PROVE n \in Sent(u)
  <2>1. PICK j \in 1..b : t[j].of = n /\ n # 0
    BY <1>9, <1>12
  <2>2. a + j \in 1..a + b
    BY <1>4
  <2> QED BY <1>6, <1>7, <2>1, <2>2
<1> QED BY <1>1, <1>10, <1>11, <1>12

(* Two sequences after one another are in order if each is, and the        *)
(* messages of the one come before those of the other.                     *)
LEMMA OrderConcat ==
    ASSUME NEW s \in Seq(Items), NEW t \in Seq(Items)
    PROVE  InOrder(s \o t) <=>
             InOrder(s) /\ InOrder(t) /\ \A m \in Sent(s), n \in Sent(t) : m < n
<1>2. ASSUME InOrder(s \o t) PROVE InOrder(s)
  <2>1. \A j \in DOMAIN s : j \in DOMAIN (s \o t) /\ (s \o t)[j] = s[j]
    BY ItemAt
  <2> QED BY <1>2, <2>1 DEF InOrder
<1>3. ASSUME InOrder(s \o t) PROVE InOrder(t)
  <2> SUFFICES ASSUME NEW j \in DOMAIN t, NEW k \in DOMAIN t, j < k, t[j].of # 0, t[k].of # 0
               PROVE  t[j].of < t[k].of
    BY DEF InOrder
  <2>1. /\ Len(s) + j \in DOMAIN (s \o t) /\ Len(s) + k \in DOMAIN (s \o t)
        /\ Len(s) + j < Len(s) + k
    BY ItemAt
  <2>2. (s \o t)[Len(s) + j] = t[j] /\ (s \o t)[Len(s) + k] = t[k]
    BY ItemAt
  <2> QED BY <1>3, <2>1, <2>2 DEF InOrder
<1>4. ASSUME InOrder(s \o t), NEW m \in Sent(s), NEW n \in Sent(t) PROVE m < n
  <2>1. PICK j \in 1..Len(s) : s[j].of = m /\ m # 0
    BY <1>4, SentOf
  <2>2. PICK k \in 1..Len(t) : t[k].of = n /\ n # 0
    BY <1>4, SentOf
  <2>3. j \in DOMAIN (s \o t) /\ Len(s) + k \in DOMAIN (s \o t) /\ j < Len(s) + k
    BY ItemAt
  <2>4. (s \o t)[j] = s[j] /\ (s \o t)[Len(s) + k] = t[k]
    BY ItemAt
  <2> QED BY <1>4, <2>1, <2>2, <2>3, <2>4 DEF InOrder
<1>5. ASSUME InOrder(s), InOrder(t), \A m \in Sent(s), n \in Sent(t) : m < n
      PROVE  InOrder(s \o t)
  <2> SUFFICES ASSUME NEW j \in DOMAIN (s \o t), NEW k \in DOMAIN (s \o t), j < k,
                      (s \o t)[j].of # 0, (s \o t)[k].of # 0
               PROVE  (s \o t)[j].of < (s \o t)[k].of
    BY DEF InOrder
  <2>1. j \in 1..Len(s) + Len(t) /\ k \in 1..Len(s) + Len(t) /\ Len(s) \in Nat /\ Len(t) \in Nat
    BY ItemAt
  <2>2. CASE k <= Len(s)
    <3>1. j \in DOMAIN s /\ k \in DOMAIN s
      BY <2>1, <2>2, ItemAt
    <3> QED BY <1>5, <2>1, <2>2, <3>1, ItemAt DEF InOrder
  <2>3. CASE j <= Len(s) /\ k > Len(s)
    <3>1. j \in 1..Len(s) /\ k \in Len(s) + 1..Len(s) + Len(t) /\ k - Len(s) \in 1..Len(t)
      BY <2>1, <2>3
    <3>2. (s \o t)[j] = s[j] /\ (s \o t)[k] = t[k - Len(s)]
      BY <3>1, ItemAt
    <3>3. s[j].of \in Sent(s) /\ t[k - Len(s)].of \in Sent(t)
      BY <3>1, <3>2, SentOf
    <3> QED BY <1>5, <3>2, <3>3
  <2>4. CASE j > Len(s)
    <3>1. /\ j \in Len(s) + 1..Len(s) + Len(t) /\ j - Len(s) \in 1..Len(t)
          /\ k \in Len(s) + 1..Len(s) + Len(t) /\ k - Len(s) \in 1..Len(t)
          /\ j - Len(s) < k - Len(s)
      BY <2>1, <2>4
    <3>2. (s \o t)[j] = t[j - Len(s)] /\ (s \o t)[k] = t[k - Len(s)]
      BY <3>1, ItemAt
    <3>3. j - Len(s) \in DOMAIN t /\ k - Len(s) \in DOMAIN t
      BY <3>1, ItemAt
    <3> QED BY <1>5, <3>1, <3>2, <3>3 DEF InOrder
  <2> QED BY <2>1, <2>2, <2>3, <2>4
<1> QED BY <1>2, <1>3, <1>4, <1>5

(* One item.                                                               *)
LEMMA OneItem ==
    ASSUME NEW x \in Items
    PROVE  /\ <<x>> \in Seq(Items) /\ Sent(<<x>>) = Messages({x}) /\ InOrder(<<x>>)
           /\ Messages({x}) = {x.of} \ {0}
<1>1. DOMAIN <<x>> = {1} /\ <<x>>[1] = x
  OBVIOUS
<1>2. Range(<<x>>) = {x}
  BY <1>1 DEF Range
<1>3. InOrder(<<x>>)
  BY <1>1 DEF InOrder
<1> QED BY <1>2, <1>3 DEF Sent, Messages

(* No item.                                                                *)
LEMMA NoItem == << >> \in Seq(Items) /\ Sent(<< >>) = {} /\ InOrder(<< >>)
<1>1. DOMAIN << >> = {}
  OBVIOUS
<1> QED BY <1>1 DEF Sent, Messages, Range, InOrder

(* A timer's broadcast, or a message after all the others.                 *)
LEMMA AddOne ==
    ASSUME NEW s \in Seq(Items), NEW x \in Items, InOrder(s), x.of # 0 => \A m \in Sent(s) : m < x.of
    PROVE  InOrder(s \o <<x>>) /\ Sent(s \o <<x>>) = Sent(s) \union Messages({x})
<1>1. PICK one \in Seq(Items) : one = <<x>>
  BY OneItem
<1>2. Sent(one) = {x.of} \ {0} /\ Messages({x}) = {x.of} \ {0} /\ InOrder(one)
  BY <1>1, OneItem
<1>3. InOrder(s \o one)
  BY <1>2, OrderConcat
<1>4. Sent(s \o one) = Sent(s) \union Sent(one)
  BY <1>1, SentConcat
<1> QED BY <1>1, <1>2, <1>3, <1>4

-----------------------------------------------------------------------------
(* The reading thread.                                                     *)

(* Messages that were cut off the stream.                                  *)
Done == IF reading = "treat" THEN pushed + 1 ELSE pushed

(* The buffer holds the stream from the end of the last message that was   *)
(* cut off; a recv comes when the next one is not complete.                *)
FeedInv ==
    /\ reading \in {"recv", "ensure", "treat", "pushing"}
    /\ received \in 0..Len(InStream) /\ pushed \in Nat /\ Done \in 0..Len(Stream)
    /\ Ends[Done] <= received /\ received <= Ends[Done] + Capacity
    /\ Holds(buffer, Ends[Done], received)
    /\ reading = "recv" => Done = Len(Stream) \/ received < Ends[Done + 1]
    /\ frame \in Seq(Cells)
    /\ reading = "treat" => frame = FrameOf(pushed + 1)
    /\ Sound(arena)

-----------------------------------------------------------------------------
(* The ring and what left it.                                              *)

(* Where the ring and the packets are; a size is stored over an item that  *)
(* was put there, and taken from a ring that has one.                      *)
RingInv ==
    /\ ring \in [0..RingCapacity - 1 -> Items]
    /\ first \in 0..RingCapacity - 1 /\ last \in 0..RingCapacity - 1 /\ size \in 0..RingCapacity
    /\ pushing \in [who : {"nobody", "feed", "timer"}, size : 0..RingCapacity]
    /\ pushing # Free => pushing.size # 0
    /\ pushing.who = "feed" <=> reading = "pushing"
    /\ broadcaster \in {"check", "block", "waiting", "pop", "popping"}
    /\ broadcaster = "pop" => size # 0
    /\ popping \in [item : Items, size : 0..RingCapacity]
    /\ broadcaster = "popping" => popping.size < RingCapacity
    /\ wire \in Seq(Items) /\ Len(wire) <= WireCapacity /\ shown \in Seq(Items)
    /\ gone \subseteq 1..Len(Stream) /\ raced \in BOOLEAN

(* Items of the ring that count, by the size that will be stored.          *)
Kept == IF pushing # Free THEN pushing.size
        ELSE IF broadcaster = "popping" THEN popping.size ELSE size

(* Everything on its way from push to the client's session.                *)
Path == LET inRing == From(ring, first, Kept)
        IN  (shown \o wire) \o
              (IF broadcaster = "popping" THEN <<popping.item>> \o inRing ELSE inRing)

(* In order and once, n messages but those that are gone.                  *)
Whole(path, n, lost) == InOrder(path) /\ Sent(path) = (1..n) \ lost /\ lost \subseteq 1..n

(* While the threads have kept apart, one of them at most is at the ring,  *)
(* its end is where its size says, and the path is whole.                  *)
OnceInv ==
    ~raced =>
        /\ ~(pushing # Free /\ broadcaster = "popping")
        /\ last = (first + Kept) % RingCapacity
        /\ Whole(Path, pushed, gone)

-----------------------------------------------------------------------------
(* Everything holds in the beginning.                                      *)
LEMMA InitFeed == Init => FeedInv
<1> SUFFICES ASSUME Init PROVE FeedInv
  OBVIOUS
<1>1. /\ received = 0 /\ buffer = EmptyBuffer /\ reading = "recv" /\ frame = <<>> /\ arena = Memory!Fresh
      /\ pushed = 0
  BY DEF Init, Memory!Init
<1>2. Done = 0 /\ Ends[0] = 0 /\ Len(InStream) \in Nat /\ Len(Stream) \in Nat /\ Capacity \in Nat \ {0}
  BY <1>1, EndsTyped, StreamTyped, LengthTyped, DecoderAssumption DEF Done
<1>3. Holds(buffer, 0, 0)
  <2>1. 0 % Capacity = 0
    BY <1>2
  <2> DEFINE e == [p \in 0..Capacity - 1 |-> Junk]
  <2>2. e \in [0..Capacity - 1 -> Cells]
    BY DEF Cells
  <2>3. buffer = [cells |-> e, first |-> 0, size |-> 0]
    BY <1>1 DEF EmptyBuffer
  <2> HIDE DEF e
  <2>4. buffer.cells = e
    BY <2>3
  <2> QED BY <2>1, <2>2, <2>3, <2>4 DEF Holds
<1>4. Done = Len(Stream) \/ received < Ends[Done + 1]
  <2>1. ASSUME Len(Stream) # 0 PROVE Ends[1] > 0
    <3>1. 1 \in 1..Len(Stream) /\ Ends[1] = Ends[1 - 1] + Length(1) /\ Length(1) \in Nat \ {0}
      BY <1>2, <2>1, EndsTyped, LengthTyped
    <3> QED BY <1>2, <3>1
  <2> QED BY <1>1, <1>2, <2>1
<1> QED BY <1>1, <1>2, <1>3, <1>4, FreshSound DEF FeedInv

(* What is received goes on in the buffer, and there is room for it.       *)
LEMMA ReceiveFeed ==
    ASSUME FeedInv, NEW n \in 1..Chunk, Receive(n) PROVE FeedInv'
<1>1. /\ reading = "recv" /\ reading' = "ensure" /\ received + n <= Len(InStream)
      /\ buffer' = PushAll(buffer, SubSeq(InStream, received + 1, received + n))
      /\ received' = received + n /\ frame' = frame /\ arena' = arena /\ pushed' = pushed
  BY DEF Receive
<1>2. PICK k \in 0..Len(Stream) : k = pushed /\ Done = k /\ Done' = k
  BY <1>1 DEF FeedInv, Done
<1>3. PICK c \in Nat : c = Ends[k]
  BY EndsTyped
<1>4. PICK r \in Nat : r = received
  BY StreamTyped DEF FeedInv
<1>5. Chunk \in Nat /\ n \in Nat /\ Capacity \in Nat /\ Len(Stream) \in Nat /\ Len(InStream) \in Nat
  BY MarketDataAssumption, DecoderAssumption, LengthTyped, StreamTyped
<1>6. c <= r /\ r + n <= c + Capacity
  <2>1. c <= r
    BY <1>2, <1>3, <1>4 DEF FeedInv
  <2>2. CASE k = Len(Stream)
    <3>1. Len(InStream) = c
      BY <1>3, <2>2, StreamTyped
    <3> QED BY <1>1, <1>4, <1>5, <2>1, <3>1
  <2>3. CASE k # Len(Stream)
    <3>1. k + 1 \in 1..Len(Stream) /\ (k + 1) - 1 = k
      BY <1>5, <2>3
    <3>2. /\ Ends[k + 1] = c + Length(k + 1) /\ Length(k + 1) \in Nat
          /\ Length(k + 1) - 1 + Chunk <= Capacity
      BY <1>3, <3>1, EndsTyped, LengthTyped
    <3>3. r < Ends[k + 1]
      BY <1>1, <1>2, <1>4, <2>3 DEF FeedInv
    <3> QED BY <1>5, <2>1, <3>2, <3>3
  <2> QED BY <2>2, <2>3
<1>7. Holds(buffer, c, r)
  BY <1>2, <1>3, <1>4 DEF FeedInv
<1>8. Holds(buffer', c, r + n)
  BY <1>1, <1>4, <1>5, <1>6, <1>7, PushAllHolds
<1>9. received' \in 0..Len(InStream) /\ c <= received' /\ received' <= c + Capacity
  BY <1>1, <1>4, <1>5, <1>6
<1> QED BY <1>1, <1>2, <1>3, <1>4, <1>8, <1>9 DEF FeedInv

(* What memcpy copied is a sequence of cells.                              *)
LEMMA FrameTyped ==
    ASSUME NEW i \in 1..Len(Stream) PROVE FrameOf(i) \in Seq(Cells) /\ Len(FrameOf(i)) = Length(i)
<1>1. \A n \in 1..Length(i) : <<i, n>> \in Cells
  <2> SUFFICES ASSUME NEW n \in 1..Length(i) PROVE <<i, n>> \in Cells
    OBVIOUS
  <2>1. Ends[i - 1] + n \in 1..Ends[Len(Stream)] /\ InStream[Ends[i - 1] + n] = <<i, n>>
    BY UnitAt
  <2> QED BY <2>1, StreamTyped DEF Cells
<1>2. Junk \in Cells
  BY DEF Cells
<1>3. Length(i) \in Nat
  BY LengthTyped
<1>4. FrameOf(i) = [n \in 1..Length(i) |->
                      IF (Ends[i - 1] % Capacity) + n <= Capacity THEN <<i, n>> ELSE Junk]
  BY DEF FrameOf
<1>5. ASSUME NEW n \in 1..Length(i)
      PROVE  (IF (Ends[i - 1] % Capacity) + n <= Capacity THEN <<i, n>> ELSE Junk) \in Cells
  BY <1>1, <1>2
<1>6. FrameOf(i) \in [1..Length(i) -> Cells]
  BY <1>4, <1>5
<1> QED BY <1>3, <1>6

(* The next message is cut off, or what there is of it waits.              *)
LEMMA EnsureFeed ==
    ASSUME FeedInv, Ensure PROVE FeedInv'
<1>1. reading = "ensure" /\ received' = received /\ pushed' = pushed
  BY DEF Ensure
<1>2. PICK k \in 0..Len(Stream) : k = pushed /\ Done = k
  BY <1>1 DEF FeedInv, Done
<1>3. PICK r \in Nat : r = received /\ r <= Len(InStream)
  BY StreamTyped DEF FeedInv
<1>4. Ends[k] <= r /\ r <= Ends[k] + Capacity /\ Holds(buffer, Ends[k], r) /\ Ends[k] \in Nat
  BY <1>2, <1>3, EndsTyped DEF FeedInv
<1>5. k \in Nat /\ Len(Stream) \in Nat /\ Len(InStream) \in Nat /\ Capacity \in Nat
  BY LengthTyped, StreamTyped, DecoderAssumption
<1>6. PICK b : b = buffer
  OBVIOUS
<1>7. /\ Skip(b) = b
      /\ HasFrame(b) <=> k < Len(Stream) /\ Ends[k + 1] <= r
      /\ HasFrame(b) => Frame(b) = FrameOf(k + 1) /\ Holds(AfterFrame(b), Ends[k + 1], r)
  BY <1>3, <1>4, <1>6, EnsureCuts, NothingUnknown
<1>8. CASE HasFrame(b)
  <2>1. /\ reading' = "treat" /\ frame' = FrameOf(k + 1) /\ Holds(buffer', Ends[k + 1], r)
        /\ arena' = Memory!Allocate(Memory!Allocate(arena, Header), Len(frame'))
    BY <1>6, <1>7, <1>8 DEF Ensure
  <2>2. k + 1 \in 1..Len(Stream) /\ k + 1 \in 0..Len(Stream) /\ Done' = k + 1 /\ (k + 1) - 1 = k
    BY <1>1, <1>2, <1>5, <1>7, <1>8, <2>1 DEF Done
  <2>3. Ends[k + 1] <= r /\ r <= Ends[k + 1] + Capacity
    <3>1. Ends[k + 1] = Ends[k] + Length(k + 1) /\ Length(k + 1) \in Nat
      BY <2>2, EndsTyped, LengthTyped
    <3> QED BY <1>3, <1>4, <1>5, <1>7, <1>8, <3>1
  <2>4. frame' \in Seq(Cells) /\ Len(frame') \in Nat
    BY <2>1, <2>2, FrameTyped
  <2>5. Sound(arena)'
    <3>1. PICK a : a = arena
      OBVIOUS
    <3>2. PICK m \in Nat : m = Len(frame')
      BY <2>4
    <3>3. Sound(Memory!Allocate(a, Header))
      BY <3>1, AllocateSound, MarketDataAssumption DEF FeedInv
    <3>4. Sound(Memory!Allocate(Memory!Allocate(a, Header), m))
      BY <3>3, AllocateSound
    <3> QED BY <2>1, <3>1, <3>2, <3>4
  <2> QED BY <1>1, <1>2, <1>3, <2>1, <2>2, <2>3, <2>4, <2>5 DEF FeedInv
<1>9. CASE ~HasFrame(b)
  <2>1. /\ reading' = "recv" /\ frame' = <<>> /\ buffer' = buffer /\ arena' = arena
    BY <1>6, <1>7, <1>9 DEF Ensure
  <2>2. Done' = k
    BY <1>1, <1>2, <2>1 DEF Done
  <2>3. k = Len(Stream) \/ r < Ends[k + 1]
    <3> SUFFICES ASSUME k # Len(Stream) PROVE r < Ends[k + 1]
      OBVIOUS
    <3>1. k < Len(Stream) /\ k + 1 \in 0..Len(Stream)
      BY <1>5
    <3> QED BY <1>3, <1>7, <1>9, <3>1, EndsTyped
  <2>4. frame' \in Seq(Cells)
    BY <2>1
  <2> QED BY <1>1, <1>2, <1>3, <1>4, <2>1, <2>2, <2>3, <2>4 DEF FeedInv
<1> QED BY <1>8, <1>9

(* A step that leaves the stream and its buffer alone, and counts a        *)
(* message from push on that was counted from the cut on before.           *)
LEMMA FeedKept ==
    ASSUME FeedInv, received' = received, buffer' = buffer, frame' = frame, arena' = arena,
           reading' \in {"recv", "ensure", "treat", "pushing"}, pushed' \in Nat, Done' = Done,
           reading' = "recv" => reading = "recv",
           reading' = "treat" => reading = "treat" /\ pushed' = pushed
    PROVE  FeedInv'
BY DEF FeedInv

(* The reading thread keeps the stream in its buffer.                      *)
LEMMA NextFeed == FeedInv /\ RingInv /\ [Next]_vars => FeedInv'
<1> SUFFICES ASSUME FeedInv, RingInv, [Next]_vars PROVE FeedInv'
  OBVIOUS
<1>1. pushed \in Nat /\ reading \in {"recv", "ensure", "treat", "pushing"}
  BY DEF FeedInv
<1>2. CASE \E n \in 1..Chunk : Receive(n)
  BY <1>2, ReceiveFeed
<1>3. CASE Ensure
  BY <1>3, EnsureFeed
<1>4. CASE PushMessage
  <2>1. /\ reading = "treat" /\ reading' = "pushing" /\ pushed' = pushed + 1
        /\ received' = received /\ buffer' = buffer /\ frame' = frame /\ arena' = arena
    BY <1>4 DEF PushMessage
  <2>2. Done' = Done
    BY <2>1 DEF Done
  <2> QED BY <1>1, <2>1, <2>2, FeedKept
<1>5. CASE PushEnd
  <2>1. /\ reading' = (IF pushing.who = "feed" THEN "ensure" ELSE reading) /\ pushed' = pushed
        /\ received' = received /\ buffer' = buffer /\ frame' = frame /\ arena' = arena
    BY <1>5 DEF PushEnd
  <2>2. Done' = Done
    BY <2>1 DEF Done, RingInv
  <2> QED BY <1>1, <2>1, <2>2, FeedKept
<1>6. CASE PushTimed \/ Broadcaster \/ TreatPacket \/ UNCHANGED vars
  <2>1. UNCHANGED <<received, buffer, reading, frame, arena, pushed>>
    BY <1>6 DEF PushTimed, Broadcaster, CheckRing, Block, PopFirst, PopEnd, TreatPacket, vars, feedVars
  <2>2. Done' = Done
    BY <2>1 DEF Done
  <2> QED BY <1>1, <2>1, <2>2, FeedKept
<1> QED BY <1>2, <1>3, <1>4, <1>5, <1>6 DEF Next, ReadThread

(* The frame treated is the next message of the stream, whole unless the   *)
(* array ends before it.                                                   *)
LEMMA FeedFrames == FeedInv => FramesAreMessages
<1> SUFFICES ASSUME FeedInv PROVE FramesAreMessages
  OBVIOUS
<1>1. ASSUME reading = "ensure" PROVE ~NeverReturns(buffer)
  <2>1. PICK k \in 0..Len(Stream) : k = Done
    BY DEF FeedInv
  <2>2. PICK r \in Nat : r = received
    BY StreamTyped DEF FeedInv
  <2>3. Ends[k] <= r /\ r <= Len(InStream) /\ Holds(buffer, Ends[k], r)
    BY <2>1, <2>2, StreamTyped DEF FeedInv
  <2> QED BY <2>1, <2>2, <2>3, NothingUnknown
<1>2. ASSUME reading = "treat"
      PROVE  LET i == pushed + 1
             IN  /\ frame[1] = <<i, 1>> /\ Len(frame) = Length(i)
                 /\ frame = Message(i) <=> ~Straddles(i)
  <2>1. PICK i \in 1..Len(Stream) : i = pushed + 1
    BY <1>2, LengthTyped DEF FeedInv, Done
  <2>2. frame = FrameOf(i) /\ Len(frame) = Length(i) /\ Length(i) \in Nat \ {0}
    BY <1>2, <2>1, FrameTyped, LengthTyped DEF FeedInv
  <2>3. PICK f \in 0..Capacity - 1 : f = Ends[i - 1] % Capacity
    <3>1. i - 1 \in 0..Len(Stream) /\ Capacity \in Nat \ {0}
      BY DecoderAssumption, LengthTyped
    <3>2. PICK c \in Nat : c = Ends[i - 1]
      BY <3>1, EndsTyped
    <3>3. c % Capacity \in 0..Capacity - 1
      BY <3>1
    <3> QED BY <3>2, <3>3
  <2>4. frame = [n \in 1..Length(i) |-> IF f + n <= Capacity THEN <<i, n>> ELSE Junk]
    BY <2>2, <2>3 DEF FrameOf
  <2>5. Message(i) = [n \in 1..Length(i) |-> <<i, n>>]
    BY DEF Message
  <2>6. frame[1] = <<i, 1>>
    <3>1. 1 \in 1..Length(i) /\ f + 1 <= Capacity
      BY <2>2, <2>3, DecoderAssumption
    <3> QED BY <2>4, <3>1
  <2>7. Straddles(i) <=> f + Length(i) > Capacity
    BY <2>3 DEF Straddles
  <2>8. ASSUME ~Straddles(i) PROVE frame = Message(i)
    <3>1. \A n \in 1..Length(i) : f + n <= Capacity
      BY <2>2, <2>3, <2>7, <2>8, DecoderAssumption
    <3> QED BY <2>4, <2>5, <3>1
  <2>9. ASSUME frame = Message(i) PROVE ~Straddles(i)
    <3>1. PICK n \in 1..Length(i) : n = Length(i)
      BY <2>2
    <3>2. Message(i)[n] = <<i, n>> /\ frame[n] = IF f + n <= Capacity THEN <<i, n>> ELSE Junk
      BY <2>4, <2>5, <3>1
    <3>3. <<i, n>> # Junk
      BY <2>1 DEF Junk
    <3>4. f + n <= Capacity
      BY <2>9, <3>2, <3>3
    <3> QED BY <2>2, <2>3, <2>7, <3>1, <3>4, DecoderAssumption
  <2> QED BY <2>1, <2>2, <2>6, <2>8, <2>9
<1> QED BY <1>1, <1>2 DEF FramesAreMessages

(* In the beginning nothing is on its way.                                 *)
LEMMA InitRing == Init => RingInv
<1> SUFFICES ASSUME Init PROVE RingInv
  OBVIOUS
<1>1. Nothing \in Items /\ RingCapacity \in Nat \ {0} /\ WireCapacity \in Nat
  BY MarketDataAssumption, LengthTyped DEF Nothing, Item, Items
<1>2. wire \in Seq(Items) /\ Len(wire) <= WireCapacity /\ shown \in Seq(Items)
  BY <1>1 DEF Init
<1>3. ring \in [0..RingCapacity - 1 -> Items]
  BY <1>1 DEF Init
<1>4. popping \in [item : Items, size : 0..RingCapacity]
  BY <1>1 DEF Init
<1>5. pushing = Free /\ Free \in [who : {"nobody", "feed", "timer"}, size : 0..RingCapacity] /\ Free.who = "nobody"
  BY <1>1 DEF Init, Free
<1> HIDE DEF Init
<1>6. /\ reading = "recv" /\ first = 0 /\ last = 0 /\ size = 0 /\ broadcaster = "check"
      /\ gone = {} /\ raced = FALSE
  BY DEF Init
<1>7. pushing \in [who : {"nobody", "feed", "timer"}, size : 0..RingCapacity] /\ pushing.who = "nobody"
  BY <1>5
<1>8. /\ first \in 0..RingCapacity - 1 /\ last \in 0..RingCapacity - 1 /\ size \in 0..RingCapacity
      /\ gone \subseteq 1..Len(Stream)
  BY <1>1, <1>6
<1>10. raced \in BOOLEAN
  BY <1>6
<1>9. /\ broadcaster \in {"check", "block", "waiting", "pop", "popping"}
      /\ broadcaster # "pop" /\ broadcaster # "popping" /\ reading # "pushing"
  BY <1>6
<1> QED BY <1>2, <1>3, <1>4, <1>5, <1>7, <1>8, <1>9, <1>10 DEF RingInv

(* The messages among items are places of the stream.                      *)
LEMMA MessagesTyped ==
    ASSUME NEW x \in Items PROVE Messages({x}) = {x.of} \ {0} /\ Messages({x}) \subseteq 1..Len(Stream)
<1>1. PICK n \in 0..Len(Stream) : n = x.of
  BY DEF Items
<1>2. {n} \ {0} \subseteq 1..Len(Stream)
  BY LengthTyped
<1> QED BY <1>1, <1>2, OneItem

(* push_back puts an item in the ring, whoever pushes.                     *)
LEMMA PlaceRing ==
    ASSUME RingInv, NEW who \in {"feed", "timer"}, NEW item \in Items, Place(who, item),
           reading' = IF who = "feed" THEN "pushing" ELSE reading, pushing = Free,
           broadcaster' = broadcaster, popping' = popping, wire' = wire, shown' = shown
    PROVE  RingInv'
<1>1. RingCapacity \in Nat \ {0} /\ \A a \in Nat : a % RingCapacity \in 0..RingCapacity - 1
  BY MarketDataAssumption
<1>2. /\ ring \in [0..RingCapacity - 1 -> Items] /\ last \in 0..RingCapacity - 1
      /\ first \in 0..RingCapacity - 1 /\ size \in 0..RingCapacity
      /\ gone \subseteq 1..Len(Stream) /\ raced \in BOOLEAN
  BY DEF RingInv
<1>3. ring' \in [0..RingCapacity - 1 -> Items] /\ ring[last] \in Items
  BY <1>2 DEF Place
<1>4. (last + 1) % RingCapacity \in 0..RingCapacity - 1
  <2>1. last + 1 \in Nat
    BY <1>1, <1>2
  <2> QED BY <1>1, <2>1
<1>5. last' \in 0..RingCapacity - 1 /\ first' \in 0..RingCapacity - 1 /\ size' = size
  BY <1>2, <1>4 DEF Place
<1>6. gone' \subseteq 1..Len(Stream)
  BY <1>2, <1>3, MessagesTyped DEF Place
<1>7. \E n \in 1..RingCapacity : pushing' = [who |-> who, size |-> n]
  <2>1. CASE size = RingCapacity
    BY <1>1, <2>1 DEF Place
  <2>2. CASE size # RingCapacity
    <3>1. size + 1 \in 1..RingCapacity
      BY <1>1, <1>2, <2>2
    <3> QED BY <2>2, <3>1 DEF Place
  <2> QED BY <2>1, <2>2
<1>8. /\ pushing' \in [who : {"nobody", "feed", "timer"}, size : 0..RingCapacity]
      /\ pushing'.size # 0 /\ pushing'.who = who
  BY <1>7
<1>9. raced' \in BOOLEAN
  BY DEF Place
<1>10. who = "feed" <=> reading' = "pushing"
  BY DEF RingInv, Free
<1> QED BY <1>3, <1>5, <1>6, <1>8, <1>9, <1>10 DEF RingInv

(* The message treated is an item for the ring.                            *)
LEMMA ItemTreated ==
    ASSUME FeedInv, reading = "treat"
    PROVE  /\ frame[1][1] = pushed + 1 /\ pushed + 1 \in 1..Len(Stream)
           /\ Item(pushed + 1, frame = Message(pushed + 1)) \in Items
<1>1. frame[1] = <<pushed + 1, 1>>
  BY FeedFrames DEF FramesAreMessages
<1>2. pushed + 1 \in 1..Len(Stream)
  BY LengthTyped DEF FeedInv, Done
<1>3. Item(pushed + 1, frame = Message(pushed + 1)) \in Items
  <2>1. PICK i \in 0..Len(Stream) : i = pushed + 1
    BY <1>2
  <2>2. PICK b \in BOOLEAN : b = (frame = Message(pushed + 1))
    OBVIOUS
  <2> QED BY <2>1, <2>2 DEF Item, Items
<1> QED BY <1>1, <1>2, <1>3

(* A timer's broadcast is an item for the ring, too.                       *)
LEMMA TimedItem == Timed \in Items /\ Timed.of = 0
BY LengthTyped DEF Timed, Item, Items

(* The ring, the threads at it and the packets stay well formed.           *)
LEMMA NextRing == FeedInv /\ RingInv /\ [Next]_vars => RingInv'
<1> SUFFICES ASSUME FeedInv, RingInv, [Next]_vars PROVE RingInv'
  OBVIOUS
<1>1. RingCapacity \in Nat \ {0} /\ \A a \in Nat : a % RingCapacity \in 0..RingCapacity - 1
  BY MarketDataAssumption
<1>2. CASE \E n \in 1..Chunk : Receive(n)
  <2>1. /\ reading # "pushing" /\ reading' # "pushing"
        /\ UNCHANGED <<ringVars, pushing, broadcaster, popping, wire, shown, gone, raced>>
    BY <1>2 DEF Receive
  <2> QED BY <2>1 DEF RingInv, ringVars
<1>3. CASE Ensure
  <2>1. /\ reading # "pushing" /\ reading' # "pushing"
        /\ UNCHANGED <<ringVars, pushing, broadcaster, popping, wire, shown, gone, raced>>
    BY <1>3 DEF Ensure
  <2> QED BY <2>1 DEF RingInv, ringVars
<1>4. CASE PushMessage
  <2>1. /\ reading = "treat" /\ pushing = Free /\ reading' = "pushing"
        /\ Place("feed", Item(frame[1][1], frame = Message(frame[1][1])))
        /\ broadcaster' = broadcaster /\ popping' = popping /\ wire' = wire /\ shown' = shown
    BY <1>4 DEF PushMessage, Locked
  <2>2. PICK item \in Items : item = Item(frame[1][1], frame = Message(frame[1][1]))
    BY <2>1, ItemTreated
  <2>3. Place("feed", item)
    BY <2>1, <2>2
  <2> QED BY <2>1, <2>3, PlaceRing
<1>5. CASE PushTimed
  <2>1. /\ pushing = Free /\ reading' = reading /\ Place("timer", Timed)
        /\ broadcaster' = broadcaster /\ popping' = popping /\ wire' = wire /\ shown' = shown
    BY <1>5 DEF PushTimed, Locked, feedVars
  <2> QED BY <2>1, PlaceRing, TimedItem
<1>6. CASE PushEnd
  <2>1. /\ pushing # Free /\ size' = pushing.size /\ pushing' = Free
        /\ broadcaster' = (IF broadcaster = "waiting" THEN "check" ELSE broadcaster)
        /\ reading' = (IF pushing.who = "feed" THEN "ensure" ELSE reading)
        /\ UNCHANGED <<ring, first, last, popping, wire, shown, gone, raced>>
    BY <1>6 DEF PushEnd
  <2>2. size' \in 0..RingCapacity /\ size' # 0
    BY <2>1 DEF RingInv
  <2>3. /\ pushing' \in [who : {"nobody", "feed", "timer"}, size : 0..RingCapacity]
        /\ pushing'.who = "nobody"
    BY <1>1, <2>1 DEF Free
  <2>4. reading' # "pushing"
    BY <2>1 DEF RingInv
  <2> QED BY <2>1, <2>2, <2>3, <2>4 DEF RingInv
<1>7. CASE CheckRing
  <2>1. /\ broadcaster' = (IF size = 0 THEN "block" ELSE "pop")
        /\ UNCHANGED <<reading, ring, first, last, size, pushing, popping, wire, shown, gone, raced>>
    BY <1>7 DEF CheckRing, feedVars, ringVars
  <2> QED BY <2>1 DEF RingInv
<1>8. CASE Block
  <2>1. /\ broadcaster' = "waiting"
        /\ UNCHANGED <<reading, ring, first, last, size, pushing, popping, wire, shown, gone, raced>>
    BY <1>8 DEF Block, feedVars, ringVars
  <2> QED BY <2>1 DEF RingInv
<1>9. CASE PopFirst
  <2>1. /\ broadcaster = "pop" /\ broadcaster' = "popping"
        /\ popping' = [item |-> ring[first], size |-> size - 1]
        /\ first' = (first + 1) % RingCapacity /\ raced' = (raced \/ pushing # Free)
        /\ UNCHANGED <<reading, ring, last, size, pushing, wire, shown, gone>>
    BY <1>9 DEF PopFirst, feedVars
  <2>2. first' \in 0..RingCapacity - 1
    <3>1. first + 1 \in Nat
      BY <1>1 DEF RingInv
    <3> QED BY <1>1, <2>1, <3>1
  <2>3. popping' \in [item : Items, size : 0..RingCapacity] /\ popping'.size < RingCapacity
    <3>1. size - 1 \in 0..RingCapacity /\ size - 1 < RingCapacity
      BY <1>1, <2>1 DEF RingInv
    <3>2. ring[first] \in Items
      BY DEF RingInv
    <3> QED BY <2>1, <3>1, <3>2
  <2>4. raced' \in BOOLEAN
    BY <2>1
  <2> QED BY <2>1, <2>2, <2>3, <2>4 DEF RingInv
<1>10. CASE PopEnd
  <2>1. /\ broadcaster = "popping" /\ size' = popping.size /\ broadcaster' = "check"
        /\ popping' = [item |-> Nothing, size |-> 0]
        /\ \/ Len(wire) < WireCapacity /\ wire' = Append(wire, popping.item) /\ gone' = gone
           \/ gone' = gone \union Messages({popping.item}) /\ wire' = wire
        /\ UNCHANGED <<reading, ring, first, last, pushing, shown, raced>>
    BY <1>10 DEF PopEnd, feedVars
  <2>2. popping.item \in Items /\ popping.size \in 0..RingCapacity
    BY DEF RingInv
  <2>3. wire' \in Seq(Items) /\ Len(wire') <= WireCapacity
    <3>1. wire \in Seq(Items) /\ Len(wire) <= WireCapacity /\ WireCapacity \in Nat
      BY MarketDataAssumption DEF RingInv
    <3> QED BY <2>1, <2>2, <3>1
  <2>4. gone' \subseteq 1..Len(Stream)
    BY <2>1, <2>2, MessagesTyped DEF RingInv
  <2>5. popping' \in [item : Items, size : 0..RingCapacity]
    BY <1>1, <2>1, LengthTyped DEF Nothing, Item, Items
  <2> QED BY <2>1, <2>2, <2>3, <2>4, <2>5 DEF RingInv
<1>11. CASE TreatPacket
  <2>1. /\ wire # <<>> /\ wire' = Tail(wire)
        /\ shown' = (IF Head(wire).of = 0 \/ raced THEN shown ELSE Append(shown, Head(wire)))
        /\ UNCHANGED <<reading, ring, first, last, size, pushing, broadcaster, popping, gone, raced>>
    BY <1>11 DEF TreatPacket, feedVars, ringVars
  <2>2. wire \in Seq(Items) /\ Len(wire) <= WireCapacity /\ shown \in Seq(Items) /\ WireCapacity \in Nat
    BY MarketDataAssumption DEF RingInv
  <2>3. wire' \in Seq(Items) /\ Len(wire') <= WireCapacity /\ shown' \in Seq(Items)
    <3>1. Head(wire) \in Items /\ Tail(wire) \in Seq(Items) /\ Len(Tail(wire)) <= WireCapacity
      BY <2>1, <2>2
    <3> QED BY <2>1, <2>2, <3>1
  <2> QED BY <2>1, <2>3 DEF RingInv
<1>12. CASE UNCHANGED vars
  BY <1>12 DEF vars, feedVars, ringVars, RingInv
<1> QED BY <1>2, <1>3, <1>4, <1>5, <1>6, <1>7, <1>8, <1>9, <1>10, <1>11, <1>12
        DEF Next, ReadThread, Broadcaster

-----------------------------------------------------------------------------
(* Steps of the path, whatever lies on it.                                 *)

(* Brackets may be moved.                                                  *)
LEMMA Brackets ==
    ASSUME NEW s \in Seq(Items), NEW t \in Seq(Items), NEW u \in Seq(Items)
    PROVE  /\ s \o (t \o u) = (s \o t) \o u
           /\ s \o t \in Seq(Items) /\ t \o u \in Seq(Items) /\ s \o (t \o u) \in Seq(Items)
OBVIOUS

(* An item at the end, and one at the front.                               *)
LEMMA EndAndFront ==
    ASSUME NEW s \in Seq(Items), NEW x \in Items
    PROVE  /\ Append(s, x) = s \o <<x>>
           /\ s # <<>> => Head(s) \in Items /\ Tail(s) \in Seq(Items) /\ s = <<Head(s)>> \o Tail(s)
OBVIOUS

(* A timer's broadcast, or the next message, is put on the path.           *)
LEMMA PathGrows ==
    ASSUME NEW s \in Seq(Items), NEW t \in Seq(Items), NEW x \in Items, NEW n \in Nat, NEW m \in Nat,
           NEW lost, Whole(s \o t, n, lost), (x.of = 0 /\ m = n) \/ (x.of = n + 1 /\ m = n + 1)
    PROVE  Whole(s \o (t \o <<x>>), m, lost)
<1>1. PICK p \in Seq(Items) : p = s \o t
  BY Brackets
<1>2. s \o (t \o <<x>>) = p \o <<x>>
  BY <1>1, OneItem, Brackets
<1>3. InOrder(p) /\ Sent(p) = (1..n) \ lost /\ lost \subseteq 1..n
  BY <1>1 DEF Whole
<1>4. x.of # 0 => \A k \in Sent(p) : k < x.of
  BY <1>3
<1>5. InOrder(p \o <<x>>) /\ Sent(p \o <<x>>) = Sent(p) \union Messages({x})
  BY <1>3, <1>4, AddOne
<1>6. Messages({x}) = {x.of} \ {0}
  BY OneItem
<1>7. Sent(p) \union Messages({x}) = (1..m) \ lost /\ lost \subseteq 1..m
  <2>1. CASE x.of = 0 /\ m = n
    BY <1>3, <1>6, <2>1
  <2>2. CASE x.of = n + 1 /\ m = n + 1
    <3>1. 1..m = (1..n) \union {n + 1} /\ n + 1 \notin 1..n /\ n + 1 # 0
      BY <2>2
    <3>2. n + 1 \notin lost
      BY <1>3, <3>1
    <3> QED BY <1>3, <1>6, <2>2, <3>1, <3>2
  <2> QED BY <2>1, <2>2
<1> QED BY <1>2, <1>5, <1>7 DEF Whole

(* p goes through x, between s and t.                                      *)
Through(p, s, x, t) ==
    /\ s \in Seq(Items) /\ t \in Seq(Items) /\ x \in Items
    /\ p = s \o (<<x>> \o t)

(* An item of the path is lost: in order, no other carries its message.    *)
LEMMA PathLoses ==
    ASSUME NEW p, NEW s, NEW x, NEW t, Through(p, s, x, t), NEW n, NEW lost, Whole(p, n, lost)
    PROVE  /\ Whole(s \o t, n, lost \union Messages({x}))
           /\ x.of = 0 => Whole(s \o t, n, lost)
<1>0. /\ s \in Seq(Items) /\ t \in Seq(Items) /\ x \in Items /\ p = s \o (<<x>> \o t)
      /\ InOrder(p)
  BY DEF Through, Whole
<1>1. PICK one \in Seq(Items) : one = <<x>>
  BY <1>0, OneItem
<1>2. PICK r \in Seq(Items) : r = one \o t
  <2>1. one \o t \in Seq(Items)
    BY <1>0, ItemAt
  <2> QED BY <2>1
<1>3. Sent(one) = {x.of} \ {0} /\ Messages({x}) = {x.of} \ {0}
  BY <1>0, <1>1, OneItem
<1>4. Sent(r) = Sent(one) \union Sent(t)
  BY <1>0, <1>1, <1>2, SentConcat
<1>5. Sent(s \o r) = Sent(s) \union Sent(r) /\ Sent(s \o t) = Sent(s) \union Sent(t)
  BY <1>0, <1>2, SentConcat
<1>6. InOrder(s) /\ InOrder(r) /\ \A m \in Sent(s), k \in Sent(r) : m < k
  BY <1>0, <1>1, <1>2, OrderConcat
<1>7. InOrder(t) /\ \A m \in Sent(one), k \in Sent(t) : m < k
  BY <1>0, <1>1, <1>2, <1>6, OrderConcat
<1>8. InOrder(s \o t)
  BY <1>0, <1>4, <1>6, <1>7, OrderConcat
<1>9. x.of \in Nat
  BY <1>0 DEF Items
<1>10. x.of # 0 => x.of \notin Sent(s) /\ x.of \notin Sent(t)
  <2>1. ~(x.of < x.of)
    BY <1>9
  <2> QED BY <1>3, <1>4, <1>6, <1>7, <2>1
<1>11. /\ Sent(s \o t) = Sent(p) \ Messages({x}) /\ Messages({x}) \subseteq Sent(p)
       /\ x.of = 0 => Sent(s \o t) = Sent(p)
  BY <1>0, <1>1, <1>2, <1>3, <1>4, <1>5, <1>10
<1>12. Sent(p) = (1..n) \ lost /\ lost \subseteq 1..n
  BY DEF Whole
<1>13. Sent(s \o t) = (1..n) \ (lost \union Messages({x})) /\ lost \union Messages({x}) \subseteq 1..n
  BY <1>11, <1>12
<1>14. x.of = 0 => Sent(s \o t) = (1..n) \ lost
  BY <1>11, <1>12
<1> QED BY <1>8, <1>12, <1>13, <1>14 DEF Whole

-----------------------------------------------------------------------------
(* The path.                                                               *)

(* It lies in sequences of items.                                          *)
LEMMA PathTyped ==
    ASSUME RingInv
    PROVE  /\ shown \in Seq(Items) /\ wire \in Seq(Items) /\ shown \o wire \in Seq(Items)
           /\ popping.item \in Items /\ Kept \in 0..RingCapacity /\ Kept \in Nat
           /\ RingCapacity \in Nat \ {0} /\ first \in 0..RingCapacity - 1
           /\ ring \in [0..RingCapacity - 1 -> Items]
           /\ From(ring, first, Kept) \in Seq(Items)
<1>1. RingCapacity \in Nat \ {0} /\ \A a \in Nat : a % RingCapacity \in 0..RingCapacity - 1
  BY MarketDataAssumption
<1>2. Kept \in 0..RingCapacity
  BY DEF RingInv, Kept
<1>3. shown \o wire \in Seq(Items)
  BY Brackets DEF RingInv
<1>4. From(ring, first, Kept) \in Seq(Items)
  <2>1. PICK n \in 0..RingCapacity : n = Kept
    BY <1>2
  <2>2. ASSUME NEW k \in 1..n PROVE ring[(first + k - 1) % RingCapacity] \in Items
    <3>1. PICK a \in Nat : a = first + k - 1
      BY <1>1 DEF RingInv
    <3>2. ring[a % RingCapacity] \in Items
      BY <1>1, <3>1 DEF RingInv
    <3> QED BY <3>1, <3>2
  <2>3. From(ring, first, n) \in [1..n -> Items] /\ n \in Nat
    BY <1>1, <2>2 DEF From
  <2> QED BY <2>1, <2>3
<1> QED BY <1>1, <1>2, <1>3, <1>4 DEF RingInv

(* A step that leaves the path alone.                                      *)
LEMMA PathKept ==
    ASSUME OnceInv, UNCHANGED <<ring, first, last, size, pushing, popping, wire, shown, pushed, gone, raced>>,
           broadcaster' = "popping" <=> broadcaster = "popping"
    PROVE  OnceInv'
<1>1. CASE broadcaster = "popping"
  BY <1>1 DEF OnceInv, Path, Kept
<1>2. CASE broadcaster # "popping"
  BY <1>2 DEF OnceInv, Path, Kept
<1> QED BY <1>1, <1>2

(* In the beginning the path is empty.                                     *)
LEMMA InitOnce == Init => OnceInv
<1> SUFFICES ASSUME Init PROVE OnceInv
  OBVIOUS
<1>1. /\ pushing = Free /\ broadcaster = "check" /\ first = 0 /\ last = 0 /\ size = 0
      /\ shown = <<>> /\ wire = <<>> /\ pushed = 0 /\ gone = {}
  BY DEF Init
<1>2. RingCapacity \in Nat \ {0}
  BY MarketDataAssumption
<1>3. Kept = 0 /\ (0 + 0) % RingCapacity = 0
  BY <1>1, <1>2 DEF Kept
<1>4. From(ring, first, 0) = <<>>
  BY DEF From
<1>5. Path = <<>>
  BY <1>1, <1>3, <1>4 DEF Path
<1>6. 1..0 = {}
  OBVIOUS
<1> QED BY <1>1, <1>3, <1>5, <1>6, NoItem DEF OnceInv, Whole

(* push_back puts its item at the end of the path; in a full ring the item *)
(* at the front is lost for it.                                            *)
LEMMA PlaceOnce ==
    ASSUME OnceInv, RingInv, pushing = Free, pushed \in Nat, pushed' \in Nat, NEW who \in {"feed", "timer"},
           NEW item \in Items, Place(who, item),
           (item.of = 0 /\ pushed' = pushed) \/ (item.of = pushed + 1 /\ pushed' = pushed + 1),
           UNCHANGED <<broadcaster, popping, wire, shown>>
    PROVE  OnceInv'
<1> SUFFICES ASSUME ~raced' PROVE OnceInv'
  BY DEF OnceInv
<1>1. ~raced /\ broadcaster # "popping" /\ broadcaster' # "popping"
  BY DEF Place
<1>2. PICK s \in Seq(Items) : s = shown \o wire
  BY PathTyped
<1>3. PICK R \in Nat \ {0} : R = RingCapacity
  BY PathTyped
<1>4. PICK f \in 0..R - 1 : f = first
  BY <1>3, PathTyped
<1>5. PICK n \in 0..R : n = size /\ Kept = n
  BY <1>1, <1>3 DEF RingInv, Kept
<1>6. last = (f + n) % R /\ Whole(s \o From(ring, f, n), pushed, gone)
  BY <1>1, <1>2, <1>3, <1>4, <1>5 DEF OnceInv, Path
<1>7. ring \in [0..R - 1 -> Items]
  BY <1>3, PathTyped
<1>8. /\ ring' = [ring EXCEPT ![last] = item] /\ last' = (last + 1) % R
      /\ pushing' # Free /\ Path' = s \o From(ring', first', Kept') /\ Kept' = pushing'.size
  <2>1. pushing' # Free
    BY DEF Place, Free
  <2> QED BY <1>1, <1>2, <1>3, <2>1 DEF Place, Path, Kept
<1>9. CASE n = R
  <2>1. PICK g \in 0..R - 1 : g = (f + 1) % R
    BY <1>3, <1>4
  <2>2. /\ (f + R) % R = f /\ (g + R) % R = g
        /\ From([ring EXCEPT ![f] = item], g, R) = From(ring, g, R - 1) \o <<item>>
    BY <1>3, <1>4, <1>7, <2>1, RingTurn
  <2>3. PICK t \in Seq(Items) : t = From(ring, g, R - 1) /\ From(ring, f, R) = <<ring[f]>> \o t
    <3>1. Filled(ring, f, R, g)
      BY <1>3, <1>4, <1>7, <2>1 DEF Filled
    <3>2. /\ From(ring, g, R - 1) \in Seq(Items)
          /\ From(ring, f, R) = <<ring[f]>> \o From(ring, g, R - 1)
      BY <3>1, RingHead
    <3> QED BY <3>2
  <2>4. PICK h \in Items : h = ring[f]
    BY <1>4, <1>7
  <2>5. last = f /\ first' = g /\ last' = g /\ gone' = gone \union Messages({h}) /\ Kept' = R
    <3>1. last = f
      BY <1>6, <1>9, <2>2
    <3>2. size = RingCapacity
      BY <1>3, <1>5, <1>9
    <3>3. /\ first' = (last + 1) % RingCapacity /\ gone' = gone \union Messages({ring[last]})
          /\ pushing' = [who |-> who, size |-> size]
      BY <3>2 DEF Place
    <3>4. pushing'.size = size
      BY <3>3
    <3> QED BY <1>3, <1>5, <1>8, <1>9, <2>1, <2>4, <3>1, <3>3, <3>4
  <2>6. Whole(s \o (<<h>> \o t), pushed, gone)
    BY <1>6, <1>9, <2>3, <2>4
  <2>7. PICK lost : lost = gone \union Messages({h})
    OBVIOUS
  <2>8. Whole(s \o t, pushed, lost)
    <3>1. PICK p : p = s \o (<<h>> \o t)
      OBVIOUS
    <3>2. Through(p, s, h, t) /\ Whole(p, pushed, gone)
      BY <2>6, <3>1 DEF Through
    <3> QED BY <2>7, <3>2, PathLoses
  <2>9. PICK m \in Nat : m = pushed'
    OBVIOUS
  <2>10. Whole(s \o (t \o <<item>>), m, lost)
    BY <2>8, <2>9, PathGrows
  <2>11. Path' = s \o (t \o <<item>>)
    BY <1>8, <2>2, <2>3, <2>5
  <2>12. Whole(Path', pushed', gone')
    BY <2>5, <2>7, <2>9, <2>10, <2>11
  <2> QED BY <1>1, <1>3, <2>2, <2>5, <2>12 DEF OnceInv
<1>10. CASE n # R
  <2>1. n < R /\ n \in Nat /\ n + 1 \in Nat
    BY <1>10
  <2>2. Placed(ring, f, n, item, ring')
    BY <1>3, <1>4, <1>6, <1>7, <1>8, <2>1 DEF Placed
  <2>3. PICK t \in Seq(Items) : t = From(ring, f, n) /\ From(ring', f, n + 1) = t \o <<item>>
    <3>1. PICK d : d = ring'
      OBVIOUS
    <3>2. From(ring, f, n) \in Seq(Items) /\ From(d, f, n + 1) = From(ring, f, n) \o <<item>>
      BY <2>2, <3>1, RingAppend
    <3> QED BY <3>1, <3>2
  <2>4. first' = f /\ gone' = gone /\ Kept' = n + 1
    BY <1>3, <1>4, <1>5, <1>8, <1>10 DEF Place
  <2>5. last' = (f + (n + 1)) % R
    <3>1. PICK a \in Nat : a = f + n
      BY <2>1
    <3>2. ((a % R) + 1) % R = (a + 1) % R
      BY ModPlus
    <3>3. a + 1 = f + (n + 1)
      BY <2>1, <3>1
    <3> QED BY <1>6, <1>8, <3>1, <3>2, <3>3
  <2>6. PICK m \in Nat : m = pushed'
    OBVIOUS
  <2>7. Whole(s \o t, pushed, gone)
    BY <1>6, <2>3
  <2>8. Whole(s \o (t \o <<item>>), m, gone)
    BY <2>6, <2>7, PathGrows
  <2>9. Whole(Path', pushed', gone')
    BY <1>8, <2>3, <2>4, <2>6, <2>8
  <2> QED BY <1>1, <1>3, <2>4, <2>5, <2>9 DEF OnceInv
<1> QED BY <1>9, <1>10

(* front and pop_front: the item at the front is taken off the ring.       *)
LEMMA PopFirstOnce ==
    ASSUME OnceInv, RingInv, PopFirst PROVE OnceInv'
<1> SUFFICES ASSUME ~raced' PROVE OnceInv'
  BY DEF OnceInv
<1>1. /\ broadcaster = "pop" /\ broadcaster' = "popping" /\ ~raced /\ pushing = Free
      /\ popping' = [item |-> ring[first], size |-> size - 1]
      /\ first' = (first + 1) % RingCapacity
      /\ UNCHANGED <<ring, last, size, pushing, wire, shown, pushed, gone>>
  BY DEF PopFirst
<1>2. PICK s \in Seq(Items) : s = shown \o wire
  BY PathTyped
<1>3. PICK R \in Nat \ {0} : R = RingCapacity
  BY PathTyped
<1>4. PICK f \in 0..R - 1 : f = first
  BY <1>3, PathTyped
<1>5. PICK n \in 1..R : n = size
  BY <1>1, <1>3 DEF RingInv
<1>6. Kept = n /\ Kept' = n - 1
  BY <1>1, <1>5 DEF Kept
<1>7. last = (f + n) % R /\ Whole(s \o From(ring, f, n), pushed, gone)
  BY <1>1, <1>2, <1>3, <1>4, <1>6 DEF OnceInv, Path
<1>8. PICK g : g = first' /\ Filled(ring, f, n, g)
  BY <1>1, <1>3, <1>4, <1>5, PathTyped DEF Filled
<1>9. From(ring, f, n) = <<ring[f]>> \o From(ring, g, n - 1)
  BY <1>8, RingHead
<1>10. Path' = s \o (<<ring[f]>> \o From(ring, g, n - 1))
  BY <1>1, <1>2, <1>4, <1>6, <1>8 DEF Path
<1>11. Whole(Path', pushed', gone')
  BY <1>1, <1>7, <1>9, <1>10
<1>12. last' = (first' + Kept') % RingCapacity
  <2>1. PICK a \in Nat : a = f + 1
    BY <1>4
  <2>2. PICK j \in Nat : j = n - 1
    BY <1>5
  <2>3. ((a % R) + j) % R = (a + j) % R
    BY ModPlus
  <2>4. a + j = f + n
    BY <1>4, <1>5, <2>1, <2>2
  <2>5. first' = a % R
    BY <1>1, <1>3, <1>4, <2>1
  <2> QED BY <1>1, <1>3, <1>6, <1>7, <2>2, <2>3, <2>4, <2>5
<1> QED BY <1>1, <1>11, <1>12 DEF OnceInv

(* The packet goes on its way, or is lost.                                 *)
LEMMA PopEndOnce ==
    ASSUME OnceInv, RingInv, PopEnd PROVE OnceInv'
<1> SUFFICES ASSUME ~raced' PROVE OnceInv'
  BY DEF OnceInv
<1>1. /\ broadcaster = "popping" /\ size' = popping.size /\ broadcaster' = "check"
      /\ \/ wire' = Append(wire, popping.item) /\ gone' = gone
         \/ gone' = gone \union Messages({popping.item}) /\ wire' = wire
      /\ UNCHANGED <<ring, first, last, pushing, shown, pushed, raced>> /\ ~raced
  BY DEF PopEnd
<1>2. /\ pushing = Free /\ last = (first + Kept) % RingCapacity /\ Whole(Path, pushed, gone)
  BY <1>1 DEF OnceInv
<1>3. Kept = popping.size /\ Kept' = popping.size
  BY <1>1, <1>2 DEF Kept
<1>4. PICK t \in Seq(Items) : t = From(ring, first, Kept)
  BY PathTyped
<1>5. PICK x \in Items : x = popping.item
  BY PathTyped
<1>6. PICK s \in Seq(Items) : s = shown \o wire
  BY PathTyped
<1>7. Path = s \o (<<x>> \o t) /\ Path' = (shown' \o wire') \o t
  BY <1>1, <1>3, <1>4, <1>5, <1>6 DEF Path
<1>8. Whole(Path', pushed', gone')
  <2>1. CASE wire' = Append(wire, popping.item) /\ gone' = gone
    <3>1. PICK one \in Seq(Items) : one = <<x>>
      BY OneItem
    <3>2. wire' = wire \o one
      BY <1>5, <2>1, <3>1, PathTyped, EndAndFront
    <3>3. shown' \o wire' = s \o one
      BY <1>1, <1>6, <3>1, <3>2, PathTyped, Brackets
    <3>4. Path' = Path
      BY <1>4, <1>6, <1>7, <3>1, <3>3, Brackets
    <3> QED BY <1>1, <1>2, <2>1, <3>4
  <2>2. CASE gone' = gone \union Messages({popping.item}) /\ wire' = wire
    <3>1. Through(Path, s, x, t)
      BY <1>4, <1>5, <1>6, <1>7 DEF Through
    <3>2. Whole(s \o t, pushed, gone \union Messages({x}))
      BY <1>2, <3>1, PathLoses
    <3>3. Path' = s \o t
      BY <1>1, <1>6, <1>7, <2>2
    <3> QED BY <1>1, <1>5, <2>2, <3>2, <3>3
  <2> QED BY <1>1, <2>1, <2>2
<1> QED BY <1>1, <1>2, <1>3, <1>8 DEF OnceInv

(* The client's session shows a message, and drops a timer's broadcast.    *)
LEMMA TreatOnce ==
    ASSUME OnceInv, RingInv, TreatPacket PROVE OnceInv'
<1> SUFFICES ASSUME ~raced' PROVE OnceInv'
  BY DEF OnceInv
<1>1. /\ wire # <<>> /\ wire' = Tail(wire) /\ ~raced
      /\ shown' = (IF Head(wire).of = 0 THEN shown ELSE Append(shown, Head(wire)))
      /\ UNCHANGED <<ring, first, last, size, pushing, broadcaster, popping, pushed, gone, raced>>
  BY DEF TreatPacket, ringVars
<1>2. /\ ~(pushing # Free /\ broadcaster = "popping") /\ last = (first + Kept) % RingCapacity
      /\ Whole(Path, pushed, gone)
  BY <1>1 DEF OnceInv
<1>3. Kept' = Kept
  BY <1>1 DEF Kept
<1>4. PICK r \in Seq(Items) :
        r = IF broadcaster = "popping" THEN <<popping.item>> \o From(ring, first, Kept)
            ELSE From(ring, first, Kept)
  BY PathTyped, OneItem, Brackets
<1>5. Path = (shown \o wire) \o r /\ Path' = (shown' \o wire') \o r
  BY <1>1, <1>3, <1>4 DEF Path
<1>6. PICK x \in Items : x = Head(wire)
  BY <1>1, PathTyped, EndAndFront
<1>7. PICK one \in Seq(Items) : one = <<x>>
  BY OneItem
<1>8. PICK t \in Seq(Items) : t = Tail(wire)
  BY <1>1, PathTyped, EndAndFront
<1>9. wire = one \o t
  BY <1>1, <1>6, <1>7, <1>8, PathTyped, EndAndFront
<1>10. PICK u \in Seq(Items) : u = t \o r
  BY <1>4, <1>8, Brackets
<1>11. PICK a \in Seq(Items) : a = shown
  BY PathTyped
<1>12. Path = shown \o (one \o u)
  <2>1. PICK w \in Seq(Items) : w = one \o t
    BY <1>7, <1>8, Brackets
  <2>2. (a \o w) \o r = a \o (w \o r)
    <3>1. a \in Seq(Items) /\ w \in Seq(Items) /\ r \in Seq(Items)
      BY <1>4, <1>11, <2>1
    <3> QED BY <3>1, Brackets
  <2>3. w \o r = one \o u
    BY <1>4, <1>7, <1>8, <1>10, <2>1, Brackets
  <2> QED BY <1>5, <1>9, <1>11, <2>1, <2>2, <2>3
<1>13. Whole(Path', pushed', gone')
  <2>1. CASE x.of = 0
    <3>1. Through(Path, shown, x, u)
      BY <1>7, <1>10, <1>12, PathTyped DEF Through
    <3>2. Whole(shown \o u, pushed, gone)
      BY <1>2, <2>1, <3>1, PathLoses
    <3>3. Path' = shown \o u
      <4>1. shown' = a /\ wire' = t
        BY <1>1, <1>6, <1>8, <1>11, <2>1
      <4>2. a \in Seq(Items) /\ t \in Seq(Items) /\ r \in Seq(Items)
        BY <1>4, <1>8, <1>11
      <4>3. (a \o t) \o r = a \o (t \o r)
        BY <4>2, Brackets
      <4> QED BY <1>5, <1>10, <1>11, <4>1, <4>3
    <3> QED BY <1>1, <3>2, <3>3
  <2>2. CASE x.of # 0
    <3>1. shown' = a \o one
      BY <1>1, <1>6, <1>7, <1>11, <2>2, EndAndFront
    <3>2. (a \o one) \o t = a \o (one \o t)
      BY <1>7, <1>8, <1>11, Brackets
    <3>3. Path' = Path
      BY <1>1, <1>5, <1>8, <1>9, <1>11, <3>1, <3>2
    <3> QED BY <1>1, <1>2, <3>3
  <2> QED BY <2>1, <2>2
<1> QED BY <1>1, <1>2, <1>3, <1>13 DEF OnceInv

(* Nothing comes out of order, twice or unnoticed of the path.             *)
LEMMA NextOnce == FeedInv /\ RingInv /\ OnceInv /\ [Next]_vars => OnceInv'
<1> SUFFICES ASSUME FeedInv, RingInv, OnceInv, [Next]_vars PROVE OnceInv'
  OBVIOUS
<1>1. pushed \in Nat
  BY DEF FeedInv
<1>2. CASE ReadThread
  <2>1. UNCHANGED <<ringVars, pushing, broadcaster, popping, wire, shown, pushed, gone, raced>>
    BY <1>2 DEF ReadThread, Receive, Ensure
  <2> QED BY <2>1, PathKept DEF ringVars
<1>3. CASE PushMessage
  <2>1. /\ reading = "treat" /\ pushing = Free /\ pushed' = pushed + 1
        /\ Place("feed", Item(frame[1][1], frame = Message(frame[1][1])))
        /\ broadcaster' = broadcaster /\ popping' = popping /\ wire' = wire /\ shown' = shown
    BY <1>3 DEF PushMessage, Locked
  <2>2. PICK item \in Items : item = Item(frame[1][1], frame = Message(frame[1][1]))
    BY <2>1, ItemTreated
  <2>3. Place("feed", item) /\ item.of = pushed + 1
    BY <2>1, <2>2, ItemTreated DEF Item
  <2>4. pushed' \in Nat
    BY <1>1, <2>1
  <2> QED BY <1>1, <2>1, <2>3, <2>4, PlaceOnce
<1>4. CASE PushTimed
  <2>1. /\ pushing = Free /\ pushed' = pushed /\ Place("timer", Timed)
        /\ broadcaster' = broadcaster /\ popping' = popping /\ wire' = wire /\ shown' = shown
    BY <1>4 DEF PushTimed, Locked, feedVars
  <2>2. pushed' \in Nat /\ Timed \in Items /\ Timed.of = 0
    BY <1>1, <2>1, TimedItem
  <2> QED BY <1>1, <2>1, <2>2, PlaceOnce
<1>5. CASE PushEnd
  <2>1. /\ pushing # Free /\ size' = pushing.size /\ pushing' = Free
        /\ broadcaster' = (IF broadcaster = "waiting" THEN "check" ELSE broadcaster)
        /\ UNCHANGED <<ring, first, last, popping, wire, shown, pushed, gone, raced>>
    BY <1>5 DEF PushEnd
  <2> SUFFICES ASSUME ~raced PROVE OnceInv'
    BY <2>1 DEF OnceInv
  <2>2. broadcaster # "popping" /\ broadcaster' # "popping"
    BY <2>1 DEF OnceInv
  <2>3. Kept' = Kept
    BY <2>1, <2>2 DEF Kept
  <2>4. Path' = Path
    BY <2>1, <2>2, <2>3 DEF Path
  <2>5. last = (first + Kept) % RingCapacity /\ Whole(Path, pushed, gone)
    BY DEF OnceInv
  <2> QED BY <2>1, <2>2, <2>3, <2>4, <2>5 DEF OnceInv
<1>6. CASE CheckRing \/ Block
  <2>1. /\ UNCHANGED <<ring, first, last, size, pushing, popping, wire, shown, pushed, gone, raced>>
        /\ broadcaster # "popping" /\ broadcaster' # "popping"
    BY <1>6 DEF CheckRing, Block, ringVars
  <2> QED BY <2>1, PathKept
<1>7. CASE PopFirst
  BY <1>7, PopFirstOnce
<1>8. CASE PopEnd
  BY <1>8, PopEndOnce
<1>9. CASE TreatPacket
  BY <1>9, TreatOnce
<1>10. CASE UNCHANGED vars
  <2>1. /\ UNCHANGED <<ring, first, last, size, pushing, popping, wire, shown, pushed, gone, raced>>
        /\ broadcaster' = broadcaster
    BY <1>10 DEF vars, ringVars
  <2> QED BY <2>1, PathKept
<1> QED BY <1>2, <1>3, <1>4, <1>5, <1>6, <1>7, <1>8, <1>9, <1>10 DEF Next, Broadcaster

(* The order of what is on its way is what OnceInOrder says of it.         *)
LEMMA PathIsWhole ==
    ASSUME RingInv, OnceInv PROVE OnceInOrder
<1> SUFFICES ASSUME ~raced, pushing = Free PROVE OnceInOrder
  BY DEF OnceInOrder
<1>1. Whole(Path, pushed, gone)
  BY DEF OnceInv
<1>2. \A n : InRing(n) = From(ring, first, n)
  BY DEF InRing, From
<1>3. Path = shown \o wire \o (IF broadcaster = "popping"
                               THEN <<popping.item>> \o InRing(popping.size) ELSE InRing(size))
  BY <1>2 DEF Path, Kept
<1> QED BY <1>1, <1>3 DEF OnceInOrder, Whole

(* What the three invariants say of the types.                             *)
LEMMA FeedIsTyped ==
    ASSUME FeedInv, RingInv PROVE TypeOK
<1>1. received \in 0..Len(InStream) /\ reading \in {"recv", "ensure", "treat", "pushing"}
  BY DEF FeedInv
<1>2. /\ buffer.cells \in [0..Capacity - 1 -> Range(InStream) \union {Junk}]
      /\ buffer.first \in 0..Capacity - 1 /\ buffer.size \in 0..Capacity
  <2>1. PICK k \in 0..Len(Stream) : k = Done
    BY DEF FeedInv
  <2>2. PICK c \in Nat : c = Ends[k]
    BY EndsTyped
  <2>3. PICK r \in Nat : r = received
    BY StreamTyped DEF FeedInv
  <2>4. Holds(buffer, c, r) /\ c <= r /\ r <= c + Capacity
    BY <2>1, <2>2, <2>3 DEF FeedInv
  <2>5. c % Capacity \in 0..Capacity - 1 /\ r - c \in 0..Capacity
    BY <2>2, <2>3, <2>4, DecoderAssumption
  <2> QED BY <2>4, <2>5 DEF Holds, Cells
<1>3. frame \in Seq(Range(InStream) \union {Junk})
  BY DEF FeedInv, Cells
<1>4. arena.block \in Nat /\ arena.offset \in Nat
  BY DEF FeedInv, Sound
<1>5. pushed \in 0..Len(Stream)
  BY LengthTyped DEF FeedInv, Done
<1> QED BY <1>1, <1>2, <1>3, <1>4, <1>5 DEF TypeOK, RingInv

(* Together they are inductive.                                            *)
LEMMA FeedInductive == Spec => [](FeedInv /\ RingInv /\ OnceInv)
<1>1. Init => FeedInv /\ RingInv /\ OnceInv
  BY InitFeed, InitRing, InitOnce
<1>2. (FeedInv /\ RingInv /\ OnceInv) /\ [Next]_vars => (FeedInv /\ RingInv /\ OnceInv)'
  BY NextFeed, NextRing, NextOnce
<1> QED BY <1>1, <1>2, PTL DEF Spec

(* The feed, the ring and the packets are of their types, whatever the     *)
(* stream, the buffers' sizes and the sizes that recv returns.             *)
THEOREM FeedTyped == Spec => []TypeOK
<1>1. FeedInv /\ RingInv => TypeOK
  BY FeedIsTyped
<1> QED BY <1>1, FeedInductive, PTL

(* Whatever pieces the stream comes in, every frame that ensure cuts off   *)
(* is the next message of the stream; it is damaged if and only if it runs *)
(* past the end of the buffer's array, and ensure always returns.          *)
THEOREM MessagesAreFramed == Spec => []FramesAreMessages
BY FeedFrames, FeedInductive, PTL

(* The frames in the Decoder's memory, to which the ring points, never     *)
(* overlap and stay in their blocks but for a byte.                        *)
THEOREM FramesStayApart == Spec => []FramesLieApart
<1>1. FeedInv => FramesLieApart
  BY SoundIsApart DEF FeedInv, FramesLieApart
<1> QED BY <1>1, FeedInductive, PTL

(* As long as push and the broadcasting thread have not updated the size   *)
(* of the ring at once, the clients are shown the messages of the stream   *)
(* in order and once, but for those that were overwritten or lost.         *)
THEOREM ShownOnceInOrder == Spec => []OnceInOrder
<1>1. RingInv /\ OnceInv => OnceInOrder
  BY PathIsWhole
<1> QED BY <1>1, FeedInductive, PTL
=============================================================================
