------------------------------ MODULE Counting ------------------------------
(***************************************************************************)
(* What the proofs of several models count with: the least and the         *)
(* greatest element of a set of naturals, for the models that take them    *)
(* with Min and Max of FiniteSetsExt, and how often a message is in a      *)
(* family of links, for those that send and receive over sequences.        *)
(***************************************************************************)
EXTENDS Integers, FiniteSetsExt, WellFoundedInduction, FiniteSetTheorems, SequenceTheorems, TLAPS

(* A non-empty set of naturals has a least element: Min's CHOOSE succeeds. *)
LEMMA MinOfNats ==
    ASSUME NEW S \in SUBSET Nat, S # {}
    PROVE  Min(S) \in S /\ \A y \in S : Min(S) <= y
<1>1. PICK n \in S : \A m \in S : <<m, n>> \notin OpToRel(<, Nat)
  BY NatLessThanWellFounded, WFMin
<1>2. \A m \in S : ~(m < n)
  BY <1>1 DEF OpToRel
<1>3. \A m \in S : n <= m
  BY <1>2
<1>4. QED
  BY <1>3 DEF Min

(* A non-empty set of naturals below a bound has a greatest element: the   *)
(* element whose distance to the bound is least.                           *)
LEMMA MaxOfNats ==
    ASSUME NEW n \in Nat, NEW S \in SUBSET (0 .. n), S # {}
    PROVE  Max(S) \in S /\ \A y \in S : y <= Max(S)
<1> DEFINE D == {n - y : y \in S}
<1>1. D \in SUBSET Nat /\ D # {}
  <2>1. \A y \in S : n - y \in Nat
    OBVIOUS
  <2>2. QED
    BY <2>1
<1>2. PICK d \in D : \A e \in D : d <= e
  BY <1>1, MinOfNats
<1>3. PICK x \in S : d = n - x
  OBVIOUS
<1>4. \A y \in S : x >= y
  <2>1. TAKE y \in S
  <2>2. n - y \in D
    OBVIOUS
  <2>3. n - x <= n - y
    BY <1>2, <1>3, <2>2
  <2>4. QED
    BY <2>3
<1>5. \A y \in S : Max(S) >= y /\ Max(S) \in S
  BY <1>4 DEF Max
<1>6. QED
  BY <1>5

-----------------------------------------------------------------------------
(* Where a message is in a family of links, and how often it is there.     *)
Places(links, m) ==
    UNION {{x} \X {j \in DOMAIN links[x] : links[x][j] = m} : x \in DOMAIN links}
Count(links, m) == Cardinality(Places(links, m))

(* A step of one of the links: a message joins at the end, the head        *)
(* leaves, or a piece remains.                                             *)
Links(S, M, links) == IsFiniteSet(S) /\ links \in [S -> Seq(M)]
(* A message joins a link at its end.                                      *)
Appended(S, M, links, s, n, next) ==
    Links(S, M, links) /\ s \in S /\ n \in M /\ next = [links EXCEPT ![s] = Append(@, n)]
(* The head leaves a link.                                                 *)
HeadTaken(S, M, links, s, next) ==
    Links(S, M, links) /\ s \in S /\ links[s] # <<>> /\ next = [links EXCEPT ![s] = Tail(@)]
(* A piece of a link remains: what a connection that ends had taken in.    *)
PieceLeft(S, M, links, s, a, n, next) ==
    /\ Links(S, M, links) /\ s \in S /\ a \in Nat \ {0} /\ n \in 0..Len(links[s])
    /\ next = [links EXCEPT ![s] = SubSeq(@, a, n)]

(* A place: a link and a position of it.                                   *)
LEMMA PlacesMember ==
    ASSUME NEW links, NEW m, NEW p
    PROVE  p \in Places(links, m) <=>
               \E x \in DOMAIN links : \E j \in DOMAIN links[x] : p = <<x, j>> /\ links[x][j] = m
  BY DEF Places

(* Finitely many links hold finitely many messages: the least set of links *)
(* of which that is not so would lose one link more.                       *)
LEMMA PlacesFinite ==
    ASSUME NEW S, IsFiniteSet(S), NEW M, NEW links \in [S -> Seq(M)], NEW m
    PROVE  IsFiniteSet(Places(links, m)) /\ Count(links, m) \in Nat
<1> DEFINE Of(T) == {p \in Places(links, m) : p[1] \in T}
           Bad == {T \in SUBSET S : ~IsFiniteSet(Of(T))}
           Sizes == {Cardinality(T) : T \in Bad}
<1>1. \A T \in SUBSET S : IsFiniteSet(T) /\ Cardinality(T) \in Nat
  BY FS_Subset, FS_CardinalityType
<1>2. Sizes \in SUBSET Nat
  BY <1>1
<1>3. ASSUME Bad # {} PROVE FALSE
  <2>1. Sizes # {}
    BY <1>3
  <2>2. Min(Sizes) \in Sizes /\ \A y \in Sizes : Min(Sizes) <= y
    BY <1>2, <2>1, MinOfNats
  <2>3. PICK T \in Bad : \A U \in Bad : Cardinality(T) <= Cardinality(U)
    BY <2>2
  <2>4. T # {}
    <3>1. Of({}) = {}
      OBVIOUS
    <3> QED BY <2>3, <3>1, FS_EmptySet
  <2>5. PICK x \in T : TRUE
    BY <2>4
  <2>6. Cardinality(T \ {x}) < Cardinality(T)
    <3>1. IsFiniteSet(T) /\ Cardinality(T) \in Nat
      BY <1>1, <2>3
    <3>2. Cardinality(T \ {x}) = Cardinality(T) - 1
      BY <2>5, <3>1, FS_RemoveElement
    <3> QED BY <3>1, <3>2
  <2>7. IsFiniteSet(Of(T \ {x}))
    BY <1>1, <2>3, <2>6
  <2>8. IsFiniteSet(Of({x}))
    <3> DEFINE D == {j \in DOMAIN links[x] : links[x][j] = m}
               f == [j \in D |-> <<x, j>>]
    <3>1. x \in S /\ links[x] \in Seq(M)
      BY <2>3, <2>5
    <3>2. DOMAIN links[x] = 1..Len(links[x]) /\ Len(links[x]) \in Nat
      BY <3>1, LenProperties
    <3>3. IsFiniteSet(D)
      <4>1. 1 \in Int /\ Len(links[x]) \in Int
        BY <3>2
      <4>2. IsFiniteSet(1..Len(links[x]))
        BY <4>1, FS_Interval
      <4> QED BY <4>2, <3>2, FS_Subset
    <3>4. f \in Surjection(D, Of({x}))
      <4>1. \A p \in Of({x}) : \E j \in D : p = <<x, j>>
        <5> SUFFICES ASSUME NEW p \in Of({x}) PROVE \E j \in D : p = <<x, j>>
          OBVIOUS
        <5>1. PICK y \in DOMAIN links : \E j \in DOMAIN links[y] : p = <<y, j>> /\ links[y][j] = m
          BY PlacesMember
        <5>2. p[1] = x
          OBVIOUS
        <5> QED BY <5>1, <5>2
      <4>2. \A j \in D : <<x, j>> \in Of({x})
        BY PlacesMember, <3>1
      <4> QED BY <4>1, <4>2 DEF Surjection
    <3> QED BY <3>3, <3>4, FS_Surjection
  <2>9. Of(T) = Of(T \ {x}) \cup Of({x})
    BY <2>5
  <2>10. IsFiniteSet(Of(T \ {x}) \cup Of({x}))
    BY <2>7, <2>8, FS_Union
  <2>11. ~IsFiniteSet(Of(T))
    BY <2>3
  <2> HIDE DEF Of
  <2> QED BY <2>9, <2>10, <2>11
<1>4. Of(S) = Places(links, m)
  <2>1. \A p \in Places(links, m) : p[1] \in S
    BY PlacesMember
  <2> QED BY <2>1
<1>5. IsFiniteSet(Places(links, m))
  BY <1>3, <1>4
<1> QED BY <1>5, FS_CardinalityType DEF Count

(* A message that is in a link counts.                                     *)
LEMMA CountPositive ==
    ASSUME NEW S, IsFiniteSet(S), NEW M, NEW links \in [S -> Seq(M)],
           NEW x \in S, NEW j \in DOMAIN links[x]
    PROVE  Count(links, links[x][j]) > 0
<1>1. <<x, j>> \in Places(links, links[x][j])
  BY PlacesMember
<1> QED BY <1>1, PlacesFinite, FS_EmptySet DEF Count

(* ... and what counts is in a link.                                       *)
LEMMA CountSome ==
    ASSUME NEW S, IsFiniteSet(S), NEW M, NEW links \in [S -> Seq(M)], NEW m,
           Count(links, m) > 0
    PROVE  \E x \in S : \E j \in DOMAIN links[x] : links[x][j] = m
<1>1. Places(links, m) # {}
  BY FS_EmptySet DEF Count
<1> QED BY <1>1, PlacesMember

(* What joins a link counts once more, and nothing else changes its count. *)
LEMMA CountAppend ==
    ASSUME NEW S, NEW M, NEW links, NEW s, NEW n, NEW next, Appended(S, M, links, s, n, next)
    PROVE  \A m : Count(next, m) = Count(links, m) + (IF n = m THEN 1 ELSE 0)
<1> SUFFICES ASSUME NEW m PROVE Count(next, m) = Count(links, m) + (IF n = m THEN 1 ELSE 0)
  OBVIOUS
<1>0. IsFiniteSet(S) /\ links \in [S -> Seq(M)] /\ s \in S /\ n \in M
  BY DEF Appended, Links
<1> USE <1>0
<1> DEFINE new == <<s, Len(links[s]) + 1>>
<1>1. /\ DOMAIN next = S /\ next[s] = Append(links[s], n)
      /\ \A x \in S \ {s} : next[x] = links[x]
  BY DEF Appended
<1>2. /\ Len(links[s]) \in Nat /\ DOMAIN links[s] = 1..Len(links[s])
      /\ DOMAIN next[s] = 1..Len(links[s]) + 1
      /\ \A j \in 1..Len(links[s]) : next[s][j] = links[s][j]
      /\ next[s][Len(links[s]) + 1] = n
  BY <1>1, LenProperties, AppendProperties
<1>5. ASSUME NEW x \in S, NEW j \in DOMAIN links[x]
      PROVE  j \in DOMAIN next[x] /\ next[x][j] = links[x][j]
  <2>1. CASE x = s
    <3>1. j \in 1..Len(links[s])
      BY <1>2, <2>1
    <3>2. j \in 1..Len(links[s]) + 1 /\ next[s][j] = links[s][j]
      BY <1>2, <3>1
    <3> QED BY <1>2, <2>1, <3>2
  <2>2. CASE x # s
    BY <1>1, <2>2
  <2> QED BY <2>1, <2>2
<1>3. CASE n = m
  <2>1. Places(next, m) = Places(links, m) \cup {new}
    <3>1. ASSUME NEW p \in Places(next, m) PROVE p \in Places(links, m) \cup {new}
      <4>1. PICK x \in S : \E j \in DOMAIN next[x] : p = <<x, j>> /\ next[x][j] = m
        BY <1>1, PlacesMember
      <4> QED BY <1>1, <1>2, <4>1, PlacesMember
    <3>2. ASSUME NEW p \in Places(links, m) PROVE p \in Places(next, m)
      <4>1. PICK x \in S : \E j \in DOMAIN links[x] : p = <<x, j>> /\ links[x][j] = m
        BY PlacesMember
      <4>2. PICK j \in DOMAIN links[x] : p = <<x, j>> /\ links[x][j] = m
        BY <4>1
      <4>3. j \in DOMAIN next[x] /\ next[x][j] = m
        BY <1>5, <4>2
      <4> QED BY <1>1, <4>2, <4>3, PlacesMember
    <3>3. new \in Places(next, m)
      BY <1>1, <1>2, <1>3, PlacesMember
    <3> QED BY <3>1, <3>2, <3>3
  <2>2. new \notin Places(links, m)
    BY <1>2, PlacesMember
  <2> QED BY <1>3, <2>1, <2>2, PlacesFinite, FS_AddElement DEF Count
<1>4. CASE n # m
  <2>1. Places(next, m) = Places(links, m)
    <3>1. ASSUME NEW p \in Places(next, m) PROVE p \in Places(links, m)
      <4>1. PICK x \in S : \E j \in DOMAIN next[x] : p = <<x, j>> /\ next[x][j] = m
        BY <1>1, PlacesMember
      <4> QED BY <1>1, <1>2, <1>4, <4>1, PlacesMember
    <3>2. ASSUME NEW p \in Places(links, m) PROVE p \in Places(next, m)
      <4>1. PICK x \in S : \E j \in DOMAIN links[x] : p = <<x, j>> /\ links[x][j] = m
        BY PlacesMember
      <4>2. PICK j \in DOMAIN links[x] : p = <<x, j>> /\ links[x][j] = m
        BY <4>1
      <4>3. j \in DOMAIN next[x] /\ next[x][j] = m
        BY <1>5, <4>2
      <4> QED BY <1>1, <4>2, <4>3, PlacesMember
    <3> QED BY <3>1, <3>2
  <2> QED BY <1>4, <2>1, PlacesFinite DEF Count
<1> QED BY <1>3, <1>4

(* The rest of a link holds what the link held, but for its head.          *)
LEMMA CountTail ==
    ASSUME NEW S, NEW M, NEW links, NEW s, NEW next, HeadTaken(S, M, links, s, next)
    PROVE  \A m : Count(next, m) = Count(links, m) - (IF Head(links[s]) = m THEN 1 ELSE 0)
<1> SUFFICES ASSUME NEW m
             PROVE  Count(next, m) = Count(links, m) - (IF Head(links[s]) = m THEN 1 ELSE 0)
  OBVIOUS
<1>0. IsFiniteSet(S) /\ links \in [S -> Seq(M)] /\ s \in S /\ links[s] # <<>>
  BY DEF HeadTaken, Links
<1> USE <1>0
<1> DEFINE Rest == Places(links, m) \ {<<s, 1>>}
           f == [p \in Rest |-> IF p[1] = s THEN <<s, p[2] - 1>> ELSE p]
<1>1. /\ DOMAIN next = S /\ next[s] = Tail(links[s])
      /\ \A x \in S \ {s} : next[x] = links[x]
  BY DEF HeadTaken
<1>2. /\ Len(links[s]) \in Nat /\ DOMAIN links[s] = 1..Len(links[s])
      /\ Len(links[s]) >= 1 /\ Head(links[s]) = links[s][1]
      /\ DOMAIN next[s] = 1..Len(links[s]) - 1
      /\ \A j \in 1..Len(links[s]) - 1 : next[s][j] = links[s][j + 1]
  <2>1. links[s] \in Seq(M)
    OBVIOUS
  <2>2. Len(links[s]) \in Nat /\ Len(links[s]) # 0 /\ DOMAIN links[s] = 1..Len(links[s])
    BY <2>1, LenProperties, EmptySeq
  <2> QED BY <1>1, <2>1, <2>2, HeadTailProperties
<1>3. ASSUME NEW p \in Rest
      PROVE  /\ f[p] \in Places(next, m)
             /\ p[1] \in S /\ p = <<p[1], p[2]>> /\ p[2] \in DOMAIN links[p[1]]
             /\ p[1] = s => p[2] \in 2..Len(links[s])
  <2>1. PICK x \in S : \E j \in DOMAIN links[x] : p = <<x, j>> /\ links[x][j] = m
    BY PlacesMember
  <2>2. PICK j \in DOMAIN links[x] : p = <<x, j>> /\ links[x][j] = m
    BY <2>1
  <2>3. CASE x = s
    <3>1. j \in 2..Len(links[s])
      BY <1>2, <2>2, <2>3
    <3>2. j - 1 \in DOMAIN next[s] /\ next[s][j - 1] = m
      BY <1>2, <2>2, <2>3, <3>1
    <3>3. <<s, j - 1>> \in Places(next, m)
      BY <1>1, <3>2, PlacesMember
    <3> QED BY <2>2, <2>3, <3>1, <3>3
  <2>4. CASE x # s
    <3>1. p \in Places(next, m)
      BY <1>1, <2>2, <2>4, PlacesMember
    <3> QED BY <2>2, <2>4, <3>1
  <2> QED BY <2>3, <2>4
<1>4. ASSUME NEW q \in Places(next, m) PROVE \E p \in Rest : f[p] = q
  <2>1. PICK x \in S : \E j \in DOMAIN next[x] : q = <<x, j>> /\ next[x][j] = m
    BY <1>1, PlacesMember
  <2>2. PICK j \in DOMAIN next[x] : q = <<x, j>> /\ next[x][j] = m
    BY <2>1
  <2>3. CASE x = s
    <3>1. /\ j + 1 \in DOMAIN links[s] /\ links[s][j + 1] = m /\ j + 1 # 1
          /\ (j + 1) - 1 = j
      BY <1>2, <2>2, <2>3
    <3>2. <<s, j + 1>> \in Rest
      BY <3>1, PlacesMember
    <3>3. f[<<s, j + 1>>] = <<s, j>>
      BY <3>1, <3>2
    <3> QED BY <2>2, <2>3, <3>2, <3>3
  <2>4. CASE x # s
    <3>1. q \in Rest
      BY <1>1, <2>2, <2>4, PlacesMember
    <3>2. f[q] = q
      BY <2>2, <2>4, <3>1
    <3> QED BY <3>1, <3>2
  <2> QED BY <2>3, <2>4
<1>5. ASSUME NEW p \in Rest, NEW q \in Rest, f[p] = f[q] PROVE p = q
  <2>1. /\ p = <<p[1], p[2]>> /\ q = <<q[1], q[2]>>
        /\ p[1] = s => p[2] \in 2..Len(links[s])
        /\ q[1] = s => q[2] \in 2..Len(links[s])
    BY <1>3
  <2>2. CASE p[1] = s /\ q[1] = s
    <3>1. p[2] - 1 = q[2] - 1
      BY <1>5, <2>2
    <3> QED BY <1>2, <2>1, <2>2, <3>1
  <2>3. CASE ~(p[1] = s /\ q[1] = s)
    BY <1>5, <2>1, <2>3
  <2> QED BY <2>2, <2>3
<1>6. f \in Bijection(Rest, Places(next, m))
  <2>1. f \in [Rest -> Places(next, m)]
    BY <1>3
  <2>2. f \in Injection(Rest, Places(next, m))
    BY <1>5, <2>1 DEF Injection, IsInjective
  <2>3. f \in Surjection(Rest, Places(next, m))
    BY <1>4, <2>1 DEF Surjection
  <2> QED BY <2>2, <2>3 DEF Bijection
<1> HIDE DEF f
<1>7. IsFiniteSet(Rest) /\ Cardinality(Places(next, m)) = Cardinality(Rest)
  <2>1. IsFiniteSet(Rest)
    BY PlacesFinite, FS_RemoveElement
  <2> QED BY <1>6, <2>1, FS_Bijection DEF ExistsBijection
<1>8. <<s, 1>> \in Places(links, m) <=> Head(links[s]) = m
  BY <1>2, PlacesMember
<1>9. /\ Cardinality(Places(links, m)) \in Nat
      /\ Cardinality(Rest) = Cardinality(Places(links, m))
                                  - (IF Head(links[s]) = m THEN 1 ELSE 0)
  <2>1. IsFiniteSet(Places(links, m)) /\ Cardinality(Places(links, m)) \in Nat
    BY PlacesFinite DEF Count
  <2>2. Cardinality(Rest) = IF <<s, 1>> \in Places(links, m)
                            THEN Cardinality(Places(links, m)) - 1 ELSE Cardinality(Places(links, m))
    BY <2>1, FS_RemoveElement
  <2> QED BY <1>8, <2>1, <2>2
<1> HIDE DEF Rest
<1> QED BY <1>7, <1>9 DEF Count

(* A piece of a link holds no more than the link.                          *)
LEMMA CountCut ==
    ASSUME NEW S, NEW M, NEW links, NEW s, NEW a, NEW n, NEW next,
           PieceLeft(S, M, links, s, a, n, next)
    PROVE  \A m : Count(next, m) <= Count(links, m)
<1> SUFFICES ASSUME NEW m PROVE Count(next, m) <= Count(links, m)
  OBVIOUS
<1>0. /\ IsFiniteSet(S) /\ links \in [S -> Seq(M)] /\ s \in S
      /\ a \in Nat \ {0} /\ n \in 0..Len(links[s])
  BY DEF PieceLeft, Links
<1> USE <1>0
<1> DEFINE g == [p \in Places(next, m) |-> IF p[1] = s THEN <<s, p[2] + a - 1>> ELSE p]
<1>1. /\ DOMAIN next = S /\ next[s] = SubSeq(links[s], a, n)
      /\ \A x \in S \ {s} : next[x] = links[x]
  BY DEF PieceLeft
<1>2. /\ Len(links[s]) \in Nat /\ DOMAIN links[s] = 1..Len(links[s])
      /\ \A j \in DOMAIN next[s] :
             /\ j \in Nat /\ j + a - 1 \in 1..Len(links[s])
             /\ next[s][j] = links[s][j + a - 1]
  <2>1. links[s] \in Seq(M)
    OBVIOUS
  <2>2. Len(links[s]) \in Nat /\ DOMAIN links[s] = 1..Len(links[s])
    BY <2>1, LenProperties
  <2>3. \A i \in a..n : links[s][i] \in M
    BY <2>1, <2>2, ElementOfSeq
  <2>4. /\ SubSeq(links[s], a, n) \in Seq(M)
        /\ Len(SubSeq(links[s], a, n)) = IF a <= n THEN n - a + 1 ELSE 0
        /\ \A i \in 1..n - a + 1 : SubSeq(links[s], a, n)[i] = links[s][a + i - 1]
    BY <2>2, <2>3, SubSeqProperties
  <2>5. DOMAIN next[s] = 1..Len(next[s])
    BY <1>1, <2>4, LenProperties
  <2>6. ASSUME NEW j \in DOMAIN next[s]
        PROVE  j \in Nat /\ j + a - 1 \in 1..Len(links[s]) /\ next[s][j] = links[s][j + a - 1]
    <3>1. j \in 1..n - a + 1 /\ a + j - 1 = j + a - 1
      BY <1>1, <2>2, <2>4, <2>5
    <3> QED BY <1>1, <2>2, <2>4, <3>1
  <2> QED BY <2>2, <2>6
<1>3. ASSUME NEW p \in Places(next, m)
      PROVE  /\ g[p] \in Places(links, m)
             /\ p = <<p[1], p[2]>>
             /\ p[1] = s => p[2] \in Nat
  <2>1. PICK x \in S : \E j \in DOMAIN next[x] : p = <<x, j>> /\ next[x][j] = m
    BY <1>1, PlacesMember
  <2>2. PICK j \in DOMAIN next[x] : p = <<x, j>> /\ next[x][j] = m
    BY <2>1
  <2>3. CASE x = s
    <3>1. /\ j \in Nat /\ j + a - 1 \in DOMAIN links[s]
          /\ links[s][j + a - 1] = m
      BY <1>2, <2>2, <2>3
    <3>2. <<s, j + a - 1>> \in Places(links, m)
      BY <3>1, PlacesMember
    <3> QED BY <2>2, <2>3, <3>1, <3>2
  <2>4. CASE x # s
    <3>1. p \in Places(links, m)
      BY <1>1, <2>2, <2>4, PlacesMember
    <3> QED BY <2>2, <2>4, <3>1
  <2> QED BY <2>3, <2>4
<1>4. ASSUME NEW p \in Places(next, m), NEW q \in Places(next, m), g[p] = g[q] PROVE p = q
  <2>1. /\ p = <<p[1], p[2]>> /\ q = <<q[1], q[2]>>
        /\ p[1] = s => p[2] \in Nat
        /\ q[1] = s => q[2] \in Nat
    BY <1>3
  <2>2. CASE p[1] = s /\ q[1] = s
    <3>1. p[2] + a - 1 = q[2] + a - 1
      BY <1>4, <2>2
    <3>2. p[2] \in Nat /\ q[2] \in Nat
      BY <1>3, <2>2
    <3> QED BY <2>1, <2>2, <3>1, <3>2
  <2>3. CASE ~(p[1] = s /\ q[1] = s)
    BY <1>4, <2>1, <2>3
  <2> QED BY <2>2, <2>3
<1>5. g \in Injection(Places(next, m), Places(links, m))
  BY <1>3, <1>4 DEF Injection, IsInjective
<1> HIDE DEF g
<1> QED BY <1>5, PlacesFinite, FS_Injection DEF Count
=============================================================================
