-------------------------- MODULE Sequencer_proofs ---------------------------
(***************************************************************************)
(* For every finite set of clients, ratio, capacity and number of pushes:  *)
(* the sequencer keeps its types, loses, repeats and reorders nothing, and *)
(* starves nobody.                                                         *)
(***************************************************************************)
EXTENDS Sequencer, Counting, FiniteSetTheorems, SequenceTheorems

(* A session that is being inserted is new and has a place in the map.     *)
ArrivingIsNew ==
    /\ accepting \in {"lock", "insert"} =>
          arriving \in Clients \ subscribed /\ Cardinality(subscribed) < MaxClients
    /\ accepting = "reset" => arriving \in subscribed

(* The consumer holds a message only between poll and onMessage, and polls *)
(* only where mLookupIndex is a key.                                       *)
HoldsOne ==
    /\ run = "poll" => lookup \in subscribed
    /\ run = "handle" => polled # None
    /\ polled # None => run \in {"handle", "undefined"}

(* What a session pushes follows what push took of it.                     *)
PushIsNext == \A c \in Clients : pushing[c] # 0 => pushing[c] = accepted[c] + 1

(* The inductive invariant.                                                *)
IInv == TypeOK /\ ArrivingIsNew /\ HoldsOne /\ PushIsNext /\ EachOnceInOrder

-----------------------------------------------------------------------------
(* mLookupIndex always is a key or end().                                  *)
LEMMA BeginIsKey ==
    ASSUME subscribed \subseteq Clients
    PROVE  /\ Begin \in subscribed \union {End}
           /\ subscribed # {} => Begin \in subscribed
           /\ \A c : After(c) \in subscribed \union {End}
<1>1. \A S \in SUBSET subscribed : S # {} => Min(S) \in S
  BY SequencerAssumption, MinOfNats
<1>2. \A c : {d \in subscribed : d > c} \in SUBSET subscribed
  OBVIOUS
<1>3. Begin \in subscribed \union {End} /\ (subscribed # {} => Begin \in subscribed)
  BY <1>1 DEF Begin
<1>4. ASSUME NEW c PROVE After(c) \in subscribed \union {End}
  <2> DEFINE later == {d \in subscribed : d > c}
  <2>1. CASE later = {}
    BY <2>1 DEF After
  <2>2. CASE later # {}
    BY <1>1, <2>2 DEF After
  <2>3. QED
    BY <2>1, <2>2
<1>5. QED
  BY <1>3, <1>4

(* The map has finitely many keys.                                         *)
LEMMA SubscribedFinite ==
    ASSUME subscribed \subseteq Clients
    PROVE  IsFiniteSet(subscribed) /\ Cardinality(subscribed) \in Nat
BY SequencerAssumption, FS_Subset, FS_CardinalityType

(* What TypeOK says of the message the consumer holds.                     *)
LEMMA HeldTyped ==
    ASSUME TypeOK
    PROVE  /\ polled # None => polled[1] \in Clients /\ polled[2] \in 1 .. MaxPushes
           /\ \A c \in Clients : Held(c) \in {0, 1} /\ (Held(c) = 1 <=> polled # None /\ polled[1] = c)
           /\ \A c \in Clients : /\ accepted[c] \in Nat /\ handled[c] \in Nat
                                 /\ accepted[c] <= MaxPushes /\ handled[c] <= MaxPushes
                                 /\ queue[c] \in Seq(1 .. MaxPushes) /\ Len(queue[c]) \in Nat
<1>1. polled # None => polled[1] \in Clients /\ polled[2] \in 1 .. MaxPushes
  BY DEF TypeOK
<1>2. \A c \in Clients : Held(c) \in {0, 1} /\ (Held(c) = 1 <=> polled # None /\ polled[1] = c)
  BY DEF Held
<1>3. \A c \in Clients : /\ accepted[c] \in Nat /\ handled[c] \in Nat
                         /\ accepted[c] <= MaxPushes /\ handled[c] <= MaxPushes
                         /\ queue[c] \in Seq(1 .. MaxPushes) /\ Len(queue[c]) \in Nat
  BY SequencerAssumption DEF TypeOK
<1>4. QED
  BY <1>1, <1>2, <1>3

-----------------------------------------------------------------------------
(* An empty map with everybody idle satisfies it.                          *)
LEMMA InitInv == Init => IInv
<1> SUFFICES ASSUME Init PROVE IInv
  OBVIOUS
<1>1. subscribed = {} /\ freed = {} /\ Cardinality(subscribed) = 0
  BY FS_EmptySet DEF Init
<1>2. /\ queue = [c \in Clients |-> <<>>] /\ counter = [c \in Clients |-> 0]
      /\ pushing = [c \in Clients |-> 0] /\ accepted = [c \in Clients |-> 0]
      /\ handled = [c \in Clients |-> 0] /\ bypass = [c \in Clients |-> 0]
      /\ polled = None
  BY DEF Init
<1>3. \A c \in Clients : queue[c] = <<>> /\ Len(queue[c]) = 0
  BY <1>2
<1>4. TypeOK
  <2>1. subscribed \subseteq Clients /\ freed \subseteq subscribed /\ Cardinality(subscribed) <= MaxClients
    BY <1>1, SequencerAssumption
  <2>2. queue \in [Clients -> Seq(1 .. MaxPushes)] /\ \A c \in Clients : Len(queue[c]) <= Capacity
    BY <1>2, <1>3, SequencerAssumption
  <2>3. /\ counter \in [Clients -> 0 .. Ratio + 1] /\ pushing \in [Clients -> 0 .. MaxPushes]
        /\ accepted \in [Clients -> 0 .. MaxPushes] /\ handled \in [Clients -> 0 .. MaxPushes]
        /\ bypass \in [Clients -> Nat]
    BY <1>2, SequencerAssumption
  <2>4. /\ lookup \in subscribed \union {End} /\ mutex = "free" /\ run = "turn"
        /\ stopped \in BOOLEAN /\ accepting = "idle" /\ arriving = End /\ open = {}
    BY DEF Init
  <2>5. QED
    BY <1>2, <2>1, <2>2, <2>3, <2>4 DEF TypeOK
<1>5. EachOnceInOrder
  BY <1>2, <1>3 DEF EachOnceInOrder, Held
<1>6. ArrivingIsNew /\ HoldsOne /\ PushIsNext
  BY <1>2 DEF Init, ArrivingIsNew, HoldsOne, PushIsNext
<1>7. QED
  BY <1>4, <1>5, <1>6 DEF IInv

-----------------------------------------------------------------------------
(* A step that moves no message keeps the streams.                         *)
LEMMA StreamsUnchanged ==
    ASSUME EachOnceInOrder, PushIsNext, UNCHANGED <<queue, polled, accepted, handled, pushing>>
    PROVE  EachOnceInOrder' /\ PushIsNext'
BY DEF EachOnceInOrder, PushIsNext, Held

(* Subscribe checks what ArrivingIsNew says.                               *)
LEMMA SubscribeInv ==
    ASSUME IInv, NEW c \in Clients, Subscribe(c)
    PROVE  IInv'
<1>1. UNCHANGED <<queueVars, lookup, mutex, runVars, pushing, history>> /\ accepting = "idle"
  BY DEF Subscribe
<1>2. EachOnceInOrder' /\ PushIsNext'
  BY <1>1, StreamsUnchanged DEF IInv, queueVars, runVars, history
<1>3. HoldsOne'
  BY <1>1 DEF IInv, HoldsOne, queueVars, runVars
<1>4. TypeOK'
  BY <1>1 DEF Subscribe, IInv, TypeOK, queueVars, runVars, history
<1>5. ArrivingIsNew'
  <2>1. subscribed \subseteq Clients /\ Cardinality(subscribed) <= MaxClients
    BY DEF IInv, TypeOK
  <2>2. Cardinality(subscribed) \in Nat /\ MaxClients \in Nat
    BY <2>1, SubscribedFinite, SequencerAssumption
  <2>3. CASE Cardinality(subscribed) = MaxClients \/ c \in subscribed
    BY <1>1, <2>3 DEF Subscribe, ArrivingIsNew
  <2>4. CASE Cardinality(subscribed) # MaxClients /\ c \notin subscribed
    BY <1>1, <2>1, <2>2, <2>4 DEF Subscribe, ArrivingIsNew, queueVars
  <2>5. QED
    BY <2>3, <2>4
<1>6. QED
  BY <1>2, <1>3, <1>4, <1>5 DEF IInv

(* insert adds one key, and no message.                                    *)
LEMMA InsertInv ==
    ASSUME IInv, Insert
    PROVE  IInv'
<1>1. /\ accepting = "insert" /\ accepting' = "reset" /\ subscribed' = subscribed \union {arriving}
      /\ UNCHANGED <<freed, queue, counter, lookup, mutex, runVars, arriving, open, pushing, history>>
  BY DEF Insert
<1>2. /\ subscribed \subseteq Clients /\ arriving \in Clients \ subscribed
      /\ Cardinality(subscribed) < MaxClients
  BY <1>1 DEF IInv, TypeOK, ArrivingIsNew
<1>3. /\ IsFiniteSet(subscribed) /\ Cardinality(subscribed) \in Nat /\ MaxClients \in Nat
  BY <1>2, SubscribedFinite, SequencerAssumption
<1>4. Cardinality(subscribed') = Cardinality(subscribed) + 1
  BY <1>1, <1>2, <1>3, FS_AddElement
<1>5. Cardinality(subscribed') <= MaxClients
  BY <1>2, <1>3, <1>4
<1>6. TypeOK'
  BY <1>1, <1>2, <1>5 DEF IInv, TypeOK, runVars, history
<1>7. EachOnceInOrder' /\ PushIsNext'
  BY <1>1, StreamsUnchanged DEF IInv, runVars, history
<1>8. HoldsOne' /\ ArrivingIsNew'
  BY <1>1 DEF IInv, HoldsOne, ArrivingIsNew, runVars
<1>9. QED
  BY <1>6, <1>7, <1>8 DEF IInv

(* mLookupIndex = begin() is a key: the map is not empty.                  *)
LEMMA ResetLookupInv ==
    ASSUME IInv, ResetLookup
    PROVE  IInv'
<1>1. /\ accepting = "reset" /\ accepting' = "idle" /\ lookup' = Begin /\ mutex' = "free"
      /\ bypass' = [c \in Clients |-> 0] /\ open' = open \union {arriving} /\ arriving' = End
      /\ UNCHANGED <<queueVars, runVars, pushing, accepted, handled>>
  BY DEF ResetLookup
<1>2. /\ subscribed \subseteq Clients /\ arriving \in subscribed /\ Begin \in subscribed
  <2>1. subscribed \subseteq Clients /\ arriving \in subscribed
    BY <1>1 DEF IInv, TypeOK, ArrivingIsNew
  <2>2. QED
    BY <2>1, BeginIsKey
<1>3. TypeOK'
  BY <1>1, <1>2 DEF IInv, TypeOK, queueVars, runVars
<1>4. EachOnceInOrder' /\ PushIsNext'
  BY <1>1, StreamsUnchanged DEF IInv, queueVars, runVars
<1>5. HoldsOne' /\ ArrivingIsNew'
  BY <1>1, <1>2 DEF IInv, HoldsOne, ArrivingIsNew, queueVars, runVars
<1>6. QED
  BY <1>3, <1>4, <1>5 DEF IInv

(* The steps that only move the threads.                                   *)
LEMMA ThreadStepInv ==
    ASSUME IInv,
           \/ LockToInsert \/ LockToAdvance \/ Shutdown
           \/ \E c \in Clients : Disconnect(c) \/ UnSubscribe(c)
    PROVE  IInv'
<1>1. UNCHANGED <<subscribed, queue, counter, lookup, polled, pushing, history>>
  BY DEF LockToInsert, LockToAdvance, Shutdown, Disconnect, UnSubscribe, queueVars, runVars, history
<1>2. EachOnceInOrder' /\ PushIsNext'
  BY <1>1, StreamsUnchanged DEF IInv, history
<1>3. TypeOK'
  <2>1. CASE LockToInsert
    BY <1>1, <2>1 DEF LockToInsert, queueVars, runVars, history, IInv, TypeOK
  <2>2. CASE LockToAdvance
    BY <1>1, <2>2 DEF LockToAdvance, queueVars, acceptVars, history, IInv, TypeOK
  <2>3. CASE Shutdown
    BY <1>1, <2>3 DEF Shutdown, queueVars, acceptVars, history, IInv, TypeOK
  <2>4. ASSUME NEW c \in Clients, Disconnect(c)
        PROVE  TypeOK'
    BY <1>1, <2>4 DEF Disconnect, queueVars, runVars, history, IInv, TypeOK
  <2>5. ASSUME NEW c \in Clients, UnSubscribe(c)
        PROVE  TypeOK'
    BY <1>1, <2>5 DEF UnSubscribe, acceptVars, history, IInv, TypeOK
  <2>6. QED
    BY <2>1, <2>2, <2>3, <2>4, <2>5
<1>4. HoldsOne' /\ ArrivingIsNew'
  BY <1>1 DEF LockToInsert, LockToAdvance, Shutdown, Disconnect, UnSubscribe, queueVars, runVars,
              acceptVars, history, IInv, HoldsOne, ArrivingIsNew
<1>5. QED
  BY <1>2, <1>3, <1>4 DEF IInv

-----------------------------------------------------------------------------
(* push takes the next number of its client.                               *)
LEMMA PushInv ==
    ASSUME IInv, NEW c \in Clients, Push(c)
    PROVE  IInv'
<1>1. /\ UNCHANGED <<queueVars, lookup, mutex, polled, stopped, acceptVars, history>>
      /\ pushing[c] = 0 /\ accepted[c] < MaxPushes
      /\ \/ run' = "undefined" /\ UNCHANGED pushing
         \/ pushing' = [pushing EXCEPT ![c] = accepted[c] + 1] /\ UNCHANGED run
  BY DEF Push, MessageMutexFree
<1>2. /\ accepted \in [Clients -> 0 .. MaxPushes] /\ pushing \in [Clients -> 0 .. MaxPushes]
      /\ accepted[c] + 1 \in 0 .. MaxPushes
  <2>1. accepted \in [Clients -> 0 .. MaxPushes] /\ pushing \in [Clients -> 0 .. MaxPushes]
    BY DEF IInv, TypeOK
  <2>2. accepted[c] \in 0 .. MaxPushes
    BY <2>1
  <2>3. QED
    BY <1>1, <2>1, <2>2, SequencerAssumption
<1>3. pushing' \in [Clients -> 0 .. MaxPushes] /\ PushIsNext'
  BY <1>1, <1>2 DEF IInv, PushIsNext, history
<1>4. TypeOK'
  BY <1>1, <1>3 DEF IInv, TypeOK, queueVars, acceptVars, history
<1>5. EachOnceInOrder'
  BY <1>1 DEF IInv, EachOnceInOrder, Held, queueVars, history
<1>6. HoldsOne' /\ ArrivingIsNew'
  BY <1>1 DEF IInv, HoldsOne, ArrivingIsNew, queueVars, acceptVars
<1>7. QED
  BY <1>3, <1>4, <1>5, <1>6 DEF IInv

(* A queue with one message more at its end.                               *)
LEMMA QueueAppend ==
    ASSUME NEW q \in Seq(1 .. MaxPushes), NEW m \in 1 .. MaxPushes
    PROVE  /\ Append(q, m) \in Seq(1 .. MaxPushes) /\ Len(Append(q, m)) = Len(q) + 1
           /\ Len(q) \in Nat /\ Append(q, m)[Len(q) + 1] = m
           /\ \A k \in 1 .. Len(q) : Append(q, m)[k] = q[k]
OBVIOUS

(* A queue without its head.                                               *)
LEMMA QueueTail ==
    ASSUME NEW q \in Seq(1 .. MaxPushes), q # <<>>
    PROVE  /\ Tail(q) \in Seq(1 .. MaxPushes) /\ Len(q) \in Nat \ {0} /\ Len(Tail(q)) = Len(q) - 1
           /\ Head(q) = q[1] /\ Head(q) \in 1 .. MaxPushes
           /\ \A k \in 1 .. Len(q) - 1 : Tail(q)[k] = q[k + 1]
<1>1. Len(q) \in Nat /\ Len(q) # 0
  OBVIOUS
<1>2. Head(q) = q[1] /\ 1 \in 1 .. Len(q)
  BY <1>1
<1>3. q[1] \in 1 .. MaxPushes
  BY <1>1, <1>2, ElementOfSeq
<1>4. Tail(q) \in Seq(1 .. MaxPushes) /\ Len(Tail(q)) = Len(q) - 1
  BY <1>1
<1>5. \A k \in 1 .. Len(q) - 1 : Tail(q)[k] = q[k + 1]
  BY <1>1
<1>6. QED
  BY <1>1, <1>2, <1>3, <1>4, <1>5

(* A message written is the last one of its stream.                        *)
LEMMA WriteInv ==
    ASSUME IInv, NEW c \in Clients, Write(c)
    PROVE  IInv'
<1>1. /\ pushing[c] # 0
      /\ UNCHANGED <<subscribed, freed, counter, lookup, mutex, polled, stopped, acceptVars,
                     handled, bypass>>
  BY DEF Write
<1>2. CASE c \in freed
  <2>1. run' = "undefined" /\ UNCHANGED <<queue, pushing, accepted>>
    BY <1>2 DEF Write
  <2>2. EachOnceInOrder' /\ PushIsNext'
    BY <1>1, <2>1, StreamsUnchanged DEF IInv
  <2>3. TypeOK' /\ HoldsOne' /\ ArrivingIsNew'
    BY <1>1, <2>1 DEF IInv, TypeOK, HoldsOne, ArrivingIsNew, acceptVars
  <2>4. QED
    BY <2>2, <2>3 DEF IInv
<1>3. CASE c \notin freed
  <2> DEFINE m == pushing[c]
  <2>1. /\ Len(queue[c]) < Capacity /\ queue' = [queue EXCEPT ![c] = Append(@, m)]
        /\ accepted' = [accepted EXCEPT ![c] = m] /\ pushing' = [pushing EXCEPT ![c] = 0]
        /\ UNCHANGED run
    BY <1>3 DEF Write
  <2>2. /\ m = accepted[c] + 1 /\ m \in 1 .. MaxPushes
        /\ queue \in [Clients -> Seq(1 .. MaxPushes)]
        /\ accepted \in [Clients -> 0 .. MaxPushes] /\ pushing \in [Clients -> 0 .. MaxPushes]
        /\ \A d \in Clients : Len(queue[d]) <= Capacity
    <3>1. /\ queue \in [Clients -> Seq(1 .. MaxPushes)]
          /\ accepted \in [Clients -> 0 .. MaxPushes] /\ pushing \in [Clients -> 0 .. MaxPushes]
          /\ \A d \in Clients : Len(queue[d]) <= Capacity
      BY DEF IInv, TypeOK
    <3>2. m = accepted[c] + 1
      BY <1>1 DEF IInv, PushIsNext
    <3>3. m \in 0 .. MaxPushes /\ m # 0
      BY <1>1, <3>1
    <3>4. QED
      BY <3>1, <3>2, <3>3, SequencerAssumption
  <2> HIDE DEF m
  <2>3. /\ queue'[c] = Append(queue[c], m) /\ accepted'[c] = m
        /\ \A d \in Clients : d # c => /\ queue'[d] = queue[d] /\ accepted'[d] = accepted[d]
                                       /\ pushing'[d] = pushing[d]
        /\ pushing'[c] = 0
    BY <2>1, <2>2
  <2>4. /\ queue'[c] \in Seq(1 .. MaxPushes) /\ Len(queue'[c]) = Len(queue[c]) + 1
        /\ Len(queue[c]) \in Nat /\ queue'[c][Len(queue[c]) + 1] = m
        /\ \A k \in 1 .. Len(queue[c]) : queue'[c][k] = queue[c][k]
    BY <2>2, <2>3, QueueAppend
  <2>5. TypeOK'
    <3>1. queue' \in [Clients -> Seq(1 .. MaxPushes)] /\ \A d \in Clients : Len(queue'[d]) <= Capacity
      BY <2>1, <2>2, <2>3, <2>4, SequencerAssumption
    <3>2. accepted' \in [Clients -> 0 .. MaxPushes] /\ pushing' \in [Clients -> 0 .. MaxPushes]
      BY <2>1, <2>2, SequencerAssumption
    <3>3. QED
      BY <1>1, <2>1, <3>1, <3>2 DEF IInv, TypeOK, acceptVars
  <2>6. \A d \in Clients : Held(d)' = Held(d)
    BY <1>1 DEF Held
  <2>7. EachOnceInOrder'
    <3>1. \A d \in Clients \ {c} :
             /\ Held(d)' = 1 => polled'[2] = handled'[d] + 1
             /\ \A k \in 1 .. Len(queue'[d]) : queue'[d][k] = handled'[d] + Held(d)' + k
             /\ accepted'[d] = handled'[d] + Held(d)' + Len(queue'[d])
      BY <1>1, <2>3, <2>6 DEF IInv, EachOnceInOrder
    <3>2. /\ Held(c) = 1 => polled[2] = handled[c] + 1
          /\ \A k \in 1 .. Len(queue[c]) : queue[c][k] = handled[c] + Held(c) + k
          /\ accepted[c] = handled[c] + Held(c) + Len(queue[c])
          /\ Held(c) \in {0, 1} /\ accepted[c] \in Nat /\ handled[c] \in Nat
      BY HeldTyped DEF IInv, EachOnceInOrder
    <3> DEFINE h == handled[c] + Held(c)
               n == Len(queue[c])
    <3>3. h \in Nat /\ n \in Nat /\ m = h + n + 1
      BY <2>2, <2>4, <3>2
    <3>4. /\ \A k \in 1 .. n : queue'[c][k] = h + k
          /\ queue'[c][n + 1] = m /\ Len(queue'[c]) = n + 1
      BY <2>4, <3>2
    <3> HIDE DEF h, n
    <3>5. \A k \in 1 .. Len(queue'[c]) : queue'[c][k] = h + k
      <4> SUFFICES ASSUME NEW k \in 1 .. n + 1 PROVE queue'[c][k] = h + k
        BY <3>4
      <4>1. CASE k = n + 1
        BY <3>3, <3>4, <4>1
      <4>2. CASE k # n + 1
        <5>1. k \in 1 .. n
          BY <3>3, <4>2
        <5>2. QED
          BY <3>4, <5>1
      <4>3. QED
        BY <4>1, <4>2
    <3>6. accepted'[c] = h + Len(queue'[c])
      BY <2>3, <3>3, <3>4
    <3>7. QED
      BY <1>1, <2>6, <3>1, <3>2, <3>5, <3>6 DEF EachOnceInOrder, h
  <2>8. PushIsNext'
    BY <2>3 DEF IInv, PushIsNext
  <2>9. HoldsOne' /\ ArrivingIsNew'
    BY <1>1, <2>1 DEF IInv, HoldsOne, ArrivingIsNew, acceptVars
  <2>10. QED
    BY <2>5, <2>7, <2>8, <2>9 DEF IInv
<1>4. QED
  BY <1>2, <1>3

(* CanPoll counts at most Ratio + 1 polls.                                 *)
LEMMA CanPollInv ==
    ASSUME IInv, CanPoll
    PROVE  IInv'
<1>1. /\ run = "turn"
      /\ UNCHANGED <<subscribed, freed, queue, lookup, mutex, polled, stopped, acceptVars,
                     pushing, history>>
  BY DEF CanPoll
<1>2. EachOnceInOrder' /\ PushIsNext'
  BY <1>1, StreamsUnchanged DEF IInv, history
<1>3. counter \in [Clients -> 0 .. Ratio + 1] /\ lookup \in subscribed \union {End} /\ subscribed \subseteq Clients
  BY DEF IInv, TypeOK
<1>4. polled = None
  BY <1>1 DEF IInv, HoldsOne
<1>5. /\ counter' \in [Clients -> 0 .. Ratio + 1]
      /\ run' \in {"lock", "undefined", "poll"}
      /\ run' = "poll" => lookup \in subscribed
  <2>1. CASE lookup = End \/ lookup \in freed
    BY <1>1, <1>3, <2>1 DEF CanPoll
  <2>2. CASE lookup # End /\ lookup \notin freed
    <3>1. lookup \in subscribed /\ lookup \in Clients /\ counter[lookup] \in 0 .. Ratio + 1
      BY <1>3, <2>2
    <3>2. CASE counter[lookup] <= Ratio
      <4>1. run' = "poll" /\ counter' = [counter EXCEPT ![lookup] = @ + 1]
        BY <2>2, <3>2 DEF CanPoll
      <4>2. counter[lookup] + 1 \in 0 .. Ratio + 1
        BY <3>1, <3>2, SequencerAssumption
      <4>3. QED
        BY <1>3, <3>1, <4>1, <4>2
    <3>3. CASE ~(counter[lookup] <= Ratio)
      <4>1. run' = "lock" /\ counter' = [counter EXCEPT ![lookup] = 0]
        BY <2>2, <3>3 DEF CanPoll
      <4>2. QED
        <5>1. 0 \in 0 .. Ratio + 1
          BY SequencerAssumption
        <5>2. QED
          BY <1>3, <4>1, <5>1
    <3>4. QED
      BY <3>2, <3>3
  <2>3. QED
    BY <2>1, <2>2
<1>6. TypeOK' /\ HoldsOne' /\ ArrivingIsNew'
  BY <1>1, <1>4, <1>5 DEF IInv, TypeOK, HoldsOne, ArrivingIsNew, acceptVars, history
<1>7. QED
  BY <1>2, <1>6 DEF IInv

(* The message polled leaves the queue for the consumer's hands.           *)
LEMMA PollInv ==
    ASSUME IInv, Poll
    PROVE  IInv'
<1>1. /\ run = "poll"
      /\ UNCHANGED <<subscribed, freed, counter, lookup, mutex, stopped, acceptVars, pushing,
                     accepted, handled>>
  BY DEF Poll
<1>2. /\ lookup \in Clients /\ lookup \in subscribed /\ polled = None
      /\ queue \in [Clients -> Seq(1 .. MaxPushes)] /\ bypass \in [Clients -> Nat]
      /\ \A d \in Clients : Len(queue[d]) <= Capacity
  BY <1>1 DEF IInv, TypeOK, HoldsOne
<1>3. CASE lookup \in freed \/ queue[lookup] = <<>>
  <2>1. run' \in {"undefined", "turn"} /\ UNCHANGED <<queue, polled, bypass>>
    BY <1>3 DEF Poll
  <2>2. EachOnceInOrder' /\ PushIsNext'
    BY <1>1, <2>1, StreamsUnchanged DEF IInv
  <2>3. TypeOK' /\ HoldsOne' /\ ArrivingIsNew'
    BY <1>1, <1>2, <2>1 DEF IInv, TypeOK, HoldsOne, ArrivingIsNew, acceptVars
  <2>4. QED
    BY <2>2, <2>3 DEF IInv
<1>4. CASE lookup \notin freed /\ queue[lookup] # <<>>
  <2> DEFINE m == Head(queue[lookup])
  <2>1. /\ run' = "handle" /\ polled' = <<lookup, m>>
        /\ queue' = [queue EXCEPT ![lookup] = Tail(@)]
        /\ bypass' = [c \in Clients |-> IF c = lookup \/ queue[c] = <<>> THEN 0 ELSE bypass[c] + 1]
    BY <1>4 DEF Poll
  <2>2. /\ Tail(queue[lookup]) \in Seq(1 .. MaxPushes) /\ Len(queue[lookup]) \in Nat \ {0}
        /\ Len(Tail(queue[lookup])) = Len(queue[lookup]) - 1
        /\ m = queue[lookup][1] /\ m \in 1 .. MaxPushes
        /\ \A k \in 1 .. Len(queue[lookup]) - 1 : Tail(queue[lookup])[k] = queue[lookup][k + 1]
    BY <1>2, <1>4, QueueTail
  <2> HIDE DEF m
  <2>3. /\ queue' \in [Clients -> Seq(1 .. MaxPushes)] /\ queue'[lookup] = Tail(queue[lookup])
        /\ \A d \in Clients : d # lookup => queue'[d] = queue[d]
    BY <1>2, <2>1, <2>2
  <2>4. /\ polled' # None /\ polled'[1] = lookup /\ polled'[2] = m
        /\ polled' \in Clients \X (1 .. MaxPushes)
    BY <1>2, <2>1, <2>2 DEF None
  <2>5. /\ \A d \in Clients : Held(d) = 0
        /\ \A d \in Clients : Held(d)' = IF d = lookup THEN 1 ELSE 0
    BY <1>2, <2>4 DEF Held
  <2>6. TypeOK'
    <3>1. bypass' \in [Clients -> Nat]
      BY <1>2, <2>1
    <3>2. \A d \in Clients : Len(queue'[d]) <= Capacity
      <4>1. Len(queue'[lookup]) <= Capacity
        <5>1. Len(queue'[lookup]) = Len(queue[lookup]) - 1 /\ Len(queue[lookup]) <= Capacity
          BY <1>2, <2>2, <2>3
        <5>2. QED
          BY <2>2, <5>1, SequencerAssumption
      <4>2. QED
        BY <1>2, <2>3, <4>1
    <3>3. QED
      BY <1>1, <2>1, <2>3, <2>4, <3>1, <3>2 DEF IInv, TypeOK, acceptVars
  <2>7. EachOnceInOrder'
    <3>1. \A d \in Clients \ {lookup} :
             /\ Held(d)' = 1 => polled'[2] = handled'[d] + 1
             /\ \A k \in 1 .. Len(queue'[d]) : queue'[d][k] = handled'[d] + Held(d)' + k
             /\ accepted'[d] = handled'[d] + Held(d)' + Len(queue'[d])
      BY <1>1, <2>3, <2>5 DEF IInv, EachOnceInOrder
    <3>2. /\ \A k \in 1 .. Len(queue[lookup]) : queue[lookup][k] = handled[lookup] + k
          /\ accepted[lookup] = handled[lookup] + Len(queue[lookup])
          /\ handled[lookup] \in Nat
      <4>1. handled[lookup] \in Nat /\ Len(queue[lookup]) \in Nat
        BY <1>2, HeldTyped DEF IInv
      <4>2. /\ \A k \in 1 .. Len(queue[lookup]) : queue[lookup][k] = handled[lookup] + 0 + k
            /\ accepted[lookup] = handled[lookup] + 0 + Len(queue[lookup])
        BY <1>2, <2>5 DEF IInv, EachOnceInOrder
      <4>3. QED
        BY <4>1, <4>2
    <3>3. m = handled[lookup] + 1
      BY <2>2, <3>2
    <3>4. \A k \in 1 .. Len(queue'[lookup]) : queue'[lookup][k] = handled[lookup] + 1 + k
      <4> SUFFICES ASSUME NEW k \in 1 .. Len(queue[lookup]) - 1
                   PROVE  queue[lookup][k + 1] = handled[lookup] + 1 + k
        BY <2>2, <2>3
      <4>1. k + 1 \in 1 .. Len(queue[lookup])
        BY <2>2
      <4>2. queue[lookup][k + 1] = handled[lookup] + (k + 1)
        BY <3>2, <4>1
      <4>3. handled[lookup] + (k + 1) = handled[lookup] + 1 + k
        <5>1. k \in Nat
          BY <2>2
        <5>2. handled[lookup] \in Nat
          BY <3>2
        <5>3. QED
          BY <5>1, <5>2
      <4>4. QED
        BY <4>2, <4>3
    <3>5. accepted[lookup] = handled[lookup] + 1 + Len(queue'[lookup])
      BY <2>2, <2>3, <3>2
    <3>6. QED
      BY <1>1, <1>2, <2>4, <2>5, <3>1, <3>3, <3>4, <3>5 DEF EachOnceInOrder
  <2>8. PushIsNext' /\ HoldsOne' /\ ArrivingIsNew'
    BY <1>1, <2>1, <2>4 DEF IInv, PushIsNext, HoldsOne, ArrivingIsNew, acceptVars
  <2>9. QED
    BY <2>6, <2>7, <2>8 DEF IInv
<1>5. QED
  BY <1>3, <1>4

(* The message handled leaves the consumer's hands.                        *)
LEMMA OnMessageInv ==
    ASSUME IInv, OnMessage
    PROVE  IInv'
<1>1. /\ run = "handle" /\ run' = "turn" /\ polled' = None
      /\ handled' = [handled EXCEPT ![polled[1]] = polled[2]]
      /\ UNCHANGED <<queueVars, lookup, mutex, stopped, acceptVars, pushing, accepted, bypass>>
  BY DEF OnMessage
<1> DEFINE c == polled[1]
<1>2. /\ polled # None /\ c \in Clients /\ polled[2] \in 1 .. MaxPushes
      /\ \A d \in Clients : Held(d) = IF d = c THEN 1 ELSE 0
  BY <1>1, HeldTyped DEF IInv, HoldsOne, Held
<1>3. handled \in [Clients -> 0 .. MaxPushes]
  BY DEF IInv, TypeOK
<1> HIDE DEF c
<1>4. /\ handled' \in [Clients -> 0 .. MaxPushes] /\ handled'[c] = polled[2]
      /\ \A d \in Clients : d # c => handled'[d] = handled[d]
  BY <1>1, <1>2, <1>3, SequencerAssumption DEF c
<1>5. \A d \in Clients : Held(d)' = 0
  BY <1>1 DEF Held
<1>6. EachOnceInOrder'
  <2> SUFFICES ASSUME NEW d \in Clients
               PROVE  /\ \A k \in 1 .. Len(queue[d]) : queue[d][k] = handled'[d] + 0 + k
                      /\ accepted[d] = handled'[d] + 0 + Len(queue[d])
    BY <1>1, <1>5 DEF EachOnceInOrder, queueVars
  <2>1. /\ Held(d) = 1 => polled[2] = handled[d] + 1
        /\ \A k \in 1 .. Len(queue[d]) : queue[d][k] = handled[d] + Held(d) + k
        /\ accepted[d] = handled[d] + Held(d) + Len(queue[d])
    BY DEF IInv, EachOnceInOrder
  <2>2. handled[d] \in Nat /\ Len(queue[d]) \in Nat
    BY HeldTyped DEF IInv
  <2>3. handled[d] + Held(d) = handled'[d]
    BY <1>2, <1>4, <2>1, <2>2
  <2>4. handled'[d] \in Nat
    BY <1>4
  <2>5. QED
    BY <2>1, <2>2, <2>3, <2>4
<1>7. TypeOK' /\ PushIsNext' /\ HoldsOne' /\ ArrivingIsNew'
  BY <1>1, <1>4 DEF IInv, TypeOK, PushIsNext, HoldsOne, ArrivingIsNew, queueVars, acceptVars
<1>8. QED
  BY <1>6, <1>7 DEF IInv

(* The next turn is that of a key, or of none.                             *)
LEMMA AdvanceInv ==
    ASSUME IInv, Advance
    PROVE  IInv'
<1>1. /\ run = "advance" /\ run' \in {"returned", "turn"} /\ mutex' = "free"
      /\ lookup' = IF lookup = End THEN Begin ELSE After(lookup)
      /\ UNCHANGED <<queueVars, polled, stopped, acceptVars, pushing, history>>
  BY DEF Advance
<1>2. lookup' \in subscribed \union {End}
  BY <1>1, BeginIsKey DEF IInv, TypeOK
<1>3. EachOnceInOrder' /\ PushIsNext'
  BY <1>1, StreamsUnchanged DEF IInv, queueVars, history
<1>4. TypeOK' /\ HoldsOne' /\ ArrivingIsNew'
  BY <1>1, <1>2 DEF IInv, TypeOK, HoldsOne, ArrivingIsNew, queueVars, acceptVars, history
<1>5. QED
  BY <1>3, <1>4 DEF IInv

(* Every step keeps the invariant.                                         *)
LEMMA NextInv ==
    ASSUME IInv, [Next]_vars
    PROVE  IInv'
<1>1. CASE Consume
  BY <1>1, CanPollInv, PollInv, OnMessageInv, AdvanceInv, ThreadStepInv DEF Consume
<1>2. CASE Accept
  BY <1>2, InsertInv, ResetLookupInv, ThreadStepInv DEF Accept
<1>3. ASSUME NEW c \in Clients,
             Subscribe(c) \/ Disconnect(c) \/ UnSubscribe(c) \/ Push(c) \/ Write(c)
      PROVE  IInv'
  BY <1>3, SubscribeInv, PushInv, WriteInv, ThreadStepInv
<1>4. CASE Shutdown
  BY <1>4, ThreadStepInv
<1>5. CASE UNCHANGED vars
  <2>1. EachOnceInOrder' /\ PushIsNext'
    BY <1>5, StreamsUnchanged DEF IInv, vars, queueVars, runVars, history
  <2>2. TypeOK' /\ HoldsOne' /\ ArrivingIsNew'
    BY <1>5 DEF IInv, TypeOK, HoldsOne, ArrivingIsNew, vars, queueVars, runVars, acceptVars, history
  <2>3. QED
    BY <2>1, <2>2 DEF IInv
<1>6. QED
  BY <1>1, <1>2, <1>3, <1>4, <1>5 DEF Next

-----------------------------------------------------------------------------
(* The inductive invariant of the sequencer.                               *)
THEOREM SequencerInvariant == Spec => []IInv
<1>1. IInv /\ [Next]_vars => IInv'
  BY NextInv
<1>2. QED
  BY InitInv, <1>1, PTL DEF Spec

(* mLookupIndex is always a key of the map or end(), and every variable    *)
(* keeps its type.                                                         *)
THEOREM SequencerTyped == Spec => []TypeOK
<1>1. IInv => TypeOK
  BY DEF IInv
<1>2. QED
  BY SequencerInvariant, <1>1, PTL

(* The messages of a client are handled once each, in the order pushed.    *)
THEOREM StreamsKept == Spec => []EachOnceInOrder
<1>1. IInv => EachOnceInOrder
  BY DEF IInv
<1>2. QED
  BY SequencerInvariant, <1>1, PTL

-----------------------------------------------------------------------------
(* No client is starved.  The polls of others that come before a turn of a *)
(* client, counted in turns of Ratio + 1.                                  *)
Turns(n) == n * (Ratio + 1)

(* The clients that have a whole turn before the next one of c.            *)
Before(c) ==
    IF lookup = End THEN {d \in subscribed : d < c}
    ELSE IF lookup < c THEN {d \in subscribed : lookup < d /\ d < c}
    ELSE {d \in subscribed : lookup < d \/ d < c}

(* What is left of the turn that goes on: a reset of mLookupIndex between  *)
(* CanPoll and poll makes it one more than mCounter says.                  *)
LeftOfTurn ==
    IF lookup = End \/ run \notin {"turn", "poll", "handle"} THEN 0
    ELSE Ratio + 1 - counter[lookup] + (IF run = "poll" THEN 1 ELSE 0)

(* A client whose mCounter is spent misses its next turn.                  *)
Missed(c) == IF counter[c] > Ratio THEN Turns(Cardinality(subscribed) - 1) ELSE 0

(* The polls of others that can come before the next poll of c.            *)
Coming(c) ==
    IF run \in {"returned", "undefined"} \/ (lookup = c /\ run = "poll") THEN 0
    ELSE IF lookup = c
    THEN (IF run \in {"lock", "advance"} THEN Turns(Cardinality(subscribed) - 1) ELSE 0) + Missed(c)
    ELSE LeftOfTurn + Turns(Cardinality(Before(c))) + Missed(c)

(* Who has no message waiting is not bypassed, and only a key has some.    *)
Unwaited ==
    \A c \in Clients : /\ queue[c] = <<>> => bypass[c] = 0
                       /\ c \notin subscribed => queue[c] = <<>> /\ pushing[c] = 0

(* The messages that passed c and those that may still pass it are within  *)
(* the bound.                                                              *)
TurnsComing ==
    \A c \in subscribed : bypass[c] + Coming(c) <= 2 * Turns(Cardinality(subscribed) - 1) + 1

(* What is inductive, next to IInv, for BoundedBypass.                     *)
BypassInv == Unwaited /\ TurnsComing

-----------------------------------------------------------------------------
(* A turn more is Ratio + 1 polls more.                                    *)
LEMMA TurnsGrow ==
    /\ \A n \in Nat : Turns(n) \in Nat /\ Turns(n + 1) = Turns(n) + Ratio + 1
    /\ \A m, n \in Nat : m <= n => Turns(m) <= Turns(n)
    /\ \A n \in Nat : 2 * n * (Ratio + 1) + 1 = 2 * Turns(n) + 1
<1>1. PICK r \in Nat : r = Ratio + 1
  BY SequencerAssumption
<1>2. \A n \in Nat : n * r \in Nat /\ (n + 1) * r = n * r + r /\ 2 * n * r = 2 * (n * r)
  BY <1>1
<1>3. \A m, n \in Nat : m <= n => m * r <= n * r
  <2> SUFFICES ASSUME NEW m \in Nat, NEW n \in Nat, m <= n PROVE m * r <= n * r
    OBVIOUS
  <2>1. PICK k \in Nat : n = m + k
    <3>1. n - m \in Nat /\ n = m + (n - m)
      OBVIOUS
    <3> QED BY <3>1
  <2>2. n * r = m * r + k * r /\ m * r \in Nat /\ k * r \in Nat
    BY <1>1, <2>1
  <2> QED BY <2>2
<1> QED BY <1>1, <1>2, <1>3, SequencerAssumption DEF Turns

(* The types the argument needs.                                           *)
LEMMA TurnTypes ==
    ASSUME TypeOK
    PROVE  /\ IsFiniteSet(subscribed) /\ Cardinality(subscribed) \in Nat /\ subscribed \subseteq Nat \ {0}
           /\ lookup \in Nat /\ lookup \in subscribed \union {0} /\ End = 0
           /\ \A c \in subscribed : c \in Clients /\ counter[c] \in 0..Ratio + 1 /\ bypass[c] \in Nat
           /\ \A c \in subscribed : Cardinality(subscribed) >= 1
           /\ \A c \in subscribed : Cardinality(subscribed \ {c}) = Cardinality(subscribed) - 1
           /\ Ratio \in Nat
<1>1. subscribed \subseteq Clients /\ IsFiniteSet(subscribed) /\ Cardinality(subscribed) \in Nat
  BY SubscribedFinite DEF TypeOK
<1>2. \A c \in subscribed : Cardinality(subscribed) >= 1
  BY <1>1, FS_EmptySet
<1>3. \A c \in subscribed : Cardinality(subscribed \ {c}) = Cardinality(subscribed) - 1
  BY <1>1, FS_RemoveElement
<1>4. subscribed \subseteq Nat \ {0} /\ End = 0 /\ lookup \in Nat /\ lookup \in subscribed \union {0}
  BY <1>1, SequencerAssumption DEF TypeOK, End
<1>5. \A c \in subscribed : c \in Clients /\ counter[c] \in 0..Ratio + 1 /\ bypass[c] \in Nat
  BY <1>1 DEF TypeOK
<1>6. Ratio \in Nat
  BY SequencerAssumption
<1> QED BY <1>1, <1>2, <1>3, <1>4, <1>5, <1>6

(* Neither the client itself nor the one whose turn it is comes before.    *)
LEMMA BeforeBounded ==
    ASSUME TypeOK, NEW c \in subscribed
    PROVE  /\ IsFiniteSet(Before(c)) /\ Cardinality(Before(c)) \in Nat
           /\ Before(c) \subseteq subscribed \ {c} /\ lookup \notin Before(c)
           /\ Cardinality(Before(c)) <= Cardinality(subscribed) - 1
           /\ lookup \notin {End, c} => Cardinality(Before(c)) <= Cardinality(subscribed) - 2
<1>1. Before(c) \subseteq subscribed \ {c} /\ lookup \notin Before(c)
  BY TurnTypes DEF Before
<1>2. IsFiniteSet(subscribed \ {c}) /\ Cardinality(subscribed \ {c}) = Cardinality(subscribed) - 1
  BY TurnTypes, FS_RemoveElement
<1>3. /\ IsFiniteSet(Before(c)) /\ Cardinality(Before(c)) \in Nat
      /\ Cardinality(Before(c)) <= Cardinality(subscribed) - 1
  BY <1>1, <1>2, FS_Subset, FS_CardinalityType
<1>4. ASSUME lookup \notin {End, c} PROVE Cardinality(Before(c)) <= Cardinality(subscribed) - 2
  <2>1. lookup \in subscribed \ {c} /\ Before(c) \subseteq (subscribed \ {c}) \ {lookup}
    BY <1>1, <1>4, TurnTypes
  <2>2. /\ IsFiniteSet((subscribed \ {c}) \ {lookup})
        /\ Cardinality((subscribed \ {c}) \ {lookup}) = Cardinality(subscribed \ {c}) - 1
    BY <1>2, <2>1, FS_RemoveElement
  <2>3. Cardinality(Before(c)) <= Cardinality((subscribed \ {c}) \ {lookup})
    BY <2>1, <2>2, FS_Subset
  <2> QED BY <1>2, <2>2, <2>3, TurnTypes
<1> QED BY <1>1, <1>3, <1>4

(* Whatever the state, what comes before a turn of c is within the bound.  *)
LEMMA ComingBounded ==
    TypeOK => \A c \in subscribed :
        Coming(c) \in Nat /\ Coming(c) <= 2 * Turns(Cardinality(subscribed) - 1) + 1
<1> SUFFICES ASSUME TypeOK, NEW c \in subscribed
             PROVE  Coming(c) \in Nat /\ Coming(c) <= 2 * Turns(Cardinality(subscribed) - 1) + 1
  OBVIOUS
<1>1. PICK n \in Nat : n = Cardinality(subscribed) - 1
  BY TurnTypes
<1>2. Turns(n) \in Nat /\ Missed(c) \in Nat /\ Missed(c) <= Turns(n)
  <2>1. Turns(n) \in Nat
    BY TurnsGrow
  <2>2. Missed(c) = 0 \/ Missed(c) = Turns(n)
    BY <1>1 DEF Missed
  <2> QED BY <2>1, <2>2
<1>3. CASE lookup = c \/ run \in {"returned", "undefined"}
  <2>1. \/ Coming(c) = 0 \/ Coming(c) = Missed(c) \/ Coming(c) = 0 + Missed(c)
        \/ Coming(c) = Turns(n) + Missed(c)
    BY <1>1, <1>3 DEF Coming
  <2> QED BY <1>1, <1>2, <2>1
<1>4. CASE lookup # c /\ lookup = End
  <2>1. Cardinality(Before(c)) \in Nat /\ Cardinality(Before(c)) <= n
    BY <1>1, BeforeBounded
  <2>2. Turns(Cardinality(Before(c))) \in Nat /\ Turns(Cardinality(Before(c))) <= Turns(n)
    BY <2>1, TurnsGrow
  <2>3. LeftOfTurn = 0
    BY <1>4 DEF LeftOfTurn
  <2> QED BY <1>1, <1>2, <1>4, <2>2, <2>3 DEF Coming
<1>5. CASE lookup # c /\ lookup # End
  <2>1. Cardinality(Before(c)) \in Nat /\ Cardinality(Before(c)) + 1 <= n
    BY <1>1, <1>5, BeforeBounded, TurnTypes
  <2>2. /\ Turns(Cardinality(Before(c))) \in Nat
        /\ Turns(Cardinality(Before(c))) + Ratio + 1 <= Turns(n)
    BY <2>1, TurnsGrow
  <2>3. LeftOfTurn \in Nat /\ LeftOfTurn <= Ratio + 2
    BY <1>5, TurnTypes DEF LeftOfTurn
  <2> QED BY <1>1, <1>2, <1>5, <2>2, <2>3, TurnTypes DEF Coming
<1> QED BY <1>3, <1>4, <1>5

(* ... and after the step.                                                 *)
LEMMA ComingBoundedNext ==
    (TypeOK => \A c \in subscribed :
        Coming(c) \in Nat /\ Coming(c) <= 2 * Turns(Cardinality(subscribed) - 1) + 1)'
BY ComingBounded, PTL

(* Who was bypassed no more often has less to wait for.                    *)
LEMMA LessComing ==
    ASSUME TypeOK, TypeOK', TurnsComing, subscribed' = subscribed,
           \A c \in subscribed : \/ bypass'[c] = 0
                                 \/ bypass'[c] + Coming(c)' <= bypass[c] + Coming(c)
    PROVE  TurnsComing'
<1> SUFFICES ASSUME NEW c \in subscribed
             PROVE  bypass'[c] + Coming(c)' <= 2 * Turns(Cardinality(subscribed) - 1) + 1
  BY DEF TurnsComing, Turns
<1>1. Coming(c)' \in Nat /\ Coming(c)' <= 2 * Turns(Cardinality(subscribed) - 1) + 1
  BY ComingBoundedNext DEF Turns
<1>2. PICK n \in Nat : n = Cardinality(subscribed) - 1
  BY TurnTypes
<1>3. bypass[c] \in Nat /\ bypass'[c] \in Nat /\ Coming(c) \in Nat /\ Turns(n) \in Nat
  BY <1>2, TurnTypes, ComingBounded, TurnsGrow DEF TypeOK
<1>4. bypass[c] + Coming(c) <= 2 * Turns(n) + 1
  BY <1>2 DEF TurnsComing
<1> QED BY <1>1, <1>2, <1>3, <1>4

(* A step that leaves the turns alone.                                     *)
LEMMA TurnsKept ==
    ASSUME TypeOK, TypeOK', TurnsComing, UNCHANGED <<subscribed, lookup, counter, bypass>>,
           run' = run \/ run' \in {"returned", "undefined"}
    PROVE  TurnsComing'
<1>1. ASSUME NEW c \in subscribed PROVE bypass'[c] + Coming(c)' <= bypass[c] + Coming(c)
  <2>1. Coming(c) \in Nat /\ bypass[c] \in Nat
    BY ComingBounded, TurnTypes
  <2>2. CASE run' = run
    <3>1. Coming(c)' = Coming(c)
      BY <2>2 DEF Coming, LeftOfTurn, Before, Missed, Turns
    <3> QED BY <2>1, <3>1
  <2>3. CASE run' \in {"returned", "undefined"}
    <3>1. Coming(c)' = 0
      BY <2>3 DEF Coming
    <3> QED BY <2>1, <3>1
  <2> QED BY <2>2, <2>3
<1> QED BY <1>1, LessComing

(* CanPoll: mCounter counts the poll that is granted; a turn that ends was *)
(* spent, and mCounter is spent no more.                                   *)
LEMMA CanPollTurns ==
    ASSUME TypeOK, TypeOK', TurnsComing, CanPoll PROVE TurnsComing'
<1>1. /\ run = "turn" /\ lookup' = lookup /\ subscribed' = subscribed /\ bypass' = bypass
  BY DEF CanPoll, history
<1>2. ASSUME NEW c \in subscribed PROVE bypass'[c] + Coming(c)' <= bypass[c] + Coming(c)
  <2>1. Coming(c) \in Nat /\ bypass[c] \in Nat /\ Coming(c)' \in Nat
    BY <1>1, ComingBounded, ComingBoundedNext, TurnTypes
  <2>2. PICK n \in Nat : n = Cardinality(subscribed) - 1
    BY TurnTypes
  <2>3. PICK t \in Nat : t = Turns(Cardinality(Before(c)))
    BY BeforeBounded, TurnsGrow
  <2>4. Before(c)' = Before(c) /\ Turns(Cardinality(Before(c)))' = t
    BY <1>1, <2>3 DEF Before, Turns
  <2>5. CASE lookup = End
    <3>1. run' = "lock" /\ counter' = counter
      BY <2>5 DEF CanPoll
    <3>2. LeftOfTurn = 0 /\ LeftOfTurn' = 0 /\ Missed(c)' = Missed(c)
      BY <1>1, <2>5, <3>1 DEF LeftOfTurn, Missed, Turns
    <3>3. lookup # c
      BY <2>5, TurnTypes
    <3> QED BY <1>1, <2>1, <2>3, <2>4, <3>1, <3>2, <3>3 DEF Coming
  <2>6. CASE lookup # End /\ lookup \in freed
    BY <1>1, <2>1, <2>6 DEF CanPoll, Coming
  <2>7. CASE lookup # End /\ lookup \notin freed /\ counter[lookup] <= Ratio
    <3>1. run' = "poll" /\ counter' = [counter EXCEPT ![lookup] = @ + 1]
      BY <2>7 DEF CanPoll
    <3>2. lookup \in subscribed /\ lookup \in Clients /\ counter[lookup] \in 0..Ratio
      BY <2>7, TurnTypes
    <3>3. CASE lookup = c
      BY <1>1, <2>1, <3>1, <3>3 DEF Coming
    <3>4. CASE lookup # c
      <4>1. counter'[lookup] = counter[lookup] + 1 /\ counter'[c] = counter[c]
        BY <3>1, <3>2, <3>4, TurnTypes DEF TypeOK
      <4>2. LeftOfTurn' = LeftOfTurn /\ LeftOfTurn \in Nat
        BY <1>1, <2>7, <3>1, <3>2, <4>1, TurnTypes DEF LeftOfTurn
      <4>3. Missed(c)' = Missed(c)
        BY <1>1, <4>1 DEF Missed, Turns
      <4> QED BY <1>1, <2>1, <2>3, <2>4, <3>1, <3>4, <4>2, <4>3 DEF Coming
    <3> QED BY <3>3, <3>4
  <2>8. CASE lookup # End /\ lookup \notin freed /\ ~(counter[lookup] <= Ratio)
    <3>1. run' = "lock" /\ counter' = [counter EXCEPT ![lookup] = 0]
      BY <2>8 DEF CanPoll
    <3>2. lookup \in subscribed /\ lookup \in Clients /\ counter[lookup] = Ratio + 1
      BY <2>8, TurnTypes
    <3>3. CASE lookup = c
      <4>1. counter[c] > Ratio /\ ~(counter'[c] > Ratio)
        <5>1. DOMAIN counter = Clients /\ Ratio \in Nat
          BY TurnTypes DEF TypeOK
        <5>2. counter'[c] = 0 /\ counter[c] = Ratio + 1
          BY <3>1, <3>2, <3>3, <5>1
        <5> QED BY <5>1, <5>2
      <4>2. Missed(c)' = 0 /\ Missed(c) = Turns(n)
        BY <2>2, <4>1 DEF Missed
      <4>3. Turns(n)' = Turns(n) /\ Turns(n) \in Nat
        BY TurnsGrow DEF Turns
      <4>4. Coming(c) = 0 + Turns(n) /\ Coming(c)' = Turns(Cardinality(subscribed) - 1)' + 0
        BY <1>1, <3>1, <3>3, <4>2 DEF Coming
      <4>5. Turns(Cardinality(subscribed) - 1)' = Turns(n)
        BY <1>1, <2>2 DEF Turns
      <4> QED BY <1>1, <2>1, <4>3, <4>4, <4>5
    <3>4. CASE lookup # c
      <4>1. counter'[c] = counter[c]
        BY <3>1, <3>2, <3>4, TurnTypes DEF TypeOK
      <4>2. LeftOfTurn' = 0 /\ LeftOfTurn = 0
        BY <1>1, <2>8, <3>1, <3>2, TurnTypes DEF LeftOfTurn
      <4>3. Missed(c)' = Missed(c)
        BY <1>1, <4>1 DEF Missed, Turns
      <4> QED BY <1>1, <2>1, <2>3, <2>4, <3>1, <3>4, <4>2, <4>3 DEF Coming
    <3> QED BY <3>3, <3>4
  <2> QED BY <2>5, <2>6, <2>7, <2>8
<1> QED BY <1>1, <1>2, LessComing

(* Poll: a message of another passes, and the turn has one poll less.      *)
LEMMA PollTurns ==
    ASSUME TypeOK, TypeOK', HoldsOne, Unwaited, TurnsComing, Poll PROVE TurnsComing'
<1>1. /\ run = "poll" /\ lookup' = lookup /\ subscribed' = subscribed /\ counter' = counter
      /\ run' \in {"undefined", "turn", "handle"}
      /\ lookup \in subscribed
  BY DEF Poll, HoldsOne
<1>2. ASSUME NEW c \in subscribed
      PROVE  bypass'[c] = 0 \/ bypass'[c] + Coming(c)' <= bypass[c] + Coming(c)
  <2>1. Coming(c) \in Nat /\ bypass[c] \in Nat /\ c \in Clients
    BY ComingBounded, TurnTypes
  <2>2. CASE run' = "undefined"
    BY <2>1, <2>2 DEF Poll, Coming
  <2>3. CASE run' # "undefined" /\ lookup = c
    BY <2>1, <2>3 DEF Poll, Unwaited
  <2>4. CASE run' # "undefined" /\ lookup # c
    <3>1. \/ bypass'[c] \in {0, bypass[c]}
          \/ bypass'[c] = bypass[c] + 1
      BY <2>1 DEF Poll
    <3>2. Before(c)' = Before(c) /\ Missed(c)' = Missed(c)
      BY <1>1 DEF Before, Missed, Turns
    <3>3. LeftOfTurn = LeftOfTurn' + 1 /\ LeftOfTurn' \in Nat
      BY <1>1, <2>4, TurnTypes DEF LeftOfTurn
    <3>4. Turns(Cardinality(Before(c))) \in Nat /\ Turns(Cardinality(Before(c)))' = Turns(Cardinality(Before(c)))
      BY <3>2, BeforeBounded, TurnsGrow
    <3>5. Coming(c) = LeftOfTurn + Turns(Cardinality(Before(c))) + Missed(c)
      BY <1>1, <2>4 DEF Coming
    <3>6. Coming(c)' = LeftOfTurn' + Turns(Cardinality(Before(c))) + Missed(c)
      BY <1>1, <2>4, <3>2, <3>4 DEF Coming, Turns
    <3>7. Missed(c) \in Nat
      <4>1. PICK n \in Nat : n = Cardinality(subscribed) - 1
        BY TurnTypes
      <4>2. Turns(n) \in Nat
        BY TurnsGrow
      <4> QED BY <4>1, <4>2 DEF Missed
    <3> QED BY <2>1, <3>1, <3>3, <3>4, <3>5, <3>6, <3>7
  <2> QED BY <2>2, <2>3, <2>4
<1> QED BY <1>1, <1>2, LessComing

(* OnMessage and LockToAdvance: the turn goes on, or has ended.            *)
LEMMA TurnGoesOn ==
    ASSUME TypeOK, TypeOK', TurnsComing, OnMessage \/ LockToAdvance PROVE TurnsComing'
<1>1. /\ lookup' = lookup /\ subscribed' = subscribed /\ counter' = counter /\ bypass' = bypass
      /\ \/ run = "handle" /\ run' = "turn"
         \/ run = "lock" /\ run' = "advance"
  BY DEF OnMessage, LockToAdvance, queueVars, history
<1>2. ASSUME NEW c \in subscribed PROVE bypass'[c] + Coming(c)' <= bypass[c] + Coming(c)
  <2>1. Coming(c) \in Nat /\ bypass[c] \in Nat
    BY ComingBounded, TurnTypes
  <2>2. Before(c)' = Before(c) /\ Missed(c)' = Missed(c) /\ LeftOfTurn' = LeftOfTurn
    BY <1>1 DEF Before, Missed, LeftOfTurn, Turns
  <2>3. Coming(c)' = Coming(c)
    BY <1>1, <2>2 DEF Coming, Turns
  <2> QED BY <1>1, <2>1, <2>3
<1> QED BY <1>1, <1>2, LessComing

(* ++mLookupIndex takes the turns round robin: the next turn is that of c, *)
(* or of the first of those before c, or the round starts again.           *)
LEMMA NextTurn ==
    ASSUME TypeOK, NEW c \in subscribed, lookup # c, subscribed' = subscribed,
           lookup' = IF lookup = End THEN Begin ELSE After(lookup)
    PROVE  \/ lookup' = c
           \/ lookup' = End /\ Before(c)' = Before(c)
           \/ lookup' \in Before(c) /\ Before(c)' = Before(c) \ {lookup'}
<1>1. /\ subscribed \subseteq Nat \ {0} /\ c \in Nat /\ c # End /\ End = 0
      /\ lookup \in Nat
  BY TurnTypes
<1>2. \A S \in SUBSET subscribed : S # {} => Min(S) \in S /\ \A y \in S : Min(S) <= y
  <2> SUFFICES ASSUME NEW S \in SUBSET subscribed, S # {}
               PROVE  Min(S) \in S /\ \A y \in S : Min(S) <= y
    OBVIOUS
  <2>1. S \subseteq Nat
    BY <1>1
  <2> QED BY <2>1, MinOfNats
<1>3. CASE lookup = End
  <2>1. lookup' = Min(subscribed)
    BY <1>3 DEF Begin
  <2>2. lookup' \in subscribed /\ \A y \in subscribed : lookup' <= y
    BY <1>2, <2>1
  <2>3. Before(c) = {d \in subscribed : d < c}
    BY <1>3 DEF Before
  <2>4. ASSUME lookup' # c PROVE lookup' < c
    BY <1>1, <2>2, <2>4
  <2>5. ASSUME lookup' < c PROVE Before(c)' = {d \in subscribed : lookup' < d /\ d < c}
    BY <1>1, <2>2, <2>5 DEF Before
  <2>6. ASSUME lookup' < c PROVE lookup' \in Before(c) /\ Before(c)' = Before(c) \ {lookup'}
    <3>1. \A d \in subscribed : lookup' < d <=> d # lookup'
      BY <1>1, <2>2
    <3>2. lookup' \in Before(c)
      BY <2>2, <2>3, <2>6
    <3> QED BY <2>3, <2>5, <2>6, <3>1, <3>2
  <2> QED BY <2>4, <2>6
<1>4. CASE lookup # End
  <2> DEFINE later == {d \in subscribed : d > lookup}
  <2>1. lookup' = IF later = {} THEN End ELSE Min(later)
    BY <1>4 DEF After
  <2>2. CASE later = {}
    <3>1. lookup' = End /\ ~(lookup < c) /\ c < lookup
      BY <1>1, <2>1, <2>2
    <3>2. Before(c) = {d \in subscribed : lookup < d \/ d < c}
      BY <1>1, <1>4, <3>1 DEF Before
    <3>3. Before(c)' = {d \in subscribed : d < c}
      BY <3>1 DEF Before, End
    <3>4. \A d \in subscribed : ~(lookup < d)
      BY <1>1, <2>2
    <3>5. Before(c)' = Before(c)
      BY <3>2, <3>3, <3>4
    <3> QED BY <3>1, <3>5
  <2>3. CASE later # {}
    <3>1. lookup' = Min(later) /\ lookup' \in later /\ \A y \in later : lookup' <= y
      BY <1>2, <2>1, <2>3
    <3>2. lookup' \in subscribed /\ lookup' > lookup /\ lookup' \in Nat /\ lookup' # End
      BY <1>1, <3>1
    <3>3. \A d \in subscribed : d > lookup => lookup' <= d
      BY <3>1
    <3>4. CASE lookup < c
      <4>1. Before(c) = {d \in subscribed : lookup < d /\ d < c}
        BY <1>4, <3>4 DEF Before
      <4>2. lookup' <= c
        BY <1>1, <3>3, <3>4
      <4>3. ASSUME lookup' # c PROVE lookup' \in Before(c) /\ Before(c)' = Before(c) \ {lookup'}
        <5>1. lookup' < c
          BY <1>1, <3>2, <4>2, <4>3
        <5>2. Before(c)' = {d \in subscribed : lookup' < d /\ d < c}
          BY <3>2, <5>1 DEF Before, End
        <5>3. \A d \in subscribed : lookup' < d <=> lookup < d /\ d # lookup'
          BY <1>1, <3>2, <3>3
        <5>4. lookup' \in Before(c)
          BY <1>1, <3>2, <4>1, <5>1
        <5> QED BY <4>1, <5>2, <5>3, <5>4
      <4> QED BY <4>3
    <3>5. CASE ~(lookup < c)
      <4>1. Before(c) = {d \in subscribed : lookup < d \/ d < c}
        BY <1>4, <3>5 DEF Before
      <4>2. c < lookup /\ ~(lookup' < c) /\ c < lookup'
        BY <1>1, <3>2, <3>5
      <4>3. Before(c)' = {d \in subscribed : lookup' < d \/ d < c}
        BY <3>2, <4>2 DEF Before, End
      <4>4. \A d \in subscribed : lookup' < d \/ d < c <=> (lookup < d \/ d < c) /\ d # lookup'
        BY <1>1, <3>2, <3>3, <4>2
      <4>5. lookup' \in Before(c)
        BY <1>1, <3>2, <4>1
      <4> QED BY <4>1, <4>3, <4>4, <4>5
    <3> QED BY <3>4, <3>5
  <2> QED BY <2>2, <2>3
<1> QED BY <1>3, <1>4

(* What BeforeBounded says after the step.                                 *)
LEMMA BeforeBoundedNext ==
    (TypeOK => \A c \in subscribed :
        /\ Cardinality(Before(c)) \in Nat
        /\ lookup \notin {End, c} => Cardinality(Before(c)) <= Cardinality(subscribed) - 2
        /\ Cardinality(Before(c)) <= Cardinality(subscribed) - 1)'
<1>1. TypeOK => \A c \in subscribed :
        /\ Cardinality(Before(c)) \in Nat
        /\ lookup \notin {End, c} => Cardinality(Before(c)) <= Cardinality(subscribed) - 2
        /\ Cardinality(Before(c)) <= Cardinality(subscribed) - 1
  BY BeforeBounded
<1> QED BY <1>1, PTL

(* The turn that starts is paid by the one less that comes before.         *)
LEMMA AdvanceTurns ==
    ASSUME TypeOK, TypeOK', TurnsComing, Advance PROVE TurnsComing'
<1>1. /\ run = "advance" /\ run' \in {"returned", "turn"}
      /\ lookup' = IF lookup = End THEN Begin ELSE After(lookup)
      /\ subscribed' = subscribed /\ counter' = counter /\ bypass' = bypass
  BY DEF Advance, queueVars, history
<1>2. ASSUME NEW c \in subscribed PROVE bypass'[c] + Coming(c)' <= bypass[c] + Coming(c)
  <2>1. Coming(c) \in Nat /\ bypass[c] \in Nat /\ Coming(c)' \in Nat /\ Ratio \in Nat
    BY <1>1, ComingBounded, ComingBoundedNext, TurnTypes
  <2>2. PICK n \in Nat : n = Cardinality(subscribed) - 1
    BY TurnTypes
  <2>3. PICK t \in Nat : t = Turns(n)
    BY TurnsGrow
  <2>4. PICK b \in Nat : b = Cardinality(Before(c))
    BY BeforeBounded
  <2>5. PICK bb \in Nat : bb = Cardinality(Before(c))'
    BY <1>1, BeforeBoundedNext
  <2>6. PICK m \in Nat : m = Missed(c)
    BY <2>2, <2>3 DEF Missed
  <2>7. Missed(c)' = m
    BY <1>1, <2>6 DEF Missed, Turns
  <2>8. Turns(Cardinality(Before(c)))' = Turns(bb) /\ Turns(bb) \in Nat /\ Turns(b) \in Nat
    BY <2>5, TurnsGrow DEF Turns
  <2>9. LeftOfTurn = 0
    BY <1>1 DEF LeftOfTurn
  <2>10. ASSUME lookup # c PROVE Coming(c) = Turns(b) + m
    BY <1>1, <2>4, <2>6, <2>8, <2>9, <2>10 DEF Coming
  <2>11. ASSUME lookup = c PROVE Coming(c) = t + m
    BY <1>1, <2>2, <2>3, <2>6, <2>11 DEF Coming
  <2>12. ASSUME run' = "turn", lookup' # c PROVE Coming(c)' = LeftOfTurn' + Turns(bb) + m
    BY <2>7, <2>8, <2>12 DEF Coming
  <2>13. CASE run' = "returned"
    <3>1. Coming(c)' = 0
      BY <2>13 DEF Coming
    <3> QED BY <1>1, <2>1, <3>1
  <2>14. CASE run' = "turn" /\ lookup' = c
    <3>1. Coming(c)' = 0 + m
      BY <2>7, <2>14 DEF Coming
    <3> QED BY <1>1, <2>1, <2>3, <2>8, <2>10, <2>11, <3>1
  <2>15. CASE run' = "turn" /\ lookup' # c /\ lookup' = End
    <3>1. LeftOfTurn' = 0
      BY <2>15 DEF LeftOfTurn, End
    <3>2. bb <= n
      BY <1>1, <2>2, <2>5, BeforeBoundedNext
    <3>3. Turns(bb) <= t
      BY <2>3, <3>2, TurnsGrow
    <3>4. ASSUME lookup # c PROVE bb = b
      <4>1. lookup' \notin Before(c)
        BY <2>15, BeforeBounded, TurnTypes
      <4> QED BY <1>1, <2>4, <2>5, <2>15, <3>4, <4>1, NextTurn
    <3> QED BY <1>1, <2>1, <2>3, <2>8, <2>10, <2>11, <2>12, <2>15, <3>1, <3>3, <3>4
  <2>16. CASE run' = "turn" /\ lookup' # c /\ lookup' # End
    <3>1. lookup' \in subscribed /\ counter'[lookup'] \in 0..Ratio + 1
      BY <1>1, <2>16, TurnTypes DEF TypeOK, End
    <3>2. LeftOfTurn' = Ratio + 1 - counter'[lookup'] + 0
      BY <2>16 DEF LeftOfTurn, End
    <3>3. LeftOfTurn' \in Nat /\ LeftOfTurn' <= Ratio + 1
      BY <2>1, <3>1, <3>2
    <3>4. CASE lookup = c
      <4>1. bb + 1 <= n
        <5>1. lookup' \notin {End, c}
          BY <2>16
        <5>2. bb <= Cardinality(subscribed) - 2
          BY <1>1, <2>5, <5>1, BeforeBoundedNext DEF End
        <5> QED BY <2>2, <5>2, TurnTypes
      <4>2. Turns(bb) + Ratio + 1 <= t
        <5>1. Turns(bb + 1) <= t /\ Turns(bb + 1) = Turns(bb) + Ratio + 1
          BY <2>2, <2>3, <2>5, <4>1, TurnsGrow
        <5> QED BY <5>1
      <4> QED BY <1>1, <2>1, <2>3, <2>8, <2>11, <2>12, <2>16, <3>3, <3>4, <4>2
    <3>5. CASE lookup # c
      <4>1. lookup' \in Before(c) /\ Before(c)' = Before(c) \ {lookup'}
        BY <1>1, <2>16, <3>5, NextTurn
      <4>2. bb = b - 1
        <5>1. PICK e : e = lookup'
          OBVIOUS
        <5>2. Cardinality(Before(c) \ {e}) = Cardinality(Before(c)) - 1
          BY <4>1, <5>1, BeforeBounded, FS_RemoveElement
        <5>3. Cardinality(Before(c))' = Cardinality(Before(c) \ {e})
          BY <4>1, <5>1
        <5> QED BY <2>4, <2>5, <5>2, <5>3
      <4>3. Turns(b) = Turns(bb) + Ratio + 1
        <5>1. b = bb + 1
          BY <4>2
        <5> QED BY <5>1, TurnsGrow
      <4> QED BY <1>1, <2>1, <2>8, <2>10, <2>12, <2>16, <3>3, <3>5, <4>3
    <3> QED BY <3>4, <3>5
  <2> QED BY <1>1, <2>13, <2>14, <2>15, <2>16
<1> QED BY <1>1, <1>2, LessComing

(* A subscription starts the count of everybody anew.                      *)
LEMMA ResetTurns ==
    ASSUME TypeOK, TypeOK', TurnsComing, ResetLookup PROVE TurnsComing'
<1>1. subscribed' = subscribed /\ \A c \in subscribed : bypass'[c] = 0
  BY TurnTypes DEF ResetLookup, queueVars
<1> QED BY <1>1, LessComing

(* One client more is one turn more before each, twice.                    *)
LEMMA InsertTurns ==
    ASSUME TypeOK, TypeOK', ArrivingIsNew, Unwaited, TurnsComing, Insert PROVE TurnsComing'
<1>1. PICK a : a = arriving
  OBVIOUS
<1>2. /\ subscribed' = subscribed \union {a} /\ a \in Clients /\ a \notin subscribed
      /\ UNCHANGED <<queue, counter, lookup, run, bypass>>
  BY <1>1 DEF Insert, ArrivingIsNew, runVars, history
<1>3. PICK k \in Nat : k = Cardinality(subscribed)
  BY TurnTypes
<1>4. Cardinality(subscribed)' = k + 1
  BY <1>2, <1>3, TurnTypes, FS_AddElement
<1>5. PICK u \in Nat : u = Turns(k)
  BY TurnsGrow
<1>6. Turns(Cardinality(subscribed) - 1)' = u
  BY <1>3, <1>4, <1>5 DEF Turns
<1> SUFFICES ASSUME NEW c \in subscribed'
             PROVE  bypass'[c] + Coming(c)' <= 2 * u + 1
  <2>1. (2 * Turns(Cardinality(subscribed) - 1) + 1)' = 2 * u + 1
    BY <1>6
  <2> QED BY <2>1 DEF TurnsComing
<1>7. Coming(c)' \in Nat /\ Coming(c)' <= 2 * u + 1
  BY <1>6, ComingBoundedNext
<1>8. CASE c = a
  <2>1. bypass'[c] = 0
    BY <1>2, <1>8 DEF Unwaited
  <2> QED BY <1>7, <2>1
<1>9. CASE c \in subscribed
  <2>1. PICK n \in Nat : n = k - 1
    BY <1>3, <1>9, TurnTypes
  <2>2. PICK t \in Nat : t = Turns(n)
    BY TurnsGrow
  <2>3. u = t + Ratio + 1 /\ Ratio \in Nat
    <3>1. k = n + 1
      BY <2>1
    <3> QED BY <1>5, <2>2, <3>1, TurnsGrow, TurnTypes
  <2>4. bypass[c] \in Nat /\ Coming(c) \in Nat /\ bypass[c] + Coming(c) <= 2 * t + 1
    BY <1>3, <1>9, <2>1, <2>2, TurnTypes, ComingBounded DEF TurnsComing
  <2>5. PICK m \in Nat : m = Missed(c)
    BY <1>3, <2>1, <2>2 DEF Missed
  <2>6. PICK mm \in Nat : mm = Missed(c)'
    BY <1>2, <1>6 DEF Missed
  <2>7. mm <= m + Ratio + 1
    <3>1. CASE counter[c] > Ratio
      <4>1. m = t /\ mm = u
        BY <1>2, <1>3, <1>6, <2>1, <2>2, <2>5, <2>6, <3>1 DEF Missed
      <4> QED BY <2>3, <4>1
    <3>2. CASE ~(counter[c] > Ratio)
      <4>1. mm = 0
        BY <1>2, <2>6, <3>2 DEF Missed
      <4> QED BY <2>3, <4>1
    <3> QED BY <3>1, <3>2
  <2>8. Coming(c)' <= Coming(c) + 2 * (Ratio + 1)
    <3>1. CASE run \in {"returned", "undefined"} \/ (lookup = c /\ run = "poll")
      <4>1. Coming(c)' = 0
        BY <1>2, <3>1 DEF Coming
      <4> QED BY <2>3, <2>4, <4>1
    <3>2. CASE run \notin {"returned", "undefined", "poll"} /\ lookup = c
      <4>1. CASE run \in {"lock", "advance"}
        <5>1. Coming(c) = t + m /\ Coming(c)' = u + mm
          BY <1>2, <1>3, <1>6, <2>1, <2>2, <2>5, <2>6, <3>2, <4>1 DEF Coming
        <5> QED BY <2>3, <2>7, <5>1
      <4>2. CASE run \notin {"lock", "advance"}
        <5>1. Coming(c) = 0 + m /\ Coming(c)' = 0 + mm
          BY <1>2, <2>5, <2>6, <3>2, <4>2 DEF Coming
        <5> QED BY <2>3, <2>7, <5>1
      <4> QED BY <4>1, <4>2
    <3>3. CASE run \notin {"returned", "undefined"} /\ lookup # c
      <4>1. PICK b \in Nat : b = Cardinality(Before(c))
        BY <1>9, BeforeBounded
      <4>2. PICK bb \in Nat : bb = Cardinality(Before(c))'
        BY BeforeBoundedNext
      <4>3. bb <= b + 1
        <5>1. Before(c)' \subseteq Before(c) \union {a}
          BY <1>2 DEF Before, End
        <5>2. IsFiniteSet(Before(c))
          BY <1>9, BeforeBounded
        <5>3. /\ IsFiniteSet(Before(c) \union {a})
              /\ Cardinality(Before(c) \union {a}) \in {b, b + 1}
          BY <4>1, <5>2, FS_AddElement
        <5>4. PICK B : B = Before(c)'
          OBVIOUS
        <5>5. Cardinality(B) <= Cardinality(Before(c) \union {a}) /\ Cardinality(B) = bb
          BY <4>2, <5>1, <5>3, <5>4, FS_Subset
        <5> QED BY <5>3, <5>5
      <4>4. Turns(bb) \in Nat /\ Turns(b) \in Nat /\ Turns(bb) <= Turns(b) + Ratio + 1
        <5>1. Turns(bb) <= Turns(b + 1) /\ Turns(b + 1) = Turns(b) + Ratio + 1
          BY <4>3, TurnsGrow
        <5> QED BY <5>1, TurnsGrow
      <4>5. Turns(Cardinality(Before(c)))' = Turns(bb)
        BY <4>2 DEF Turns
      <4>6. LeftOfTurn' = LeftOfTurn
        BY <1>2 DEF LeftOfTurn
      <4>7. LeftOfTurn \in Nat
        <5>1. lookup # End => counter[lookup] \in 0..Ratio + 1
          BY TurnTypes
        <5> QED BY <2>3, <5>1 DEF LeftOfTurn
      <4>8. Coming(c) = LeftOfTurn + Turns(b) + m
        BY <2>5, <3>3, <4>1 DEF Coming
      <4>9. Coming(c)' = LeftOfTurn + Turns(bb) + mm
        BY <1>2, <2>6, <3>3, <4>5, <4>6 DEF Coming
      <4> QED BY <2>3, <2>7, <4>4, <4>7, <4>8, <4>9
    <3> QED BY <3>1, <3>2, <3>3
  <2> QED BY <1>2, <1>7, <2>3, <2>4, <2>8
<1> QED BY <1>2, <1>8, <1>9

(* A message that is pushed makes its client wait, one that is polled or a *)
(* subscription ends the count.                                            *)
LEMMA NextUnwaited ==
    ASSUME IInv, Unwaited, [Next]_vars PROVE Unwaited'
<1> USE DEF queueVars, runVars, acceptVars, history, vars
<1>1. TypeOK /\ HoldsOne /\ ArrivingIsNew
  BY DEF IInv
<1>2. ASSUME UNCHANGED <<queue, pushing, bypass>>, subscribed' = subscribed PROVE Unwaited'
  BY <1>2 DEF Unwaited
<1>3. CASE CanPoll \/ OnMessage \/ LockToAdvance \/ Advance \/ LockToInsert \/ Shutdown \/ UNCHANGED vars
  BY <1>2, <1>3 DEF CanPoll, OnMessage, LockToAdvance, Advance, LockToInsert, Shutdown
<1>4. CASE Poll
  <2>1. /\ run = "poll" /\ subscribed' = subscribed /\ pushing' = pushing
        /\ lookup \in subscribed /\ lookup \in Clients
    BY <1>1, <1>4 DEF Poll, HoldsOne, TypeOK
  <2>2. CASE run' = "undefined" \/ run' = "turn"
    BY <1>2, <1>4, <2>1, <2>2 DEF Poll
  <2>3. CASE run' = "handle"
    <3>1. /\ queue' = [queue EXCEPT ![lookup] = Tail(@)]
          /\ bypass' = [c \in Clients |->
                          IF c = lookup \/ queue[c] = <<>> THEN 0 ELSE bypass[c] + 1]
      BY <1>4, <2>3 DEF Poll
    <3>2. \A c \in Clients : c # lookup => queue'[c] = queue[c]
      BY <1>1, <3>1 DEF TypeOK
    <3> QED BY <2>1, <3>1, <3>2 DEF Unwaited
  <2> QED BY <1>4, <2>2, <2>3 DEF Poll
<1>5. CASE Insert
  BY <1>5 DEF Insert, Unwaited
<1>6. CASE ResetLookup
  BY <1>6 DEF ResetLookup, Unwaited
<1>7. ASSUME NEW c \in Clients, Subscribe(c) \/ Disconnect(c) \/ UnSubscribe(c) PROVE Unwaited'
  BY <1>2, <1>7 DEF Subscribe, Disconnect, UnSubscribe
<1>8. ASSUME NEW c \in Clients, Push(c) PROVE Unwaited'
  <2>1. /\ c \in subscribed /\ UNCHANGED <<queue, bypass>> /\ subscribed' = subscribed
        /\ \A d \in Clients : d # c => pushing'[d] = pushing[d]
    BY <1>1, <1>8 DEF Push, TypeOK
  <2> QED BY <2>1 DEF Unwaited
<1>9. ASSUME NEW c \in Clients, Write(c) PROVE Unwaited'
  <2>1. c \in subscribed /\ bypass' = bypass /\ subscribed' = subscribed
    BY <1>9 DEF Write, Unwaited
  <2>2. \A d \in Clients : d # c => pushing'[d] = pushing[d] /\ queue'[d] = queue[d]
    BY <1>1, <1>9 DEF Write, TypeOK
  <2>3. queue'[c] = <<>> => queue[c] = <<>>
    <3>1. queue[c] \in Seq(1 .. MaxPushes) /\ DOMAIN queue = Clients
      BY <1>1 DEF TypeOK
    <3>2. pushing[c] \in 1 .. MaxPushes
      BY <1>1, <1>9 DEF Write, TypeOK
    <3>3. Append(queue[c], pushing[c]) # <<>>
      <4>1. Len(queue[c]) \in Nat /\ Len(Append(queue[c], pushing[c])) = Len(queue[c]) + 1
        BY <3>1, <3>2, AppendProperties
      <4>2. Len(<<>>) = 0
        OBVIOUS
      <4>3. Len(Append(queue[c], pushing[c])) # 0
        BY <4>1
      <4> QED BY <4>2, <4>3
    <3> QED BY <1>9, <3>1, <3>3 DEF Write
  <2> QED BY <2>1, <2>2, <2>3 DEF Unwaited
<1> QED BY <1>3, <1>4, <1>5, <1>6, <1>7, <1>8, <1>9 DEF Next, Consume, Accept

(* No step makes a client wait for more than it was promised.              *)
LEMMA NextTurns ==
    ASSUME IInv, Unwaited, TurnsComing, [Next]_vars PROVE TurnsComing'
<1> USE DEF queueVars, runVars, acceptVars, history, vars
<1>1. TypeOK /\ HoldsOne /\ ArrivingIsNew /\ TypeOK'
  BY NextInv DEF IInv
<1>2. CASE Consume
  BY <1>1, <1>2, CanPollTurns, PollTurns, TurnGoesOn, AdvanceTurns DEF Consume
<1>3. CASE Insert \/ ResetLookup
  BY <1>1, <1>3, InsertTurns, ResetTurns
<1>4. CASE LockToInsert \/ Shutdown \/ UNCHANGED vars
  <2>1. UNCHANGED <<subscribed, lookup, counter, bypass, run>>
    BY <1>4 DEF LockToInsert, Shutdown
  <2> QED BY <1>1, <2>1, TurnsKept
<1>5. ASSUME NEW c \in Clients,
             Subscribe(c) \/ Disconnect(c) \/ UnSubscribe(c) \/ Push(c) \/ Write(c)
      PROVE  TurnsComing'
  <2>1. /\ UNCHANGED <<subscribed, lookup, counter, bypass>>
        /\ run' = run \/ run' \in {"returned", "undefined"}
    BY <1>5 DEF Subscribe, Disconnect, UnSubscribe, Push, Write
  <2> QED BY <1>1, <2>1, TurnsKept
<1> QED BY <1>2, <1>3, <1>4, <1>5 DEF Next, Accept

(* No client is starved: whatever subscriptions do to mLookupIndex under   *)
(* the consumer's feet, between two polls of a client that has a message   *)
(* waiting only so many messages of others are handled.                    *)
THEOREM NobodyStarves == Spec => []BoundedBypass
<1>1. Init => BypassInv
  <2>1. Init => Unwaited /\ TurnsComing
    BY DEF Init, Unwaited, TurnsComing
  <2> QED BY <2>1 DEF BypassInv
<1>2. IInv /\ BypassInv /\ [Next]_vars => BypassInv'
  BY NextUnwaited, NextTurns DEF BypassInv
<1>3. IInv /\ BypassInv => BoundedBypass
  <2> SUFFICES ASSUME TypeOK, TurnsComing, NEW c \in subscribed
               PROVE  bypass[c] <= 2 * (Cardinality(subscribed) - 1) * (Ratio + 1) + 1
    BY DEF BoundedBypass, IInv, BypassInv
  <2>1. PICK n \in Nat : n = Cardinality(subscribed) - 1
    BY TurnTypes
  <2>2. 2 * n * (Ratio + 1) + 1 = 2 * Turns(n) + 1 /\ Turns(n) \in Nat
    BY TurnsGrow
  <2>3. bypass[c] \in Nat /\ Coming(c) \in Nat
    BY TurnTypes, ComingBounded
  <2>4. bypass[c] + Coming(c) <= 2 * Turns(n) + 1
    BY <2>1 DEF TurnsComing
  <2>5. bypass[c] <= 2 * Turns(n) + 1
    BY <2>2, <2>3, <2>4
  <2> QED BY <2>1, <2>2, <2>5
<1> QED BY InitInv, NextInv, <1>1, <1>2, <1>3, PTL DEF Spec
=============================================================================
