----------------------------- MODULE MarketData -----------------------------
(***************************************************************************)
(* The MarketDataServer: the reading thread of the MatchingEngine's        *)
(* session frames its stream (module Decoder) and broadcasts each message; *)
(* two timers broadcast instruments and heartbeats.  UDPServer::push puts  *)
(* what is broadcast in a circular buffer under the mutex of the pool; the *)
(* broadcasting thread takes it out under a mutex of its own and waits on  *)
(* the pool's condition variable with that one.  Packets reach the         *)
(* UDPClient of a Gateway or Broker, or are lost.                          *)
(*                                                                         *)
(* A message of the stream is known by its place in it; `intact` says      *)
(* whether its bytes are those that were sent.                             *)
(***************************************************************************)
EXTENDS Decoder

CONSTANTS
    Chunk,        \* bound: units that one recv takes
    RingCapacity, \* of mMainRing
    WireCapacity, \* packets that the network and the receiver hold
    Total, Alignment, Base, \* of the Decoder's LinearAllocator, in units
    Header        \* sizeof(StructData)

VARIABLES
    received,    \* units of the stream received so far
    buffer,      \* mBuffer of the session's Decoder
    reading,     \* where the reading thread is
    frame,       \* the message it has cut off
    arena,       \* mEncoderAllocator of the Decoder
    ring, first, last, size, \* mMainRing
    pushing,     \* who holds the pool's mutex, and the size it will store
    broadcaster, \* where the broadcasting thread is
    popping,     \* what it has taken out, and the size it will store
    wire,        \* packets on their way
    shown,       \* messages the client's session has treated, in order
    pushed,      \* history: how many messages were given to push
    gone,        \* history: messages overwritten in the ring, or lost as packets
    raced        \* history: both threads were updating the size at once

Memory == INSTANCE LinearAllocator

ASSUME MarketDataAssumption ==
    /\ Chunk \in Nat \ {0} /\ RingCapacity \in Nat \ {0} /\ WireCapacity \in Nat \ {0}
    /\ Memory!ArenaAssumption /\ Header \in Nat
    \* 64 KB are received at once, and mBuffer has 64 MB.
    /\ \A t \in DOMAIN SizeOf : SizeOf[t] - 1 + Chunk <= Capacity

feedVars == <<received, buffer, reading, frame, arena>>
ringVars == <<ring, first, last, size>>
vars == <<feedVars, ringVars, pushing, broadcaster, popping, wire, shown, pushed, gone, raced>>

(* A broadcast is a message of the stream, or (0) of a timer.              *)
Item(i, b) == [of |-> i, intact |-> b]
Timed   == Item(0, TRUE)
Nothing == Item(0, FALSE)
Free    == [who |-> "nobody", size |-> 0]

Init ==
    /\ received = 0 /\ buffer = EmptyBuffer /\ reading = "recv" /\ frame = <<>>
    /\ Memory!Init
    /\ ring = [p \in 0..RingCapacity - 1 |-> Nothing]
    /\ first = 0 /\ last = 0 /\ size = 0
    /\ pushing = Free
    /\ broadcaster = "check" /\ popping = [item |-> Nothing, size |-> 0]
    /\ wire = <<>> /\ shown = <<>>
    /\ pushed = 0 /\ gone = {} /\ raced = FALSE

Messages(items) == {item.of : item \in items} \ {0}

-----------------------------------------------------------------------------
(* TCPConnection::poll on the reading thread of the engine's session.      *)

Receive(n) ==
    /\ reading = "recv" /\ received + n <= Len(InStream)
    /\ buffer' = PushAll(buffer, SubSeq(InStream, received + 1, received + n))
    /\ received' = received + n
    /\ reading' = "ensure"
    /\ UNCHANGED <<frame, arena, ringVars, pushing, broadcaster, popping, wire, shown, pushed, gone, raced>>

(* ensure, again and again until there is no whole message: a StructData   *)
(* and the frame are allocated.                                            *)
Ensure ==
    /\ reading = "ensure" /\ ~NeverReturns(buffer)
    /\ IF HasFrame(buffer)
       THEN /\ frame' = Frame(buffer) /\ buffer' = AfterFrame(buffer) /\ reading' = "treat"
            /\ arena' = Memory!Allocate(Memory!Allocate(arena, Header), Len(frame'))
       ELSE /\ frame' = <<>> /\ buffer' = Skip(buffer) /\ reading' = "recv"
            /\ UNCHANGED arena
    /\ UNCHANGED <<received, ringVars, pushing, broadcaster, popping, wire, shown, pushed, gone,
                   raced>>

-----------------------------------------------------------------------------
(* UDPServer::push.                                                        *)

(* Slip: the room of the ring is never looked at.                          *)
PlaceAnyhow(who, item) ==
    /\ ring' = [ring EXCEPT ![last] = item]
    /\ last' = (last + 1) % RingCapacity
    /\ pushing' = [who |-> who, size |-> size + 1]
    /\ raced' = (raced \/ broadcaster = "popping")
    /\ UNCHANGED <<first, size, gone>>

(* push_back: a full ring loses its oldest item and keeps its size; else   *)
(* the size is read, and stored in a later step.                           *)
Place(who, item) ==
    /\ ring' = [ring EXCEPT ![last] = item]
    /\ last' = (last + 1) % RingCapacity
    /\ IF size = RingCapacity
       THEN /\ first' = (last + 1) % RingCapacity
            /\ gone' = gone \union Messages({ring[last]})
            /\ pushing' = [who |-> who, size |-> size]
       ELSE /\ pushing' = [who |-> who, size |-> size + 1]
            /\ UNCHANGED <<first, gone>>
    /\ raced' = (raced \/ broadcaster = "popping")
    /\ UNCHANGED size

(* Slip: each of those who push has a mutex of its own.                    *)
LockedApart == pushing.who # "feed"

(* The mutex of the pool keeps those who push apart.                       *)
Locked == pushing = Free

(* TreatAddOrder passes the frame on, TreatExecution makes a trade of it.  *)
PushMessage ==
    /\ reading = "treat" /\ Locked
    /\ LET i == frame[1][1]
       IN  Place("feed", Item(i, frame = Message(i)))
    /\ pushed' = pushed + 1
    /\ reading' = "pushing"
    /\ UNCHANGED <<received, buffer, frame, arena, broadcaster, popping, wire, shown>>

(* InstrumentManager::Task and UDPServer::Task.                            *)
PushTimed ==
    /\ Locked
    /\ Place("timer", Timed)
    /\ UNCHANGED <<feedVars, broadcaster, popping, wire, shown, pushed>>

(* Slip: only the first item of an empty ring is notified.                 *)
PushEndOfFirst ==
    /\ pushing # Free
    /\ size' = pushing.size
    /\ broadcaster' = IF broadcaster = "waiting" /\ size = 0 THEN "check" ELSE broadcaster
    /\ reading' = IF pushing.who = "feed" THEN "ensure" ELSE reading
    /\ pushing' = Free
    /\ UNCHANGED <<received, buffer, frame, arena, ring, first, last, popping, wire, shown, pushed,
                   gone, raced>>

(* The size is stored, and notify_all wakes who waits by now.              *)
PushEnd ==
    /\ pushing # Free
    /\ size' = pushing.size
    /\ broadcaster' = IF broadcaster = "waiting" THEN "check" ELSE broadcaster
    /\ reading' = IF pushing.who = "feed" THEN "ensure" ELSE reading
    /\ pushing' = Free
    /\ UNCHANGED <<received, buffer, frame, arena, ring, first, last, popping, wire, shown, pushed,
                   gone, raced>>

-----------------------------------------------------------------------------
(* ASYNC_UDP_Broadcast::Run.                                               *)

(* halt() is evaluated under a mutex that no push takes ...                *)
CheckRing ==
    /\ broadcaster = "check"
    /\ broadcaster' = IF size = 0 THEN "block" ELSE "pop"
    /\ UNCHANGED <<feedVars, ringVars, pushing, popping, wire, shown, pushed, gone, raced>>

(* ... so that a push may notify before the thread waits.                  *)
Block ==
    /\ broadcaster = "block"
    /\ broadcaster' = "waiting"
    /\ UNCHANGED <<feedVars, ringVars, pushing, popping, wire, shown, pushed, gone, raced>>

(* front and pop_front: first moves on and the size is read.               *)
PopFirst ==
    /\ broadcaster = "pop"
    /\ popping' = [item |-> ring[first], size |-> size - 1]
    /\ first' = (first + 1) % RingCapacity
    /\ broadcaster' = "popping"
    /\ raced' = (raced \/ pushing # Free)
    /\ UNCHANGED <<feedVars, ring, last, size, pushing, wire, shown, pushed, gone>>

(* The size is stored, and the packet sent: it may be lost.                *)
PopEnd ==
    /\ broadcaster = "popping"
    /\ size' = popping.size
    /\ broadcaster' = "check"
    /\ popping' = [item |-> Nothing, size |-> 0]
    /\ \/ Len(wire) < WireCapacity /\ wire' = Append(wire, popping.item) /\ UNCHANGED gone
       \/ gone' = gone \union Messages({popping.item}) /\ UNCHANGED wire
    /\ UNCHANGED <<feedVars, ring, first, last, pushing, shown, pushed, raced>>

-----------------------------------------------------------------------------
(* UDPClient: onRead, ASYNC_Treat and Decode of a packet.                  *)
TreatPacket ==
    /\ wire # <<>>
    /\ shown' = IF Head(wire).of = 0 \/ raced THEN shown ELSE Append(shown, Head(wire))
    /\ wire' = Tail(wire)
    /\ UNCHANGED <<feedVars, ringVars, pushing, broadcaster, popping, pushed, gone, raced>>

-----------------------------------------------------------------------------
ReadThread  == (\E n \in 1..Chunk : Receive(n)) \/ Ensure
Broadcaster == CheckRing \/ Block \/ PopFirst \/ PopEnd
Next == ReadThread \/ PushMessage \/ PushTimed \/ PushEnd \/ Broadcaster \/ TreatPacket

(* The threads run, a timer comes back at the end of its delay, and who    *)
(* holds the mutex lets go of it.                                          *)
Fairness ==
    /\ WF_vars(ReadThread) /\ WF_vars(PushMessage) /\ WF_vars(PushTimed)
    /\ WF_vars(PushEnd) /\ WF_vars(Broadcaster) /\ WF_vars(TreatPacket)

Spec == Init /\ [][Next]_vars /\ Fairness
-----------------------------------------------------------------------------
Items == [of : 0..Len(Stream), intact : BOOLEAN]

TypeOK ==
    /\ received \in 0..Len(InStream)
    /\ buffer.cells \in [0..Capacity - 1 -> Range(InStream) \union {Junk}]
    /\ buffer.first \in 0..Capacity - 1 /\ buffer.size \in 0..Capacity
    /\ reading \in {"recv", "ensure", "treat", "pushing"}
    /\ frame \in Seq(Range(InStream) \union {Junk})
    /\ arena.block \in Nat /\ arena.offset \in Nat
    /\ ring \in [0..RingCapacity - 1 -> Items]
    /\ first \in 0..RingCapacity - 1 /\ last \in 0..RingCapacity - 1 /\ size \in 0..RingCapacity
    /\ pushing \in [who : {"nobody", "feed", "timer"}, size : 0..RingCapacity]
    /\ broadcaster \in {"check", "block", "waiting", "pop", "popping"}
    /\ popping \in [item : Items, size : 0..RingCapacity]
    /\ wire \in Seq(Items) /\ Len(wire) <= WireCapacity /\ shown \in Seq(Items)
    /\ pushed \in 0..Len(Stream) /\ gone \subseteq 1..Len(Stream) /\ raced \in BOOLEAN

(* Whatever pieces the stream comes in, and though a message that goes on  *)
(* at the beginning of the buffer's array is damaged, the messages after   *)
(* it are framed right: a frame starts where a message starts, the next    *)
(* one in turn, and it is damaged exactly if it runs past the array.       *)
Straddles(i) == (Ends[i - 1] % Capacity) + Length(i) > Capacity
FramesAreMessages ==
    /\ ~(reading = "ensure" /\ NeverReturns(buffer))
    /\ reading = "treat" =>
        LET i == pushed + 1
        IN  /\ frame[1] = <<i, 1>> /\ Len(frame) = Length(i)
            /\ frame = Message(i) <=> ~Straddles(i)

(* The ring holds pointers to the frames, and nothing tells the allocator  *)
(* when one was sent: all of them lie apart, in blocks of several frames,  *)
(* beyond whose end no more than one byte is used.                         *)
FramesLieApart == Memory!Apart /\ Memory!Inside

(* The first n items of the ring, the oldest first.                        *)
InRing(n) == [k \in 1..n |-> ring[(first + k - 1) % RingCapacity]]

(* The messages among some items, and that they are in the stream's order, *)
(* none of them twice.                                                     *)
Sent(items) == Messages(Range(items))
InOrder(items) ==
    \A j, k \in DOMAIN items :
        j < k /\ items[j].of # 0 /\ items[k].of # 0 => items[j].of < items[k].of

(* While no two threads update the size of the ring at once, every message *)
(* that was pushed is in the ring, on its way or shown, in the order of    *)
(* the stream, once - or it was overwritten or its packet lost.            *)
OnceInOrder ==
    (~raced /\ pushing = Free) =>
        LET inRing == IF broadcaster = "popping"
                      THEN <<popping.item>> \o InRing(popping.size) ELSE InRing(size)
            path   == shown \o wire \o inRing
        IN  InOrder(path) /\ Sent(path) = (1..pushed) \ gone

(* A push may notify between halt() and the wait, so that nobody hears it, *)
(* and a size may be stored over another: what is in the ring never waits  *)
(* for good all the same, because the timers push and notify again.        *)
RingIsEmptied == size > 0 ~> broadcaster = "popping"
=============================================================================
