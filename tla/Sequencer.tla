----------------------------- MODULE Sequencer ------------------------------
(***************************************************************************)
(* core::Sequencer (Lib/Internal/sequencer/Sequencer.hpp): the map of      *)
(* per-client LockWaitFreeQueues (Lib/Internal/container/LockFreeQueue.hpp)*)
(* that hands the messages of all sessions to one consumer thread, and the *)
(* threads around it as core::OrderManager and the SessionManagers drive   *)
(* them:                                                                   *)
(*   - one consumer, Run, which takes turns over the map;                  *)
(*   - the accepting thread, which subscribes a session and then starts it;*)
(*   - the reading thread of each started session, which pushes.           *)
(*                                                                         *)
(* mLookupIndex is read by the consumer outside mMutex and reset by a      *)
(* subscription under it, so every read of it is a step of its own.  A     *)
(* message is the number of its push by its client; the number of a map    *)
(* key stands for its place in the std::map.  handled, accepted and bypass *)
(* are history variables.                                                  *)
(***************************************************************************)
EXTENDS Integers, Sequences, FiniteSetsExt

CONSTANTS
    Clients,    \* session ids
    Leaving,    \* those whose UnSubscription is ever notified
    MaxClients, \* CONNECTION_MAX_INDEX (100 in core::OrderManager)
    Ratio,      \* aRatio (1 in core::OrderManager)
    Capacity,   \* CAPACITY of a queue (1024*1024)
    MaxPushes   \* bound of the model: messages a client pushes

ASSUME SequencerAssumption ==
    /\ Clients \subseteq Nat \ {0} /\ IsFiniteSet(Clients)
    /\ Leaving \subseteq Clients
    /\ MaxClients \in Nat /\ Ratio \in Nat /\ Capacity \in Nat \ {0} /\ MaxPushes \in Nat

VARIABLES
    subscribed, \* the keys of mQueues
    freed,      \* keys whose queue unSubscribe deleted: their entry stays
    queue,      \* the LockWaitFreeQueue of each key
    counter,    \* its mCounter
    lookup,     \* mLookupIndex: a key, or End
    mutex,      \* who holds mMutex
    run,        \* where the consumer stands in Run
    polled,     \* lStruct: the client and the message, or None
    accepting,  \* where the accepting thread stands
    arriving,   \* the client it subscribes
    open,       \* clients whose session is started
    pushing,    \* per client: the message its thread spins on in push, or 0
    stopped,    \* IsStop
    accepted,   \* history: messages push took
    handled,    \* history: messages onMessage was called with
    bypass      \* history: messages of others handled while one of it waited

queueVars  == <<subscribed, freed, queue, counter>>
runVars    == <<run, polled, stopped>>
acceptVars == <<accepting, arriving, open>>
history    == <<accepted, handled, bypass>>
vars == <<queueVars, lookup, mutex, runVars, acceptVars, pushing, history>>

End  == 0
None == <<>>

Init ==
    /\ subscribed = {} /\ freed = {}
    /\ queue = [c \in Clients |-> <<>>]
    /\ counter = [c \in Clients |-> 0]
    /\ lookup = End
    /\ mutex = "free"
    /\ run = "turn" /\ polled = None /\ stopped = FALSE
    /\ accepting = "idle" /\ arriving = End /\ open = {}
    /\ pushing = [c \in Clients |-> 0]
    /\ accepted = [c \in Clients |-> 0]
    /\ handled = [c \in Clients |-> 0]
    /\ bypass = [c \in Clients |-> 0]

(* mQueues.begin() and the successor of a key.                             *)
Begin == IF subscribed = {} THEN End ELSE Min(subscribed)
(* Slip: the key after the last one is not End.                            *)
AfterUnbounded(c) == c + 1
After(c) ==
    LET later == {d \in subscribed : d > c}
    IN  IF later = {} THEN End ELSE Min(later)

(* No thread has used a deleted queue; after one did, nothing is known.    *)
Defined == run # "undefined"

-----------------------------------------------------------------------------
(* The accepting thread.                                                   *)

(* createNewTCPServerSesion notifies Subscription before it starts the     *)
(* session.  A full map or a known id (a descriptor used again) is refused *)
(* and the session is started all the same.                                *)
Subscribe(c) ==
    /\ Defined
    /\ accepting = "idle"
    /\ c \notin open
    /\ IF Cardinality(subscribed) = MaxClients \/ c \in subscribed
       THEN open' = open \union {c} /\ UNCHANGED <<accepting, arriving>>
       ELSE accepting' = "lock" /\ arriving' = c /\ UNCHANGED open
    /\ UNCHANGED <<queueVars, lookup, mutex, runVars, pushing, history>>

LockToInsert ==
    /\ Defined
    /\ accepting = "lock"
    /\ mutex = "free"
    /\ mutex' = "accepting"
    /\ accepting' = "insert"
    /\ UNCHANGED <<queueVars, lookup, runVars, arriving, open, pushing, history>>

Insert ==
    /\ Defined
    /\ accepting = "insert"
    /\ subscribed' = subscribed \union {arriving}
    /\ accepting' = "reset"
    /\ UNCHANGED <<freed, queue, counter, lookup, mutex, runVars, arriving, open, pushing, history>>

(* mLookupIndex = begin(), unlock, and the session is started.             *)
ResetLookup ==
    /\ Defined
    /\ accepting = "reset"
    /\ lookup' = Begin
    /\ bypass' = [c \in Clients |-> 0]
    /\ mutex' = "free"
    /\ accepting' = "idle"
    /\ open' = open \union {arriving}
    /\ arriving' = End
    /\ UNCHANGED <<queueVars, runVars, pushing, accepted, handled>>

(* The read of a session returns 0: its thread ends.  mQueues keeps the    *)
(* queue and what is in it.                                                *)
Disconnect(c) ==
    /\ Defined
    /\ c \in open
    /\ pushing[c] = 0
    /\ open' = open \ {c}
    /\ UNCHANGED <<queueVars, lookup, mutex, runVars, accepting, arriving, pushing, history>>

(* unSubscribe of a key deletes the queue and leaves the entry; a second   *)
(* one deletes it again.                                                   *)
UnSubscribe(c) ==
    /\ Defined
    /\ c \in Leaving \intersect subscribed
    /\ mutex = "free"
    /\ IF c \in freed
       THEN run' = "undefined" /\ UNCHANGED freed
       ELSE freed' = freed \union {c} /\ UNCHANGED run
    /\ UNCHANGED <<subscribed, queue, counter, lookup, mutex, polled, stopped, acceptVars,
                   pushing, history>>

-----------------------------------------------------------------------------
(* The reading thread of a session.                                        *)

(* SessionManager::update notifies the sequencer under mMutexMessage, so a *)
(* thread that spins in push holds up the threads of all other sessions.   *)
MessageMutexFree == \A c \in Clients : pushing[c] = 0

(* processMessage: push looks the client up without mMutex.  An id that is *)
(* not found - it was refused, or an insert is rebalancing the map - makes *)
(* push return false, which nobody looks at: nothing changes.              *)
Push(c) ==
    /\ Defined
    /\ c \in open
    /\ MessageMutexFree
    /\ accepted[c] < MaxPushes
    /\ c \in subscribed
    /\ IF c \in freed
       THEN run' = "undefined" /\ UNCHANGED pushing
       ELSE pushing' = [pushing EXCEPT ![c] = accepted[c] + 1] /\ UNCHANGED run
    /\ UNCHANGED <<queueVars, lookup, mutex, polled, stopped, acceptVars, history>>

(* push spins until the queue has room.                                    *)
Write(c) ==
    /\ Defined
    /\ pushing[c] # 0
    /\ IF c \in freed
       THEN /\ run' = "undefined"
            /\ UNCHANGED <<queue, pushing, accepted>>
       ELSE /\ Len(queue[c]) < Capacity
            /\ queue' = [queue EXCEPT ![c] = Append(@, pushing[c])]
            /\ accepted' = [accepted EXCEPT ![c] = pushing[c]]
            /\ pushing' = [pushing EXCEPT ![c] = 0]
            /\ UNCHANGED run
    /\ UNCHANGED <<subscribed, freed, counter, lookup, mutex, polled, stopped, acceptVars,
                   handled, bypass>>

-----------------------------------------------------------------------------
(* The consumer thread.                                                    *)

(* Slip: a client keeps its turn as long as its queue is not empty.        *)
CanPollUntilEmpty ==
    /\ run = "turn"
    /\ IF lookup = End
       THEN run' = "lock" /\ UNCHANGED counter
       ELSE IF lookup \in freed
       THEN run' = "undefined" /\ UNCHANGED counter
       ELSE IF queue[lookup] # <<>>
       THEN run' = "poll" /\ UNCHANGED counter
       ELSE run' = "lock" /\ counter' = [counter EXCEPT ![lookup] = 0]
    /\ UNCHANGED <<subscribed, freed, queue, lookup, mutex, polled, stopped, acceptVars,
                   pushing, history>>

(* Slip: a spent mCounter is not cleared.                                  *)
CanPollOnce ==
    /\ run = "turn"
    /\ IF lookup = End
       THEN run' = "lock" /\ UNCHANGED counter
       ELSE IF lookup \in freed
       THEN run' = "undefined" /\ UNCHANGED counter
       ELSE IF counter[lookup] <= Ratio
       THEN run' = "poll" /\ counter' = [counter EXCEPT ![lookup] = @ + 1]
       ELSE run' = "lock" /\ UNCHANGED counter
    /\ UNCHANGED <<subscribed, freed, queue, lookup, mutex, polled, stopped, acceptVars,
                   pushing, history>>

(* The condition of the inner loop: CanPoll grants Ratio + 1 polls and     *)
(* then clears mCounter.                                                   *)
CanPoll ==
    /\ run = "turn"
    /\ IF lookup = End
       THEN run' = "lock" /\ UNCHANGED counter
       ELSE IF lookup \in freed
       THEN run' = "undefined" /\ UNCHANGED counter
       ELSE IF counter[lookup] <= Ratio
       THEN run' = "poll" /\ counter' = [counter EXCEPT ![lookup] = @ + 1]
       ELSE run' = "lock" /\ counter' = [counter EXCEPT ![lookup] = 0]
    /\ UNCHANGED <<subscribed, freed, queue, lookup, mutex, polled, stopped, acceptVars,
                   pushing, history>>

(* poll of the queue mLookupIndex names now.                               *)
Poll ==
    /\ run = "poll"
    /\ IF lookup \in freed
       THEN run' = "undefined" /\ UNCHANGED <<queue, polled, bypass>>
       ELSE IF queue[lookup] = <<>>
       THEN run' = "turn" /\ UNCHANGED <<queue, polled, bypass>>
       ELSE /\ run' = "handle"
            /\ polled' = <<lookup, Head(queue[lookup])>>
            /\ queue' = [queue EXCEPT ![lookup] = Tail(@)]
            /\ bypass' = [c \in Clients |->
                            IF c = lookup \/ queue[c] = <<>> THEN 0 ELSE bypass[c] + 1]
    /\ UNCHANGED <<subscribed, freed, counter, lookup, mutex, stopped, acceptVars, pushing,
                   accepted, handled>>

(* Slip: the message is attributed to the client mLookupIndex names now.   *)
OnMessageOfLookup ==
    /\ run = "handle"
    /\ handled' = [handled EXCEPT ![lookup] = polled[2]]
    /\ polled' = None
    /\ run' = "turn"
    /\ UNCHANGED <<queueVars, lookup, mutex, stopped, acceptVars, pushing, accepted, bypass>>

OnMessage ==
    /\ run = "handle"
    /\ handled' = [handled EXCEPT ![polled[1]] = polled[2]]
    /\ polled' = None
    /\ run' = "turn"
    /\ UNCHANGED <<queueVars, lookup, mutex, stopped, acceptVars, pushing, accepted, bypass>>

LockToAdvance ==
    /\ run = "lock"
    /\ mutex = "free"
    /\ mutex' = "run"
    /\ run' = "advance"
    /\ UNCHANGED <<queueVars, lookup, polled, stopped, acceptVars, pushing, history>>

(* Slip: the turn does not come back to the first key.                     *)
AdvanceToEnd ==
    /\ run = "advance"
    /\ lookup' = IF lookup = End THEN End ELSE After(lookup)
    /\ mutex' = "free"
    /\ run' = IF stopped THEN "returned" ELSE "turn"
    /\ UNCHANGED <<queueVars, polled, stopped, acceptVars, pushing, history>>

(* ++mLookupIndex, or back to the first key; then the test of IsStop.      *)
Advance ==
    /\ run = "advance"
    /\ lookup' = IF lookup = End THEN Begin ELSE After(lookup)
    /\ mutex' = "free"
    /\ run' = IF stopped THEN "returned" ELSE "turn"
    /\ UNCHANGED <<queueVars, polled, stopped, acceptVars, pushing, history>>

Shutdown ==
    /\ Defined
    /\ ~stopped
    /\ stopped' = TRUE
    /\ UNCHANGED <<queueVars, lookup, mutex, run, polled, acceptVars, pushing, history>>

-----------------------------------------------------------------------------
Consume == CanPoll \/ Poll \/ OnMessage \/ LockToAdvance \/ Advance
Accept  == LockToInsert \/ Insert \/ ResetLookup

Next ==
    \/ Consume
    \/ Accept
    \/ \E c \in Clients :
          Subscribe(c) \/ Disconnect(c) \/ UnSubscribe(c) \/ Push(c) \/ Write(c)
    \/ Shutdown

Spec == Init /\ [][Next]_vars

(* The consumer and the accepting thread run on; a reading thread that     *)
(* spins in push keeps trying.                                             *)
FairSpec == Spec /\ WF_vars(Consume) /\ WF_vars(Accept) /\ \A c \in Clients : WF_vars(Write(c))

-----------------------------------------------------------------------------
TypeOK ==
    /\ subscribed \subseteq Clients /\ Cardinality(subscribed) <= MaxClients
    /\ freed \subseteq subscribed
    /\ queue \in [Clients -> Seq(1 .. MaxPushes)]
    /\ \A c \in Clients : Len(queue[c]) <= Capacity
    /\ counter \in [Clients -> 0 .. Ratio + 1]
    /\ lookup \in subscribed \union {End}
    /\ mutex \in {"free", "accepting", "run"}
    /\ run \in {"turn", "poll", "handle", "lock", "advance", "returned", "undefined"}
    /\ polled \in {None} \union (Clients \X (1 .. MaxPushes))
    /\ stopped \in BOOLEAN
    /\ accepting \in {"idle", "lock", "insert", "reset"}
    /\ arriving \in Clients \union {End} /\ open \subseteq Clients
    /\ pushing \in [Clients -> 0 .. MaxPushes]
    /\ accepted \in [Clients -> 0 .. MaxPushes]
    /\ handled \in [Clients -> 0 .. MaxPushes]
    /\ bypass \in [Clients -> Nat]

(* Messages of c the consumer holds: polled, not yet passed to onMessage.  *)
Held(c) == IF polled # None /\ polled[1] = c THEN 1 ELSE 0

(* Whatever a subscription does to mLookupIndex under the consumer's feet, *)
(* no message push took is lost, handled twice or overtaken by a later one *)
(* of its client: the one held, then those queued, follow those handled    *)
(* without a gap up to the last one accepted.                              *)
EachOnceInOrder ==
    \A c \in Clients :
        /\ Held(c) = 1 => polled[2] = handled[c] + 1
        /\ \A k \in 1 .. Len(queue[c]) : queue[c][k] = handled[c] + Held(c) + k
        /\ accepted[c] = handled[c] + Held(c) + Len(queue[c])

(* No client is starved: while a message of c waits, the messages of the   *)
(* others that are handled since the last subscription are those of two    *)
(* rounds - a subscription leaves mCounter of c spent, and c may miss its  *)
(* next turn - and one more, which the reset of mLookupIndex between       *)
(* CanPoll and poll lets through uncounted.                                *)
BoundedBypass ==
    \A c \in subscribed :
        bypass[c] <= 2 * (Cardinality(subscribed) - 1) * (Ratio + 1) + 1

(* Every message push took is handled, unless the sequencer is shut down.  *)
AcceptedAreHandled ==
    \A c \in Clients, n \in 1 .. MaxPushes :
        accepted[c] >= n ~> handled[c] >= n \/ stopped

(* A session that spins in push on a full queue gets its place.            *)
SpinEnds ==
    \A c \in Clients : pushing[c] # 0 ~> pushing[c] = 0 \/ stopped

(* After "Client subscription removed" (unSubscribe in Sequencer.hpp) no   *)
(* thread uses the deleted queue.                                          *)
RemovedIsNotUsed == Defined
=============================================================================
