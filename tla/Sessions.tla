------------------------------ MODULE Sessions ------------------------------
(***************************************************************************)
(* The life of a server session of the Gateway: the accept thread,         *)
(* TCPConnection with its reading and its sending thread, and the          *)
(* SessionManager that finds a session by the hash of its descriptor.      *)
(*                                                                         *)
(* Connection k and the session object made for it have the same number.   *)
(* Nothing is ever erased from mTCPServerSession, objects are never        *)
(* deleted, and the system gives a descriptor that was closed to the next  *)
(* connection: what belonged to the first connection of a descriptor meets *)
(* the later ones.                                                         *)
(***************************************************************************)
EXTENDS Naturals, Sequences, FiniteSetsExt

CONSTANTS
    Fds,          \* descriptors
    MaxSessions,  \* bound: connections
    Script,       \* bound: the messages that each peer may send
    Ending,       \* the connections whose peer may hang up
    Rejected      \* the connections whose Logon is not accepted

Conns == 1..MaxSessions

ASSUME SessionsAssumption ==
    /\ Fds # {} /\ Fds \subseteq Nat /\ MaxSessions \in Nat
    /\ Script \in [Conns -> Seq({"order", "logon"})] /\ Ending \union Rejected \subseteq Conns

VARIABLES
    fd,        \* mClientSocket of every session object made so far
    owner,     \* the connection a descriptor stands for, or 0
    listed,    \* mTCPServerSession: the session under a descriptor's id, or 0
    connected, \* mIsConnected
    stopped,   \* the stop flag of the session's threads
    accepting, \* the accept thread: where it is with the last session
    reader,    \* where a reading thread is
    sender,    \* where a sending thread is
    ring,      \* mSendRing: the connections that asked
    asks,      \* requests on their way through the server: descriptor, asker
    batch,     \* the messages of its last recv that a thread has yet to treat
    from,      \* the connection that sent them, 0 when there are none
    unread,    \* what the peer has sent or will send, not received yet
    hungUp,    \* the peer has closed
    cut,       \* ::shutdown was called on it
    strays,    \* history: messages a session sent to another connection
    foreign,   \* history: sessions that read the bytes of another connection
    pressed,   \* history: accepted while its descriptor was about to be closed
    missed,    \* history: sessions looked up before they were inserted
    robbed     \* history: closed by the reading thread of another session

peerVars    == <<unread, hungUp>>
recvVars    == <<batch, from>>
historyVars == <<strays, foreign, pressed, missed, robbed>>
vars == <<fd, owner, listed, connected, stopped, accepting, reader, sender, ring, asks, recvVars,
          peerVars, cut, historyVars>>

Init ==
    /\ fd = <<>>
    /\ owner = [f \in Fds |-> 0] /\ listed = [f \in Fds |-> 0]
    /\ connected = [k \in Conns |-> FALSE] /\ stopped = [k \in Conns |-> FALSE]
    /\ accepting = "idle"
    /\ reader = [k \in Conns |-> "none"] /\ sender = [k \in Conns |-> "none"]
    /\ ring = [k \in Conns |-> <<>>] /\ asks = <<>>
    /\ batch = [k \in Conns |-> <<>>] /\ from = [k \in Conns |-> 0]
    /\ unread = Script
    /\ hungUp = {} /\ cut = {}
    /\ strays = [k \in Conns |-> 0]
    /\ foreign = {} /\ pressed = {} /\ missed = {} /\ robbed = {}

Last == Len(fd)
Closing == {"end", "lookup", "close", "flag"}

-----------------------------------------------------------------------------
(* The peers.                                                              *)

PeerCloses(k) ==
    /\ k \in Ending /\ k <= Last /\ k \notin hungUp
    /\ hungUp' = hungUp \union {k}
    /\ \E n \in 0..Len(unread[k]) : unread' = [unread EXCEPT ![k] = SubSeq(@, 1, n)]
    /\ UNCHANGED <<fd, owner, listed, connected, stopped, accepting, reader, sender, ring, asks,
                   recvVars, cut, historyVars>>

-----------------------------------------------------------------------------
(* The accept thread: createNewTCPServerSesion and TCPConnection::start.   *)

(* A reading thread that is closing a descriptor, or that has messages of  *)
(* a rejected peer to treat: their Logon will make it close one.           *)
AboutToClose(c) == reader[c] \in Closing \/ (reader[c] = "poll" /\ from[c] \in Rejected)

(* accept gives the lowest free descriptor; the session object is made and *)
(* its reading thread started.                                             *)
AcceptClient ==
    /\ accepting = "idle" /\ Last < MaxSessions
    /\ \E f \in Fds : owner[f] = 0
    /\ LET f == Min({g \in Fds : owner[g] = 0})
           k == Last + 1
       IN  /\ fd' = Append(fd, f)
           /\ owner' = [owner EXCEPT ![f] = k]
           /\ reader' = [reader EXCEPT ![k] = "recv"]
           /\ pressed' = IF \E c \in 1..Last : fd[c] = f /\ AboutToClose(c)
                         THEN pressed \union {k} ELSE pressed
    /\ accepting' = "sender"
    /\ UNCHANGED <<listed, connected, stopped, sender, ring, asks, recvVars, peerVars, cut, strays,
                   foreign, missed, robbed>>

(* The sending thread is added: to a pool that was shut down before, it is *)
(* not known whether it runs, nor whether it is ever told to stop (loop).  *)
AddSender ==
    /\ accepting = "sender"
    /\ \E pc \in {"check"} \union (IF stopped[Last] THEN {"done", "loop"} ELSE {}) :
           sender' = [sender EXCEPT ![Last] = pc]
    /\ accepting' = "connected"
    /\ UNCHANGED <<fd, owner, listed, connected, stopped, reader, ring, asks, recvVars, peerVars, cut,
                   historyVars>>

(* mIsConnected = true, whatever the reading thread has met since.         *)
SetConnected ==
    /\ accepting = "connected"
    /\ connected' = [connected EXCEPT ![Last] = TRUE]
    /\ accepting' = "insert"
    /\ UNCHANGED <<fd, owner, listed, stopped, reader, sender, ring, asks, recvVars, peerVars, cut,
                   historyVars>>

(* Slip: the session of an id that is known is closed and replaced.        *)
InsertAfterClose ==
    /\ accepting = "insert"
    /\ listed' = [listed EXCEPT ![fd[Last]] = Last]
    /\ IF listed[fd[Last]] # 0
       THEN cut' = cut \union ({owner[fd[Last]]} \ {0}) /\ owner' = [owner EXCEPT ![fd[Last]] = 0]
       ELSE UNCHANGED <<cut, owner>>
    /\ accepting' = "idle"
    /\ UNCHANGED <<fd, connected, stopped, reader, sender, ring, asks, recvVars, peerVars, historyVars>>

(* Slip: the id of the connection to come.                                 *)
InsertNext ==
    /\ accepting = "insert"
    /\ listed' = [listed EXCEPT ![fd[Last]] = IF @ = 0 THEN Last + 1 ELSE @]
    /\ accepting' = "idle"
    /\ UNCHANGED <<fd, owner, connected, stopped, reader, sender, ring, asks, recvVars, peerVars, cut,
                   historyVars>>

(* mTCPServerSession.insert: an id that is known keeps its session.        *)
InsertSession ==
    /\ accepting = "insert"
    /\ listed' = [listed EXCEPT ![fd[Last]] = IF @ = 0 THEN Last ELSE @]
    /\ accepting' = "idle"
    /\ UNCHANGED <<fd, owner, connected, stopped, reader, sender, ring, asks, recvVars, peerVars, cut,
                   historyVars>>

-----------------------------------------------------------------------------
(* The reading thread.                                                     *)

(* Slip: the loop of the thread never looks at the stop flag.              *)
ResumedAlways(c, rest) == IF rest # <<>> THEN "poll" ELSE "recv"

(* The next message of the same recv is treated without a look at the stop *)
(* flag; after the last one the thread is at the head of its loop.         *)
Resumed(c, rest) ==
    IF rest # <<>> THEN "poll" ELSE IF stopped[c] THEN "done" ELSE "recv"

(* push: nothing is queued for a session that is not connected.            *)
Pushed(c, asker) ==
    IF connected[c] THEN [ring EXCEPT ![c] = Append(@, asker)] ELSE ring

(* recv takes some of what the descriptor's connection has sent, whosoever *)
(* session that is.                                                        *)
Receive(c) ==
    /\ c <= Last /\ reader[c] = "recv"
    /\ LET d == owner[fd[c]]
       IN  /\ d # 0
           /\ \E n \in 1..Len(unread[d]) :
                  /\ batch' = [batch EXCEPT ![c] = SubSeq(unread[d], 1, n)]
                  /\ unread' = [unread EXCEPT ![d] = SubSeq(@, n + 1, Len(@))]
           /\ from' = [from EXCEPT ![c] = d]
           /\ foreign' = IF d = c THEN foreign ELSE foreign \union {c}
    /\ reader' = [reader EXCEPT ![c] = "poll"]
    /\ UNCHANGED <<fd, owner, listed, connected, stopped, accepting, sender, ring, asks, hungUp,
                   cut, strays, pressed, missed, robbed>>

(* processMessage: an order goes on under the session's id; a Logon is     *)
(* answered through the session itself, and then closes it when it is      *)
(* rejected.                                                               *)
TreatMessage(c) ==
    /\ reader[c] = "poll"
    /\ LET rest == Tail(batch[c])
       IN  /\ batch' = [batch EXCEPT ![c] = rest]
           /\ from' = [from EXCEPT ![c] = IF rest = <<>> THEN 0 ELSE @]
           /\ IF Head(batch[c]) = "order"
              THEN /\ asks' = Append(asks, [fd |-> fd[c], asker |-> from[c]])
                   /\ reader' = [reader EXCEPT ![c] = Resumed(c, rest)]
                   /\ UNCHANGED ring
              ELSE /\ ring' = Pushed(c, from[c])
                   /\ reader' = [reader EXCEPT ![c] = IF from[c] \in Rejected
                                                      THEN "lookup" ELSE Resumed(c, rest)]
                   /\ UNCHANGED asks
    /\ UNCHANGED <<fd, owner, listed, connected, stopped, accepting, sender, peerVars, cut,
                   historyVars>>

(* Nothing more is received: unread bytes of a connection that was cut may *)
(* not have been sent.                                                     *)
AtEnd(d) == d \in cut \/ (d \in hungUp /\ unread[d] = <<>>)

(* Slip: the session is looked up and closed before it is told to stop.    *)
ReadEndUntold(c) ==
    /\ c <= Last
    /\ reader[c] = "end" \/ (reader[c] = "recv" /\ AtEnd(owner[fd[c]]))
    /\ reader' = [reader EXCEPT ![c] = "lookup"]
    /\ UNCHANGED <<fd, owner, listed, connected, stopped, accepting, sender, ring, asks, recvVars, peerVars, cut,
                   historyVars>>

(* recv returns 0: pollFailure, onDisconnect.  A recv that fails (-1) is   *)
(* ignored and tried again.                                                *)
ReadEnd(c) ==
    /\ c <= Last
    /\ reader[c] = "end" \/ (reader[c] = "recv" /\ AtEnd(owner[fd[c]]))
    /\ connected' = [connected EXCEPT ![c] = FALSE]
    /\ stopped' = [stopped EXCEPT ![c] = TRUE]
    /\ reader' = [reader EXCEPT ![c] = "lookup"]
    /\ UNCHANGED <<fd, owner, listed, accepting, sender, ring, asks, recvVars, peerVars, cut, historyVars>>

(* Slip: a session that has been told to stop is taken for closed.         *)
LookupLive(c) ==
    /\ reader[c] = "lookup"
    /\ IF listed[fd[c]] = 0
       THEN missed' = missed \union {c}
       ELSE UNCHANGED missed
    /\ IF listed[fd[c]] = 0 \/ (listed[fd[c]] # c /\ stopped[listed[fd[c]]])
       THEN /\ reader' = [reader EXCEPT ![c] = Resumed(c, batch[c])]
            /\ UNCHANGED cut
       ELSE /\ cut' = cut \union ({owner[fd[c]]} \ {0})
            /\ reader' = [reader EXCEPT ![c] = "close"]
    /\ UNCHANGED <<fd, owner, listed, connected, stopped, accepting, sender, ring, asks, recvVars, peerVars,
                   strays, foreign, pressed, robbed>>

(* closeTCPServerSession: the session is found by its id, or not (yet);    *)
(* stop() of that session starts with ::shutdown of the descriptor.        *)
LookupSession(c) ==
    /\ reader[c] = "lookup"
    /\ IF listed[fd[c]] = 0
       THEN /\ missed' = missed \union {c}
            /\ reader' = [reader EXCEPT ![c] = Resumed(c, batch[c])]
            /\ UNCHANGED cut
       ELSE /\ cut' = cut \union ({owner[fd[c]]} \ {0})
            /\ reader' = [reader EXCEPT ![c] = "close"]
            /\ UNCHANGED missed
    /\ UNCHANGED <<fd, owner, listed, connected, stopped, accepting, sender, ring, asks, recvVars, peerVars,
                   strays, foreign, pressed, robbed>>

(* stop(): ::close fails when the descriptor is free, and ends the closing *)
(* there; it succeeds for whatever connection has it.  Those who wait in   *)
(* recv on that connection get their 0, those who call it later do not.    *)
CloseFd(c) ==
    /\ reader[c] = "close"
    /\ IF owner[fd[c]] = 0
       THEN reader' = [reader EXCEPT ![c] = Resumed(c, batch[c])] /\ UNCHANGED <<owner, robbed>>
       ELSE /\ owner' = [owner EXCEPT ![fd[c]] = 0]
            /\ robbed' = robbed \union ({owner[fd[c]]} \ {c})
            /\ \E waiting \in SUBSET {r \in 1..Last : fd[r] = fd[c] /\ reader[r] = "recv"} :
                   reader' = [r \in Conns |-> IF r = c THEN "flag"
                                              ELSE IF r \in waiting THEN "end" ELSE reader[r]]
    /\ UNCHANGED <<fd, listed, connected, stopped, accepting, sender, ring, asks, recvVars, peerVars, cut,
                   strays, foreign, pressed, missed>>

(* onDisconnect of the session that was found; its ClientDisconnection     *)
(* makes this thread look it up and close it once more.                    *)
FlagSession(c) ==
    /\ reader[c] = "flag"
    /\ connected' = [connected EXCEPT ![listed[fd[c]]] = FALSE]
    /\ stopped' = [stopped EXCEPT ![listed[fd[c]]] = TRUE]
    /\ reader' = [reader EXCEPT ![c] = "lookup"]
    /\ UNCHANGED <<fd, owner, listed, accepting, sender, ring, asks, recvVars, peerVars, cut, historyVars>>

-----------------------------------------------------------------------------
(* pushReplyToTCPSeverClient: the reply to an order goes to the session of *)
(* the id it carries.                                                      *)
PushReply ==
    /\ asks # <<>>
    /\ LET k == listed[Head(asks).fd]
       IN  ring' = IF k = 0 THEN ring ELSE Pushed(k, Head(asks).asker)
    /\ asks' = Tail(asks)
    /\ UNCHANGED <<fd, owner, listed, connected, stopped, accepting, reader, sender, recvVars, peerVars, cut,
                   historyVars>>

(* The sending thread looks at its stop flag, then locks and sends.        *)
SenderChecks(k) ==
    /\ sender[k] = "check"
    /\ \/ stopped[k] /\ sender' = [sender EXCEPT ![k] = "done"]
       \/ ~stopped[k] /\ ring[k] # <<>> /\ sender' = [sender EXCEPT ![k] = "send"]
    /\ UNCHANGED <<fd, owner, listed, connected, stopped, accepting, reader, ring, asks, recvVars, peerVars,
                   cut, historyVars>>

(* ::send reaches the connection that has the descriptor now.              *)
SendReply(k) ==
    /\ sender[k] \in {"send", "loop"} /\ ring[k] # <<>>
    /\ ring' = [ring EXCEPT ![k] = Tail(@)]
    /\ sender' = [sender EXCEPT ![k] = IF @ = "send" THEN "check" ELSE @]
    /\ LET d == owner[fd[k]]
           asker == Head(ring[k])
       IN  strays' = IF d \notin {0, asker} \union cut /\ strays[k] < 2
                     THEN [strays EXCEPT ![k] = @ + 1] ELSE strays
    /\ UNCHANGED <<fd, owner, listed, connected, stopped, accepting, reader, asks, recvVars, peerVars, cut,
                   foreign, pressed, missed, robbed>>

-----------------------------------------------------------------------------
AcceptThread == AcceptClient \/ AddSender \/ SetConnected \/ InsertSession
ReadThread(c) ==
    \/ Receive(c) \/ TreatMessage(c) \/ ReadEnd(c) \/ LookupSession(c)
    \/ CloseFd(c) \/ FlagSession(c)
SendThread(k) == SenderChecks(k) \/ SendReply(k)

Next ==
    \/ AcceptThread \/ PushReply
    \/ \E k \in Conns : ReadThread(k) \/ SendThread(k) \/ PeerCloses(k)

Spec == Init /\ [][Next]_vars
-----------------------------------------------------------------------------
TypeOK ==
    /\ fd \in Seq(Fds) /\ Last <= MaxSessions
    /\ owner \in [Fds -> 0..Last] /\ listed \in [Fds -> 0..Last]
    /\ \A f \in Fds : owner[f] # 0 => fd[owner[f]] = f
    /\ connected \in [Conns -> BOOLEAN] /\ stopped \in [Conns -> BOOLEAN]
    /\ accepting \in {"idle", "sender", "connected", "insert"}
    /\ reader \in [Conns -> {"none", "recv", "poll", "done"} \union Closing]
    /\ sender \in [Conns -> {"none", "check", "send", "done", "loop"}]
    /\ \A k \in Conns : ring[k] \in Seq(Conns) /\ unread[k] \in Seq({"order", "logon"})
    /\ batch \in [Conns -> Seq({"order", "logon"})] /\ from \in [Conns -> 0..Last]
    /\ asks \in Seq([fd : Fds, asker : Conns])
    /\ hungUp \subseteq Conns /\ cut \subseteq Conns
    /\ strays \in [Conns -> 0..2]
    /\ foreign \union pressed \union missed \union robbed \subseteq Conns

(* A close that comes twice, the session of another connection under the   *)
(* same id, a descriptor that is used again, a Logon that is treated after *)
(* its session was closed: still, a connection whose peer is there and was *)
(* not rejected is only cut when it got a descriptor that a reading thread *)
(* was closing already, or about to close for messages of a rejected peer  *)
(* that one recv brought.                                                  *)
InnocentCutOnlyIfPressed == [][\A k \in cut' \ cut : k \in hungUp \union Rejected \union pressed]_vars

(* A session sends at most one message to a connection that took over its  *)
(* descriptor - unless its own connection was rejected or closed by another*)
(* session, or its sending thread came after it was told to stop.          *)
AtMostOneStray ==
    \A k \in Conns : k \notin Rejected \union robbed /\ sender[k] # "loop" => strays[k] <= 1

(* The bytes of a connection are read by the session of another one only   *)
(* if that one was not told that its own connection was closed: it was     *)
(* rejected, or the reading thread of another session closed it.           *)
ForeignReadersWereClosed == foreign \subseteq Rejected \union robbed

(* A reading thread that has ended leaves the descriptor of its connection *)
(* open only if its session was looked up before it was inserted.          *)
LeaksOnlyBeforeInsert ==
    \A k \in Conns : reader[k] = "done" /\ owner[fd[k]] = k => k \in missed
=============================================================================
