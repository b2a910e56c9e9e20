--------------------------- MODULE Sessions_proofs ---------------------------
(***************************************************************************)
(* For every number of descriptors and connections and whatever the peers  *)
(* send: who leaves a descriptor open, who reads the bytes of another      *)
(* connection, who is cut, and how many messages go astray.  IInv is about *)
(* one descriptor and its session, CloseInv about the closing threads, and *)
(* StrayInv about the messages in the rings; each rests on those before.   *)
(***************************************************************************)
EXTENDS Sessions, Counting, TLAPS

(* The types that the argument needs.                                      *)
Typed ==
    /\ fd \in Seq(Fds) /\ Last <= MaxSessions
    /\ owner \in [Fds -> 0..Last] /\ listed \in [Fds -> 0..Last]
    /\ stopped \in [Conns -> BOOLEAN]
    /\ reader \in [Conns -> {"none", "recv", "poll", "done"} \union Closing]

(* A session is listed under its own descriptor.                           *)
ListedByFd == \A f \in Fds : listed[f] # 0 => fd[listed[f]] = f

(* While a session is made there is one.                                   *)
MakingLast == accepting # "idle" => Last > 0

(* A session that does not exist yet has no threads.                       *)
NoneBefore == \A k \in Conns : k > Last => reader[k] = "none" /\ ~stopped[k]

(* Only who was told to stop stops.                                        *)
DoneWhenStopped == \A k \in Conns : reader[k] = "done" => stopped[k]

(* The session that a closing thread found is still listed, and once the   *)
(* descriptor was closed that session's connection has it no more.         *)
ClosesListed ==
    \A c \in Conns :
        /\ reader[c] \in {"close", "flag"} => listed[fd[c]] # 0
        /\ reader[c] = "flag" => owner[fd[c]] # listed[fd[c]]

(* A session that was told to stop has its descriptor only while its       *)
(* reading thread is about to close it, or has missed it.                  *)
StoppedLetsGo ==
    \A k \in Conns :
        stopped[k] => \/ owner[fd[k]] # k
                      \/ k \in missed
                      \/ reader[k] \in {"lookup", "close"}

IInv == Typed /\ ListedByFd /\ MakingLast /\ NoneBefore /\ DoneWhenStopped /\ ClosesListed
        /\ StoppedLetsGo

-----------------------------------------------------------------------------
LEMMA InitInv ==
    ASSUME Init
    PROVE  IInv
<1>1. Last = 0 /\ MaxSessions \in Nat
  BY SessionsAssumption DEF Init, Last
<1>2. Typed
  BY <1>1 DEF Init, Typed, Closing
<1>3. QED
  BY <1>1, <1>2 DEF Init, IInv, ListedByFd, MakingLast, NoneBefore, DoneWhenStopped, ClosesListed,
                    StoppedLetsGo, Conns

(* The steps of the peers, of the sending threads and of the server, and   *)
(* two of the accept thread, change nothing that the invariant speaks of.  *)
LEMMA OthersInv ==
    ASSUME IInv, UNCHANGED <<fd, owner, listed, stopped, reader, missed>>,
           accepting' # "idle" => accepting # "idle"
    PROVE  IInv'
BY DEF IInv, Typed, ListedByFd, MakingLast, NoneBefore, DoneWhenStopped, ClosesListed,
       StoppedLetsGo, Last

(* What a step of a session's reading thread has to keep, when it changes  *)
(* that thread's place and perhaps tells the session to stop.              *)
LEMMA ReaderInv ==
    ASSUME IInv, NEW c \in Conns, c <= Last,
           NEW pc \in {"recv", "poll", "done", "lookup", "close"},
           reader' = [reader EXCEPT ![c] = pc],
           \/ stopped' = stopped
           \/ stopped' = [stopped EXCEPT ![c] = TRUE] /\ pc = "lookup",
           missed \subseteq missed',
           UNCHANGED <<fd, owner, listed, accepting>>,
           pc = "done" => stopped[c],
           pc = "close" => listed[fd[c]] # 0,
           pc \in {"recv", "poll", "done"} => \/ reader[c] \in {"recv", "poll"}
                                              \/ owner[fd[c]] # c
                                              \/ c \in missed'
    PROVE  IInv'
<1>1. Typed'
  BY DEF IInv, Typed, Closing, Last
<1>2. ListedByFd' /\ MakingLast'
  BY DEF IInv, ListedByFd, MakingLast, Last
<1>3. \A k \in Conns : k # c => reader'[k] = reader[k] /\ stopped'[k] = stopped[k]
  BY DEF IInv, Typed
<1>4. reader'[c] = pc /\ (stopped'[c] => stopped[c] \/ pc = "lookup") /\ (stopped[c] => stopped'[c])
  BY DEF IInv, Typed
<1>5. NoneBefore'
  <2>1. Last' = Last /\ Last \in Nat
    BY DEF Last, IInv, Typed
  <2>2. SUFFICES ASSUME NEW k \in Conns, k > Last
                 PROVE  reader'[k] = "none" /\ ~stopped'[k]
    BY <2>1 DEF NoneBefore
  <2>3. k # c
    BY <2>1, <2>2 DEF Conns
  <2>4. QED
    BY <2>2, <2>3, <1>3 DEF IInv, NoneBefore
<1>6. DoneWhenStopped'
  BY <1>3, <1>4 DEF IInv, DoneWhenStopped
<1>7. ClosesListed'
  BY <1>3, <1>4 DEF IInv, ClosesListed
<1>8. StoppedLetsGo'
  <2>1. ASSUME NEW k \in Conns, stopped'[k]
        PROVE  owner[fd[k]] # k \/ k \in missed' \/ reader'[k] \in {"lookup", "close"}
    <3>1. CASE k # c
      BY <2>1, <3>1, <1>3 DEF IInv, StoppedLetsGo
    <3>2. CASE k = c
      BY <2>1, <3>2, <1>4 DEF IInv, StoppedLetsGo
    <3>3. QED
      BY <3>1, <3>2
  <2>2. QED
    BY <2>1 DEF StoppedLetsGo
<1>9. QED
  BY <1>1, <1>2, <1>5, <1>6, <1>7, <1>8 DEF IInv

LEMMA ResumedKept ==
    ASSUME NEW c \in Conns, NEW rest
    PROVE  /\ Resumed(c, rest) \in {"recv", "poll", "done"}
           /\ Resumed(c, rest) = "done" => stopped[c]
           /\ Resumed(c, rest) = "recv" => ~stopped[c]
           /\ Resumed(c, rest) = "poll" <=> rest # <<>>
BY DEF Resumed

LEMMA ReceiveInv ==
    ASSUME IInv, NEW c \in Conns, Receive(c)
    PROVE  IInv'
BY ReaderInv DEF Receive

(* A session is looked up by a thread of its own.                          *)
LEMMA ReadingExists ==
    ASSUME IInv, NEW c \in Conns, reader[c] \in {"recv", "poll"} \union Closing
    PROVE  c <= Last /\ fd[c] \in Fds /\ Last \in Nat
BY DEF IInv, NoneBefore, Typed, Last, Conns, Closing

LEMMA TreatMessageInv ==
    ASSUME IInv, NEW c \in Conns, TreatMessage(c)
    PROVE  IInv'
<1>1. c <= Last
  BY ReadingExists DEF TreatMessage
<1>2. reader[c] = "poll" /\ UNCHANGED <<fd, owner, listed, accepting, stopped, missed>>
  BY DEF TreatMessage, historyVars
<1>3. PICK pc \in {"lookup", Resumed(c, Tail(batch[c]))} : reader' = [reader EXCEPT ![c] = pc]
  BY DEF TreatMessage
<1>4. pc \in {"recv", "poll", "done", "lookup"} /\ (pc = "done" => stopped[c])
  BY <1>3, ResumedKept
<1>5. QED
  BY <1>1, <1>2, <1>3, <1>4, ReaderInv

LEMMA ReadEndInv ==
    ASSUME IInv, NEW c \in Conns, ReadEnd(c)
    PROVE  IInv'
BY ReaderInv DEF ReadEnd, historyVars

LEMMA LookupSessionInv ==
    ASSUME IInv, NEW c \in Conns, LookupSession(c)
    PROVE  IInv'
<1>1. c <= Last
  BY ReadingExists DEF LookupSession, Closing
<1>2. /\ reader[c] = "lookup" /\ missed \subseteq missed'
      /\ UNCHANGED <<fd, owner, listed, accepting, stopped>>
  BY DEF LookupSession
<1>3. CASE listed[fd[c]] = 0
  <2>1. c \in missed' /\ reader' = [reader EXCEPT ![c] = Resumed(c, batch[c])]
    BY <1>3 DEF LookupSession
  <2>2. QED
    BY <1>1, <1>2, <2>1, ResumedKept, ReaderInv
<1>4. CASE listed[fd[c]] # 0
  <2>1. reader' = [reader EXCEPT ![c] = "close"]
    BY <1>4 DEF LookupSession
  <2>2. QED
    BY <1>1, <1>2, <1>4, <2>1, ReaderInv
<1>5. QED
  BY <1>3, <1>4

(* ::close: the descriptor stands for nobody, and the threads that waited  *)
(* on it go on to their end.                                               *)
LEMMA CloseFdInv ==
    ASSUME IInv, NEW c \in Conns, CloseFd(c)
    PROVE  IInv'
<1> DEFINE f == fd[c]
<1>1. /\ c <= Last /\ f \in Fds /\ Last \in Nat /\ reader[c] = "close"
      /\ UNCHANGED <<fd, listed, accepting, stopped, missed>>
  BY ReadingExists DEF CloseFd, Closing, historyVars
<1>2. CASE owner[f] = 0
  <2>1. reader' = [reader EXCEPT ![c] = Resumed(c, batch[c])] /\ owner' = owner
    BY <1>2 DEF CloseFd
  <2>2. owner[fd[c]] # c
    BY <1>2 DEF Conns
  <2>3. QED
    BY <1>1, <2>1, <2>2, ResumedKept, ReaderInv
<1>3. CASE owner[f] # 0
  <2>1. PICK waiting \in SUBSET {r \in 1..Last : fd[r] = fd[c] /\ reader[r] = "recv"} :
            reader' = [r \in Conns |-> IF r = c THEN "flag"
                                       ELSE IF r \in waiting THEN "end" ELSE reader[r]]
    BY <1>3 DEF CloseFd
  <2>2. owner' = [owner EXCEPT ![f] = 0]
    BY <1>3 DEF CloseFd
  <2>3. Last' = Last
    BY <1>1 DEF Last
  <2>4. Typed'
    BY <1>1, <2>1, <2>2, <2>3 DEF IInv, Typed, Closing
  <2>5. ListedByFd' /\ MakingLast'
    BY <1>1, <2>3 DEF IInv, ListedByFd, MakingLast
  <2>6. \A k \in Conns : \/ k = c /\ reader'[k] = "flag"
                         \/ k <= Last /\ reader[k] = "recv" /\ reader'[k] = "end"
                         \/ k # c /\ reader'[k] = reader[k]
    <3>1. TAKE k \in Conns
    <3>2. reader'[k] = IF k = c THEN "flag" ELSE IF k \in waiting THEN "end" ELSE reader[k]
      BY <2>1, <3>1
    <3>3. k \in waiting => k <= Last /\ reader[k] = "recv"
      BY <2>1, <1>1
    <3>4. QED
      BY <3>2, <3>3
  <2>7. NoneBefore' /\ DoneWhenStopped'
    BY <1>1, <2>3, <2>6 DEF IInv, NoneBefore, DoneWhenStopped, Conns
  <2>8. \A g \in Fds : owner'[g] = (IF g = f THEN 0 ELSE owner[g])
    BY <2>2 DEF IInv, Typed
  <2>9. \A k \in Conns : reader'[k] # "none" => fd[k] \in Fds
    BY <1>1, <2>3, <2>7 DEF IInv, Typed, NoneBefore, Last, Conns
  <2>10. ClosesListed'
    <3>1. SUFFICES ASSUME NEW k \in Conns, reader'[k] \in {"close", "flag"}
                   PROVE  /\ listed[fd[k]] # 0
                          /\ reader'[k] = "flag" => owner'[fd[k]] # listed[fd[k]]
      BY <1>1 DEF ClosesListed
    <3>2. fd[k] \in Fds /\ (k = c \/ reader[k] = reader'[k])
      BY <2>6, <2>9, <3>1
    <3>3. QED
      BY <1>1, <2>8, <3>1, <3>2 DEF IInv, ClosesListed
  <2>11. StoppedLetsGo'
    <3>1. SUFFICES ASSUME NEW k \in Conns, stopped[k]
                   PROVE  \/ owner'[fd[k]] # k
                          \/ k \in missed
                          \/ reader'[k] \in {"lookup", "close"}
      BY <1>1 DEF StoppedLetsGo
    <3>2. fd[k] \in Fds
      BY <1>1, <3>1 DEF IInv, Typed, NoneBefore, Last, Conns
    <3>3. CASE fd[k] = f
      BY <3>2, <3>3, <2>8 DEF Conns
    <3>4. CASE fd[k] # f
      BY <3>1, <3>2, <3>4, <2>6, <2>8 DEF IInv, StoppedLetsGo
    <3>5. QED
      BY <3>3, <3>4
  <2>12. QED
    BY <2>4, <2>5, <2>7, <2>10, <2>11 DEF IInv
<1>4. QED
  BY <1>2, <1>3

(* onDisconnect of the session that was found: its connection has lost the *)
(* descriptor.                                                             *)
LEMMA FlagSessionInv ==
    ASSUME IInv, NEW c \in Conns, FlagSession(c)
    PROVE  IInv'
<1> DEFINE l == listed[fd[c]]
<1>1. /\ c <= Last /\ fd[c] \in Fds /\ Last \in Nat /\ reader[c] = "flag"
      /\ stopped' = [stopped EXCEPT ![l] = TRUE]
      /\ reader' = [reader EXCEPT ![c] = "lookup"]
      /\ UNCHANGED <<fd, owner, listed, accepting, missed>>
  BY ReadingExists DEF FlagSession, Closing, historyVars
<1>2. /\ l \in 1..Last /\ l \in Conns /\ fd[l] = fd[c] /\ owner[fd[l]] # l
  <2>1. l # 0 /\ owner[fd[c]] # l
    BY <1>1 DEF IInv, ClosesListed
  <2>2. l \in 0..Last /\ fd[l] = fd[c]
    BY <1>1, <2>1 DEF IInv, Typed, ListedByFd
  <2>3. Last <= MaxSessions /\ MaxSessions \in Nat
    BY SessionsAssumption DEF IInv, Typed
  <2>4. QED
    BY <1>1, <2>1, <2>2, <2>3 DEF Conns
<1>3. Last' = Last
  BY <1>1 DEF Last
<1>4. Typed'
  BY <1>1, <1>3 DEF IInv, Typed, Closing
<1>5. ListedByFd' /\ MakingLast'
  BY <1>1, <1>3 DEF IInv, ListedByFd, MakingLast
<1>6. \A k \in Conns : /\ stopped'[k] = (k = l \/ stopped[k])
                       /\ reader'[k] = (IF k = c THEN "lookup" ELSE reader[k])
  BY <1>1, <1>2 DEF IInv, Typed
<1>7. NoneBefore' /\ DoneWhenStopped' /\ ClosesListed'
  <2>1. NoneBefore'
    BY <1>1, <1>2, <1>3, <1>6 DEF IInv, NoneBefore, Conns
  <2>2. DoneWhenStopped' /\ ClosesListed'
    BY <1>1, <1>6 DEF IInv, DoneWhenStopped, ClosesListed
  <2>3. QED
    BY <2>1, <2>2
<1>8. StoppedLetsGo'
  <2>1. SUFFICES ASSUME NEW k \in Conns, k = l \/ stopped[k]
                 PROVE  \/ owner[fd[k]] # k
                        \/ k \in missed
                        \/ reader'[k] \in {"lookup", "close"}
    BY <1>1, <1>6 DEF StoppedLetsGo
  <2>2. QED
    BY <1>2, <1>6, <2>1 DEF IInv, StoppedLetsGo
<1>9. QED
  BY <1>4, <1>5, <1>7, <1>8 DEF IInv

-----------------------------------------------------------------------------
(* accept: the new connection gets a descriptor that was free.             *)
LEMMA AcceptClientInv ==
    ASSUME IInv, AcceptClient
    PROVE  IInv'
<1> DEFINE free == {g \in Fds : owner[g] = 0}
           f == Min(free)
           k == Last + 1
<1>1. /\ free # {} /\ Last < MaxSessions
      /\ fd' = Append(fd, f) /\ owner' = [owner EXCEPT ![f] = k]
      /\ reader' = [reader EXCEPT ![k] = "recv"]
      /\ UNCHANGED <<listed, stopped, missed>>
  BY DEF AcceptClient
<1>2. f \in Fds /\ owner[f] = 0
  <2>1. free \in SUBSET Nat
    BY SessionsAssumption
  <2>2. QED
    BY <1>1, <2>1, MinOfNats
<1>3. /\ Last \in Nat /\ MaxSessions \in Nat /\ k \in Conns /\ Last' = k
      /\ \A j \in 1..Last : fd'[j] = fd[j] /\ fd[j] \in Fds
      /\ fd'[k] = f /\ fd' \in Seq(Fds)
  BY <1>1, <1>2, SessionsAssumption DEF IInv, Typed, Last, Conns
<1>4. Typed'
  BY <1>1, <1>2, <1>3 DEF IInv, Typed
<1>5. \A g \in Fds : /\ owner'[g] = (IF g = f THEN k ELSE owner[g])
                     /\ owner[g] \in 0..Last /\ listed[g] \in 0..Last
  BY <1>1, <1>2 DEF IInv, Typed
<1>6. \A j \in Conns : reader'[j] = (IF j = k THEN "recv" ELSE reader[j])
  BY <1>1, <1>3 DEF IInv, Typed
<1>7. ListedByFd' /\ MakingLast'
  <2>1. ASSUME NEW g \in Fds, listed[g] # 0
        PROVE  fd'[listed[g]] = g
    <3>1. listed[g] \in 1..Last /\ fd[listed[g]] = g
      BY <2>1, <1>3, <1>5 DEF IInv, ListedByFd
    <3>2. QED
      BY <3>1, <1>3
  <2>2. ListedByFd'
    BY <2>1, <1>1 DEF ListedByFd
  <2>3. MakingLast'
    BY <1>3 DEF MakingLast
  <2>4. QED
    BY <2>2, <2>3
<1>8. NoneBefore' /\ DoneWhenStopped'
  <2>1. \A j \in Conns : j > k => j > Last /\ j # k
    BY <1>3 DEF Conns
  <2>2. NoneBefore'
    BY <2>1, <1>1, <1>3, <1>6 DEF IInv, NoneBefore
  <2>3. DoneWhenStopped'
    BY <1>1, <1>6 DEF IInv, DoneWhenStopped
  <2>4. QED
    BY <2>2, <2>3
<1>9. \A j \in Conns : \/ j \in 1..Last
                       \/ reader[j] = "none" /\ ~stopped[j]
  BY <1>3 DEF IInv, NoneBefore, Conns
<1>10. ClosesListed'
  <2>1. SUFFICES ASSUME NEW j \in Conns, reader'[j] \in {"close", "flag"}
                 PROVE  /\ listed[fd'[j]] # 0
                        /\ reader'[j] = "flag" => owner'[fd'[j]] # listed[fd'[j]]
    BY <1>1 DEF ClosesListed
  <2>2. j \in 1..Last /\ reader'[j] = reader[j]
    BY <2>1, <1>6, <1>9
  <2>3. fd'[j] = fd[j] /\ fd[j] \in Fds
    BY <2>2, <1>3
  <2>4. QED
    BY <2>1, <2>2, <2>3, <1>3, <1>5 DEF IInv, ClosesListed
<1>11. StoppedLetsGo'
  <2>1. SUFFICES ASSUME NEW j \in Conns, stopped[j]
                 PROVE  \/ owner'[fd'[j]] # j
                        \/ j \in missed
                        \/ reader'[j] \in {"lookup", "close"}
    BY <1>1 DEF StoppedLetsGo
  <2>2. j \in 1..Last
    BY <2>1, <1>9
  <2>3. fd'[j] = fd[j] /\ fd[j] \in Fds /\ reader'[j] = reader[j] /\ j # k
    BY <2>2, <1>3, <1>6
  <2>4. QED
    BY <2>1, <2>3, <1>5 DEF IInv, StoppedLetsGo
<1>12. QED
  BY <1>4, <1>7, <1>8, <1>10, <1>11 DEF IInv

(* insert: an id that is known keeps its session.                          *)
LEMMA InsertSessionInv ==
    ASSUME IInv, InsertSession
    PROVE  IInv'
<1> DEFINE f == fd[Last]
<1>1. /\ accepting = "insert" /\ accepting' = "idle"
      /\ listed' = [listed EXCEPT ![f] = IF @ = 0 THEN Last ELSE @]
      /\ UNCHANGED <<fd, owner, stopped, reader, missed>>
  BY DEF InsertSession, historyVars
<1>2. Last \in Nat /\ Last > 0 /\ f \in Fds /\ Last' = Last
  BY <1>1 DEF IInv, Typed, MakingLast, Last
<1>3. Typed'
  BY <1>1, <1>2 DEF IInv, Typed
<1>4. \A g \in Fds : listed'[g] = (IF g = f /\ listed[f] = 0 THEN Last ELSE listed[g])
  BY <1>1, <1>2 DEF IInv, Typed
<1>5. ListedByFd' /\ MakingLast'
  BY <1>1, <1>2, <1>4 DEF IInv, ListedByFd, MakingLast
<1>6. NoneBefore' /\ DoneWhenStopped' /\ StoppedLetsGo'
  BY <1>1, <1>2 DEF IInv, NoneBefore, DoneWhenStopped, StoppedLetsGo
<1>7. ClosesListed'
  <2>1. SUFFICES ASSUME NEW c \in Conns, reader[c] \in {"close", "flag"}
                 PROVE  listed'[fd[c]] = listed[fd[c]] /\ listed[fd[c]] # 0
    BY <1>1 DEF IInv, ClosesListed
  <2>2. fd[c] \in Fds
    BY <2>1, ReadingExists DEF Closing
  <2>3. QED
    BY <2>1, <2>2, <1>4 DEF IInv, ClosesListed
<1>8. QED
  BY <1>3, <1>5, <1>6, <1>7 DEF IInv

LEMMA NextInv ==
    ASSUME IInv, [Next]_vars
    PROVE  IInv'
<1>1. CASE AcceptThread
  <2>1. CASE AddSender \/ SetConnected
    BY <2>1, OthersInv DEF AddSender, SetConnected, historyVars
  <2>2. QED
    BY <1>1, <2>1, AcceptClientInv, InsertSessionInv DEF AcceptThread
<1>2. CASE PushReply
  BY <1>2, OthersInv DEF PushReply, historyVars
<1>3. ASSUME NEW k \in Conns, ReadThread(k)
      PROVE  IInv'
  BY <1>3, ReceiveInv, TreatMessageInv, ReadEndInv, LookupSessionInv, CloseFdInv,
     FlagSessionInv DEF ReadThread
<1>4. ASSUME NEW k \in Conns, SendThread(k) \/ PeerCloses(k)
      PROVE  IInv'
  BY <1>4, OthersInv DEF SendThread, SenderChecks, SendReply, PeerCloses, historyVars
<1>5. CASE UNCHANGED vars
  BY <1>5, OthersInv DEF vars, historyVars
<1>6. QED
  BY <1>1, <1>2, <1>3, <1>4, <1>5 DEF Next

-----------------------------------------------------------------------------
(* A reading thread that has ended leaves the descriptor of its connection *)
(* open only if its session was looked up before it was inserted.          *)
THEOREM NoLeakOnceInserted == Spec => []LeaksOnlyBeforeInsert
<1>1. IInv /\ [Next]_vars => IInv'
  BY NextInv
<1>2. IInv => LeaksOnlyBeforeInsert
  BY DEF IInv, DoneWhenStopped, StoppedLetsGo, LeaksOnlyBeforeInsert
<1>3. QED
  BY InitInv, <1>1, <1>2, PTL DEF Spec

-----------------------------------------------------------------------------
(* The sessions that exist.                                                *)
LEMMA Existing ==
    ASSUME IInv
    PROVE  /\ Last \in Nat
           /\ \A c \in 1..Last : c \in Conns /\ fd[c] \in Fds
           /\ \A c \in Conns : reader[c] # "none" \/ stopped[c] => c \in 1..Last
BY SessionsAssumption DEF IInv, Typed, NoneBefore, Last, Conns

LEMMA AppendKeeps ==
    ASSUME NEW S, NEW q \in Seq(S), NEW x \in S
    PROVE  /\ Append(q, x) \in Seq(S)
           /\ \A j \in DOMAIN Append(q, x) :
                  Append(q, x)[j] = x \/ (j \in DOMAIN q /\ Append(q, x)[j] = q[j])
OBVIOUS

LEMMA TailKeeps ==
    ASSUME NEW S, NEW q \in Seq(S), q # <<>>
    PROVE  /\ Tail(q) \in Seq(S) /\ Head(q) \in S
           /\ 1 \in DOMAIN q /\ Head(q) = q[1]
           /\ \A j \in DOMAIN Tail(q) : j + 1 \in DOMAIN q /\ Tail(q)[j] = q[j + 1]
OBVIOUS

(* What the sequences of messages are made of.                             *)
LEMMA SubSeqKeeps ==
    ASSUME NEW S, NEW q \in Seq(S), NEW m \in 1 .. Len(q) + 1, NEW n \in 0 .. Len(q)
    PROVE  SubSeq(q, m, n) \in Seq(S) /\ (m <= n => SubSeq(q, m, n) # <<>>)
<1>1. \A i \in m..n : q[i] \in S
  BY LenProperties, ElementOfSeq
<1>2. QED
  BY <1>1, LenProperties, SubSeqProperties

(* The messages of a recv that are still to be treated are of a connection *)
(* of the same descriptor: while the session's own connection has it, of   *)
(* that one.                                                               *)
BatchInv ==
    /\ unread \in [Conns -> Seq({"order", "logon"})]
    /\ batch \in [Conns -> Seq({"order", "logon"})]
    /\ from \in [Conns -> 0..Last]
    /\ \A f \in Fds : owner[f] # 0 => fd[owner[f]] = f
    /\ \A c \in Conns :
         /\ reader[c] = "poll" => batch[c] # <<>>
         /\ batch[c] # <<>> => /\ c \in 1..Last /\ from[c] \in 1..Last /\ fd[from[c]] = fd[c]
                               /\ owner[fd[c]] = c => from[c] = c

LEMMA InitBatch ==
    ASSUME Init
    PROVE  BatchInv
BY SessionsAssumption DEF Init, BatchInv, Last

LEMMA OthersBatch ==
    ASSUME BatchInv, UNCHANGED <<fd, owner, recvVars, peerVars>>,
           \A c \in Conns : reader'[c] = "poll" => reader[c] = "poll" \/ batch[c] # <<>>
    PROVE  BatchInv'
BY DEF BatchInv, recvVars, peerVars, Last

LEMMA ReceiveBatch ==
    ASSUME IInv, BatchInv, NEW c \in Conns, Receive(c)
    PROVE  BatchInv'
<1>1. PICK d : d = owner[fd[c]]
  OBVIOUS
<1>2. /\ c \in 1..Last /\ fd[c] \in Fds /\ d # 0 /\ reader' = [reader EXCEPT ![c] = "poll"]
      /\ from' = [from EXCEPT ![c] = d] /\ UNCHANGED <<fd, owner>>
  BY <1>1, Existing DEF Receive
<1>3. d \in 1..Last /\ d \in Conns /\ fd[d] = fd[c]
  <2>1. d \in 0..Last /\ fd[d] = fd[c] /\ Last \in Nat
    BY <1>1, <1>2, Existing DEF IInv, Typed, BatchInv
  <2>2. d \in 1..Last
    BY <1>2, <2>1
  <2>3. QED
    BY <2>1, <2>2, Existing
<1>4. PICK n \in 1..Len(unread[d]) :
          /\ batch' = [batch EXCEPT ![c] = SubSeq(unread[d], 1, n)]
          /\ unread' = [unread EXCEPT ![d] = SubSeq(@, n + 1, Len(@))]
  BY <1>1 DEF Receive
<1>5. /\ SubSeq(unread[d], 1, n) \in Seq({"order", "logon"}) /\ SubSeq(unread[d], 1, n) # <<>>
      /\ SubSeq(unread[d], n + 1, Len(unread[d])) \in Seq({"order", "logon"})
  <2>1. unread[d] \in Seq({"order", "logon"}) /\ Len(unread[d]) \in Nat
    BY <1>3 DEF BatchInv
  <2>2. /\ 1 \in 1 .. Len(unread[d]) + 1 /\ n + 1 \in 1 .. Len(unread[d]) + 1
        /\ n \in 0 .. Len(unread[d]) /\ Len(unread[d]) \in 0 .. Len(unread[d]) /\ 1 <= n
    BY <1>4, <2>1
  <2>3. QED
    BY <2>1, <2>2, SubSeqKeeps
<1>6. /\ batch' \in [Conns -> Seq({"order", "logon"})] /\ unread' \in [Conns -> Seq({"order", "logon"})]
      /\ from' \in [Conns -> 0..Last] /\ from'[c] = d /\ batch'[c] # <<>>
      /\ \A k \in Conns : k # c => batch'[k] = batch[k] /\ from'[k] = from[k] /\ reader'[k] = reader[k]
  <2>1. /\ batch \in [Conns -> Seq({"order", "logon"})] /\ unread \in [Conns -> Seq({"order", "logon"})]
        /\ from \in [Conns -> 0..Last]
    BY DEF BatchInv
  <2>2. batch' \in [Conns -> Seq({"order", "logon"})] /\ batch'[c] # <<>>
    BY <1>4, <1>5, <2>1
  <2>3. unread' \in [Conns -> Seq({"order", "logon"})]
    BY <1>3, <1>4, <1>5, <2>1
  <2>4. d \in 0..Last
    BY <1>3, Existing
  <2>5. from' \in [Conns -> 0..Last] /\ from'[c] = d
    BY <1>2, <2>1, <2>4
  <2>6. \A k \in Conns : k # c => batch'[k] = batch[k] /\ from'[k] = from[k] /\ reader'[k] = reader[k]
    BY <1>2, <1>4, <2>1 DEF IInv, Typed
  <2>7. QED
    BY <2>2, <2>3, <2>5, <2>6
<1>7. Last' = Last
  BY <1>2 DEF Last
<1>8. QED
  BY <1>1, <1>2, <1>3, <1>6, <1>7 DEF BatchInv

LEMMA TreatMessageBatch ==
    ASSUME IInv, BatchInv, NEW c \in Conns, TreatMessage(c)
    PROVE  BatchInv'
<1>1. /\ reader[c] = "poll" /\ batch[c] # <<>> /\ batch' = [batch EXCEPT ![c] = Tail(batch[c])]
      /\ from' = [from EXCEPT ![c] = IF Tail(batch[c]) = <<>> THEN 0 ELSE from[c]]
      /\ UNCHANGED <<fd, owner, unread>>
  BY DEF TreatMessage, BatchInv, peerVars
<1>2. PICK pc \in {"lookup", Resumed(c, Tail(batch[c]))} : reader' = [reader EXCEPT ![c] = pc]
  BY DEF TreatMessage
<1>3. Tail(batch[c]) \in Seq({"order", "logon"})
  BY <1>1, TailKeeps DEF BatchInv
<1>4. Last' = Last /\ Last \in Nat
  BY <1>1, Existing DEF Last
<1>5. /\ batch' \in [Conns -> Seq({"order", "logon"})] /\ from' \in [Conns -> 0..Last]
      /\ batch'[c] = Tail(batch[c]) /\ (batch'[c] # <<>> => from'[c] = from[c])
      /\ \A k \in Conns : k # c => batch'[k] = batch[k] /\ from'[k] = from[k] /\ reader'[k] = reader[k]
  BY <1>1, <1>2, <1>3, <1>4 DEF BatchInv, IInv, Typed
<1>6. reader'[c] = "poll" => batch'[c] # <<>>
  BY <1>2, <1>5, ResumedKept DEF IInv, Typed
<1>7. QED
  BY <1>1, <1>4, <1>5, <1>6 DEF BatchInv

LEMMA CloseFdBatch ==
    ASSUME IInv, BatchInv, NEW c \in Conns, CloseFd(c)
    PROVE  BatchInv'
<1>1. /\ UNCHANGED <<fd, recvVars, peerVars>> /\ c \in 1..Last /\ fd[c] \in Fds
      /\ owner' = owner \/ owner' = [owner EXCEPT ![fd[c]] = 0]
  BY Existing DEF CloseFd
<1>2. \A g \in Fds : owner'[g] = owner[g] \/ owner'[g] = 0
  BY <1>1 DEF IInv, Typed
<1>3. \A k \in Conns : reader'[k] = "poll" => reader[k] = "poll" \/ batch[k] # <<>>
  <2>1. CASE owner[fd[c]] = 0
    BY <2>1, ResumedKept DEF CloseFd, IInv, Typed
  <2>2. CASE owner[fd[c]] # 0
    <3>1. PICK waiting \in SUBSET {r \in 1..Last : fd[r] = fd[c] /\ reader[r] = "recv"} :
              reader' = [r \in Conns |-> IF r = c THEN "flag"
                                         ELSE IF r \in waiting THEN "end" ELSE reader[r]]
      BY <2>2 DEF CloseFd
    <3>2. QED
      BY <3>1
  <2>3. QED
    BY <2>1, <2>2
<1>4. \A k \in Conns : batch[k] # <<>> => fd[k] \in Fds /\ k # 0
  BY Existing DEF BatchInv
<1>5. QED
  BY <1>1, <1>2, <1>3, <1>4 DEF BatchInv, recvVars, peerVars, Last

LEMMA AcceptClientBatch ==
    ASSUME IInv, BatchInv, AcceptClient
    PROVE  BatchInv'
<1> DEFINE free == {g \in Fds : owner[g] = 0}
           f == Min(free)
           k == Last + 1
<1>1. /\ free # {} /\ Last < MaxSessions
      /\ fd' = Append(fd, f) /\ owner' = [owner EXCEPT ![f] = k]
      /\ reader' = [reader EXCEPT ![k] = "recv"]
      /\ UNCHANGED <<batch, from, unread>>
  BY DEF AcceptClient, recvVars, peerVars
<1>2. f \in Fds /\ owner[f] = 0
  <2>1. free \in SUBSET Nat
    BY SessionsAssumption
  <2>2. QED
    BY <1>1, <2>1, MinOfNats
<1>3. /\ Last \in Nat /\ k \in Conns /\ Last' = k
      /\ \A j \in 1..Last : fd'[j] = fd[j] /\ fd[j] \in Fds /\ j # k /\ j # 0 /\ j \in 1..k
      /\ fd'[k] = f
  BY <1>1, <1>2, SessionsAssumption DEF IInv, Typed, Last, Conns
<1>4. \A g \in Fds : owner'[g] = (IF g = f THEN k ELSE owner[g]) /\ owner[g] \in 0..Last
  BY <1>1 DEF IInv, Typed
<1>5. \A j \in Conns : reader'[j] = IF j = k THEN "recv" ELSE reader[j]
  BY <1>1 DEF IInv, Typed
<1>6. \A g \in Fds : owner'[g] # 0 => fd'[owner'[g]] = g
  <2>1. TAKE g \in Fds
  <2>2. CASE g = f
    BY <1>3, <1>4, <2>2
  <2>3. CASE g # f
    <3>1. owner[g] # 0 => owner[g] \in 1..Last /\ fd[owner[g]] = g
      BY <1>3, <1>4 DEF BatchInv
    <3>2. QED
      BY <1>3, <1>4, <2>3, <3>1
  <2>4. QED
    BY <2>2, <2>3
<1>7. from' \in [Conns -> 0..k]
  <2>1. 0..Last \subseteq 0..k
    BY <1>3
  <2>2. QED
    BY <1>1, <2>1 DEF BatchInv
<1>8. ASSUME NEW c \in Conns
      PROVE  /\ reader'[c] = "poll" => batch'[c] # <<>>
             /\ batch'[c] # <<>> => /\ c \in 1..k /\ from'[c] \in 1..k /\ fd'[from'[c]] = fd'[c]
                                    /\ owner'[fd'[c]] = c => from'[c] = c
  <2>1. reader'[c] = "poll" => batch'[c] # <<>>
    BY <1>1, <1>5 DEF BatchInv
  <2>2. ASSUME batch[c] # <<>>
        PROVE  /\ c \in 1..k /\ from[c] \in 1..k /\ fd'[from[c]] = fd'[c]
               /\ owner'[fd'[c]] = c => from[c] = c
    <3>1. /\ c \in 1..Last /\ from[c] \in 1..Last /\ fd[from[c]] = fd[c]
          /\ owner[fd[c]] = c => from[c] = c
      BY <2>2 DEF BatchInv
    <3>2. c # k /\ fd'[c] = fd[c] /\ fd[c] \in Fds /\ fd'[from[c]] = fd[from[c]]
      BY <1>3, <3>1
    <3>3. owner'[fd[c]] = c => owner[fd[c]] = c
      BY <1>4, <3>2
    <3>4. QED
      BY <1>3, <3>1, <3>2, <3>3
  <2>3. QED
    BY <1>1, <2>1, <2>2
<1>9. QED
  BY <1>1, <1>3, <1>6, <1>7, <1>8 DEF BatchInv

LEMMA PeerClosesBatch ==
    ASSUME IInv, BatchInv, NEW k \in Conns, PeerCloses(k)
    PROVE  BatchInv'
<1>1. PICK n \in 0..Len(unread[k]) : unread' = [unread EXCEPT ![k] = SubSeq(@, 1, n)]
  BY DEF PeerCloses
<1>2. SubSeq(unread[k], 1, n) \in Seq({"order", "logon"})
  <2>1. unread[k] \in Seq({"order", "logon"}) /\ 1 \in 1 .. Len(unread[k]) + 1
    BY DEF BatchInv
  <2>2. QED
    BY <1>1, <2>1, SubSeqKeeps
<1>3. unread' \in [Conns -> Seq({"order", "logon"})]
  BY <1>1, <1>2 DEF BatchInv
<1>4. UNCHANGED <<fd, owner, reader, batch, from>>
  BY DEF PeerCloses, recvVars
<1>5. QED
  BY <1>3, <1>4 DEF BatchInv, Last

LEMMA NextBatch ==
    ASSUME IInv, BatchInv, [Next]_vars
    PROVE  BatchInv'
<1>1. CASE AddSender \/ SetConnected \/ InsertSession \/ PushReply
  BY <1>1, OthersBatch DEF AddSender, SetConnected, InsertSession, PushReply
<1>2. ASSUME NEW k \in Conns, SendThread(k)
      PROVE  BatchInv'
  BY <1>2, OthersBatch DEF SendThread, SenderChecks, SendReply
<1>3. ASSUME NEW k \in Conns, ReadEnd(k) \/ FlagSession(k)
      PROVE  BatchInv'
  <2>1. \A c \in Conns : reader'[c] = "poll" => reader[c] = "poll"
    BY <1>3 DEF ReadEnd, FlagSession, IInv, Typed
  <2>2. QED
    BY <1>3, <2>1, OthersBatch DEF ReadEnd, FlagSession
<1>4. ASSUME NEW k \in Conns, LookupSession(k)
      PROVE  BatchInv'
  <2>1. PICK pc \in {"close", Resumed(k, batch[k])} : reader' = [reader EXCEPT ![k] = pc]
    BY <1>4 DEF LookupSession
  <2>2. \A c \in Conns : reader'[c] = "poll" => reader[c] = "poll" \/ batch[c] # <<>>
    BY <2>1, ResumedKept DEF IInv, Typed
  <2>3. QED
    BY <1>4, <2>2, OthersBatch DEF LookupSession
<1>5. CASE UNCHANGED vars
  BY <1>5, OthersBatch DEF vars
<1>6. QED
  BY <1>1, <1>2, <1>3, <1>4, <1>5, AcceptClientBatch, ReceiveBatch, TreatMessageBatch,
     CloseFdBatch, PeerClosesBatch DEF Next, AcceptThread, ReadThread

-----------------------------------------------------------------------------
(* Those whose connection may be closed over their heads.                  *)
Unaware == Rejected \union robbed

(* A session that is about to close its own connection was told to stop.   *)
ToldBeforeClosing ==
    \A c \in Conns :
        reader[c] \in {"lookup", "close", "flag"} /\ owner[fd[c]] = c => stopped[c] \/ c \in Rejected

(* A session whose connection is closed was told to stop.                  *)
ClosedAreTold ==
    \A c \in 1..Last : owner[fd[c]] # c => stopped[c] \/ c \in Unaware

(* A session that still reads has its connection.                          *)
ReadersOwn ==
    \A c \in Conns : reader[c] = "recv" /\ owner[fd[c]] # c => c \in Unaware

(* The connection that a closing thread may cut has ended, was rejected or *)
(* got its descriptor too early.                                           *)
Cuttable == hungUp \union Rejected \union pressed
ClosesCuttable ==
    /\ cut \subseteq Cuttable
    /\ \A c \in Conns : AboutToClose(c) => owner[fd[c]] \in {0} \union Cuttable

CloseInv == ToldBeforeClosing /\ ClosedAreTold /\ ReadersOwn /\ ClosesCuttable
            /\ foreign \subseteq Unaware

LEMMA InitClose ==
    ASSUME Init
    PROVE  CloseInv
BY DEF Init, CloseInv, ToldBeforeClosing, ClosedAreTold, ReadersOwn, ClosesCuttable, AboutToClose,
       Closing, Last

LEMMA OthersClose ==
    ASSUME CloseInv, UNCHANGED <<fd, owner, stopped, reader, from, cut, foreign, robbed, pressed>>,
           hungUp \subseteq hungUp'
    PROVE  CloseInv'
BY DEF CloseInv, ToldBeforeClosing, ClosedAreTold, ReadersOwn, ClosesCuttable, AboutToClose,
       Cuttable, Unaware, Last

(* What a step of a reading thread that closes nothing has to keep.        *)
LEMMA ReaderClose ==
    ASSUME IInv, CloseInv, NEW c \in Conns,
           NEW pc \in {"recv", "poll", "done", "lookup", "close"},
           reader' = [reader EXCEPT ![c] = pc],
           \/ stopped' = stopped
           \/ stopped' = [stopped EXCEPT ![c] = TRUE],
           UNCHANGED <<fd, owner, hungUp, pressed, robbed>>,
           cut' \subseteq Cuttable, foreign' \subseteq Unaware,
           \A k \in Conns : k # c => from'[k] = from[k],
           pc = "poll" /\ from'[c] \in Rejected => owner[fd[c]] \in {0} \union Cuttable,
           pc \in {"lookup", "close"} =>
               /\ owner[fd[c]] = c => stopped'[c] \/ c \in Rejected
               /\ owner[fd[c]] \in {0} \union Cuttable,
           pc = "recv" /\ owner[fd[c]] # c => c \in Unaware
    PROVE  CloseInv'
<1>1. \A k \in Conns : /\ k # c => reader'[k] = reader[k] /\ stopped'[k] = stopped[k]
                       /\ stopped[k] => stopped'[k]
  BY DEF IInv, Typed
<1>2. reader'[c] = pc /\ Last' = Last /\ Cuttable' = Cuttable /\ Unaware' = Unaware
  BY DEF IInv, Typed, Last, Cuttable, Unaware
<1>3. ToldBeforeClosing'
  BY <1>1, <1>2 DEF CloseInv, ToldBeforeClosing
<1>4. ClosedAreTold'
  BY <1>1, <1>2, Existing DEF CloseInv, ClosedAreTold
<1>5. ReadersOwn'
  BY <1>1, <1>2 DEF CloseInv, ReadersOwn
<1>6. ClosesCuttable'
  BY <1>1, <1>2 DEF CloseInv, ClosesCuttable, AboutToClose, Closing
<1>7. QED
  BY <1>2, <1>3, <1>4, <1>5, <1>6 DEF CloseInv

(* Who goes on reading was not told to stop.                               *)
LEMMA ResumedUnaware ==
    ASSUME IInv, CloseInv, NEW c \in 1..Last, NEW rest, Resumed(c, rest) = "recv",
           owner[fd[c]] # c
    PROVE  c \in Unaware
BY DEF CloseInv, ClosedAreTold, Resumed

LEMMA ReceiveClose ==
    ASSUME IInv, BatchInv, CloseInv, NEW c \in Conns, Receive(c)
    PROVE  CloseInv'
<1> DEFINE d == owner[fd[c]]
<1>1. /\ reader[c] = "recv" /\ reader' = [reader EXCEPT ![c] = "poll"]
      /\ from' = [from EXCEPT ![c] = d]
      /\ UNCHANGED <<fd, owner, stopped, hungUp, pressed, robbed, cut>>
      /\ foreign' = IF d = c THEN foreign ELSE foreign \union {c}
  BY DEF Receive
<1>2. d # c => c \in Unaware
  BY <1>1 DEF CloseInv, ReadersOwn
<1>3. foreign' \subseteq Unaware /\ cut' \subseteq Cuttable
  BY <1>1, <1>2 DEF CloseInv, ClosesCuttable
<1>4. from'[c] = d /\ \A k \in Conns : k # c => from'[k] = from[k]
  BY <1>1 DEF BatchInv
<1>5. from'[c] \in Rejected => d \in {0} \union Cuttable
  BY <1>4 DEF Cuttable
<1>6. QED
  BY <1>1, <1>3, <1>4, <1>5, ReaderClose

(* A Logon that is rejected closes the session only when it came from the  *)
(* connection of the descriptor, or when that one was marked.              *)
LEMMA TreatMessageClose ==
    ASSUME IInv, BatchInv, CloseInv, NEW c \in Conns, TreatMessage(c)
    PROVE  CloseInv'
<1> DEFINE d == owner[fd[c]]
           rest == Tail(batch[c])
<1>1. /\ reader[c] = "poll" /\ batch[c] # <<>>
      /\ from' = [from EXCEPT ![c] = IF rest = <<>> THEN 0 ELSE from[c]]
      /\ UNCHANGED <<fd, owner, stopped, hungUp, pressed, robbed, cut, foreign>>
  BY DEF TreatMessage, peerVars, historyVars, BatchInv
<1>2. PICK pc \in {"lookup", Resumed(c, rest)} :
          /\ reader' = [reader EXCEPT ![c] = pc]
          /\ pc = "lookup" => from[c] \in Rejected
  BY ResumedKept DEF TreatMessage
<1>3. pc \in {"recv", "poll", "done", "lookup"} /\ pc # "close"
  BY <1>2, ResumedKept
<1>4. foreign' \subseteq Unaware /\ cut' \subseteq Cuttable
  BY <1>1 DEF CloseInv, ClosesCuttable
<1>5. from[c] \in Rejected => d \in {0} \union Cuttable
  BY <1>1 DEF CloseInv, ClosesCuttable, AboutToClose
<1>6. pc = "lookup" => d \in {0} \union Cuttable /\ (d = c => c \in Rejected)
  BY <1>1, <1>2, <1>5 DEF BatchInv
<1>7. /\ from'[c] = (IF rest = <<>> THEN 0 ELSE from[c])
      /\ \A k \in Conns : k # c => from'[k] = from[k]
  BY <1>1 DEF BatchInv
<1>8. pc = "poll" => rest # <<>>
  BY <1>2, ResumedKept
<1>9. pc = "recv" /\ d # c => c \in Unaware
  <2>1. c \in 1..Last
    BY <1>1, Existing
  <2>2. pc = "recv" => Resumed(c, rest) = "recv"
    BY <1>2
  <2>3. QED
    BY <2>1, <2>2, ResumedUnaware
<1> HIDE DEF rest
<1>10. pc = "poll" /\ from'[c] \in Rejected => d \in {0} \union Cuttable
  BY <1>5, <1>7, <1>8
<1>11. QED
  BY <1>1, <1>2, <1>3, <1>4, <1>6, <1>7, <1>9, <1>10, ReaderClose

LEMMA ReadEndClose ==
    ASSUME IInv, CloseInv, NEW c \in Conns, ReadEnd(c)
    PROVE  CloseInv'
<1>1. /\ reader' = [reader EXCEPT ![c] = "lookup"] /\ stopped' = [stopped EXCEPT ![c] = TRUE]
      /\ UNCHANGED <<fd, owner, from, hungUp, pressed, robbed, cut, foreign>>
  BY DEF ReadEnd, historyVars, peerVars, recvVars
<1>2. owner[fd[c]] \in {0} \union Cuttable
  <2>1. CASE reader[c] = "end"
    BY <2>1 DEF CloseInv, ClosesCuttable, AboutToClose, Closing
  <2>2. CASE AtEnd(owner[fd[c]])
    BY <2>2 DEF AtEnd, CloseInv, ClosesCuttable, Cuttable
  <2>3. QED
    BY <2>1, <2>2 DEF ReadEnd
<1>3. stopped'[c] /\ cut' \subseteq Cuttable /\ foreign' \subseteq Unaware
  BY <1>1 DEF CloseInv, ClosesCuttable, IInv, Typed
<1>4. QED
  BY <1>1, <1>2, <1>3, ReaderClose

LEMMA LookupSessionClose ==
    ASSUME IInv, CloseInv, NEW c \in Conns, LookupSession(c)
    PROVE  CloseInv'
<1> DEFINE d == owner[fd[c]]
<1>1. /\ reader[c] = "lookup" /\ c \in 1..Last
      /\ UNCHANGED <<fd, owner, from, stopped, hungUp, pressed, robbed, foreign>>
      /\ cut' \subseteq cut \union ({d} \ {0})
  BY Existing DEF LookupSession, peerVars, recvVars
<1>2. PICK pc \in {"close", Resumed(c, batch[c])} : reader' = [reader EXCEPT ![c] = pc]
  BY DEF LookupSession
<1>3. d \in {0} \union Cuttable /\ (d = c => stopped[c] \/ c \in Rejected)
  BY <1>1 DEF CloseInv, ClosesCuttable, AboutToClose, ToldBeforeClosing, Closing
<1>4. cut' \subseteq Cuttable /\ foreign' \subseteq Unaware
  BY <1>1, <1>3 DEF CloseInv, ClosesCuttable
<1>5. pc \in {"recv", "poll", "done", "close"} /\ pc # "lookup"
  BY <1>2, ResumedKept
<1>6. pc = "recv" /\ d # c => c \in Unaware
  BY <1>1, <1>2, ResumedUnaware
<1>7. QED
  BY <1>1, <1>2, <1>3, <1>4, <1>5, <1>6, ReaderClose

LEMMA CloseFdClose ==
    ASSUME IInv, CloseInv, NEW c \in Conns, CloseFd(c)
    PROVE  CloseInv'
<1> DEFINE f == fd[c]
<1>1. /\ reader[c] = "close" /\ c \in 1..Last /\ f \in Fds
      /\ UNCHANGED <<fd, from, stopped, hungUp, pressed, cut, foreign>>
  BY Existing DEF CloseFd, peerVars, recvVars
<1>2. CASE owner[f] = 0
  <2>1. reader' = [reader EXCEPT ![c] = Resumed(c, batch[c])] /\ UNCHANGED <<owner, robbed>>
    BY <1>2 DEF CloseFd
  <2>2. cut' \subseteq Cuttable /\ foreign' \subseteq Unaware /\ owner[f] # c
    BY <1>1, <1>2 DEF CloseInv, ClosesCuttable
  <2>3. PICK pc : pc = Resumed(c, batch[c])
    OBVIOUS
  <2>4. pc \in {"recv", "poll", "done"} /\ (pc = "recv" => c \in Unaware)
    BY <1>1, <2>2, <2>3, ResumedKept, ResumedUnaware
  <2>5. QED
    BY <1>1, <1>2, <2>1, <2>2, <2>3, <2>4, ReaderClose
<1>3. CASE owner[f] # 0
  <2>1. PICK waiting \in SUBSET {r \in 1..Last : fd[r] = fd[c] /\ reader[r] = "recv"} :
            reader' = [r \in Conns |-> IF r = c THEN "flag"
                                       ELSE IF r \in waiting THEN "end" ELSE reader[r]]
    BY <1>3 DEF CloseFd
  <2>2. /\ owner' = [owner EXCEPT ![f] = 0]
        /\ robbed' = robbed \union ({owner[f]} \ {c})
    BY <1>3 DEF CloseFd
  <2>3. /\ Last' = Last /\ Cuttable' = Cuttable /\ Unaware \subseteq Unaware'
        /\ owner[f] \in Unaware' \union {c}
    BY <1>1, <2>2 DEF Last, Cuttable, Unaware
  <2>4. \A g \in Fds : owner'[g] = (IF g = f THEN 0 ELSE owner[g])
    BY <2>2 DEF IInv, Typed
  <2>5. \A k \in Conns : \/ k = c /\ reader'[k] = "flag"
                         \/ k # c /\ reader'[k] = "end" /\ fd[k] = f /\ k \in 1..Last
                         \/ k # c /\ reader'[k] = reader[k]
    BY <2>1
  <2>6. \A k \in 1..Last : k \in Conns /\ fd[k] \in Fds /\ k # 0
    BY Existing
  <2>7. \A k \in 1..Last : owner[fd[k]] = k /\ owner'[fd[k]] # k => fd[k] = f /\ owner[f] = k
    BY <2>4, <2>6
  <2>8. owner[f] = c => stopped[c] \/ c \in Rejected
    BY <1>1 DEF CloseInv, ToldBeforeClosing
  <2>9. ClosedAreTold'
    <3>1. SUFFICES ASSUME NEW k \in 1..Last, owner'[fd[k]] # k
                   PROVE  stopped[k] \/ k \in Unaware'
      BY <1>1, <2>3 DEF ClosedAreTold
    <3>2. CASE owner[fd[k]] # k
      BY <2>3, <3>2 DEF CloseInv, ClosedAreTold
    <3>3. CASE owner[fd[k]] = k
      BY <2>3, <2>7, <2>8, <3>1, <3>3 DEF Unaware
    <3>4. QED
      BY <3>2, <3>3
  <2>10. ToldBeforeClosing'
    <3>1. SUFFICES ASSUME NEW k \in Conns, reader'[k] \in {"lookup", "close", "flag"},
                          owner'[fd[k]] = k
                   PROVE  stopped[k] \/ k \in Rejected
      BY <1>1 DEF ToldBeforeClosing
    <3>2. k \in 1..Last
      BY <1>1, <2>5, <3>1, Existing
    <3>3. k # c /\ reader'[k] = reader[k] /\ owner[fd[k]] = k
      BY <1>1, <2>4, <2>5, <2>6, <3>1, <3>2
    <3>4. QED
      BY <3>1, <3>3 DEF CloseInv, ToldBeforeClosing
  <2>11. ReadersOwn'
    <3>1. SUFFICES ASSUME NEW k \in Conns, reader'[k] = "recv", owner'[fd[k]] # k
                   PROVE  k \in Unaware'
      BY <1>1 DEF ReadersOwn
    <3>2. k # c /\ reader[k] = "recv" /\ k \in 1..Last
      BY <2>5, <3>1, Existing
    <3>3. CASE owner[fd[k]] # k
      BY <2>3, <3>2, <3>3 DEF CloseInv, ReadersOwn
    <3>4. CASE owner[fd[k]] = k
      BY <2>3, <2>7, <3>1, <3>2, <3>4
    <3>5. QED
      BY <3>3, <3>4
  <2>12. ClosesCuttable'
    <3>1. SUFFICES ASSUME NEW k \in Conns, AboutToClose(k)'
                   PROVE  owner'[fd[k]] \in {0} \union Cuttable
      BY <1>1, <2>3 DEF CloseInv, ClosesCuttable
    <3>2. k \in 1..Last /\ (fd[k] = f \/ AboutToClose(k))
      BY <1>1, <2>5, <3>1, Existing DEF AboutToClose, Closing
    <3>3. CASE fd[k] = f
      BY <2>4, <2>6, <3>2, <3>3
    <3>4. CASE fd[k] # f
      BY <2>4, <2>6, <3>2, <3>4 DEF CloseInv, ClosesCuttable
    <3>5. QED
      BY <3>3, <3>4
  <2>13. foreign' \subseteq Unaware'
    BY <1>1, <2>3 DEF CloseInv
  <2>14. QED
    BY <2>9, <2>10, <2>11, <2>12, <2>13 DEF CloseInv
<1>4. QED
  BY <1>2, <1>3

LEMMA FlagSessionClose ==
    ASSUME IInv, CloseInv, NEW c \in Conns, FlagSession(c)
    PROVE  CloseInv'
<1>1. /\ reader[c] = "flag" /\ reader' = [reader EXCEPT ![c] = "lookup"]
      /\ stopped' = [stopped EXCEPT ![listed[fd[c]]] = TRUE]
      /\ UNCHANGED <<fd, owner, from, hungUp, pressed, robbed, cut, foreign>>
  BY DEF FlagSession, historyVars, peerVars, recvVars
<1>2. /\ Last' = Last /\ Cuttable' = Cuttable /\ Unaware' = Unaware
      /\ \A k \in Conns : /\ stopped[k] => stopped'[k]
                          /\ reader'[k] = IF k = c THEN "lookup" ELSE reader[k]
  BY <1>1 DEF Last, Cuttable, Unaware, IInv, Typed
<1>3. ToldBeforeClosing' /\ ReadersOwn'
  BY <1>1, <1>2 DEF CloseInv, ToldBeforeClosing, ReadersOwn
<1>4. ClosedAreTold'
  BY <1>1, <1>2, Existing DEF CloseInv, ClosedAreTold
<1>5. ClosesCuttable'
  BY <1>1, <1>2 DEF CloseInv, ClosesCuttable, AboutToClose, Closing
<1>6. QED
  BY <1>1, <1>2, <1>3, <1>4, <1>5 DEF CloseInv

(* A descriptor that is given out again may be in the middle of a close:   *)
(* its new connection is marked.                                           *)
LEMMA AcceptClientClose ==
    ASSUME IInv, CloseInv, AcceptClient
    PROVE  CloseInv'
<1> DEFINE free == {g \in Fds : owner[g] = 0}
           f == Min(free)
           k == Last + 1
<1>1. /\ free # {} /\ Last < MaxSessions
      /\ fd' = Append(fd, f) /\ owner' = [owner EXCEPT ![f] = k]
      /\ reader' = [reader EXCEPT ![k] = "recv"]
      /\ pressed' = (IF \E c \in 1..Last : fd[c] = f /\ AboutToClose(c)
                     THEN pressed \union {k} ELSE pressed)
      /\ UNCHANGED <<from, stopped, hungUp, robbed, cut, foreign>>
  BY DEF AcceptClient, peerVars, recvVars
<1>2. f \in Fds /\ owner[f] = 0
  <2>1. free \in SUBSET Nat
    BY SessionsAssumption
  <2>2. QED
    BY <1>1, <2>1, MinOfNats
<1>3. /\ Last \in Nat /\ k \in Conns /\ Last' = k
      /\ \A j \in 1..Last : fd'[j] = fd[j] /\ fd[j] \in Fds /\ j # k /\ j # 0
      /\ fd'[k] = f
  BY <1>1, <1>2, SessionsAssumption DEF IInv, Typed, Last, Conns
<1>4. \A g \in Fds : owner'[g] = IF g = f THEN k ELSE owner[g]
  BY <1>1 DEF IInv, Typed
<1>5. \A j \in Conns : reader'[j] = IF j = k THEN "recv" ELSE reader[j]
  BY <1>1 DEF IInv, Typed
<1>6. Unaware' = Unaware /\ Cuttable \subseteq Cuttable' /\ owner'[fd'[k]] = k
  BY <1>1, <1>2, <1>3, <1>4 DEF Unaware, Cuttable
<1>7. \A j \in Conns : reader[j] # "none" => j \in 1..Last
  BY Existing
<1>8. \A j \in 1..Last : owner'[fd'[j]] = j <=> owner[fd[j]] = j
  BY <1>2, <1>3, <1>4
<1>9. ToldBeforeClosing'
  <2>1. SUFFICES ASSUME NEW j \in Conns, reader'[j] \in {"lookup", "close", "flag"},
                        owner'[fd'[j]] = j
                 PROVE  stopped[j] \/ j \in Rejected
    BY <1>1 DEF ToldBeforeClosing
  <2>2. reader'[j] = reader[j] /\ j \in 1..Last
    BY <1>5, <1>7, <2>1
  <2>3. QED
    BY <1>8, <2>1, <2>2 DEF CloseInv, ToldBeforeClosing
<1>10. ReadersOwn'
  BY <1>5, <1>6, <1>7, <1>8 DEF CloseInv, ReadersOwn
<1>11. ClosedAreTold'
  <2>1. ASSUME NEW j \in 1..k, owner'[fd'[j]] # j
        PROVE  j \in 1..Last
    BY <1>3, <1>6, <2>1
  <2>2. QED
    BY <1>1, <1>3, <1>6, <1>8, <2>1 DEF CloseInv, ClosedAreTold
<1>12. ClosesCuttable'
  <2>1. SUFFICES ASSUME NEW j \in Conns, AboutToClose(j)'
                 PROVE  owner'[fd'[j]] \in {0} \union Cuttable'
    BY <1>1, <1>6 DEF CloseInv, ClosesCuttable
  <2>2. j # k /\ AboutToClose(j) /\ j \in 1..Last
    BY <1>1, <1>5, <1>7, <2>1 DEF AboutToClose, Closing
  <2>3. CASE fd[j] = f
    <3>1. k \in pressed'
      BY <1>1, <2>2, <2>3
    <3>2. owner'[fd'[j]] = k
      BY <1>2, <1>3, <1>4, <2>2, <2>3
    <3>3. QED
      BY <3>1, <3>2 DEF Cuttable
  <2>4. CASE fd[j] # f
    BY <1>3, <1>4, <1>6, <2>2, <2>4 DEF CloseInv, ClosesCuttable
  <2>5. QED
    BY <2>3, <2>4
<1>13. QED
  BY <1>1, <1>6, <1>9, <1>10, <1>11, <1>12 DEF CloseInv

LEMMA NextClose ==
    ASSUME IInv, BatchInv, CloseInv, [Next]_vars
    PROVE  CloseInv'
<1>1. CASE AcceptThread
  <2>1. CASE AddSender \/ SetConnected \/ InsertSession
    BY <2>1, OthersClose DEF AddSender, SetConnected, InsertSession, historyVars, peerVars, recvVars
  <2>2. QED
    BY <1>1, <2>1, AcceptClientClose DEF AcceptThread
<1>2. CASE PushReply
  BY <1>2, OthersClose DEF PushReply, historyVars, peerVars, recvVars
<1>3. ASSUME NEW k \in Conns, ReadThread(k)
      PROVE  CloseInv'
  BY <1>3, ReceiveClose, TreatMessageClose, ReadEndClose, LookupSessionClose, CloseFdClose,
     FlagSessionClose DEF ReadThread
<1>4. ASSUME NEW k \in Conns, SendThread(k) \/ PeerCloses(k)
      PROVE  CloseInv'
  BY <1>4, OthersClose DEF SendThread, SenderChecks, SendReply, PeerCloses, historyVars, peerVars, recvVars
<1>5. CASE UNCHANGED vars
  BY <1>5, OthersClose DEF vars, historyVars, peerVars, recvVars
<1>6. QED
  BY <1>1, <1>2, <1>3, <1>4, <1>5 DEF Next

LEMMA SessionsClose == Spec => [](IInv /\ BatchInv /\ CloseInv)
<1>1. Init => IInv /\ BatchInv /\ CloseInv
  BY InitInv, InitBatch, InitClose
<1>2. IInv /\ BatchInv /\ CloseInv /\ [Next]_vars => IInv' /\ BatchInv' /\ CloseInv'
  BY NextInv, NextBatch, NextClose
<1>3. QED
  BY <1>1, <1>2, PTL DEF Spec

(* The bytes of a connection are read by the session of another one only   *)
(* if that one was not told that its own connection was closed: it was     *)
(* rejected, or the reading thread of another session closed it.           *)
THEOREM OnlyUnawareReadForeign == Spec => []ForeignReadersWereClosed
<1>1. IInv /\ CloseInv => ForeignReadersWereClosed
  BY DEF CloseInv, Unaware, ForeignReadersWereClosed
<1>2. QED
  BY <1>1, SessionsClose, PTL

(* For every number of descriptors and connections, whatever comes in one  *)
(* recv: a connection whose peer is there and was not rejected is only cut *)
(* when it got a descriptor that a reading thread was closing, or about to *)
(* close for the messages of a rejected peer.                              *)
THEOREM InnocentKept == Spec => InnocentCutOnlyIfPressed
<1> DEFINE Spared == \A k \in cut' \ cut : k \in hungUp \union Rejected \union pressed
<1>1. ASSUME IInv, CloseInv, Next
      PROVE  Spared
  <2>1. ASSUME NEW c \in Conns, LookupSession(c)
        PROVE  Spared
    <3>1. reader[c] = "lookup" /\ cut' \subseteq cut \union ({owner[fd[c]]} \ {0})
      BY <2>1 DEF LookupSession
    <3>2. QED
      BY <1>1, <3>1 DEF CloseInv, ClosesCuttable, AboutToClose, Cuttable, Closing
  <2>2. CASE ~\E c \in Conns : LookupSession(c)
    <3>1. cut' = cut
      BY <1>1, <2>2 DEF Next, AcceptThread, ReadThread, SendThread, AcceptClient, AddSender,
         SetConnected, InsertSession, Receive, TreatMessage, ReadEnd, CloseFd,
         FlagSession, PushReply, SenderChecks, SendReply, PeerCloses, historyVars
    <3>2. QED
      BY <3>1
  <2>3. QED
    BY <2>1, <2>2
<1>2. IInv /\ CloseInv /\ [Next]_vars => [Spared]_vars
  BY <1>1
<1>3. QED
  BY SessionsClose, <1>2, PTL DEF Spec, InnocentCutOnlyIfPressed

-----------------------------------------------------------------------------
(* The types that rings and requests need besides.                         *)
RingsTyped ==
    /\ sender \in [Conns -> {"none", "check", "send", "done", "loop"}]
    /\ ring \in [Conns -> Seq(Conns)] /\ asks \in Seq([fd : Fds, asker : Conns])
    /\ strays \in [Conns -> 0..2]

(* Connections of one descriptor come one after the other: the owner is    *)
(* the last of them, and the session that is listed the first.             *)
InTurn ==
    /\ \A f \in Fds : owner[f] # 0 => fd[owner[f]] = f
    /\ \A c \in 1..Last :
        /\ owner[fd[c]] # 0 => c <= owner[fd[c]]
        /\ listed[fd[c]] # 0 => listed[fd[c]] <= c
        /\ listed[fd[c]] = 0 => c = Last /\ accepting # "idle"

(* A request carries the descriptor of the connection that asked.          *)
AsksByFd ==
    \A j \in DOMAIN asks : asks[j].asker \in 1..Last /\ fd[asks[j].asker] = asks[j].fd

(* While a connection has its descriptor its session answers only itself.  *)
RingsOwn ==
    \A k \in 1..Last : owner[fd[k]] = k => \A j \in DOMAIN ring[k] : ring[k][j] = k

(* A session that does not exist yet, or has no sender yet, sent nothing.  *)
NoSenderYet ==
    /\ \A k \in Conns : k > Last => sender[k] = "none" /\ ring[k] = <<>> /\ strays[k] = 0
    /\ accepting = "sender" => sender[Last] = "none" /\ strays[Last] = 0

(* After a stray message the sending thread looks at its stop flag, which  *)
(* is set.                                                                 *)
OneStray ==
    \A k \in Conns :
        k \notin Unaware /\ sender[k] # "loop" /\ strays[k] # 0 =>
            strays[k] = 1 /\ stopped[k] /\ sender[k] # "send"

StrayInv == RingsTyped /\ InTurn /\ AsksByFd /\ RingsOwn /\ NoSenderYet /\ OneStray

LEMMA InitStray ==
    ASSUME Init
    PROVE  StrayInv
<1>1. Last = 0
  BY DEF Init, Last
<1>2. RingsTyped
  BY DEF Init, RingsTyped
<1>3. QED
  BY <1>1, <1>2 DEF Init, StrayInv, InTurn, AsksByFd, RingsOwn, NoSenderYet, OneStray

LEMMA OthersStray ==
    ASSUME IInv, StrayInv, UNCHANGED <<fd, owner, listed, sender, ring, asks, strays>>,
           \A k \in Conns : stopped[k] => stopped'[k], robbed \subseteq robbed',
           accepting # "idle" => accepting' # "idle",
           accepting' = "sender" => accepting = "sender"
    PROVE  StrayInv'
<1>1. Last' = Last /\ Unaware \subseteq Unaware'
  BY DEF Last, Unaware
<1>2. RingsTyped' /\ AsksByFd' /\ RingsOwn'
  BY <1>1 DEF StrayInv, RingsTyped, AsksByFd, RingsOwn
<1>3. InTurn'
  BY <1>1 DEF StrayInv, InTurn
<1>4. NoSenderYet' /\ OneStray'
  BY <1>1 DEF StrayInv, NoSenderYet, OneStray
<1>5. QED
  BY <1>2, <1>3, <1>4 DEF StrayInv

(* The messages of a recv are asked for by the connection that sent them,  *)
(* which is the session's own while that one has its descriptor.           *)
LEMMA TreatMessageStray ==
    ASSUME IInv, BatchInv, StrayInv, NEW c \in Conns, TreatMessage(c)
    PROVE  StrayInv'
<1> DEFINE d == from[c]
<1>1. /\ reader[c] = "poll" /\ batch[c] # <<>>
      /\ UNCHANGED <<fd, owner, listed, stopped, accepting, sender, strays, robbed>>
  BY DEF TreatMessage, historyVars, BatchInv
<1>2. /\ c \in 1..Last /\ fd[c] \in Fds /\ Last' = Last /\ Unaware' = Unaware
      /\ d \in 1..Last /\ d \in Conns /\ fd[d] = fd[c]
      /\ owner[fd[c]] = c => d = c
  BY <1>1, Existing DEF BatchInv, Last, Unaware
<1>3. InTurn' /\ OneStray'
  BY <1>1, <1>2 DEF StrayInv, InTurn, OneStray
<1>4. ring \in [Conns -> Seq(Conns)] /\ asks \in Seq([fd : Fds, asker : Conns])
  BY DEF StrayInv, RingsTyped
<1>5. CASE asks' = Append(asks, [fd |-> fd[c], asker |-> d]) /\ ring' = ring
  <2> DEFINE a == [fd |-> fd[c], asker |-> d]
  <2>1. a \in [fd : Fds, asker : Conns]
    BY <1>2
  <2>2. /\ asks' \in Seq([fd : Fds, asker : Conns])
        /\ \A j \in DOMAIN asks' : asks'[j] = a \/ (j \in DOMAIN asks /\ asks'[j] = asks[j])
    BY <1>4, <1>5, <2>1, AppendKeeps
  <2>3. AsksByFd'
    BY <1>1, <1>2, <2>2 DEF StrayInv, AsksByFd
  <2>4. RingsTyped' /\ RingsOwn' /\ NoSenderYet'
    BY <1>1, <1>2, <1>5, <2>2 DEF StrayInv, RingsTyped, RingsOwn, NoSenderYet
  <2>5. QED
    BY <1>3, <2>3, <2>4 DEF StrayInv
<1>6. CASE ring' = Pushed(c, d) /\ asks' = asks
  <2>1. CASE ~connected[c]
    <3>1. ring' = ring
      BY <1>6, <2>1 DEF Pushed
    <3>2. RingsTyped' /\ RingsOwn' /\ NoSenderYet' /\ AsksByFd'
      BY <1>1, <1>2, <1>6, <3>1 DEF StrayInv, RingsTyped, RingsOwn, NoSenderYet, AsksByFd
    <3>3. QED
      BY <1>3, <3>2 DEF StrayInv
  <2>2. CASE connected[c]
    <3>1. ring' = [ring EXCEPT ![c] = Append(ring[c], d)]
      BY <1>6, <2>2 DEF Pushed
    <3>2. /\ ring'[c] = Append(ring[c], d) /\ ring[c] \in Seq(Conns)
          /\ \A k \in Conns : k # c => ring'[k] = ring[k]
      BY <1>4, <3>1
    <3>3. /\ ring'[c] \in Seq(Conns)
          /\ \A j \in DOMAIN ring'[c] :
                 ring'[c][j] = d \/ (j \in DOMAIN ring[c] /\ ring'[c][j] = ring[c][j])
      BY <1>2, <3>2, AppendKeeps
    <3>4. RingsTyped'
      BY <1>1, <1>4, <1>6, <3>1, <3>2, <3>3 DEF StrayInv, RingsTyped
    <3>5. RingsOwn'
      <4>1. SUFFICES ASSUME NEW k \in 1..Last, owner[fd[k]] = k, NEW j \in DOMAIN ring'[k]
                     PROVE  ring'[k][j] = k
        BY <1>1, <1>2 DEF RingsOwn
      <4>2. CASE k = c
        BY <1>2, <3>3, <4>1, <4>2 DEF StrayInv, RingsOwn
      <4>3. CASE k # c
        BY <3>2, <4>1, <4>3, Existing DEF StrayInv, RingsOwn
      <4>4. QED
        BY <4>2, <4>3
    <3>6. NoSenderYet' /\ AsksByFd'
      <4>1. \A k \in Conns : k > Last => k # c
        BY <1>2, Existing
      <4>2. QED
        BY <1>1, <1>2, <1>6, <3>2, <4>1 DEF StrayInv, NoSenderYet, AsksByFd
    <3>7. QED
      BY <1>3, <3>4, <3>5, <3>6 DEF StrayInv
  <2>3. QED
    BY <2>1, <2>2
<1>7. QED
  BY <1>5, <1>6 DEF TreatMessage

LEMMA CloseFdStray ==
    ASSUME IInv, StrayInv, NEW c \in Conns, CloseFd(c)
    PROVE  StrayInv'
<1> DEFINE f == fd[c]
<1>1. /\ reader[c] = "close"
      /\ UNCHANGED <<fd, listed, stopped, accepting, sender, ring, asks, strays>>
      /\ robbed \subseteq robbed'
      /\ owner' = owner \/ owner' = [owner EXCEPT ![f] = 0]
  BY DEF CloseFd
<1>2. Last' = Last /\ Unaware \subseteq Unaware'
  BY <1>1 DEF Last, Unaware
<1>3. \A g \in Fds : owner'[g] = owner[g] \/ owner'[g] = 0
  BY <1>1 DEF IInv, Typed
<1>4. \A k \in 1..Last : k # 0 /\ fd[k] \in Fds
  BY Existing
<1>5. RingsTyped' /\ AsksByFd' /\ NoSenderYet' /\ OneStray'
  BY <1>1, <1>2 DEF StrayInv, RingsTyped, AsksByFd, NoSenderYet, OneStray
<1>6. InTurn'
  BY <1>1, <1>2, <1>3, <1>4 DEF StrayInv, InTurn
<1>7. RingsOwn'
  BY <1>1, <1>2, <1>3, <1>4 DEF StrayInv, RingsOwn
<1>8. QED
  BY <1>5, <1>6, <1>7 DEF StrayInv

(* The session that a request leads to is the one that asked, while its    *)
(* connection has the descriptor: it is the first and the last of them.    *)
LEMMA PushReplyStray ==
    ASSUME IInv, StrayInv, PushReply
    PROVE  StrayInv'
<1> DEFINE a == Head(asks)
           k == listed[a.fd]
<1>1. /\ asks # <<>> /\ asks' = Tail(asks)
      /\ ring' = (IF k = 0 THEN ring ELSE Pushed(k, a.asker))
      /\ UNCHANGED <<fd, owner, listed, stopped, accepting, sender, strays, robbed>>
  BY DEF PushReply, historyVars
<1>2. Last' = Last /\ Unaware' = Unaware
  BY <1>1 DEF Last, Unaware
<1>3. ring \in [Conns -> Seq(Conns)] /\ asks \in Seq([fd : Fds, asker : Conns])
  BY DEF StrayInv, RingsTyped
<1>4. /\ asks' \in Seq([fd : Fds, asker : Conns]) /\ a \in [fd : Fds, asker : Conns]
      /\ a.asker \in 1..Last /\ fd[a.asker] = a.fd
      /\ \A j \in DOMAIN asks' : j + 1 \in DOMAIN asks /\ asks'[j] = asks[j + 1]
  <2>1. /\ Tail(asks) \in Seq([fd : Fds, asker : Conns]) /\ a \in [fd : Fds, asker : Conns]
        /\ 1 \in DOMAIN asks /\ a = asks[1]
        /\ \A j \in DOMAIN Tail(asks) : j + 1 \in DOMAIN asks /\ Tail(asks)[j] = asks[j + 1]
    BY <1>1, <1>3, TailKeeps
  <2>2. QED
    BY <1>1, <2>1 DEF StrayInv, AsksByFd
<1>5. InTurn' /\ OneStray' /\ AsksByFd'
  <2>1. InTurn' /\ OneStray'
    BY <1>1, <1>2 DEF StrayInv, InTurn, OneStray
  <2>2. AsksByFd'
    BY <1>1, <1>2, <1>4 DEF StrayInv, AsksByFd
  <2>3. QED
    BY <2>1, <2>2
<1>6. CASE ring' = ring
  <2>1. RingsTyped' /\ RingsOwn' /\ NoSenderYet'
    BY <1>1, <1>2, <1>4, <1>6 DEF StrayInv, RingsTyped, RingsOwn, NoSenderYet
  <2>2. QED
    BY <1>5, <2>1 DEF StrayInv
<1>7. CASE k # 0 /\ ring' = [ring EXCEPT ![k] = Append(ring[k], a.asker)]
  <2>1. a.fd \in Fds /\ a.asker \in Conns
    BY <1>4
  <2>2. k \in 1..Last /\ k \in Conns /\ fd[k] = a.fd
    <3>1. k \in 0..Last /\ fd[k] = a.fd /\ Last \in Nat
      BY <1>7, <2>1, Existing DEF IInv, Typed, ListedByFd
    <3>2. k \in 1..Last
      BY <1>7, <3>1
    <3>3. QED
      BY <3>1, <3>2, Existing
  <2>3. /\ ring'[k] = Append(ring[k], a.asker) /\ ring[k] \in Seq(Conns)
        /\ \A j \in Conns : j # k => ring'[j] = ring[j]
    BY <1>3, <1>7, <2>2
  <2>4. /\ ring'[k] \in Seq(Conns)
        /\ \A j \in DOMAIN ring'[k] :
               ring'[k][j] = a.asker \/ (j \in DOMAIN ring[k] /\ ring'[k][j] = ring[k][j])
    BY <2>1, <2>3, AppendKeeps
  <2>5. owner[fd[k]] = k => a.asker = k
    <3>1. owner[a.fd] # 0 => a.asker <= owner[a.fd]
      BY <1>4 DEF StrayInv, InTurn
    <3>2. k <= a.asker
      BY <1>4, <1>7 DEF StrayInv, InTurn
    <3>3. k # 0 /\ k \in Nat /\ a.asker \in Nat
      BY <1>4, <2>2, Existing DEF Conns
    <3>4. QED
      BY <2>2, <3>1, <3>2, <3>3
  <2>6. RingsTyped'
    BY <1>1, <1>3, <1>4, <1>7, <2>3, <2>4 DEF StrayInv, RingsTyped
  <2>7. RingsOwn'
    <3>1. SUFFICES ASSUME NEW i \in 1..Last, owner[fd[i]] = i, NEW j \in DOMAIN ring'[i]
                   PROVE  ring'[i][j] = i
      BY <1>1, <1>2 DEF RingsOwn
    <3>2. CASE i = k
      BY <2>4, <2>5, <3>1, <3>2 DEF StrayInv, RingsOwn
    <3>3. CASE i # k
      BY <2>3, <3>1, <3>3, Existing DEF StrayInv, RingsOwn
    <3>4. QED
      BY <3>2, <3>3
  <2>8. NoSenderYet'
    <3>1. \A i \in Conns : i > Last => i # k
      BY <2>2, Existing
    <3>2. QED
      BY <1>1, <1>2, <2>3, <3>1 DEF StrayInv, NoSenderYet
  <2>9. QED
    BY <1>5, <2>6, <2>7, <2>8 DEF StrayInv
<1>8. QED
  BY <1>1, <1>6, <1>7 DEF Pushed

LEMMA SenderChecksStray ==
    ASSUME IInv, StrayInv, NEW k \in Conns, SenderChecks(k)
    PROVE  StrayInv'
<1>1. /\ sender[k] = "check"
      /\ UNCHANGED <<fd, owner, listed, stopped, accepting, ring, asks, strays, robbed>>
  BY DEF SenderChecks, historyVars
<1>2. PICK pc \in {"done", "send"} : /\ sender' = [sender EXCEPT ![k] = pc]
                                     /\ pc = "send" => ~stopped[k]
  BY DEF SenderChecks
<1>3. /\ Last' = Last /\ Unaware' = Unaware /\ sender'[k] = pc
      /\ \A j \in Conns : j # k => sender'[j] = sender[j]
  BY <1>1, <1>2 DEF Last, Unaware, StrayInv, RingsTyped
<1>4. RingsTyped' /\ AsksByFd' /\ RingsOwn' /\ InTurn'
  BY <1>1, <1>2, <1>3 DEF StrayInv, RingsTyped, AsksByFd, RingsOwn, InTurn
<1>5. NoSenderYet' /\ OneStray'
  BY <1>1, <1>2, <1>3 DEF StrayInv, NoSenderYet, OneStray
<1>6. QED
  BY <1>4, <1>5 DEF StrayInv

(* The one message that may go astray was on its way when the session was  *)
(* told to stop.                                                           *)
LEMMA SendReplyStray ==
    ASSUME IInv, CloseInv, StrayInv, NEW k \in Conns, SendReply(k)
    PROVE  StrayInv'
<1> DEFINE d == owner[fd[k]]
           asker == Head(ring[k])
           stray == d \notin {0, asker} \union cut
<1>1. /\ sender[k] \in {"send", "loop"} /\ ring[k] # <<>>
      /\ ring' = [ring EXCEPT ![k] = Tail(ring[k])]
      /\ sender' = [sender EXCEPT ![k] = IF sender[k] = "send" THEN "check" ELSE sender[k]]
      /\ strays' = (IF stray /\ strays[k] < 2 THEN [strays EXCEPT ![k] = strays[k] + 1] ELSE strays)
      /\ UNCHANGED <<fd, owner, listed, stopped, accepting, asks, robbed>>
  BY DEF SendReply
<1>2. /\ ring \in [Conns -> Seq(Conns)] /\ strays \in [Conns -> 0..2]
      /\ sender \in [Conns -> {"none", "check", "send", "done", "loop"}]
  BY DEF StrayInv, RingsTyped
<1>3. /\ Last' = Last /\ Unaware' = Unaware /\ k \in 1..Last
  <2>1. ~(k > Last)
    BY <1>1 DEF StrayInv, NoSenderYet
  <2>2. QED
    BY <1>1, <2>1, Existing DEF Last, Unaware, Conns
<1>4. /\ ring'[k] \in Seq(Conns) /\ 1 \in DOMAIN ring[k] /\ asker = ring[k][1]
      /\ \A j \in DOMAIN ring'[k] : j + 1 \in DOMAIN ring[k] /\ ring'[k][j] = ring[k][j + 1]
      /\ \A j \in Conns : j # k => ring'[j] = ring[j]
  <2>1. ring'[k] = Tail(ring[k]) /\ ring[k] \in Seq(Conns)
    BY <1>1, <1>2
  <2>2. QED
    BY <1>1, <1>2, <2>1, TailKeeps
<1>5. /\ \A j \in Conns : j # k => strays'[j] = strays[j] /\ sender'[j] = sender[j]
      /\ strays'[k] \in 0..2 /\ strays' \in [Conns -> 0..2]
      /\ strays'[k] = strays[k] \/ (stray /\ strays'[k] = strays[k] + 1)
      /\ sender'[k] = IF sender[k] = "send" THEN "check" ELSE sender[k]
  BY <1>1, <1>2
<1>6. RingsTyped'
  BY <1>1, <1>2, <1>4, <1>5 DEF StrayInv, RingsTyped
<1>7. RingsOwn'
  <2>1. SUFFICES ASSUME NEW i \in 1..Last, owner[fd[i]] = i, NEW j \in DOMAIN ring'[i]
                 PROVE  ring'[i][j] = i
    BY <1>1, <1>3 DEF RingsOwn
  <2>2. CASE i = k
    BY <1>4, <2>1, <2>2 DEF StrayInv, RingsOwn
  <2>3. CASE i # k
    BY <1>4, <2>1, <2>3, Existing DEF StrayInv, RingsOwn
  <2>4. QED
    BY <2>2, <2>3
<1>8. InTurn' /\ AsksByFd'
  BY <1>1, <1>3 DEF StrayInv, InTurn, AsksByFd
<1>9. NoSenderYet'
  <2>1. \A j \in Conns : j > Last => j # k
    BY <1>3, Existing
  <2>2. accepting = "sender" => sender'[Last] = "none" /\ strays'[Last] = 0
    <3>1. SUFFICES ASSUME accepting = "sender"
                   PROVE  sender'[Last] = "none" /\ strays'[Last] = 0
      OBVIOUS
    <3>2. sender[Last] = "none" /\ strays[Last] = 0
      BY <3>1 DEF StrayInv, NoSenderYet
    <3>3. Last # k
      BY <1>1, <3>2
    <3>4. Last \in Conns
      BY <3>1, SessionsAssumption DEF IInv, MakingLast, Typed, Last, Conns
    <3>5. QED
      BY <1>5, <3>2, <3>3, <3>4
  <2>3. QED
    BY <1>1, <1>3, <1>4, <1>5, <2>1, <2>2 DEF StrayInv, NoSenderYet
<1>10. OneStray'
  <2>1. SUFFICES ASSUME NEW j \in Conns, j \notin Unaware, sender'[j] # "loop", strays'[j] # 0
                 PROVE  strays'[j] = 1 /\ stopped[j] /\ sender'[j] # "send"
    BY <1>1, <1>3 DEF OneStray
  <2>2. CASE j # k
    BY <1>5, <2>1, <2>2 DEF StrayInv, OneStray
  <2>3. CASE j = k
    <3>1. sender[k] = "send" /\ sender'[k] = "check"
      BY <1>1, <1>5, <2>1, <2>3
    <3>2. strays[k] = 0
      BY <2>1, <2>3, <3>1 DEF StrayInv, OneStray
    <3>3. stray /\ strays'[k] = 1
      BY <1>5, <2>1, <2>3, <3>2
    <3>4. d # k
      BY <1>3, <1>4, <3>3 DEF StrayInv, RingsOwn
    <3>5. stopped[k]
      BY <1>3, <2>1, <2>3, <3>4 DEF CloseInv, ClosedAreTold
    <3>6. QED
      BY <2>3, <3>1, <3>3, <3>5
  <2>4. QED
    BY <2>2, <2>3
<1>11. QED
  BY <1>6, <1>7, <1>8, <1>9, <1>10 DEF StrayInv

LEMMA AddSenderStray ==
    ASSUME IInv, StrayInv, AddSender
    PROVE  StrayInv'
<1>1. /\ accepting = "sender" /\ accepting' = "connected"
      /\ UNCHANGED <<fd, owner, listed, stopped, ring, asks, strays, robbed>>
  BY DEF AddSender, historyVars
<1>2. PICK pc \in {"check", "done", "loop"} : sender' = [sender EXCEPT ![Last] = pc]
  BY DEF AddSender
<1>3. /\ Last' = Last /\ Unaware' = Unaware /\ strays[Last] = 0
      /\ \A j \in Conns : j # Last => sender'[j] = sender[j]
  BY <1>1, <1>2 DEF Last, Unaware, StrayInv, RingsTyped, NoSenderYet
<1>4. RingsTyped' /\ AsksByFd' /\ RingsOwn' /\ InTurn'
  BY <1>1, <1>2, <1>3 DEF StrayInv, RingsTyped, AsksByFd, RingsOwn, InTurn
<1>5. NoSenderYet' /\ OneStray'
  <2>1. \A j \in Conns : j > Last => j # Last
    BY Existing
  <2>2. QED
    BY <1>1, <1>3, <2>1 DEF StrayInv, NoSenderYet, OneStray
<1>6. QED
  BY <1>4, <1>5 DEF StrayInv

LEMMA AcceptClientStray ==
    ASSUME IInv, StrayInv, AcceptClient
    PROVE  StrayInv'
<1> DEFINE free == {g \in Fds : owner[g] = 0}
           f == Min(free)
           k == Last + 1
<1>1. /\ free # {} /\ Last < MaxSessions /\ accepting = "idle" /\ accepting' = "sender"
      /\ fd' = Append(fd, f) /\ owner' = [owner EXCEPT ![f] = k]
      /\ UNCHANGED <<listed, stopped, sender, ring, asks, strays, robbed>>
  BY DEF AcceptClient
<1>2. f \in Fds /\ owner[f] = 0
  <2>1. free \in SUBSET Nat
    BY SessionsAssumption
  <2>2. QED
    BY <1>1, <2>1, MinOfNats
<1>3. /\ Last \in Nat /\ k \in Conns /\ Last' = k
      /\ \A j \in 1..Last : fd'[j] = fd[j] /\ fd[j] \in Fds /\ j # k /\ j # 0
      /\ fd'[k] = f
  BY <1>1, <1>2, SessionsAssumption DEF IInv, Typed, Last, Conns
<1>4. \A g \in Fds : owner'[g] = (IF g = f THEN k ELSE owner[g]) /\ owner[g] \in 0..Last
  BY <1>1 DEF IInv, Typed
<1>5. sender[k] = "none" /\ ring[k] = <<>> /\ strays[k] = 0
  BY <1>3 DEF StrayInv, NoSenderYet
<1>6. RingsTyped' /\ OneStray'
  BY <1>1 DEF StrayInv, RingsTyped, OneStray, Unaware
<1>7. AsksByFd'
  <2>1. \A j \in 1..Last : j \in 1..k
    BY <1>3
  <2>2. QED
    BY <1>1, <1>3, <2>1 DEF StrayInv, AsksByFd
<1>8. NoSenderYet'
  <2>1. \A j \in Conns : j > k => j > Last
    BY <1>3 DEF Conns
  <2>2. QED
    BY <1>1, <1>3, <1>5, <2>1 DEF StrayInv, NoSenderYet
<1>9. RingsOwn'
  <2>1. SUFFICES ASSUME NEW i \in 1..k, owner'[fd'[i]] = i, NEW j \in DOMAIN ring[i]
                 PROVE  ring[i][j] = i
    BY <1>1, <1>3 DEF RingsOwn
  <2>2. i # k
    BY <1>5, <2>1
  <2>3. i \in 1..Last /\ owner[fd[i]] = i
    BY <1>3, <1>4, <2>1, <2>2
  <2>4. QED
    BY <2>1, <2>3 DEF StrayInv, RingsOwn
<1>10. InTurn'
  <2>1. ASSUME NEW g \in Fds, owner'[g] # 0
        PROVE  fd'[owner'[g]] = g
    <3>1. CASE g = f
      BY <1>3, <1>4, <3>1
    <3>2. CASE g # f
      <4>1. owner[g] \in 1..Last /\ fd[owner[g]] = g /\ owner'[g] = owner[g]
        BY <1>3, <1>4, <2>1, <3>2 DEF StrayInv, InTurn
      <4>2. QED
        BY <4>1, <1>3
    <3>3. QED
      BY <3>1, <3>2
  <2>2. ASSUME NEW c \in 1..k
        PROVE  /\ owner'[fd'[c]] # 0 => c <= owner'[fd'[c]]
               /\ listed[fd'[c]] # 0 => listed[fd'[c]] <= c
               /\ listed[fd'[c]] = 0 => c = k
    <3>1. CASE c = k
      <4>1. listed[f] \in 0..Last
        BY <1>2 DEF IInv, Typed
      <4>2. QED
        BY <1>2, <1>3, <1>4, <3>1, <4>1
    <3>2. CASE c # k
      <4>1. c \in 1..Last /\ fd'[c] = fd[c] /\ fd[c] \in Fds
        BY <1>3, <3>2
      <4>2. /\ owner[fd[c]] # 0 => c <= owner[fd[c]]
            /\ listed[fd[c]] # 0 /\ listed[fd[c]] <= c
        BY <1>1, <4>1 DEF StrayInv, InTurn
      <4>3. c <= k
        BY <1>3, <4>1
      <4>4. owner'[fd[c]] # 0 => c <= owner'[fd[c]]
        BY <1>4, <4>1, <4>2, <4>3
      <4>5. QED
        BY <4>1, <4>2, <4>4
    <3>3. QED
      BY <3>1, <3>2
  <2>3. QED
    BY <1>1, <1>3, <2>1, <2>2 DEF InTurn
<1>11. QED
  BY <1>6, <1>7, <1>8, <1>9, <1>10 DEF StrayInv

LEMMA InsertSessionStray ==
    ASSUME IInv, StrayInv, InsertSession
    PROVE  StrayInv'
<1> DEFINE f == fd[Last]
<1>1. /\ accepting = "insert" /\ accepting' = "idle"
      /\ listed' = [listed EXCEPT ![f] = IF listed[f] = 0 THEN Last ELSE listed[f]]
      /\ UNCHANGED <<fd, owner, stopped, sender, ring, asks, strays, robbed>>
  BY DEF InsertSession, historyVars
<1>2. Last \in 1..Last /\ f \in Fds /\ Last' = Last /\ Last \in Nat /\ Unaware' = Unaware
  BY <1>1, Existing DEF IInv, MakingLast, Typed, Last, Unaware
<1>3. \A g \in Fds : listed'[g] = IF g = f /\ listed[f] = 0 THEN Last ELSE listed[g]
  BY <1>1, <1>2 DEF IInv, Typed
<1>4. RingsTyped' /\ AsksByFd' /\ RingsOwn' /\ NoSenderYet' /\ OneStray'
  BY <1>1, <1>2 DEF StrayInv, RingsTyped, AsksByFd, RingsOwn, NoSenderYet, OneStray
<1>5. InTurn'
  <2>1. ASSUME NEW c \in 1..Last
        PROVE  listed'[fd[c]] # 0 /\ listed'[fd[c]] <= c
    <3>1. fd[c] \in Fds /\ c \in Nat
      BY Existing DEF Conns
    <3>2. CASE listed[fd[c]] = 0
      <4>1. c = Last
        BY <3>2 DEF StrayInv, InTurn
      <4>2. QED
        BY <1>2, <1>3, <3>2, <4>1
    <3>3. CASE listed[fd[c]] # 0
      BY <1>3, <3>1, <3>3 DEF StrayInv, InTurn
    <3>4. QED
      BY <3>2, <3>3
  <2>2. QED
    BY <1>1, <1>2, <2>1 DEF StrayInv, InTurn
<1>6. QED
  BY <1>4, <1>5 DEF StrayInv

LEMMA NextStray ==
    ASSUME IInv, BatchInv, CloseInv, StrayInv, [Next]_vars
    PROVE  StrayInv'
<1>1. CASE AcceptThread
  <2>1. CASE SetConnected
    BY <2>1, OthersStray DEF SetConnected, historyVars
  <2>2. QED
    BY <1>1, <2>1, AcceptClientStray, AddSenderStray, InsertSessionStray DEF AcceptThread
<1>2. ASSUME NEW k \in Conns, ReadThread(k)
      PROVE  StrayInv'
  <2>1. CASE ReadEnd(k) \/ FlagSession(k)
    <3>1. \A j \in Conns : stopped[j] => stopped'[j]
      BY <2>1 DEF ReadEnd, FlagSession, IInv, Typed
    <3>2. QED
      BY <2>1, <3>1, OthersStray DEF ReadEnd, FlagSession, historyVars
  <2>2. CASE LookupSession(k) \/ Receive(k)
    BY <2>2, OthersStray DEF LookupSession, Receive, historyVars
  <2>3. QED
    BY <1>2, <2>1, <2>2, TreatMessageStray, CloseFdStray DEF ReadThread
<1>3. ASSUME NEW k \in Conns, PeerCloses(k)
      PROVE  StrayInv'
  BY <1>3, OthersStray DEF PeerCloses, historyVars
<1>4. CASE UNCHANGED vars
  BY <1>4, OthersStray DEF vars, historyVars
<1>5. QED
  BY <1>1, <1>2, <1>3, <1>4, PushReplyStray, SenderChecksStray, SendReplyStray
  DEF Next, SendThread

(* A session sends at most one message to a connection that took over its  *)
(* descriptor - unless its own connection was rejected or closed by another*)
(* session, or its sending thread came after it was told to stop.          *)
THEOREM StraysAreBounded == Spec => []AtMostOneStray
<1>1. Init => StrayInv
  BY InitStray
<1>2. IInv /\ BatchInv /\ CloseInv /\ StrayInv /\ [Next]_vars => StrayInv'
  BY NextStray
<1>3. StrayInv => AtMostOneStray
  <2>1. SUFFICES ASSUME StrayInv, NEW k \in Conns, k \notin Unaware, sender[k] # "loop"
                 PROVE  strays[k] <= 1
    BY DEF AtMostOneStray, Unaware
  <2>2. strays[k] = 0 \/ strays[k] = 1
    BY <2>1 DEF StrayInv, OneStray
  <2>3. QED
    BY <2>2
<1>4. QED
  BY <1>1, <1>2, <1>3, SessionsClose, PTL DEF Spec

-----------------------------------------------------------------------------
(* The types of what no other property needs.                              *)
RestTyped ==
    /\ connected \in [Conns -> BOOLEAN]
    /\ accepting \in {"idle", "sender", "connected", "insert"}
    /\ hungUp \subseteq Conns /\ cut \subseteq Conns
    /\ foreign \union pressed \union missed \union robbed \subseteq Conns

(* A connection and a session that a descriptor leads to exist.            *)
LEMMA LedTo ==
    ASSUME IInv, NEW f \in Fds
    PROVE  owner[f] # 0 => owner[f] \in Conns /\ listed[f] \in 0..Last
BY SessionsAssumption, Existing DEF IInv, Typed, Conns

(* The accept thread.                                                      *)
LEMMA AcceptThreadRest ==
    ASSUME IInv, RestTyped, AcceptThread
    PROVE  RestTyped'
<1>1. CASE AcceptClient
  <2>1. Last + 1 \in Conns
    BY <1>1, SessionsAssumption, Existing DEF AcceptClient, Conns
  <2>2. pressed' \subseteq pressed \union {Last + 1}
    BY <1>1 DEF AcceptClient
  <2>3. accepting' = "sender" /\ UNCHANGED <<connected, peerVars, cut, foreign, missed, robbed>>
    BY <1>1 DEF AcceptClient
  <2>4. QED
    BY <2>1, <2>2, <2>3 DEF RestTyped, peerVars
<1>2. CASE AddSender \/ SetConnected \/ InsertSession
  BY <1>2 DEF AddSender, SetConnected, InsertSession, RestTyped, peerVars, historyVars
<1>3. QED
  BY <1>1, <1>2 DEF AcceptThread

(* The reading thread.                                                     *)
LEMMA ReadThreadRest ==
    ASSUME IInv, RestTyped, NEW c \in Conns, ReadThread(c)
    PROVE  RestTyped'
<1>1. CASE Receive(c) \/ TreatMessage(c)
  <2>1. /\ foreign' \subseteq foreign \union {c}
        /\ UNCHANGED <<connected, accepting, hungUp, cut, pressed, missed, robbed>>
    BY <1>1 DEF Receive, TreatMessage, peerVars, historyVars
  <2>2. QED
    BY <2>1 DEF RestTyped
<1>2. CASE ReadEnd(c)
  BY <1>2 DEF ReadEnd, RestTyped, peerVars, historyVars
<1>3. CASE LookupSession(c) \/ CloseFd(c)
  <2>1. c \in 1..Last /\ fd[c] \in Fds
    BY <1>3, Existing DEF LookupSession, CloseFd
  <2>2. /\ cut' \subseteq cut \union ({owner[fd[c]]} \ {0})
        /\ robbed' \subseteq robbed \union ({owner[fd[c]]} \ {0}) /\ missed' \subseteq missed \union {c}
        /\ UNCHANGED <<connected, accepting, peerVars, foreign, pressed>>
    BY <1>3 DEF LookupSession, CloseFd
  <2>3. QED
    BY <2>1, <2>2, LedTo DEF RestTyped, peerVars
<1>4. CASE FlagSession(c)
  BY <1>4 DEF FlagSession, RestTyped, peerVars, historyVars
<1>5. QED
  BY <1>1, <1>2, <1>3, <1>4 DEF ReadThread

(* Every step.                                                             *)
LEMMA NextRest ==
    ASSUME IInv, RestTyped, [Next]_vars
    PROVE  RestTyped'
<1>1. CASE UNCHANGED vars
  BY <1>1 DEF vars, RestTyped, peerVars, historyVars
<1>2. CASE PushReply \/ \E k \in Conns : SendThread(k)
  BY <1>2 DEF PushReply, SendThread, SenderChecks, SendReply, RestTyped, peerVars, historyVars
<1>3. CASE \E k \in Conns : PeerCloses(k)
  BY <1>3 DEF PeerCloses, RestTyped, historyVars
<1>4. QED
  BY <1>1, <1>2, <1>3, AcceptThreadRest, ReadThreadRest DEF Next

(* Whatever the number of descriptors and connections, whatever the peers  *)
(* send and whenever they hang up, the threads of the sessions keep every  *)
(* field and queue well-typed: a descriptor stands for a connection that   *)
(* has it, an id leads to a session that was made, and a request carries   *)
(* a descriptor and a connection that exist.                               *)
THEOREM SessionsTyped == Spec => []TypeOK
<1>1. Init => StrayInv /\ RestTyped
  <2>1. Init => RestTyped
    BY SessionsAssumption DEF Init, RestTyped
  <2>2. QED
    BY <2>1, InitStray
<1>2. IInv /\ BatchInv /\ CloseInv /\ StrayInv /\ RestTyped /\ [Next]_vars => StrayInv' /\ RestTyped'
  BY NextStray, NextRest
<1>3. IInv /\ BatchInv /\ StrayInv /\ RestTyped => TypeOK
  BY DEF IInv, Typed, BatchInv, StrayInv, RingsTyped, InTurn, RestTyped, TypeOK
<1>4. QED
  BY <1>1, <1>2, <1>3, SessionsClose, PTL DEF Spec
=============================================================================
