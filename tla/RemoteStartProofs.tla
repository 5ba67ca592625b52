------------------------- MODULE RemoteStartProofs -------------------------
(***************************************************************************)
(* Proofs about RemoteStart: for any number of connections, commands and   *)
(* threads that tear a connection down, no command vanishes and the car    *)
(* gets the commands it obeys in order and once each.  What the cache does *)
(* is taken from MsgCacheProofs.                                           *)
(***************************************************************************)
EXTENDS RemoteStart, TLAPS

P == INSTANCE MsgCacheProofs WITH
       Message     <- Command,
       ClientID    <- {RpiID},
       MaxClients  <- MaxConn * (MaxRemovals + 1),
       MaxMessages <- MaxCommands

-----------------------------------------------------------------------------
(* The cache.  P and C are two names of the same module.                   *)

LEMMA CacheAssumptions == P!ClientIDAssumption /\ P!BoundAssumption
  BY BoundAssumption DEF P!ClientIDAssumption, P!BoundAssumption, RpiID, P!RpiID

LEMMA SameNames ==
  /\ C!Rpi = P!Rpi /\ C!Consumer = P!Consumer /\ C!RpiID = P!RpiID
  /\ C!ClientType = P!ClientType /\ C!CacheMessage = P!CacheMessage
  /\ \A id : C!TypeOf(id) = P!TypeOf(id)
  BY DEF C!TypeOf, P!TypeOf, C!RpiID, P!RpiID, C!Consumer, P!Consumer, C!Rpi, P!Rpi,
         C!CacheMessage, P!CacheMessage, C!ClientType, P!ClientType

LEMMA SameInv == C!IndInv <=> P!IndInv
<1>1. C!TypeOK <=> P!TypeOK
  BY SameNames DEF C!TypeOK, P!TypeOK
<1>2. C!Identified <=> P!Identified
  BY DEF C!Identified, P!Identified
<1>3. C!MarksAreHistory <=> P!MarksAreHistory
  BY SameNames DEF C!MarksAreHistory, P!MarksAreHistory
<1>4. C!RpiMessageKept <=> P!RpiMessageKept
  BY SameNames DEF C!RpiMessageKept, P!RpiMessageKept
<1> QED BY <1>1, <1>2, <1>3, <1>4 DEF C!IndInv, P!IndInv

LEMMA SameUnread ==
  /\ C!Unread(RpiID) = P!Unread(RpiID)
  /\ \A S : C!Oldest(S) = P!Oldest(S)
  BY SameNames DEF C!Unread, P!Unread, C!Oldest, P!Oldest

LEMMA SameRead == C!Read(RpiID) => P!Read(RpiID)
<1>1. C!Passed(RpiID) = P!Passed(RpiID)
  BY SameUnread, SameNames DEF C!Passed, P!Passed
<1>2. \A m : C!IsMsgConsumed(m) <=> P!IsMsgConsumed(m)
  BY DEF C!IsMsgConsumed, P!IsMsgConsumed, C!Cardinality, P!Cardinality
<1>3. C!AfterRead(RpiID) = P!AfterRead(RpiID)
  BY <1>1, <1>2, SameUnread DEF C!AfterRead, P!AfterRead
<1>4. C!ReadResult(RpiID) = P!ReadResult(RpiID)
  BY SameUnread DEF C!ReadResult, P!ReadResult
<1> QED BY <1>3, <1>4 DEF C!Read, P!Read

\* A step of the cache is one of the five that this system makes.
CacheStep ==
  \/ \E msg \in Command : C!AddMessage(msg, Rpi)
  \/ \E m \in cache : C!IAmOld(m)
  \/ C!ClientAdded(Rpi) \/ C!ClientRemoved(Rpi)
  \/ C!Read(RpiID)
  \/ UNCHANGED ClientMsgCache

LEMMA SameStep ==
  ASSUME CacheStep
  PROVE  [P!Next]_(P!vars)
<1>1. ASSUME NEW msg \in Command, C!AddMessage(msg, Rpi)
      PROVE  P!AddMessage(msg, Rpi)
  BY <1>1 DEF C!AddMessage, P!AddMessage, C!AfterAdd, P!AfterAdd, C!PostedAfterAdd,
              P!PostedAfterAdd, C!Accepted, P!Accepted, C!NewMessage, P!NewMessage
<1>2. ASSUME NEW m \in cache, C!IAmOld(m)
      PROVE  P!IAmOld(m)
  BY <1>2 DEF C!IAmOld, P!IAmOld
<1>3. C!ClientAdded(Rpi) => P!ClientAdded(Rpi)
  BY DEF C!ClientAdded, P!ClientAdded
<1>4. C!ClientRemoved(Rpi) => P!ClientRemoved(Rpi)
  BY DEF C!ClientRemoved, P!ClientRemoved
<1>5. UNCHANGED ClientMsgCache => UNCHANGED P!vars
  BY DEF ClientMsgCache, P!vars
<1>6. Rpi \in P!ClientType /\ RpiID \in {RpiID}
  BY DEF Rpi, P!ClientType, P!Rpi
<1> QED BY <1>1, <1>2, <1>3, <1>4, <1>5, <1>6, SameRead DEF CacheStep, P!Next

\* The cache keeps its invariant.
LEMMA CacheInductive ==
  ASSUME C!IndInv, CacheStep
  PROVE  C!IndInv'
<1>1. P!IndInv'
  BY SameInv, SameStep, CacheAssumptions, P!IndInvInductive
<1>2. (C!IndInv)' <=> (P!IndInv)'
  BY SameInv, PTL
<1> QED BY <1>1, <1>2

\* All messages are for the RPI, and so those that wait are those not read; they
\* are later than those read.
LEMMA WaitingNotRead ==
  ASSUME C!IndInv, \A i \in 1 .. Len(posted) : posted[i].target = Rpi
  PROVE  /\ received[RpiID] \subseteq 1 .. Len(posted)
         /\ \A i : i \in Waiting <=> i \in 1 .. Len(posted) /\ i \notin received[RpiID]
         /\ \A j \in received[RpiID], i \in Waiting : j < i
<1> USE DEF C!IndInv
<1>1. C!TypeOf(RpiID) = Rpi /\ C!RpiID = RpiID /\ C!Rpi = Rpi
  BY DEF C!TypeOf, C!RpiID, C!Rpi, RpiID, Rpi
<1>2. received[RpiID] \subseteq 1 .. Len(posted)
  BY DEF C!Identified
<1>3. \A m \in cache : /\ m.id \in 1 .. Len(posted) /\ m.id \in Nat
                       /\ m.targetClientType = Rpi
  BY DEF C!Identified, C!TypeOK, C!CacheMessage
<1>4. \A m \in cache : RpiID \in m.ThreadNums <=> m.id \in received[RpiID]
  BY <1>1, <1>3 DEF C!MarksAreHistory
<1>5. ASSUME NEW m \in cache, NEW j \in received[RpiID], RpiID \notin m.ThreadNums
      PROVE  j < m.id
  <2>1. ~(m.id <= j)
    BY <1>1, <1>3, <1>5 DEF C!MarksAreHistory
  <2> QED BY <1>2, <1>3, <2>1
<1>6. \A i : i \in Waiting <=> \E m \in cache : m.id = i /\ RpiID \notin m.ThreadNums
  BY <1>1, <1>3 DEF Waiting, C!Unread
<1>7. \A i \in 1 .. Len(posted) : i \notin received[RpiID] => \E m \in cache : m.id = i
  BY <1>1 DEF C!RpiMessageKept
<1> QED BY <1>2, <1>3, <1>4, <1>5, <1>6, <1>7

\* What a Read hands out was waiting.
LEMMA ReadHandsOut ==
  ASSUME C!IndInv, C!Read(RpiID)
  PROVE  /\ posted' = posted
         /\ C!Unread(RpiID) = {} => received' = received
         /\ C!Unread(RpiID) # {} =>
              /\ C!Oldest(C!Unread(RpiID)).id \in Waiting
              /\ received'[RpiID] = received[RpiID] \union {C!Oldest(C!Unread(RpiID)).id}
<1> USE DEF C!IndInv
<1>1. posted' = posted
  BY DEF C!Read
<1>2. received \in [{RpiID} -> SUBSET Nat]
  BY DEF C!TypeOK
<1>3. CASE C!Unread(RpiID) = {}
  BY <1>1, <1>2, <1>3 DEF C!Read, C!ReadResult
<1>4. CASE C!Unread(RpiID) # {}
  <2>1. P!TypeOK
    BY SameInv DEF P!IndInv
  <2>2. P!Unread(RpiID) # {} /\ P!Unread(RpiID) \in SUBSET cache
    BY <1>4, SameUnread DEF P!Unread
  <2>3. P!Oldest(P!Unread(RpiID)) \in P!Unread(RpiID)
    BY <2>1, <2>2, CacheAssumptions, P!OldestExists
  <2>4. C!Oldest(C!Unread(RpiID)) \in C!Unread(RpiID)
    BY <2>3, SameUnread
  <2> QED BY <1>1, <1>2, <1>4, <2>4 DEF C!Read, C!ReadResult, Waiting
<1> QED BY <1>3, <1>4

-----------------------------------------------------------------------------
(* Sequences, connections and the history.                                 *)

LEMMA InRange ==
  ASSUME NEW S, NEW s \in Seq(S)
  PROVE  /\ \A x : x \in Range(s) <=> \E a \in 1 .. Len(s) : s[a] = x
         /\ Range(s) \subseteq S
  BY DEF Range

\* A sequence is cut into its first n elements and the others.
LEMMA Cut ==
  ASSUME NEW S, NEW s \in Seq(S), NEW n \in 0 .. Len(s)
  PROVE  LET t == SubSeq(s, 1, n)
             u == SubSeq(s, n + 1, Len(s))
         IN  /\ t \in Seq(S) /\ Len(t) = n /\ \A a \in 1 .. n : t[a] = s[a]
             /\ u \in Seq(S) /\ Len(u) = Len(s) - n
             /\ \A a \in 1 .. Len(s) - n : u[a] = s[a + n]
             /\ Range(s) = Range(t) \union Range(u)
<1> DEFINE t == SubSeq(s, 1, n)
           u == SubSeq(s, n + 1, Len(s))
<1>1. t \in Seq(S) /\ Len(t) = n /\ \A a \in 1 .. n : t[a] = s[a]
  OBVIOUS
<1>2. u \in Seq(S) /\ Len(u) = Len(s) - n /\ \A a \in 1 .. Len(s) - n : u[a] = s[a + n]
  OBVIOUS
<1>3. ASSUME NEW x \in Range(s)
      PROVE  x \in Range(t) \union Range(u)
  <2>1. PICK a \in 1 .. Len(s) : s[a] = x
    BY InRange
  <2>2. CASE a <= n
    <3>1. t[a] = x /\ a \in 1 .. Len(t)
      BY <1>1, <2>1, <2>2
    <3> HIDE DEF t
    <3> QED BY <1>1, <3>1, InRange
  <2>3. CASE a > n
    <3>1. u[a - n] = x /\ a - n \in 1 .. Len(u)
      BY <1>2, <2>1, <2>3
    <3> HIDE DEF u
    <3> QED BY <1>2, <3>1, InRange
  <2> QED BY <2>1, <2>2, <2>3
<1>4. ASSUME NEW x \in Range(t) \union Range(u)
      PROVE  x \in Range(s)
  <2> HIDE DEF t, u
  <2>1. CASE x \in Range(t)
    <3>1. PICK a \in 1 .. Len(t) : t[a] = x
      BY <1>1, <2>1, InRange
    <3>2. s[a] = x /\ a \in 1 .. Len(s)
      BY <1>1, <3>1
    <3> QED BY <3>2, InRange
  <2>2. CASE x \in Range(u)
    <3>1. PICK a \in 1 .. Len(u) : u[a] = x
      BY <1>2, <2>2, InRange
    <3>2. s[a + n] = x /\ a + n \in 1 .. Len(s)
      BY <1>2, <3>1
    <3> QED BY <3>2, InRange
  <2> QED BY <1>4, <2>1, <2>2
<1> HIDE DEF t, u
<1>5. Range(s) = Range(t) \union Range(u)
  BY <1>3, <1>4
<1> QED BY <1>1, <1>2, <1>5 DEF t, u

\* Of the elements of a wire, the earlier ones are the smaller commands.
LEMMA CommandsUnderWay ==
  ASSUME IndInv, NEW i \in 1 .. MaxCommands
  PROVE  /\ i \in UnderWay <=> \E c \in Conn : bytes[c] = i \/ i \in Range(wire[c])
         /\ i \in UnderWay => outcome[i] = "none" /\ i \in received[RpiID]
<1>1. i # Nothing /\ i # Garbage
  BY BoundAssumption DEF Nothing, Garbage
<1>2. i \in UnderWay <=> \E c \in Conn : bytes[c] = i \/ i \in Range(wire[c])
  BY <1>1 DEF UnderWay, On
<1>3. i \in UnderWay => i \in received[RpiID]
  BY <1>1 DEF UnderWay, IndInv, Tracked
<1> QED BY <1>2, <1>3 DEF IndInv, Tracked

-----------------------------------------------------------------------------
(* The inductive invariant, one lemma for each way in which a step disturbs *)
(* it.                                                                     *)

\* Steps of timers and of the button.
LEMMA QuietKeeps ==
  ASSUME IndInv, TypeOK', C!IndInv',
         UNCHANGED <<posted, received, bytes, link, wire, sock, outcome>>,
         \A c \in Conn : conn'[c] = "none" => conn[c] = "none"
  PROVE  IndInv'
<1>1. OneWay'
  BY DEF IndInv, OneWay
<1>2. Tracked'
  BY DEF IndInv, Tracked, UnderWay, On
<1>3. InOrder'
  BY DEF IndInv, InOrder, Obeyed, On
<1> QED BY <1>1, <1>2, <1>3 DEF IndInv

\* A new command waits: nothing else knows its number.
LEMMA AddKeeps ==
  ASSUME IndInv, NEW msg \in Command, AddMessage(msg)
  PROVE  IndInv'
<1>1. C!IndInv'
  BY CacheInductive DEF IndInv, AddMessage, CacheStep
<1>2. TypeOK'
  BY <1>1 DEF IndInv, TypeOK, C!IndInv, AddMessage, service, network, program
<1>3. UNCHANGED <<received, conn, bytes, link, wire, sock, outcome>>
  BY DEF AddMessage, C!AddMessage, service, network, program
<1>4. OneWay' /\ InOrder'
  BY <1>3 DEF IndInv, OneWay, InOrder, Obeyed, On
<1>5. /\ \A i \in 1 .. Len(posted') : posted'[i].target = Rpi
      /\ Len(posted') <= MaxCommands
  <2>1. posted \in Seq([msg : Command, target : C!ClientType]) /\ Len(posted) < MaxCommands
    BY DEF IndInv, TypeOK, C!TypeOK, AddMessage, C!AddMessage
  <2>2. posted' = posted \/ posted' = Append(posted, [msg |-> msg, target |-> Rpi])
    BY DEF AddMessage, C!AddMessage, C!PostedAfterAdd
  <2> QED BY <2>1, <2>2, BoundAssumption DEF IndInv, Tracked
<1>6. Tracked'
  BY <1>3, <1>5 DEF IndInv, Tracked, UnderWay, On
<1> QED BY <1>1, <1>2, <1>4, <1>6 DEF IndInv

\* The command that is read is later than all that were read before.
LEMMA GrabKeeps ==
  ASSUME IndInv, NEW c \in Conn, GrabTransmissionInCache(c)
  PROVE  IndInv'
<1> USE DEF IndInv
<1>1. C!IndInv'
  BY CacheInductive DEF GrabTransmissionInCache, CacheStep
<1>2. UNCHANGED <<conn, link, wire, sock, outcome>> /\ posted' = posted
  BY ReadHandsOut DEF GrabTransmissionInCache, service, program
<1>3. /\ received[RpiID] \subseteq 1 .. Len(posted)
      /\ \A j \in received[RpiID], i \in Waiting : j < i
      /\ \A i \in Waiting : i \in 1 .. Len(posted) /\ i \notin received[RpiID]
  BY WaitingNotRead DEF Tracked
<1>4. Len(posted) \in Nat /\ Len(posted) <= MaxCommands
  BY DEF Tracked, TypeOK, C!TypeOK
<1>5. bytes[c] = Nothing /\ conn[c] = "up"
  BY DEF GrabTransmissionInCache
<1>6. CASE C!Unread(RpiID) = {}
  <2>1. bytes' = bytes /\ received' = received
    BY <1>5, <1>6, ReadHandsOut DEF GrabTransmissionInCache, TypeOK
  <2>2. TypeOK'
    BY <1>1, <2>1 DEF TypeOK, GrabTransmissionInCache, service, program, C!IndInv
  <2>3. \A d \in Conn : conn'[d] = "none" => conn[d] = "none"
    BY <1>2
  <2> QED BY <1>1, <1>2, <2>1, <2>2, <2>3, QuietKeeps
<1>7. CASE C!Unread(RpiID) # {}
  <2> DEFINE x == C!Oldest(C!Unread(RpiID)).id
  <2>1. /\ x \in Waiting
        /\ received'[RpiID] = received[RpiID] \union {x}
        /\ bytes' = [bytes EXCEPT ![c] = x]
    BY <1>7, ReadHandsOut DEF GrabTransmissionInCache
  <2> HIDE DEF x
  <2>2. /\ x \in 1 .. MaxCommands /\ x \in Nat /\ x # Nothing /\ x # Garbage
        /\ x \notin received[RpiID]
        /\ \A j \in received[RpiID] : j < x
    BY <1>3, <1>4, <2>1, BoundAssumption DEF Nothing, Garbage
  <2>3. bytes'[c] = x /\ \A d \in Conn : d # c => bytes'[d] = bytes[d]
    BY <2>1 DEF TypeOK
  <2>4. TypeOK'
    <3>1. bytes' \in [Conn -> Item \union {Nothing}]
      BY <2>1, <2>2 DEF TypeOK, Item
    <3> QED BY <1>1, <3>1 DEF TypeOK, GrabTransmissionInCache, service, program, C!IndInv
  <2>5. OneWay'
    BY <1>2, <1>5, <2>3 DEF OneWay
  <2>6. \A d \in Conn : On(d) \subseteq {Garbage} \union received[RpiID]
    BY DEF Tracked
  <2>7. /\ \A d \in Conn : d # c => On(d)' = On(d)
        /\ On(c)' = On(c) \union {x}
    BY <1>2, <1>5, <2>2, <2>3 DEF On
  <2>8. Tracked'
    <3>1. UnderWay' = UnderWay \union {x}
      BY <2>7 DEF UnderWay
    <3>2. \A d \in Conn : On(d)' \subseteq {Garbage} \union received'[RpiID]
      BY <2>1, <2>6, <2>7
    <3>3. outcome[x] = "none"
      BY <2>2 DEF Tracked
    <3> QED BY <1>2, <2>1, <2>2, <3>1, <3>2, <3>3 DEF Tracked
  <2>9. InOrder'
    <3>1. \A d \in Conn : /\ bytes[d] # x
                          /\ x \notin Range(wire[d])
      BY <2>2, <2>6 DEF On
    <3>2. ASSUME NEW d \in Conn, NEW e \in Conn
          PROVE  /\ bytes'[d] = bytes'[e] => d = e \/ bytes'[d] \in {Nothing, Garbage}
                 /\ bytes'[d] \in Range(wire'[e]) => bytes'[d] = Garbage
      BY <1>2, <2>3, <3>1 DEF InOrder
    <3>3. ASSUME NEW d \in Conn, NEW a \in 1 .. Len(wire'[d]), bytes'[d] > Garbage
          PROVE  wire'[d][a] < bytes'[d]
      <4>1. CASE d = c
        <5>1. wire[c] \in Seq(Item)
          BY DEF TypeOK
        <5>2. wire[c][a] \in Range(wire[c])
          BY <1>2, <3>3, <4>1, <5>1, InRange
        <5>3. wire[c][a] = Garbage \/ wire[c][a] \in received[RpiID]
          BY <2>6, <5>2 DEF On
        <5> QED BY <1>2, <2>2, <2>3, <4>1, <5>3 DEF Garbage
      <4>2. CASE d # c
        BY <1>2, <2>3, <3>3, <4>2 DEF InOrder
      <4> QED BY <4>1, <4>2
    <3>4. sock # 0 => \A i \in Obeyed : \A y \in On(sock)' \ {Garbage} : i < y
      <4>1. \A i \in Obeyed : i \in received[RpiID]
        BY DEF Obeyed, Tracked
      <4>2. sock # 0 => sock \in Conn
        BY DEF TypeOK
      <4>3. sock \in Conn => On(sock)' \subseteq On(sock) \union {x}
        BY <1>2, <2>7
      <4> QED BY <2>2, <4>1, <4>2, <4>3 DEF InOrder
    <3> QED BY <1>2, <3>2, <3>3, <3>4 DEF InOrder, Obeyed
  <2> QED BY <1>1, <2>4, <2>5, <2>8, <2>9
<1> QED BY <1>6, <1>7

\* The command in bytes is lost, other bytes take its place.
LEMMA NewBytesKeeps ==
  ASSUME IndInv, NEW c \in Conn, NewBytes(c)
  PROVE  IndInv'
<1> USE DEF IndInv
<1>1. UNCHANGED <<cache, numClients, posted, received, conn, link, wire, sock>>
  BY DEF NewBytes, ClientMsgCache, service, program
<1>2. /\ bytes[c] \in 1 .. MaxCommands /\ conn[c] = "up"
      /\ bytes' = [bytes EXCEPT ![c] = Garbage]
      /\ outcome' = [i \in 1 .. MaxCommands |-> IF i = bytes[c] THEN "lost" ELSE outcome[i]]
  BY DEF NewBytes, Ends, TypeOK, Item, Garbage
<1>3. C!IndInv'
  BY <1>1, CacheInductive DEF CacheStep, ClientMsgCache
<1>4. TypeOK'
  BY <1>2, <1>3 DEF TypeOK, Item, NewBytes, service, program, C!IndInv
<1>5. bytes'[c] = Garbage /\ \A d \in Conn : d # c => bytes'[d] = bytes[d]
  BY <1>2 DEF TypeOK
<1>6. OneWay'
  BY <1>1, <1>2, <1>5 DEF OneWay
<1>7. Tracked'
  <2>1. \A d \in Conn : On(d)' \subseteq On(d) \union {Garbage}
    BY <1>1, <1>5 DEF On
  <2>2. ASSUME NEW i \in 1 .. MaxCommands
        PROVE  i \in UnderWay' <=> i \in UnderWay /\ i # bytes[c]
    <3>1. i # Garbage /\ i # Nothing
      BY BoundAssumption DEF Garbage, Nothing
    <3>2. \A d \in Conn : i \in On(d)' <=> i \in On(d) /\ i # bytes[c]
      <4>1. ASSUME NEW d \in Conn
            PROVE  /\ d # c => bytes[d] # bytes[c]
                   /\ bytes[c] \notin Range(wire[d])
        BY <1>2, <1>5, BoundAssumption DEF InOrder, Garbage, Nothing
      <4> QED BY <1>1, <1>5, <3>1, <4>1 DEF On
    <3> QED BY <3>2 DEF UnderWay
  <2> QED BY <1>1, <1>2, <2>1, <2>2, CommandsUnderWay DEF Tracked
<1>8. InOrder'
  <2>1. \A i \in Obeyed' : i \in Obeyed
    BY <1>2 DEF Obeyed
  <2>2. \A d \in Conn : On(d)' \subseteq On(d) \union {Garbage}
    BY <1>1, <1>5 DEF On
  <2>3. sock' # 0 => \A i \in Obeyed' : \A x \in On(sock)' \ {Garbage} : i < x
    BY <1>1, <2>1, <2>2 DEF InOrder, TypeOK
  <2> QED BY <1>1, <1>5, <2>3 DEF InOrder, Garbage
<1> QED BY <1>3, <1>4, <1>6, <1>7, <1>8

\* What is sent goes to the end of the wire, or is lost with the link.
LEMMA SendKeeps ==
  ASSUME IndInv, NEW c \in Conn, Send(c)
  PROVE  IndInv'
<1> USE DEF IndInv
<1>1. UNCHANGED <<cache, numClients, posted, received, conn, link, sock>>
  BY DEF Send, ClientMsgCache, service, program
<1>2. C!IndInv'
  BY <1>1, CacheInductive DEF CacheStep, ClientMsgCache
<1>3. bytes[c] \in Item /\ bytes' = [bytes EXCEPT ![c] = Nothing]
  BY DEF Send, AfterSend, TypeOK
<1>4. bytes'[c] = Nothing /\ \A d \in Conn : d # c => bytes'[d] = bytes[d]
  BY <1>3 DEF TypeOK
<1>5. \A d \in Conn : wire[d] \in Seq(Item) /\ bytes[d] \in Item \union {Nothing}
  BY DEF TypeOK
<1>6. Nothing < Garbage /\ \A x \in Item : x \in Int /\ x # Nothing
  BY BoundAssumption DEF Nothing, Garbage, Item
<1>7. CASE link[c] /\ wire' = [wire EXCEPT ![c] = Append(@, bytes[c])] /\ UNCHANGED outcome
  <2>1. c = sock
    BY <1>7 DEF OneWay
  <2>2. /\ wire'[c] = Append(wire[c], bytes[c])
        /\ \A d \in Conn : d # c => wire'[d] = wire[d]
    BY <1>7 DEF TypeOK
  <2>3. /\ Len(wire'[c]) = Len(wire[c]) + 1 /\ wire'[c] \in Seq(Item)
        /\ wire'[c][Len(wire[c]) + 1] = bytes[c]
        /\ \A a \in 1 .. Len(wire[c]) : wire'[c][a] = wire[c][a]
    BY <1>3, <1>5, <2>2
  <2>4. \A x : x \in Range(wire'[c]) <=> x \in Range(wire[c]) \/ x = bytes[c]
    <3>1. Len(wire[c]) \in Nat
      BY <1>5
    <3>2. ASSUME NEW x \in Range(wire'[c])
          PROVE  x \in Range(wire[c]) \/ x = bytes[c]
      <4>1. PICK a \in 1 .. Len(wire[c]) + 1 : wire'[c][a] = x
        BY <2>3, InRange
      <4>2. CASE a \in 1 .. Len(wire[c])
        <5>1. wire[c][a] = x
          BY <2>3, <4>1, <4>2
        <5> QED BY <1>5, <4>2, <5>1, InRange
      <4>3. CASE a = Len(wire[c]) + 1
        BY <2>3, <4>1, <4>3
      <4> QED BY <3>1, <4>2, <4>3
    <3>3. ASSUME NEW x \in Range(wire[c])
          PROVE  x \in Range(wire'[c])
      <4>1. PICK a \in 1 .. Len(wire[c]) : wire[c][a] = x
        BY <1>5, InRange
      <4>2. wire'[c][a] = x /\ a \in 1 .. Len(wire'[c])
        BY <2>3, <3>1, <4>1
      <4> QED BY <2>3, <4>2, InRange
    <3>4. bytes[c] \in Range(wire'[c])
      <4>1. Len(wire[c]) + 1 \in 1 .. Len(wire'[c])
        BY <2>3, <3>1
      <4> QED BY <2>3, <4>1, InRange
    <3> QED BY <3>2, <3>3, <3>4
  <2>5. TypeOK'
    <3>1. bytes' \in [Conn -> Item \union {Nothing}]
      BY <1>3 DEF TypeOK
    <3>2. wire' \in [Conn -> Seq(Item)]
      BY <1>7, <2>2, <2>3 DEF TypeOK
    <3> QED BY <1>2, <1>7, <3>1, <3>2 DEF TypeOK, Send, service, program, C!IndInv
  <2>6. OneWay'
    BY <1>1, <1>4, <2>1, <2>2 DEF OneWay
  <2>7. \A d \in Conn : On(d)' = On(d)
    BY <1>3, <1>4, <1>6, <2>2, <2>4 DEF On
  <2>8. Tracked'
    <3>1. UnderWay' = UnderWay
      BY <2>7 DEF UnderWay
    <3> QED BY <1>1, <1>7, <2>7, <3>1 DEF Tracked
  <2>9. InOrder'
    <3>1. ASSUME NEW d \in Conn, NEW e \in Conn
          PROVE  /\ bytes'[d] = bytes'[e] => d = e \/ bytes'[d] \in {Nothing, Garbage}
                 /\ bytes'[d] \in Range(wire'[e]) => bytes'[d] = Garbage
      <4>1. bytes'[d] = bytes'[e] => d = e \/ bytes'[d] \in {Nothing, Garbage}
        BY <1>4 DEF InOrder
      <4>2. Nothing \notin Range(wire'[e])
        BY <1>3, <1>5, <1>6, <2>2, <2>4, InRange
      <4>3. d # c => (bytes[d] = bytes[c] => bytes[d] = Garbage)
        BY <1>3, <1>6 DEF InOrder
      <4> QED BY <1>4, <2>2, <2>4, <4>1, <4>2, <4>3 DEF InOrder
    <3>2. ASSUME NEW d \in Conn, NEW a \in 1 .. Len(wire'[d]), NEW b \in 1 .. Len(wire'[d]),
                 a < b, wire'[d][b] # Garbage
          PROVE  wire'[d][a] < wire'[d][b]
      <4>1. CASE d # c
        BY <2>2, <3>2, <4>1 DEF InOrder
      <4>2. CASE d = c /\ b = Len(wire[c]) + 1
        <5>1. a \in 1 .. Len(wire[c]) /\ wire'[c][a] = wire[c][a]
          BY <1>5, <2>3, <3>2, <4>2
        <5>2. wire'[c][b] = bytes[c] /\ bytes[c] > Garbage
          BY <1>3, <2>3, <3>2, <4>2, BoundAssumption DEF Item, Garbage
        <5> QED BY <4>2, <5>1, <5>2 DEF InOrder
      <4>3. CASE d = c /\ b \in 1 .. Len(wire[c])
        <5>1. a \in 1 .. Len(wire[c])
          BY <1>5, <3>2, <4>3
        <5> QED BY <2>3, <3>2, <4>3, <5>1 DEF InOrder
      <4> QED BY <1>5, <2>3, <4>1, <4>2, <4>3
    <3>3. ASSUME NEW d \in Conn, NEW a \in 1 .. Len(wire'[d]), bytes'[d] > Garbage
          PROVE  wire'[d][a] < bytes'[d]
      <4>1. d # c
        BY <1>4, <1>6, <3>3 DEF Nothing, Garbage
      <4> QED BY <1>4, <2>2, <3>3, <4>1 DEF InOrder
    <3>4. sock' # 0 => \A i \in Obeyed' : \A x \in On(sock)' \ {Garbage} : i < x
      BY <1>1, <1>7, <2>1, <2>7 DEF InOrder, Obeyed
    <3> QED BY <3>1, <3>2, <3>3, <3>4 DEF InOrder
  <2> QED BY <1>2, <2>5, <2>6, <2>8, <2>9
<1>8. CASE ~link[c] /\ Ends({bytes[c]}, "lost") /\ UNCHANGED wire
  <2>1. outcome' = [i \in 1 .. MaxCommands |-> IF i = bytes[c] THEN "lost" ELSE outcome[i]]
    BY <1>8 DEF Ends
  <2>2. TypeOK'
    <3>1. bytes' \in [Conn -> Item \union {Nothing}]
      BY <1>3 DEF TypeOK
    <3> QED BY <1>2, <1>8, <2>1, <3>1 DEF TypeOK, Send, service, program, C!IndInv
  <2>3. OneWay'
    BY <1>1, <1>4, <1>8 DEF OneWay
  <2>4. \A d \in Conn : On(d)' \subseteq On(d)
    BY <1>4, <1>8 DEF On
  <2>5. Tracked'
    <3>1. ASSUME NEW i \in 1 .. MaxCommands
          PROVE  i \in UnderWay' <=> i \in UnderWay /\ i # bytes[c]
      <4>1. i # Garbage /\ i # Nothing
        BY BoundAssumption DEF Garbage, Nothing
      <4>2. \A d \in Conn : i \in On(d)' <=> i \in On(d) /\ i # bytes[c]
        <5>1. ASSUME NEW d \in Conn, i = bytes[c]
              PROVE  /\ d # c => bytes[d] # i
                     /\ i \notin Range(wire[d])
          BY <4>1, <5>1 DEF InOrder
        <5> QED BY <1>4, <1>8, <4>1, <5>1 DEF On
      <4> QED BY <4>2 DEF UnderWay
    <3>2. \A i \in 1 .. MaxCommands : i = bytes[c] => i \in received[RpiID]
      <4>1. \A i \in 1 .. MaxCommands : i = bytes[c] => i \in UnderWay
        BY CommandsUnderWay
      <4> QED BY <4>1, CommandsUnderWay
    <3> QED BY <1>1, <2>1, <2>4, <3>1, <3>2 DEF Tracked
  <2>6. InOrder'
    <3>1. \A i \in Obeyed' : i \in Obeyed
      BY <2>1 DEF Obeyed
    <3>2. sock' # 0 => \A i \in Obeyed' : \A x \in On(sock)' \ {Garbage} : i < x
      BY <1>1, <2>4, <3>1 DEF InOrder, TypeOK
    <3>3. \A d \in Conn : Nothing \notin Range(wire[d])
      BY <1>5, <1>6, InRange
    <3> QED BY <1>1, <1>4, <1>6, <1>8, <3>2, <3>3 DEF InOrder, Nothing, Garbage
  <2> QED BY <1>2, <2>2, <2>3, <2>5, <2>6
<1> QED BY <1>7, <1>8 DEF Send

\* A new connection carries nothing yet.
LEMMA ConnectKeeps ==
  ASSUME IndInv, NEW c \in Conn, Connect(c)
  PROVE  IndInv'
<1> USE DEF IndInv
<1>1. /\ UNCHANGED <<posted, received, bytes, wire, outcome>>
      /\ sock = 0 /\ sock' = c /\ conn[c] = "none"
      /\ conn' = [conn EXCEPT ![c] = "up"]
      /\ link' = [link EXCEPT ![c] = TRUE]
  BY DEF Connect, C!ClientAdded
<1>2. C!IndInv'
  BY CacheInductive DEF Connect, CacheStep
<1>3. TypeOK'
  BY <1>1, <1>2 DEF TypeOK, Connect, C!IndInv
<1>4. c # 0
  BY <1>1 DEF Conn
<1>5. \A d \in Conn : ~link[d] /\ wire[d] = << >>
  BY <1>1 DEF OneWay, Conn
<1>6. OneWay'
  BY <1>1, <1>5 DEF OneWay, TypeOK
<1>7. Tracked'
  BY <1>1 DEF Tracked, UnderWay, On
<1>8. On(c)' = {}
  <2>1. Range(<< >>) = {}
    BY DEF Range
  <2> QED BY <1>1, <1>5, <2>1 DEF On, OneWay
<1>9. On(sock)' = {}
  BY <1>1, <1>8 DEF On
<1>10. InOrder'
  BY <1>1, <1>9 DEF InOrder
<1> QED BY <1>2, <1>3, <1>6, <1>7, <1>10

\* What leaves a wire ends: the rest stays tracked and in order.
LEMMA CutKeeps ==
  ASSUME IndInv, NEW c \in Conn, NEW gone, NEW p \in Nat, NEW how \in {"obeyed", "ignored", "lost"},
         UNCHANGED <<posted, received, bytes>>,
         wire' \in [Conn -> Seq(Item)],
         \A d \in Conn : d # c => wire'[d] = wire[d],
         Len(wire'[c]) + p <= Len(wire[c]),
         \A a \in 1 .. Len(wire'[c]) : wire'[c][a] = wire[c][a + p],
         Range(wire[c]) = Range(wire'[c]) \union gone,
         gone \intersect Range(wire'[c]) \subseteq {Garbage},
         Ends(gone, how)
  PROVE  /\ Tracked'
         /\ \A d, e \in Conn :
              /\ bytes'[d] = bytes'[e] => d = e \/ bytes'[d] \in {Nothing, Garbage}
              /\ bytes'[d] \in Range(wire'[e]) => bytes'[d] = Garbage
         /\ \A d \in Conn : \A a, b \in 1 .. Len(wire'[d]) :
              a < b /\ wire'[d][b] # Garbage => wire'[d][a] < wire'[d][b]
         /\ \A d \in Conn : \A a \in 1 .. Len(wire'[d]) :
              bytes'[d] > Garbage => wire'[d][a] < bytes'[d]
         /\ \A d \in Conn : On(d)' \subseteq On(d)
<1> USE DEF IndInv
<1>1. \A d \in Conn : Range(wire'[d]) \subseteq Range(wire[d])
  OBVIOUS
<1>2. \A d \in Conn : On(d)' \subseteq On(d)
  BY <1>1 DEF On
<1>3. \A d \in Conn : wire[d] \in Seq(Item) /\ wire'[d] \in Seq(Item)
  BY DEF TypeOK
<1>4. \A a \in 1 .. Len(wire'[c]) : a + p \in 1 .. Len(wire[c])
  BY <1>3
<1>5. ASSUME NEW d \in Conn, NEW a \in 1 .. Len(wire'[d]), NEW b \in 1 .. Len(wire'[d]),
             a < b, wire'[d][b] # Garbage
      PROVE  wire'[d][a] < wire'[d][b]
  <2>1. CASE d = c
    <3>1. a + p \in 1 .. Len(wire[c]) /\ b + p \in 1 .. Len(wire[c]) /\ a + p < b + p
      BY <1>4, <1>5, <2>1
    <3> QED BY <1>5, <2>1, <3>1 DEF InOrder
  <2>2. CASE d # c
    BY <1>5, <2>2 DEF InOrder
  <2> QED BY <2>1, <2>2
<1>6. ASSUME NEW d \in Conn, NEW a \in 1 .. Len(wire'[d]), bytes'[d] > Garbage
      PROVE  wire'[d][a] < bytes'[d]
  <2>1. CASE d = c
    BY <1>4, <1>6, <2>1 DEF InOrder
  <2>2. CASE d # c
    BY <1>6, <2>2 DEF InOrder
  <2> QED BY <2>1, <2>2
<1>7. Tracked'
  <2>1. ASSUME NEW i \in 1 .. MaxCommands
        PROVE  i \in UnderWay' <=> i \in UnderWay /\ i \notin gone
    <3>1. i # Garbage /\ i # Nothing
      BY BoundAssumption DEF Garbage, Nothing
    <3>2. ASSUME NEW d \in Conn
          PROVE  i \in On(d)' <=> i \in On(d) /\ i \notin gone
      <4>1. i \in gone => bytes[d] # i
        BY <3>1 DEF InOrder
      <4>2. d # c /\ i \in gone => i \notin Range(wire[d])
        <5>1. SUFFICES ASSUME d # c, i \in gone, i \in Range(wire[d])
                       PROVE  FALSE
          OBVIOUS
        <5>2. wire[c] # << >> /\ wire[d] # << >>
          BY <5>1 DEF Range
        <5> QED BY <5>1, <5>2 DEF OneWay
      <4>3. CASE d = c
        BY <3>1, <4>1, <4>3 DEF On
      <4>4. CASE d # c
        BY <3>1, <4>1, <4>2, <4>4 DEF On
      <4> QED BY <4>3, <4>4
    <3> QED BY <3>2 DEF UnderWay
  <2>2. \A i \in 1 .. MaxCommands : i \in gone => i \in received[RpiID]
    <3>1. \A i \in 1 .. MaxCommands : i \in gone => i \in Range(wire[c])
      OBVIOUS
    <3> QED BY <3>1, CommandsUnderWay
  <2>3. outcome' = [i \in 1 .. MaxCommands |-> IF i \in gone THEN how ELSE outcome[i]]
    BY DEF Ends
  <2> QED BY <1>2, <2>1, <2>2, <2>3 DEF Tracked
<1>8. \A d, e \in Conn :
        /\ bytes'[d] = bytes'[e] => d = e \/ bytes'[d] \in {Nothing, Garbage}
        /\ bytes'[d] \in Range(wire'[e]) => bytes'[d] = Garbage
  BY <1>1 DEF InOrder
<1> QED BY <1>2, <1>5, <1>6, <1>7, <1>8

\* The elements of a wire that are commands are all different.
LEMMA PartsDiffer ==
  ASSUME IndInv, NEW c \in Conn, NEW n \in 0 .. Len(wire[c])
  PROVE  Range(SubSeq(wire[c], 1, n)) \intersect
           Range(SubSeq(wire[c], n + 1, Len(wire[c]))) \subseteq {Garbage}
<1> DEFINE w == wire[c]
           t == SubSeq(w, 1, n)
           u == SubSeq(w, n + 1, Len(w))
<1>1. w \in Seq(Item)
  BY DEF IndInv, TypeOK
<1>2. /\ t \in Seq(Item) /\ Len(t) = n /\ \A a \in 1 .. n : t[a] = w[a]
      /\ u \in Seq(Item) /\ Len(u) = Len(w) - n /\ \A a \in 1 .. Len(w) - n : u[a] = w[a + n]
  <2>1. n \in 0 .. Len(w)
    OBVIOUS
  <2> HIDE DEF w
  <2> QED BY <1>1, <2>1, Cut
<1>3. \A a, b \in 1 .. Len(w) : a < b /\ w[b] # Garbage => w[a] < w[b]
  BY DEF IndInv, InOrder
<1>4. \A x \in Item : ~(x < x)
  BY DEF Item, Garbage
<1> HIDE DEF w, t, u
<1>5. ASSUME NEW x, x \in Range(t), x \in Range(u), x # Garbage
      PROVE  FALSE
  <2>1. PICK a \in 1 .. n : t[a] = x
    BY <1>2, <1>5, InRange
  <2>2. PICK b \in 1 .. Len(w) - n : u[b] = x
    BY <1>2, <1>5, InRange
  <2>3. a \in 1 .. Len(w) /\ b + n \in 1 .. Len(w) /\ a < b + n
    BY <1>1, <2>1, <2>2
  <2>4. w[a] = x /\ w[b + n] = x /\ x \in Item
    BY <1>1, <1>2, <2>1, <2>2, <2>3
  <2> QED BY <1>3, <1>4, <1>5, <2>3, <2>4
<1> QED BY <1>5 DEF t, u, w

LEMMA LinkLostKeeps ==
  ASSUME IndInv, NEW c \in Conn, LinkLost(c)
  PROVE  IndInv'
<1> USE DEF IndInv
<1>1. PICK n \in 0 .. Len(wire[c]) :
        /\ wire' = [wire EXCEPT ![c] = SubSeq(@, 1, n)]
        /\ Ends(Range(SubSeq(wire[c], n + 1, Len(wire[c]))), "lost")
  BY DEF LinkLost
<1>2. /\ UNCHANGED <<cache, numClients, posted, received, conn, bytes, sock>>
      /\ link' = [link EXCEPT ![c] = FALSE] /\ link[c]
  BY DEF LinkLost, ClientMsgCache, service, program
<1>3. C!IndInv'
  BY <1>2, CacheInductive DEF CacheStep, ClientMsgCache
<1>4. /\ wire[c] \in Seq(Item)
      /\ wire'[c] = SubSeq(wire[c], 1, n) /\ \A d \in Conn : d # c => wire'[d] = wire[d]
  BY <1>1 DEF TypeOK
<1>5. /\ wire'[c] \in Seq(Item) /\ Len(wire'[c]) = n
      /\ \A a \in 1 .. n : wire'[c][a] = wire[c][a]
      /\ Range(wire[c]) = Range(wire'[c]) \union Range(SubSeq(wire[c], n + 1, Len(wire[c])))
  BY <1>4, Cut
<1>6. wire' \in [Conn -> Seq(Item)]
  BY <1>1, <1>4, <1>5 DEF TypeOK
<1>7. TypeOK'
  BY <1>1, <1>2, <1>3, <1>6 DEF TypeOK, LinkLost, Ends, ClientMsgCache, service, program, C!IndInv
<1>8. OneWay'
  BY <1>2, <1>4 DEF OneWay, TypeOK
<1>9. Range(SubSeq(wire[c], n + 1, Len(wire[c]))) \intersect Range(wire'[c]) \subseteq {Garbage}
  BY <1>4, PartsDiffer
<1>10. /\ Len(wire'[c]) + 0 <= Len(wire[c])
       /\ \A a \in 1 .. Len(wire'[c]) : wire'[c][a] = wire[c][a + 0]
  BY <1>4, <1>5
<1> DEFINE gone == Range(SubSeq(wire[c], n + 1, Len(wire[c])))
<1> HIDE DEF gone
<1>11. /\ Tracked'
       /\ \A d, e \in Conn :
            /\ bytes'[d] = bytes'[e] => d = e \/ bytes'[d] \in {Nothing, Garbage}
            /\ bytes'[d] \in Range(wire'[e]) => bytes'[d] = Garbage
       /\ \A d \in Conn : \A a, b \in 1 .. Len(wire'[d]) :
            a < b /\ wire'[d][b] # Garbage => wire'[d][a] < wire'[d][b]
       /\ \A d \in Conn : \A a \in 1 .. Len(wire'[d]) :
            bytes'[d] > Garbage => wire'[d][a] < bytes'[d]
       /\ \A d \in Conn : On(d)' \subseteq On(d)
  <2>1. /\ Ends(gone, "lost") /\ gone \intersect Range(wire'[c]) \subseteq {Garbage}
        /\ Range(wire[c]) = Range(wire'[c]) \union gone
    BY <1>1, <1>5, <1>9 DEF gone
  <2>2. 0 \in Nat /\ "lost" \in {"obeyed", "ignored", "lost"}
    OBVIOUS
  <2> QED BY <1>2, <1>4, <1>6, <1>10, <2>1, <2>2, CutKeeps
<1>12. InOrder'
  <2>1. \A i \in Obeyed' : i \in Obeyed
    BY <1>1 DEF Obeyed, Ends
  <2>2. sock' # 0 => \A i \in Obeyed' : \A x \in On(sock)' \ {Garbage} : i < x
    BY <1>2, <1>11, <2>1 DEF InOrder, TypeOK
  <2> QED BY <1>11, <2>2 DEF InOrder
<1> QED BY <1>3, <1>7, <1>8, <1>11, <1>12

\* The program's connection is closed, what it holds is lost.
LEMMA CloseKeeps ==
  ASSUME IndInv, CloseSocket, UNCHANGED <<ClientMsgCache, service, bytes>>,
         running' \in BOOLEAN, startMsgToConsume' \in BOOLEAN
  PROVE  IndInv'
<1> USE DEF IndInv
<1>1. /\ UNCHANGED <<cache, numClients, posted, received, conn, bytes>>
      /\ sock' = 0
      /\ link' = [c \in Conn |-> link[c] /\ c # sock]
      /\ wire' = [c \in Conn |-> IF c = sock THEN << >> ELSE wire[c]]
  BY DEF CloseSocket, ClientMsgCache, service
<1>2. C!IndInv'
  BY CacheInductive DEF CacheStep
<1>3. << >> \in Seq(Item) /\ Len(<< >>) = 0 /\ Range(<< >>) = {}
  BY DEF Range
<1>4. wire' \in [Conn -> Seq(Item)]
  BY <1>1, <1>3 DEF TypeOK
<1>5. outcome' \in [1 .. MaxCommands -> {"none", "obeyed", "ignored", "lost"}]
  BY DEF CloseSocket, Ends, TypeOK
<1>6. TypeOK'
  BY <1>1, <1>2, <1>4, <1>5 DEF TypeOK, service, C!IndInv
<1>7. OneWay'
  BY <1>1 DEF OneWay, TypeOK
<1>8. CASE sock = 0
  <2>1. outcome' = outcome
    BY <1>8 DEF CloseSocket
  <2>2. wire' = wire
    BY <1>1, <1>8 DEF TypeOK, Conn
  <2>3. Tracked'
    BY <1>1, <2>1, <2>2 DEF Tracked, UnderWay, On
  <2>4. InOrder'
    BY <1>1, <2>1, <2>2 DEF InOrder, Obeyed, On
  <2> QED BY <1>2, <1>6, <1>7, <2>3, <2>4
<1>9. CASE sock # 0
  <2>1. sock \in Conn /\ wire[sock] \in Seq(Item) /\ wire'[sock] = << >>
    BY <1>1, <1>9 DEF TypeOK
  <2>2. Ends(Range(wire[sock]), "lost")
    BY <1>9 DEF CloseSocket
  <2>3. \A d \in Conn : d # sock => wire'[d] = wire[d]
    BY <1>1
  <2>4. /\ Range(wire[sock]) = Range(wire'[sock]) \union Range(wire[sock])
        /\ Range(wire[sock]) \intersect Range(wire'[sock]) \subseteq {Garbage}
    BY <1>3, <2>1
  <2>5. /\ Len(wire'[sock]) + 0 <= Len(wire[sock])
        /\ \A a \in 1 .. Len(wire'[sock]) : wire'[sock][a] = wire[sock][a + 0]
    BY <2>1
  <2>6. 0 \in Nat /\ "lost" \in {"obeyed", "ignored", "lost"}
    OBVIOUS
  <2> DEFINE gone == Range(wire[sock])
  <2>7. /\ Ends(gone, "lost") /\ gone \intersect Range(wire'[sock]) \subseteq {Garbage}
        /\ Range(wire[sock]) = Range(wire'[sock]) \union gone
    BY <2>2, <2>4
  <2> HIDE DEF gone
  <2>8. /\ Tracked'
        /\ \A d, e \in Conn :
             /\ bytes'[d] = bytes'[e] => d = e \/ bytes'[d] \in {Nothing, Garbage}
             /\ bytes'[d] \in Range(wire'[e]) => bytes'[d] = Garbage
        /\ \A d \in Conn : \A a, b \in 1 .. Len(wire'[d]) :
             a < b /\ wire'[d][b] # Garbage => wire'[d][a] < wire'[d][b]
        /\ \A d \in Conn : \A a \in 1 .. Len(wire'[d]) :
             bytes'[d] > Garbage => wire'[d][a] < bytes'[d]
        /\ \A d \in Conn : On(d)' \subseteq On(d)
    BY <1>1, <1>4, <2>1, <2>3, <2>5, <2>6, <2>7, CutKeeps
  <2>9. InOrder'
    BY <1>1, <2>8 DEF InOrder
  <2> QED BY <1>2, <1>6, <1>7, <2>8, <2>9
<1> QED BY <1>8, <1>9

\* A command is obeyed when it comes alone: it is later than those obeyed before and
\* earlier than all that are still under way to the program.
LEMMA RecvKeeps ==
  ASSUME IndInv, Recv
  PROVE  /\ IndInv'
         /\ \/ Obeyed' = Obeyed
            \/ \E i \in 1 .. Len(posted) :
                 /\ Obeyed' = Obeyed \union {i}
                 /\ \A j \in Obeyed : j < i
<1> USE DEF IndInv
<1>1. sock \in Conn /\ sock # 0 /\ wire[sock] \in Seq(Item)
  BY DEF Recv, TypeOK
<1>2. PICK n \in 1 .. Len(wire[sock]) :
        LET text == SubSeq(wire[sock], 1, n)
        IN  /\ wire' = [wire EXCEPT ![sock] = SubSeq(@, n + 1, Len(@))]
            /\ startMsgToConsume' = (startMsgToConsume \/ IsStart(text))
            /\ running' = ~IsDebug(text)
            /\ Ends(Range(text), IF IsStart(text) \/ IsDebug(text) THEN "obeyed" ELSE "ignored")
  BY DEF Recv
<1> DEFINE text == SubSeq(wire[sock], 1, n)
           rest == SubSeq(wire[sock], n + 1, Len(wire[sock]))
<1>3. UNCHANGED <<cache, numClients, posted, received, conn, removals, bytes, link, sock>>
  BY DEF Recv, ClientMsgCache, service
<1>4. C!IndInv'
  BY <1>3, CacheInductive DEF CacheStep, ClientMsgCache
<1>5. wire'[sock] = rest /\ \A d \in Conn : d # sock => wire'[d] = wire[d]
  BY <1>1, <1>2 DEF TypeOK
<1>6. n \in 0 .. Len(wire[sock])
  BY <1>1
<1>7. /\ text \in Seq(Item) /\ Len(text) = n /\ \A a \in 1 .. n : text[a] = wire[sock][a]
      /\ rest \in Seq(Item) /\ Len(rest) = Len(wire[sock]) - n
      /\ \A a \in 1 .. Len(wire[sock]) - n : rest[a] = wire[sock][a + n]
      /\ Range(wire[sock]) = Range(text) \union Range(rest)
  BY <1>1, <1>6, Cut
<1>8. Range(text) \intersect Range(rest) \subseteq {Garbage}
  BY <1>1, <1>6, PartsDiffer
<1>9. PICK how \in {"obeyed", "ignored", "lost"} :
        /\ Ends(Range(text), how)
        /\ how = IF IsStart(text) \/ IsDebug(text) THEN "obeyed" ELSE "ignored"
  BY <1>2
<1>10. startMsgToConsume' \in BOOLEAN /\ running' \in BOOLEAN
  BY <1>2 DEF TypeOK, IsStart, IsDebug
<1> HIDE DEF text, rest
<1>11. wire' \in [Conn -> Seq(Item)]
  BY <1>1, <1>2, <1>7 DEF TypeOK, rest
<1>12. TypeOK'
  BY <1>3, <1>4, <1>9, <1>10, <1>11 DEF TypeOK, Ends, C!IndInv
<1>13. OneWay'
  BY <1>1, <1>3, <1>5 DEF OneWay
<1>14. /\ Tracked'
       /\ \A d, e \in Conn :
            /\ bytes'[d] = bytes'[e] => d = e \/ bytes'[d] \in {Nothing, Garbage}
            /\ bytes'[d] \in Range(wire'[e]) => bytes'[d] = Garbage
       /\ \A d \in Conn : \A a, b \in 1 .. Len(wire'[d]) :
            a < b /\ wire'[d][b] # Garbage => wire'[d][a] < wire'[d][b]
       /\ \A d \in Conn : \A a \in 1 .. Len(wire'[d]) :
            bytes'[d] > Garbage => wire'[d][a] < bytes'[d]
       /\ \A d \in Conn : On(d)' \subseteq On(d)
  <2> DEFINE gone == Range(text)
  <2>1. /\ Ends(gone, how) /\ gone \intersect Range(wire'[sock]) \subseteq {Garbage}
        /\ Range(wire[sock]) = Range(wire'[sock]) \union gone
    BY <1>5, <1>7, <1>8, <1>9
  <2>2. /\ n \in Nat /\ Len(wire'[sock]) + n <= Len(wire[sock])
        /\ \A a \in 1 .. Len(wire'[sock]) : wire'[sock][a] = wire[sock][a + n]
    <3>1. Len(wire[sock]) \in Nat
      BY <1>1
    <3>2. n \in Nat /\ n <= Len(wire[sock])
      BY <1>6, <3>1
    <3>3. Len(wire'[sock]) = Len(wire[sock]) - n
      BY <1>5, <1>7
    <3>4. \A a \in 1 .. Len(wire'[sock]) : wire'[sock][a] = wire[sock][a + n]
      BY <1>5, <1>7, <3>3
    <3> QED BY <3>1, <3>2, <3>3, <3>4
  <2> HIDE DEF gone
  <2> QED BY <1>1, <1>3, <1>5, <1>11, <2>1, <2>2, CutKeeps
<1>15. CASE ~(IsStart(text) \/ IsDebug(text))
  <2>1. how = "ignored"
    BY <1>9, <1>15
  <2>2. \A i \in 1 .. MaxCommands : i \in Range(text) => outcome[i] = "none"
    <3>1. \A i \in 1 .. MaxCommands : i \in Range(text) => i \in UnderWay
      BY <1>1, <1>7, CommandsUnderWay
    <3> QED BY <3>1, CommandsUnderWay
  <2>3. Obeyed' = Obeyed
    BY <1>9, <2>1, <2>2 DEF Obeyed, Ends
  <2>4. InOrder'
    BY <1>1, <1>3, <1>14, <2>3 DEF InOrder
  <2> QED BY <1>4, <1>12, <1>13, <1>14, <2>3, <2>4
<1>16. CASE IsStart(text) \/ IsDebug(text)
  <2> DEFINE i == text[1]
  <2>1. n = 1 /\ i # Garbage /\ i = wire[sock][1] /\ i \in 1 .. MaxCommands
    <3>1. Len(text) = 1 /\ text[1] # Garbage
      BY <1>16 DEF IsStart, IsDebug
    <3> QED BY <1>1, <1>7, <3>1 DEF Item, Garbage
  <2>2. \A x : x \in Range(text) <=> x = i
    <3>1. \A a \in 1 .. Len(text) : a = 1
      BY <1>7, <2>1
    <3>2. 1 \in 1 .. Len(text)
      BY <1>7, <2>1
    <3> QED BY <1>7, <3>1, <3>2, InRange
  <2> HIDE DEF i
  <2>3. i \in On(sock) /\ i \in UnderWay
    BY <1>1, <1>7, <2>1, <2>2, CommandsUnderWay DEF On
  <2>4. i \in 1 .. Len(posted)
    BY <2>1, <2>3, CommandsUnderWay DEF C!IndInv, C!Identified
  <2>5. Obeyed' = Obeyed \union {i}
    BY <1>9, <1>16, <2>1, <2>2 DEF Obeyed, Ends
  <2>6. \A j \in Obeyed : j < i
    BY <1>1, <2>1, <2>3 DEF InOrder
  <2>7. ASSUME NEW x \in On(sock)' \ {Garbage}
        PROVE  i < x
    <3>1. x \in Range(rest) \/ (x = bytes[sock] /\ x # Nothing)
      BY <1>3, <1>5, <2>7 DEF On
    <3>2. CASE x \in Range(rest)
      <4>1. PICK a \in 1 .. Len(rest) : rest[a] = x
        BY <1>7, <3>2, InRange
      <4>2. 1 \in 1 .. Len(wire[sock]) /\ a + 1 \in 1 .. Len(wire[sock]) /\ 1 < a + 1
            /\ wire[sock][a + 1] = x
        BY <1>1, <1>7, <2>1, <4>1
      <4> QED BY <1>1, <2>1, <2>7, <4>2 DEF InOrder
    <3>3. CASE x = bytes[sock] /\ x # Nothing
      <4>1. bytes[sock] > Garbage
        BY <1>1, <2>7, <3>3, BoundAssumption DEF TypeOK, Item, Garbage, Nothing
      <4>2. 1 \in 1 .. Len(wire[sock])
        BY <1>1, <2>1
      <4> QED BY <1>1, <2>1, <3>3, <4>1, <4>2 DEF InOrder
    <3> QED BY <3>1, <3>2, <3>3
  <2>8. \A j \in Obeyed' : \A x \in On(sock)' \ {Garbage} : j < x
    BY <1>1, <1>3, <1>14, <2>5, <2>7 DEF InOrder
  <2>9. InOrder'
    BY <1>14, <2>8 DEF InOrder
  <2> QED BY <1>4, <1>12, <1>13, <1>14, <2>4, <2>5, <2>6, <2>9
<1> QED BY <1>15, <1>16
\* A step of any kind keeps the invariant.
LEMMA IndInvInductive ==
  ASSUME IndInv, [Next]_vars
  PROVE  IndInv'
<1>1. ASSUME NEW msg \in Command, AddMessage(msg)
      PROVE  IndInv'
  BY <1>1, AddKeeps
<1>2. ASSUME NEW m \in cache, IAmOld(m)
      PROVE  IndInv'
  <2>1. C!IndInv'
    BY <1>2, CacheInductive DEF IndInv, IAmOld, CacheStep
  <2>2. UNCHANGED <<posted, received, service, network, program, outcome>>
    BY <1>2 DEF IAmOld, C!IAmOld
  <2>3. TypeOK'
    BY <2>1, <2>2 DEF IndInv, TypeOK, C!IndInv, service, network, program
  <2> QED BY <2>1, <2>2, <2>3, QuietKeeps DEF service, network, program
<1>3. ASSUME NEW c \in Conn, RemoveClient(c)
      PROVE  IndInv'
  <2>1. C!IndInv'
    BY <1>3, CacheInductive DEF IndInv, RemoveClient, CacheStep
  <2>2. UNCHANGED <<posted, received, conn, network, program, outcome>>
    BY <1>3 DEF RemoveClient, C!ClientRemoved
  <2>3. removals' \in [Conn -> 0 .. MaxRemovals]
    BY <1>3, BoundAssumption DEF IndInv, TypeOK, RemoveClient
  <2>4. TypeOK'
    BY <2>1, <2>2, <2>3 DEF IndInv, TypeOK, C!IndInv, network, program
  <2> QED BY <2>1, <2>2, <2>4, QuietKeeps DEF network, program
<1>4. ASSUME NEW c \in Conn, StopTimers(c)
      PROVE  IndInv'
  <2>1. UNCHANGED <<ClientMsgCache, removals, network, program, outcome>>
    BY <1>4 DEF StopTimers
  <2>2. C!IndInv'
    BY <2>1, CacheInductive DEF IndInv, CacheStep
  <2>3. TypeOK' /\ \A d \in Conn : conn'[d] = "none" => conn[d] = "none"
    BY <1>4, <2>1, <2>2 DEF StopTimers, IndInv, TypeOK, C!IndInv, network, program
  <2> QED BY <2>1, <2>2, <2>3, QuietKeeps DEF ClientMsgCache, network, program
<1>5. ASSUME Release \/ UNCHANGED vars
      PROVE  IndInv'
  <2>1. UNCHANGED <<ClientMsgCache, service, network, sock, running, outcome>>
    BY <1>5 DEF Release, vars, program
  <2>2. C!IndInv'
    BY <2>1, CacheInductive DEF IndInv, CacheStep
  <2>3. startMsgToConsume' \in BOOLEAN
    BY <1>5 DEF Release, vars, program, IndInv, TypeOK
  <2>4. TypeOK'
    BY <2>1, <2>2, <2>3 DEF IndInv, TypeOK, C!IndInv, service, network
  <2> QED BY <2>1, <2>2, <2>4, QuietKeeps DEF ClientMsgCache, service, network
<1>6. HangUp => IndInv'
  BY CloseKeeps DEF HangUp, IndInv, TypeOK
<1>7. Reboot => IndInv'
  BY CloseKeeps DEF Reboot
<1>8. Recv => IndInv'
  BY RecvKeeps
<1> QED
  BY <1>1, <1>2, <1>3, <1>4, <1>5, <1>6, <1>7, <1>8,
     GrabKeeps, NewBytesKeeps, SendKeeps, LinkLostKeeps, ConnectKeeps DEF Next

LEMMA InitIndInv == Init => IndInv
<1> SUFFICES ASSUME Init PROVE IndInv
  OBVIOUS
<1>1. P!Init
  BY SameNames DEF Init, C!Init, P!Init
<1>2. C!IndInv
  BY <1>1, SameInv, CacheAssumptions, P!InitIndInv
<1>3. << >> \in Seq(Item) /\ Range(<< >>) = {} /\ Len(posted) = 0
  BY DEF Range, Init, C!Init
<1>4. TypeOK
  <2>1. removals \in [Conn -> 0 .. MaxRemovals]
    BY BoundAssumption DEF Init
  <2>2. wire \in [Conn -> Seq(Item)]
    BY <1>3 DEF Init
  <2>3. outcome \in [1 .. MaxCommands -> {"none", "obeyed", "ignored", "lost"}]
    BY DEF Init
  <2>4. bytes \in [Conn -> Item \union {Nothing}] /\ conn \in [Conn -> {"none", "up", "dead"}]
    BY DEF Init
  <2> QED BY <1>2, <2>1, <2>2, <2>3, <2>4 DEF Init, TypeOK, C!IndInv
<1>5. OneWay
  BY DEF Init, OneWay
<1>6. \A c \in Conn : On(c) = {}
  BY <1>3 DEF Init, On
<1>7. Tracked
  BY <1>3, <1>6, BoundAssumption DEF Init, C!Init, Tracked, UnderWay
<1>8. InOrder
  BY <1>3 DEF Init, InOrder
<1> QED BY <1>2, <1>4, <1>5, <1>7, <1>8 DEF IndInv

\* Whatever the order of the steps of the handler, the connections, the link and the
\* program: the invariant of the whole way, and with it the types, always hold.
THEOREM IndInvHolds == Spec => []IndInv
<1>1. Init => IndInv
  BY InitIndInv
<1>2. IndInv /\ [Next]_vars => IndInv'
  BY IndInvInductive
<1> QED BY <1>1, <1>2, PTL DEF Spec

-----------------------------------------------------------------------------
(* What it is good for.                                                    *)

\* No command that the handler has posted vanishes without being obeyed, ignored or
\* lost on a connection, and none is both in the cache and under way.
THEOREM NoneVanishesHolds == Spec => []NoneVanishes
<1>1. IndInv => NoneVanishes
  <2> SUFFICES ASSUME IndInv, NEW i \in 1 .. Len(posted)
               PROVE  /\ outcome[i] = "none" <=> i \in Waiting \union UnderWay
                      /\ ~(i \in Waiting /\ i \in UnderWay)
    BY DEF NoneVanishes
  <2>1. i \in 1 .. MaxCommands
    BY BoundAssumption DEF IndInv, Tracked, TypeOK, C!TypeOK
  <2>2. i \in Waiting <=> i \notin received[RpiID]
    BY WaitingNotRead DEF IndInv, Tracked
  <2>3. i \in UnderWay => i \in received[RpiID]
    BY <2>1, CommandsUnderWay
  <2> QED BY <2>1, <2>2, <2>3 DEF IndInv, Tracked
<1> QED BY <1>1, IndInvHolds, PTL

\* What ends without being obeyed was under way, and not obeyed before.
LEMMA LostNotObeyed ==
  ASSUME IndInv, NEW items, NEW how \in {"ignored", "lost"}, Ends(items, how),
         \A i \in 1 .. MaxCommands : i \in items => i \in UnderWay
  PROVE  Obeyed' = Obeyed
<1>1. \A i \in 1 .. MaxCommands : i \in items => outcome[i] = "none"
  BY CommandsUnderWay
<1> QED BY <1>1 DEF Ends, Obeyed

\* The commands that the program obeys are handed out as Delivery allows: in the
\* order of their posting and each at most once, over all connections and reboots.
THEOREM DeliversToCar == Spec => DeliveredToCar
<1>1. Init => D!Init
  BY DEF Init, C!Init, D!Init, Obeyed
<1>2. ASSUME IndInv, IndInv', [Next]_vars
      PROVE  [D!Next]_<<posted, [id \in {RpiID} |-> Obeyed]>>
  <2>1. ASSUME NEW c \in Conn
        PROVE  /\ \A i \in 1 .. MaxCommands : bytes[c] = i => i \in UnderWay
               /\ \A i \in 1 .. MaxCommands : i \in Range(wire[c]) => i \in UnderWay
    BY <1>2, CommandsUnderWay
  <2>2. ASSUME NEW msg \in Command, AddMessage(msg)
        PROVE  UNCHANGED <<posted, Obeyed>> \/ (D!Post(msg, Rpi) /\ Obeyed' = Obeyed)
    BY <2>2 DEF AddMessage, C!AddMessage, C!PostedAfterAdd, D!Post, Obeyed
  <2>3. ASSUME NEW c \in Conn, NewBytes(c)
        PROVE  UNCHANGED <<posted, Obeyed>>
    <3>1. \A i \in 1 .. MaxCommands : i \in {bytes[c]} => i \in UnderWay
      BY <2>1
    <3>2. Ends({bytes[c]}, "lost") /\ posted' = posted
      BY <2>3 DEF NewBytes, ClientMsgCache
    <3> QED BY <1>2, <3>1, <3>2, LostNotObeyed
  <2>4. ASSUME NEW c \in Conn, Send(c)
        PROVE  UNCHANGED <<posted, Obeyed>>
    <3>1. \A i \in 1 .. MaxCommands : i \in {bytes[c]} => i \in UnderWay
      BY <2>1
    <3>2. posted' = posted /\ (Ends({bytes[c]}, "lost") \/ outcome' = outcome)
      BY <2>4 DEF Send, ClientMsgCache
    <3>3. CASE Ends({bytes[c]}, "lost")
      BY <1>2, <3>1, <3>2, <3>3, LostNotObeyed
    <3>4. CASE outcome' = outcome
      BY <3>2, <3>4 DEF Obeyed
    <3> QED BY <3>2, <3>3, <3>4
  <2>5. ASSUME NEW c \in Conn, LinkLost(c)
        PROVE  UNCHANGED <<posted, Obeyed>>
    <3>1. PICK n \in 0 .. Len(wire[c]) :
            Ends(Range(SubSeq(wire[c], n + 1, Len(wire[c]))), "lost")
      BY <2>5 DEF LinkLost
    <3> DEFINE gone == Range(SubSeq(wire[c], n + 1, Len(wire[c])))
    <3>2. wire[c] \in Seq(Item)
      BY <1>2 DEF IndInv, TypeOK
    <3>3. \A i \in gone : i \in Range(wire[c])
      BY <3>2, Cut
    <3>4. Ends(gone, "lost")
      BY <3>1
    <3> HIDE DEF gone
    <3>5. \A i \in 1 .. MaxCommands : i \in gone => i \in UnderWay
      BY <2>1, <3>3
    <3>6. Obeyed' = Obeyed
      BY <1>2, <3>4, <3>5, LostNotObeyed
    <3> QED BY <2>5, <3>6 DEF LinkLost, ClientMsgCache
  <2>6. ASSUME HangUp \/ Reboot
        PROVE  UNCHANGED <<posted, Obeyed>>
    <3>1. CloseSocket /\ posted' = posted
      BY <2>6 DEF HangUp, Reboot, ClientMsgCache
    <3>2. CASE sock = 0
      BY <3>1, <3>2 DEF CloseSocket, Obeyed
    <3>3. CASE sock # 0
      <4>1. sock \in Conn /\ Ends(Range(wire[sock]), "lost")
        BY <1>2, <3>1, <3>3 DEF CloseSocket, IndInv, TypeOK
      <4>2. \A i \in 1 .. MaxCommands : i \in Range(wire[sock]) => i \in UnderWay
        BY <2>1, <4>1
      <4> QED BY <1>2, <3>1, <4>1, <4>2, LostNotObeyed
    <3> QED BY <3>2, <3>3
  <2>7. ASSUME Recv
        PROVE  \/ UNCHANGED <<posted, Obeyed>>
               \/ \E i \in 1 .. Len(posted) :
                    /\ Obeyed' = Obeyed \union {i} /\ posted' = posted
                    /\ \A j \in Obeyed : j < i
    <3>1. posted' = posted
      BY <2>7 DEF Recv, ClientMsgCache
    <3> QED BY <1>2, <2>7, <3>1, RecvKeeps
  <2>8. ASSUME NEW c \in Conn,
               GrabTransmissionInCache(c) \/ RemoveClient(c) \/ StopTimers(c) \/ Connect(c)
        PROVE  UNCHANGED <<posted, Obeyed>>
    BY <2>8 DEF GrabTransmissionInCache, C!Read, RemoveClient, C!ClientRemoved, StopTimers,
                Connect, C!ClientAdded, ClientMsgCache, Obeyed
  <2>9. ASSUME NEW m \in cache, IAmOld(m)
        PROVE  UNCHANGED <<posted, Obeyed>>
    BY <2>9 DEF IAmOld, C!IAmOld, Obeyed
  <2>10. ASSUME Release \/ UNCHANGED vars
         PROVE  UNCHANGED <<posted, Obeyed>>
    BY <2>10 DEF Release, vars, ClientMsgCache, Obeyed
  <2>11. ASSUME NEW i \in 1 .. Len(posted),
                Obeyed' = Obeyed \union {i}, posted' = posted, \A j \in Obeyed : j < i
         PROVE  D!Next
    <3>1. D!TypeOf(RpiID) = Rpi
      BY DEF D!TypeOf, D!Rpi, D!RpiID, RpiID, Rpi
    <3>2. posted[i].target = D!TypeOf(RpiID)
      BY <1>2, <3>1 DEF IndInv, Tracked
    <3>3. D!Deliver(RpiID, i)
      BY <2>11, <3>2 DEF D!Deliver
    <3> QED BY <3>3 DEF D!Next
  <2>12. Rpi \in D!ClientType
    BY DEF D!ClientType, D!Rpi, Rpi
  <2>13. UNCHANGED <<posted, Obeyed>> => UNCHANGED <<posted, [id \in {RpiID} |-> Obeyed]>>
    OBVIOUS
  <2>14. \A msg \in Command : D!Post(msg, Rpi) => D!Next
    BY <2>12 DEF D!Next
  <2> QED
    BY <1>2, <2>2, <2>3, <2>4, <2>5, <2>6, <2>7, <2>8, <2>9, <2>10, <2>11, <2>13, <2>14 DEF Next
<1> QED BY <1>1, <1>2, IndInvHolds, PTL DEF Spec, DeliveredToCar, D!Spec
=============================================================================
