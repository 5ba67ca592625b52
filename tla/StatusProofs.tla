---------------------------- MODULE StatusProofs ---------------------------
(***************************************************************************)
(* Proofs about what the web application is told of the RPI (the status in *)
(* ExchangeServer): for any connections, texts and bounds, a consumer that *)
(* has nothing left to read knows the latest state of the RPI, as long as  *)
(* no consumer was torn down and none is between its registration and its  *)
(* ClientSetup.  The last message to consumers is kept until all of them   *)
(* have read it: it was created for at least as many as are listed, only   *)
(* they mark it, and a reader gets messages of its type only.              *)
(***************************************************************************)
EXTENDS ExchangeProofs

early == {"none", "add", "setup", "start"}

LEMMA Names ==
  /\ Consumer # Rpi /\ C!Consumer = Consumer /\ C!Rpi = Rpi /\ C!ClientType = ClientType
  /\ \A id : C!TypeOf(id) = TypeOf(id)
  /\ Consumer \in ClientType /\ Rpi \in ClientType
  /\ \A c \in ConsumerConn : c \in Conn /\ cType(c) = Consumer
  /\ \A c \in RpiConn : c \in Conn /\ cType(c) = Rpi
  BY ConnAssumption DEF Consumer, Rpi, C!Consumer, C!Rpi, C!ClientType, ClientType, C!TypeOf,
     TypeOf, C!RpiID, RpiID, Conn, cType

-----------------------------------------------------------------------------
(* Steps that are taken once.                                              *)

\* A teardown is not taken back, and a connection does not start again.
LEMMA Forwards ==
  ASSUME Typed, [Next]_vars, NEW k \in Conn
  PROVE  /\ disposing[k] => disposing'[k]
         /\ pc[k] \notin {"none", "add", "setup"} => pc'[k] \notin {"none", "add", "setup"}
         /\ pc[k] \notin early => pc'[k] \notin early
<1> DEFINE Moves == /\ disposing[k] => disposing'[k]
                    /\ pc[k] \notin {"none", "add", "setup"} => pc'[k] \notin {"none", "add", "setup"}
                    /\ pc[k] \notin early => pc'[k] \notin early
<1> USE DEF early
<1>1. /\ pc \in [Conn -> {"none", "add", "setup", "start", "chat", "post", "restart",
                      "spin", "ended"}]
      /\ disposing \in [Conn -> BOOLEAN]
  BY DEF Typed, TypeOK
<1>2. ASSUME NEW c \in Conn, ThreadStep(c)
      PROVE  Moves
  BY <1>1, <1>2 DEF ThreadStep, Register, Announce, StartTimers, Forward, RestartKeepAlive,
     ReceiveNothing
<1>3. ASSUME NEW c \in Conn, NEW t \in Thread, ThisConnectionSucks(c, t)
      PROVE  Moves
  BY <1>1, <1>3 DEF ThisConnectionSucks, RemoveClient, TellKilled, StopAndAbort
<1>4. ASSUME NEW c \in Conn,
             \/ Accept(c) \/ (\E text \in TextFrom(c) : ReceiveWholeMsg(c, text))
             \/ ReceivePart(c) \/ KeepAliveTO(c) \/ recMsgTO(c)
             \/ GrabTransmissionInCache(c) \/ SendSpoilsReceive(c)
             \/ \E how \in {"closed", "gone"} : PeerEnds(c, how)
      PROVE  Moves
  BY <1>1, <1>4 DEF Accept, ReceiveWholeMsg, ReceivePart, KeepAliveTO, recMsgTO, PeerEnds,
     GrabTransmissionInCache, SendSpoilsReceive, Receiving
<1>5. (UNCHANGED vars \/ Load \/ OnMsgFromClient) => Moves
  BY DEF vars, connVars, Load, OnMsgFromClient
<1> HIDE DEF Moves
<1>6. Moves
  BY <1>2, <1>3, <1>4, <1>5 DEF Next
<1> QED BY <1>6 DEF Moves

\* The form lists no connection but the one whose ClientSetup it serves.
LEMMA RowsGrow ==
  ASSUME Typed, [Next]_vars
  PROVE  /\ \A c \in rows' : c \in rows \/ (OnMsgFromClient /\ pc[c] = "start")
         /\ ~OnMsgFromClient => rows' = rows
<1>1. CASE OnMsgFromClient
  BY <1>1, RowsServed
<1>2. ASSUME NEW c \in Conn, NEW t \in Thread, StopAndAbort(c, t)
      PROVE  rows' = rows
  BY <1>2 DEF StopAndAbort, uiVars
<1>3. CASE ~OnMsgFromClient /\ \A c \in Conn, t \in Thread : ~StopAndAbort(c, t)
  BY <1>3, OthersKeep
<1> QED BY <1>1, <1>2, <1>3

LEMMA TornDownKept ==
  ASSUME Typed, TornDown, [Next]_vars
  PROVE  TornDown'
<1>1. ASSUME NEW k \in Conn, NEW u \in Thread, sucks'[k][u] \in {"removed", "told"}
      PROVE  disposing'[k]
  <2> DEFINE Goal == sucks[k][u] \in {"removed", "told"} \/ disposing'[k]
  <2>1. /\ sucks \in [Conn -> [Thread -> {"no", "decided", "removed", "told"}]]
        /\ disposing \in [Conn -> BOOLEAN]
    BY DEF Typed, TypeOK
  <2>2. ASSUME NEW c \in Conn, NEW t \in Thread, Decide(c, t)
        PROVE  Goal
    BY <1>1, <2>2, Decided
  <2>3. ASSUME sucks' = sucks
        PROVE  Goal
    BY <1>1, <2>3
  <2>4. ASSUME NEW c \in Conn, ThreadStep(c)
        PROVE  Goal
    BY <2>2, <2>3, <2>4, Threads DEF ThreadStep, Register, Announce, StartTimers, Forward,
       RestartKeepAlive, ReceiveNothing
  <2>5. ASSUME NEW c \in Conn, NEW t \in Thread, ThisConnectionSucks(c, t)
        PROVE  Goal
    BY <1>1, <2>1, <2>5 DEF ThisConnectionSucks, RemoveClient, TellKilled, StopAndAbort
  <2>6. ASSUME NEW c \in Conn,
               \/ Accept(c) \/ (\E text \in TextFrom(c) : ReceiveWholeMsg(c, text))
               \/ ReceivePart(c) \/ KeepAliveTO(c) \/ recMsgTO(c)
               \/ GrabTransmissionInCache(c) \/ SendSpoilsReceive(c)
               \/ \E how \in {"closed", "gone"} : PeerEnds(c, how)
        PROVE  Goal
    BY <2>2, <2>3, <2>6, Threads DEF Accept, ReceiveWholeMsg, ReceivePart, KeepAliveTO, recMsgTO,
       PeerEnds, GrabTransmissionInCache, SendSpoilsReceive
  <2>7. (UNCHANGED vars \/ Load \/ OnMsgFromClient) => Goal
    BY <2>3 DEF vars, connVars, Load, OnMsgFromClient
  <2>8. Goal
    <3> HIDE DEF Goal
    <3> QED BY <2>4, <2>5, <2>6, <2>7 DEF Next
  <2> QED BY <2>8, Forwards DEF TornDown
<1>2. ASSUME NEW call \in Calls', call.msg = <<"ClientKilled">>
      PROVE  disposing'[call.conn]
  <2>1. CASE call \in Calls
    <3>1. disposing[call.conn] /\ call.conn \in Conn
      BY <1>2, <2>1, CallsTyped DEF TornDown, Typed, Call
    <3> QED BY <3>1, Forwards
  <2>2. CASE call \notin Calls
    <3>1. <<"ClientSetup">> # <<"ClientKilled">>
      OBVIOUS
    <3>2. call.conn \in Conn => retstr[call.conn] # <<"ClientKilled">>
      BY TextsHaveNoEvents DEF Typed, TypeOK
    <3>3. call.conn \in Conn /\ call.by \in Thread /\ TellKilled(call.conn, call.by)
      BY <1>2, <2>2, <3>1, <3>2, NewCalls
    <3>4. disposing[call.conn]
      BY <3>3 DEF TellKilled, TornDown
    <3> QED BY <3>3, <3>4, Forwards
  <2> QED BY <2>1, <2>2
<1>3. ASSUME NEW c \in rows'
      PROVE  pc'[c] \notin {"none", "add", "setup"}
  <2>1. c \in Conn
    BY TypesKept, Names DEF TypeOK
  <2>2. pc[c] \notin {"none", "add", "setup"}
    BY RowsGrow DEF TornDown
  <2> QED BY <2>1, <2>2, Forwards
<1> QED BY <1>1, <1>2, <1>3 DEF TornDown

-----------------------------------------------------------------------------
(* Readers and what they read.                                             *)

\* A read finds a message of the reader's type that it has not marked yet, and hands
\* out its number.
LEMMA ReadFinds ==
  ASSUME C!IndInv, NEW id \in 0 .. Cardinality(ConsumerConn), C!Unread(id) # {}
  PROVE  LET m == C!Oldest(C!Unread(id))
         IN  /\ m \in cache /\ m.targetClientType = TypeOf(id)
             /\ C!ReadResult(id) = {m.id}
<1> DEFINE m == C!Oldest(C!Unread(id))
<1>1. P!TypeOK
  BY SameInv DEF P!IndInv
<1>2. C!Unread(id) = P!Unread(id) /\ \A S : C!Oldest(S) = P!Oldest(S)
  BY SameNames DEF C!Unread, P!Unread, C!Oldest, P!Oldest
<1>3. P!Unread(id) # {} /\ P!Unread(id) \in SUBSET cache
  BY <1>2 DEF P!Unread
<1>4. m \in C!Unread(id)
  BY <1>1, <1>2, <1>3, CacheAssumptions, P!OldestExists
<1> HIDE DEF m
<1>5. m \in cache /\ m.targetClientType = TypeOf(id)
  BY <1>4, Names DEF C!Unread
<1> QED BY <1>5 DEF m, C!ReadResult

\* What was created stays as it was; the handler alone creates messages.
LEMMA PostedStays ==
  ASSUME Typed, [Next]_vars
  PROVE  /\ Len(posted) \in Nat /\ Len(posted') \in Nat /\ Len(posted) <= Len(posted')
         /\ \A i \in 1 .. Len(posted) : posted'[i] = posted[i]
<1>1. posted \in Seq([msg : {StatusText(info) : info \in Status} \union ConsumerText,
                      target : C!ClientType])
  BY DEF Typed, TypeOK, C!TypeOK
<1>2. ASSUME NEW msg \in {StatusText(info) : info \in Status} \union ConsumerText,
             NEW ct \in C!ClientType, posted' = Append(posted, [msg |-> msg, target |-> ct])
      PROVE  /\ Len(posted') = Len(posted) + 1
             /\ \A i \in 1 .. Len(posted) : posted'[i] = posted[i]
  BY <1>1, <1>2
<1>3. \/ posted' = posted
      \/ \E msg \in {StatusText(info) : info \in Status} \union ConsumerText, ct \in C!ClientType :
           posted' = Append(posted, [msg |-> msg, target |-> ct])
  BY UsesCache DEF C!Next, C!vars, C!ClientAdded, C!ClientRemoved, C!AddMessage, C!PostedAfterAdd,
     C!Read, C!IAmOld
<1>4. Len(posted) \in Nat
  BY <1>1
<1>5. CASE posted' = posted
  BY <1>4, <1>5
<1>6. ASSUME Len(posted') = Len(posted) + 1
      PROVE  Len(posted') \in Nat /\ Len(posted) <= Len(posted')
  BY <1>4, <1>6
<1> QED BY <1>2, <1>3, <1>4, <1>5, <1>6

LEMMA OwnMessagesKept ==
  ASSUME Typed, OwnMessages, [Next]_vars
  PROVE  OwnMessages'
<1> SUFFICES ASSUME NEW id \in 0 .. Cardinality(ConsumerConn), NEW i \in received'[id]
             PROVE  posted'[i].target = TypeOf(id)
  BY DEF OwnMessages
<1>1. ASSUME i \in received[id]
      PROVE  posted'[i].target = TypeOf(id)
  <2>1. i \in 1 .. Len(posted) /\ posted[i].target = TypeOf(id)
    BY <1>1 DEF OwnMessages, Typed, C!IndInv, C!Identified
  <2> QED BY <2>1, PostedStays
<1>2. ASSUME NEW c \in Conn, C!Read(CID[c]), i \notin received[id]
      PROVE  posted'[i].target = TypeOf(id)
  <2> DEFINE m == C!Oldest(C!Unread(CID[c]))
  <2>1. /\ received' = [received EXCEPT ![CID[c]] = @ \union C!ReadResult(CID[c])]
        /\ posted' = posted
        /\ received \in [0 .. Cardinality(ConsumerConn) -> SUBSET Nat]
        /\ CID[c] \in 0 .. Cardinality(ConsumerConn)
    BY <1>2 DEF C!Read, Typed, TypeOK, C!TypeOK
  <2>2. id = CID[c] /\ i \in C!ReadResult(CID[c])
    BY <1>2, <2>1
  <2>3. C!Unread(CID[c]) # {}
    BY <2>2 DEF C!ReadResult
  <2>4. m \in cache /\ m.targetClientType = TypeOf(CID[c]) /\ i = m.id
    BY <2>1, <2>2, <2>3, ReadFinds DEF Typed
  <2> HIDE DEF m
  <2>5. posted[i].target = TypeOf(CID[c])
    BY <2>4 DEF Typed, C!IndInv, C!Identified
  <2> QED BY <2>1, <2>2, <2>5
<1> QED BY <1>1, <1>2, OnlyReadsHandOut

LEMMA OwnIdsKept ==
  ASSUME Typed, OwnIds, [Next]_vars
  PROVE  OwnIds'
<1> DEFINE last == Cardinality(ConsumerConn)
<1>1. /\ pc \in [Conn -> {"none", "add", "setup", "start", "chat", "post", "restart",
                      "spin", "ended"}]
      /\ CID \in [Conn -> 0 .. last] /\ lastClientID \in 0 .. last
      /\ got \in [Conn -> SUBSET Nat] /\ received \in [0 .. last -> SUBSET Nat]
      /\ last \in Nat
  BY Finite DEF Typed, TypeOK, C!TypeOK
<1>2. ASSUME NEW a \in Conn, Accept(a)
      PROVE  OwnIds'
  <2>1. /\ pc[a] = "none" /\ pc' = [pc EXCEPT ![a] = "add"]
        /\ CID' = [CID EXCEPT ![a] = GenerateClientID(a)]
        /\ lastClientID' = IF CID'[a] > lastClientID THEN CID'[a] ELSE lastClientID
        /\ got' = got /\ received' = received
    BY <1>2 DEF Accept, cacheVars, history, ClientMsgCache
  <2>2. CASE a \in RpiConn
    <3>1. /\ \A c \in ConsumerConn : c # a /\ c \in Conn
          /\ CID'[a] = 0
      BY <1>1, <2>1, <2>2, ConnAssumption, Names DEF GenerateClientID, RpiID
    <3>2. lastClientID' = lastClientID
      BY <1>1, <2>1, <3>1
    <3>3. \A c \in ConsumerConn : pc'[c] = pc[c] /\ CID'[c] = CID[c]
      BY <1>1, <2>1, <3>1
    <3> QED BY <2>1, <3>2, <3>3 DEF OwnIds
  <2>3. CASE a \in ConsumerConn
    <3>1. CID'[a] = lastClientID + 1 /\ lastClientID' = lastClientID + 1
      BY <1>1, <2>1, <2>3, Names DEF GenerateClientID
    <3>2. lastClientID + 1 \in 1 .. last
      <4>1. lastClientID' \in 0 .. last
        BY TypesKept DEF TypeOK
      <4> QED BY <1>1, <3>1, <4>1
    <3>3. \A c \in ConsumerConn : c # a => pc'[c] = pc[c] /\ CID'[c] = CID[c]
      BY <1>1, <2>1, Names
    <3>4. pc'[a] # "none" /\ got[a] = {} /\ received[lastClientID + 1] = {}
      BY <1>1, <2>1, <2>3, <3>2 DEF OwnIds
    <3>5. ASSUME NEW c \in ConsumerConn
          PROVE  IF pc'[c] = "none" THEN got'[c] = {}
                 ELSE CID'[c] \in 1 .. lastClientID' /\ got'[c] = received'[CID'[c]]
      <4>1. CASE c = a
        <5>1. CID'[a] \in 1 .. lastClientID'
          BY <3>1, <3>2
        <5>2. got'[a] = received'[CID'[a]]
          BY <2>1, <3>1, <3>4
        <5> QED BY <3>4, <4>1, <5>1, <5>2
      <4>2. CASE c # a
        BY <1>1, <2>1, <3>1, <3>3, <4>2 DEF OwnIds
      <4> QED BY <4>1, <4>2
    <3>6. ASSUME NEW c \in ConsumerConn, pc[c] # "none"
          PROVE  CID[c] # lastClientID + 1
      BY <1>1, <3>6 DEF OwnIds
    <3>7. ASSUME NEW c \in ConsumerConn, NEW k \in ConsumerConn,
                 c # k, pc'[c] # "none", pc'[k] # "none"
          PROVE  CID'[c] # CID'[k]
      BY <3>1, <3>3, <3>6, <3>7 DEF OwnIds
    <3>8. ASSUME NEW id \in lastClientID' + 1 .. last
          PROVE  received'[id] = {}
      <4>1. id \in lastClientID + 1 .. last
        BY <1>1, <3>1
      <4> QED BY <2>1, <4>1 DEF OwnIds
    <3> QED BY <3>5, <3>7, <3>8 DEF OwnIds
  <2> QED BY <2>2, <2>3 DEF Conn
<1>3. ASSUME \A a \in Conn : ~Accept(a)
      PROVE  OwnIds'
  <2>1. /\ CID' = CID /\ lastClientID' = lastClientID
        /\ \A k \in ConsumerConn : pc'[k] = "none" <=> pc[k] = "none"
    BY <1>3, OnlyAcceptCounts, Names DEF Typed
  <2>2. CASE got' = got /\ received' = received
    BY <2>1, <2>2 DEF OwnIds
  <2>3. ASSUME NEW r \in Conn, "send" \in timers[r], C!Read(CID[r]),
               got' = [got EXCEPT ![r] = @ \union C!ReadResult(CID[r])]
        PROVE  OwnIds'
    <3> DEFINE new == C!ReadResult(CID[r])
    <3>1. /\ received' = [received EXCEPT ![CID[r]] = @ \union new]
          /\ \A c \in Conn : got'[c] = IF c = r THEN got[c] \union new ELSE got[c]
          /\ \A id \in 0 .. last :
               received'[id] = IF id = CID[r] THEN received[id] \union new ELSE received[id]
      BY <1>1, <2>3 DEF C!Read
    <3>2. pc[r] # "none" /\ CID[r] \in 0 .. lastClientID
      <4>1. pc[r] # "none"
        BY <2>3 DEF Typed, SetupFirst
      <4>2. CASE r \in RpiConn
        BY <1>1, <4>1, <4>2 DEF Typed, IdsCount, RpiID
      <4>3. CASE r \in ConsumerConn
        BY <1>1, <4>1, <4>3 DEF OwnIds
      <4> QED BY <4>1, <4>2, <4>3 DEF Conn
    <3> HIDE DEF new
    <3>3. ASSUME NEW c \in ConsumerConn
          PROVE  IF pc[c] = "none" THEN got'[c] = {}
                 ELSE CID[c] \in 1 .. lastClientID /\ got'[c] = received'[CID[c]]
      <4>1. c \in Conn /\ CID[c] \in 0 .. last
        BY <1>1, Names
      <4>2. CASE c = r
        BY <3>1, <3>2, <4>1, <4>2 DEF OwnIds
      <4>3. CASE c # r
        <5>1. pc[c] # "none" => CID[c] # CID[r]
          <6>1. CASE r \in RpiConn
            BY <1>1, <6>1 DEF OwnIds, Typed, IdsCount, RpiID
          <6>2. CASE r \in ConsumerConn
            BY <3>2, <4>3, <6>2 DEF OwnIds
          <6> QED BY <6>1, <6>2 DEF Conn
        <5>2. got'[c] = got[c] /\ (pc[c] # "none" => received'[CID[c]] = received[CID[c]])
          BY <3>1, <4>1, <4>3, <5>1
        <5> QED BY <5>2 DEF OwnIds
      <4> QED BY <4>2, <4>3
    <3>4. ASSUME NEW id \in lastClientID + 1 .. last
          PROVE  received'[id] = {}
      <4>1. id # CID[r] /\ id \in 0 .. last
        BY <1>1, <3>2
      <4> QED BY <3>1, <4>1 DEF OwnIds
    <3> QED BY <2>1, <3>3, <3>4 DEF OwnIds
  <2>4. (OnMsgFromClient /\ got' = got /\ received' = received)
          \/ UNCHANGED <<cache, posted, received, got, LatestRPI, rows>>
          => got' = got /\ received' = received
    OBVIOUS
  <2> QED BY <2>2, <2>3, <2>4, CacheUse
<1> QED BY <1>2, <1>3

-----------------------------------------------------------------------------
(* The count of clients.                                                   *)

LEMMA RegsFinite ==
  ASSUME NEW ct
  PROVE  IsFiniteSet(Regs(ct)) /\ Cardinality(Regs(ct)) \in Nat
<1>1. Regs(ct) \in SUBSET Conn
  BY DEF Regs
<1> QED BY <1>1, Finite, FS_Subset, FS_CardinalityType

LEMMA CountedKept ==
  ASSUME Typed, CountedAtFirst, [Next]_vars
  PROVE  CountedAtFirst'
<1> SUFFICES ASSUME NEW ct \in ClientType, \A c \in Conn : cType(c) = ct => ~disposing'[c]
             PROVE  numClients'[ct] = Cardinality(Regs(ct)')
  BY DEF CountedAtFirst, Regs
<1>1. numClients[ct] = Cardinality(Regs(ct))
  <2>1. \A c \in Conn : cType(c) = ct => ~disposing[c]
    BY Forwards
  <2> QED BY <2>1 DEF CountedAtFirst, Regs
<1>2. ASSUME NEW c \in Conn, Register(c)
      PROVE  numClients'[ct] = Cardinality(Regs(ct)')
  BY <1>1, <1>2, RegisterCounts
<1>3. ASSUME NEW c \in Conn, NEW t \in Thread, RemoveClient(c, t)
      PROVE  numClients'[ct] = Cardinality(Regs(ct)')
  <2>1. disposing'[c]
    BY <1>3 DEF RemoveClient, Typed, TypeOK
  <2>2. cType(c) # ct
    BY <2>1
  <2>3. numClients'[ct] = numClients[ct] /\ Regs(ct)' = Regs(ct)
    BY <1>3, <2>2 DEF RemoveClient, Uncount, C!ClientRemoved, Regs, Registered, Typed, TypeOK,
       C!TypeOK, C!ClientType, ClientType, C!Rpi, C!Consumer, Rpi, Consumer
  <2> QED BY <1>1, <2>3
<1>4. CASE (\A c \in Conn : ~Register(c)) /\ \A c \in Conn, t \in Thread : ~RemoveClient(c, t)
  BY <1>1, <1>4, OthersCountSame
<1> QED BY <1>2, <1>3, <1>4

-----------------------------------------------------------------------------
(* The latest status is kept.                                              *)

\* Readers that are all listed after a step were all listed before it.
LEMMA ListedBefore ==
  ASSUME Typed, [Next]_vars, AllReadersListed'
  PROVE  AllReadersListed
<1> SUFFICES ASSUME NEW k \in ConsumerConn
             PROVE  ~disposing[k] /\ (pc[k] \notin early => k \in rows)
  BY DEF AllReadersListed, early
<1>1. k \in Conn /\ ~disposing'[k] /\ (pc'[k] \notin early => k \in rows')
  BY Names DEF AllReadersListed, early
<1>2. ~disposing[k]
  BY <1>1, Forwards
<1>3. ASSUME pc[k] \notin early
      PROVE  k \in rows
  <2>1. k \in rows'
    BY <1>1, <1>3, Forwards
  <2> QED BY <1>3, <2>1, RowsGrow DEF early
<1> QED BY <1>2, <1>3

\* What the handler does while no consumer is torn down: nothing, a command, a status.
LEMMA HandlerCases ==
  ASSUME Typed, TornDown, AllReadersListed, OnMsgFromClient
  PROVE  \/ UNCHANGED <<cache, posted, LatestRPI, rows>>
         \/ UNCHANGED <<LatestRPI, rows>> /\ \E msg : C!AddMessage(msg, Rpi)
         \/ C!AddMessage(StatusText(LatestRPI'), Consumer)
<1> DEFINE call == Head(uiQueue)
<1>1. uiQueue # << >> /\ call \in Calls /\ call \in Call
  BY RowsServed, HandlerTypes DEF OnMsgFromClient
<1>2. /\ cType(call.conn) = Rpi => OnRpiMsg(call.msg)
      /\ cType(call.conn) = Consumer =>
           OnConsumerMsg(call.conn, call.msg) /\ call.conn \in ConsumerConn
  BY <1>1, HandlerTypes
<1> HIDE DEF call
<1>3. UNCHANGED ClientMsgCache => UNCHANGED <<cache, posted>>
  BY DEF ClientMsgCache
<1>4. CASE cType(call.conn) = Rpi
  <2>1. OnRpiMsg(call.msg)
    BY <1>2, <1>4
  <2>2. CASE call.msg = << >>
    <3>1. <<"ClientSetup">> # << >> /\ <<"ClientKilled">> # << >>
      OBVIOUS
    <3>2. Learned(call.msg) = LatestRPI
      BY <2>2, <3>1 DEF Learned
    <3> QED BY <1>3, <2>1, <2>2, <3>2 DEF OnRpiMsg
  <2>3. CASE call.msg # << >>
    BY <2>1, <2>3 DEF OnRpiMsg, SendToClients
  <2> QED BY <2>2, <2>3
<1>5. CASE cType(call.conn) = Consumer
  <2>1. OnConsumerMsg(call.conn, call.msg) /\ call.conn \in ConsumerConn
    BY <1>2, <1>5
  <2>2. ~Contains(call.msg, "ClientKilled")
    <3>1. ASSUME Contains(call.msg, "ClientKilled")
          PROVE  call.msg = <<"ClientKilled">>
      <4>1. call.msg \notin RpiText /\ call.msg \notin ConsumerText
        BY <3>1, TextAssumption DEF Contains
      <4>2. call.msg # << >> /\ call.msg # <<"ClientSetup">>
        BY <3>1 DEF Contains
      <4> QED BY <1>1, <4>1, <4>2 DEF Call
    <3>2. call.msg # <<"ClientKilled">>
      BY <1>1, <2>1 DEF TornDown, AllReadersListed
    <3> QED BY <3>1, <3>2
  <2> QED BY <1>3, <2>1, <2>2 DEF OnConsumerMsg, SendToClients
<1> QED BY <1>4, <1>5 DEF cType

\* A status is created for at least the consumers listed.
LEMMA FreshStatus ==
  ASSUME Typed, TornDown, CountedAtFirst, OnMsgFromClient, AllReadersListed', rows' # {},
         C!AddMessage(StatusText(LatestRPI'), Consumer)
  PROVE  \E i \in 1 .. Len(posted') : KeptForReaders(i)'
<1> DEFINE new == C!NewMessage(StatusText(LatestRPI'), Consumer)
<1> PICK top \in Int : top = Len(posted) + 1
  BY PostedStays DEF Next
<1>1. AllReadersListed
  BY ListedBefore DEF Next
<1>2. rows' \subseteq Regs(Consumer)
  <2>1. ASSUME NEW c \in rows'
        PROVE  c \in Regs(Consumer)
    <3>1. c \in ConsumerConn
      BY TypesKept DEF TypeOK, Next
    <3>2. pc[c] \notin {"none", "add"}
      BY RowsGrow DEF TornDown, Next
    <3> QED BY <1>1, <3>1, <3>2, Names DEF AllReadersListed, Regs, Registered
  <2> QED BY <2>1
<1>3. numClients[Consumer] = Cardinality(Regs(Consumer))
  BY <1>1, Names DEF CountedAtFirst, AllReadersListed, Regs, cType, Conn
<1>4. /\ Cardinality(rows') \in Nat /\ Cardinality(rows') > 0
      /\ numClients[Consumer] \in Nat /\ Cardinality(rows') <= numClients[Consumer]
  <2>1. IsFiniteSet(rows') /\ Cardinality(rows') <= Cardinality(Regs(Consumer))
    BY <1>2, RegsFinite, FS_Subset
  <2>2. Cardinality(rows') # 0 /\ Cardinality(rows') \in Nat
    BY <2>1, FS_EmptySet, FS_CardinalityType
  <2> QED BY <1>3, <2>1, <2>2, RegsFinite
<1>5. /\ cache' = cache \union {new}
      /\ posted' = Append(posted, [msg |-> StatusText(LatestRPI'), target |-> Consumer])
  <2>1. numClients[Consumer] > 0
    BY <1>4
  <2> QED BY <2>1 DEF C!AddMessage, C!AfterAdd, C!PostedAfterAdd, C!Accepted
<1>6. new.id = top /\ new.ThreadNums = {} /\ new.NumClientsAtCreation = numClients[Consumer]
  BY DEF C!NewMessage
<1>7. Len(posted) \in Nat /\ Len(posted') = top
      /\ posted'[top] = [msg |-> StatusText(LatestRPI'), target |-> Consumer]
  <2>1. posted \in Seq([msg : {StatusText(info) : info \in Status} \union ConsumerText,
                        target : C!ClientType])
    BY DEF Typed, TypeOK, C!TypeOK
  <2> QED BY <1>5, <2>1
<1>8. \A m \in cache : m.id \in 1 .. Len(posted)
  BY DEF Typed, C!IndInv, C!Identified
<1> HIDE DEF new
<1>9. \A m \in cache' : m.id = top => m = new
  BY <1>5, <1>7, <1>8
<1>10. /\ \A j \in top + 1 .. Len(posted') : FALSE
       /\ top \in 1 .. Len(posted')
  BY <1>7
<1>11. new \in cache'
  BY <1>5
<1>12. KeptForReaders(top)'
  <2>1. \A m \in cache' : m.id = top => m.ThreadNums \subseteq {CID'[c] : c \in rows'}
    BY <1>6, <1>9
  <2>2. \A m \in cache' : m.id = top => Cardinality(rows') <= m.NumClientsAtCreation
    BY <1>4, <1>6, <1>9
  <2> QED BY <1>6, <1>7, <1>10, <1>11, <2>1, <2>2 DEF KeptForReaders
<1> QED BY <1>10, <1>12

\* Whoever reads is listed or reads for the RPI.
LEMMA ReadersListed ==
  ASSUME Typed, AllReadersListed, NEW c \in Conn, "send" \in timers[c],
         TypeOf(CID[c]) = Consumer
  PROVE  c \in rows
<1>1. pc[c] \notin early
  BY DEF Typed, SetupFirst, early
<1>2. c \notin RpiConn
  BY Names DEF Typed, IdsCount, TypeOf, RpiID
<1> QED BY <1>1, <1>2 DEF AllReadersListed, early, Conn

\* As many marks as clients at its creation are marks of all that are listed.
LEMMA AllMarked ==
  ASSUME Typed, NEW i \in 1 .. Len(posted), KeptForReaders(i), NEW m \in cache, m.id = i,
         C!IsMsgConsumed(m), NEW c \in rows
  PROVE  i \in received[CID[c]]
<1> DEFINE ids == {CID[k] : k \in rows}
           f == [k \in rows |-> CID[k]]
<1>1. /\ m.ThreadNums \subseteq ids /\ Cardinality(rows) <= m.NumClientsAtCreation
      /\ m.NumClientsAtCreation \in Nat
  BY DEF KeptForReaders, Typed, TypeOK, C!TypeOK, C!CacheMessage
<1>2. Cardinality(m.ThreadNums) >= m.NumClientsAtCreation
  BY DEF C!IsMsgConsumed, C!Cardinality, Cardinality
<1>3. rows \in SUBSET Conn /\ CID \in [Conn -> 0 .. Cardinality(ConsumerConn)]
  BY Names DEF Typed, TypeOK
<1>4. IsFiniteSet(rows) /\ Cardinality(rows) \in Nat
  BY <1>3, Finite, FS_Subset, FS_CardinalityType
<1>5. f \in Surjection(rows, ids)
  BY DEF Surjection
<1>6. IsFiniteSet(ids) /\ Cardinality(ids) <= Cardinality(rows)
  <2> HIDE DEF f, ids
  <2> QED BY <1>4, <1>5, FS_Surjection
<1>7. CID[c] \in ids /\ CID[c] \in 0 .. Cardinality(ConsumerConn)
  BY <1>3
<1> HIDE DEF ids
<1>8. /\ Cardinality(m.ThreadNums) <= Cardinality(ids) /\ Cardinality(m.ThreadNums) \in Nat
      /\ Cardinality(ids) \in Nat
      /\ Cardinality(ids) = Cardinality(m.ThreadNums) => ids = m.ThreadNums
  BY <1>1, <1>6, FS_Subset, FS_CardinalityType
<1>9. Cardinality(ids) = Cardinality(m.ThreadNums)
  BY <1>1, <1>4, <1>6, <1>8, <1>2
<1>10. CID[c] \in m.ThreadNums
  BY <1>7, <1>8, <1>9
<1> QED BY <1>7, <1>10 DEF Typed, C!IndInv, C!MarksAreHistory

\* A read keeps the latest status for those listed that have not read it.
LEMMA KeptByRead ==
  ASSUME Typed, AllReadersListed, NEW i \in 1 .. Len(posted), KeptForReaders(i),
         NEW r \in Conn, "send" \in timers[r], C!Read(CID[r]),
         UNCHANGED <<CID, LatestRPI, rows>>
  PROVE  KeptForReaders(i)'
<1> DEFINE id == CID[r]
           next == C!Oldest(C!Unread(id))
           marked == [next EXCEPT !.ThreadNums = @ \union {id}]
<1>1. /\ cache' = C!AfterRead(id) /\ posted' = posted
      /\ received' = [received EXCEPT ![id] = @ \union C!ReadResult(id)]
      /\ received \in [0 .. Cardinality(ConsumerConn) -> SUBSET Nat]
      /\ CID \in [Conn -> 0 .. Cardinality(ConsumerConn)]
      /\ rows \in SUBSET Conn
      /\ cache \subseteq C!CacheMessage
  BY Names DEF C!Read, Typed, TypeOK, C!TypeOK
<1>2. \A k \in rows : received[CID[k]] \subseteq received'[CID[k]]
  BY <1>1
<1>3. CASE C!Unread(id) = {}
  <2>1. cache' = cache \ {m \in C!Passed(id) : C!IsMsgConsumed(m)}
    BY <1>1, <1>3 DEF C!AfterRead
  <2>2. ASSUME NEW c \in rows, i \notin received'[CID[c]]
        PROVE  \E m \in cache' : m.id = i
    <3>1. PICK m \in cache : m.id = i
      BY <1>2, <2>2 DEF KeptForReaders
    <3>2. ~C!IsMsgConsumed(m)
      BY <1>2, <2>2, <3>1, AllMarked
    <3> QED BY <2>1, <3>1, <3>2
  <2> QED BY <1>1, <2>1, <2>2 DEF KeptForReaders
<1>4. CASE C!Unread(id) # {}
  <2>1. cache' = ((cache \ {m \in C!Passed(id) : C!IsMsgConsumed(m)}) \ {next}) \union {marked}
    BY <1>1, <1>4 DEF C!AfterRead
  <2>2. next \in cache /\ next.targetClientType = TypeOf(id)
    BY <1>1, <1>4, ReadFinds DEF Typed
  <2> HIDE DEF next
  <2>3. /\ marked.id = next.id /\ marked.NumClientsAtCreation = next.NumClientsAtCreation
        /\ marked.ThreadNums = next.ThreadNums \union {id}
    BY <1>1, <2>2 DEF C!CacheMessage
  <2> HIDE DEF marked
  <2>4. ASSUME NEW c \in rows, i \notin received'[CID[c]]
        PROVE  \E m \in cache' : m.id = i
    <3>1. PICK m \in cache : m.id = i
      BY <1>2, <2>4 DEF KeptForReaders
    <3>2. ~C!IsMsgConsumed(m)
      BY <1>2, <2>4, <3>1, AllMarked
    <3> QED BY <2>1, <2>3, <3>1, <3>2
  <2>5. ASSUME next.id = i
        PROVE  id \in {CID[c] : c \in rows}
    <3>1. posted[i].target = Consumer
      BY DEF KeptForReaders
    <3>2. next.targetClientType = Consumer
      BY <2>2, <2>5, <3>1 DEF Typed, C!IndInv, C!Identified
    <3> QED BY <2>2, <3>2, ReadersListed
  <2>6. ASSUME NEW m \in cache', m.id = i
        PROVE  /\ m.ThreadNums \subseteq {CID[c] : c \in rows}
               /\ Cardinality(rows) <= m.NumClientsAtCreation
    <3>1. CASE m \in cache
      BY <2>6, <3>1 DEF KeptForReaders
    <3>2. CASE m = marked
      BY <2>2, <2>3, <2>5, <2>6, <3>2 DEF KeptForReaders
    <3> QED BY <2>1, <3>1, <3>2
  <2> QED BY <1>1, <2>4, <2>6 DEF KeptForReaders
<1> QED BY <1>3, <1>4

\* A command does not come after the latest status as a message to consumers.
LEMMA KeptByCommand ==
  ASSUME Typed, NEW i \in 1 .. Len(posted), KeptForReaders(i), NEW msg,
         C!AddMessage(msg, Rpi), UNCHANGED <<CID, LatestRPI, rows>>
  PROVE  KeptForReaders(i)'
<1> DEFINE new == C!NewMessage(msg, Rpi)
<1>1. received' = received
  BY DEF C!AddMessage
<1>2. CASE ~C!Accepted(Rpi)
  BY <1>1, <1>2 DEF C!AddMessage, C!AfterAdd, C!PostedAfterAdd, KeptForReaders
<1>3. CASE C!Accepted(Rpi)
  <2>1. /\ cache' = cache \union {new}
        /\ posted' = Append(posted, [msg |-> msg, target |-> Rpi])
    BY <1>3 DEF C!AddMessage, C!AfterAdd, C!PostedAfterAdd
  <2>2. new.id = Len(posted) + 1
    BY DEF C!NewMessage
  <2> HIDE DEF new
  <2>3. /\ Len(posted) \in Nat /\ Len(posted') = Len(posted) + 1
        /\ posted'[Len(posted) + 1] = [msg |-> msg, target |-> Rpi]
        /\ \A j \in 1 .. Len(posted) : posted'[j] = posted[j]
    <3>1. posted \in Seq([msg : {StatusText(info) : info \in Status} \union ConsumerText,
                          target : C!ClientType])
      BY DEF Typed, TypeOK, C!TypeOK
    <3> QED BY <2>1, <3>1
  <2>4. ASSUME NEW j \in i + 1 .. Len(posted')
        PROVE  posted'[j].target # Consumer
    <3>1. j = Len(posted) + 1 \/ (j \in i + 1 .. Len(posted) /\ j \in 1 .. Len(posted))
      BY <2>3
    <3> QED BY <2>3, <3>1, Names DEF KeptForReaders
  <2>5. \A m \in cache' : m.id = i => m \in cache
    BY <2>1, <2>2, <2>3
  <2> QED BY <1>1, <2>1, <2>3, <2>4, <2>5 DEF KeptForReaders
<1> QED BY <1>2, <1>3

\* So is it by any other step: the numbers of those listed stay.
LEMMA RowIdsStay ==
  ASSUME Typed, TornDown, [Next]_vars
  PROVE  \A c \in rows : CID'[c] = CID[c]
<1> SUFFICES ASSUME NEW c \in rows PROVE CID'[c] = CID[c]
  OBVIOUS
<1>1. c \in Conn /\ pc[c] # "none"
  BY Names DEF Typed, TypeOK, TornDown
<1>2. ASSUME NEW a \in Conn, Accept(a)
      PROVE  CID'[c] = CID[c]
  BY <1>1, <1>2 DEF Accept, Typed, TypeOK
<1> QED BY <1>2, OnlyAcceptCounts DEF Typed

LEMMA LatestKeptKept ==
  ASSUME Typed, TornDown, CountedAtFirst, LatestKept, [Next]_vars
  PROVE  LatestKept'
<1> SUFFICES ASSUME AllReadersListed', rows' # {}
             PROVE  \E i \in 1 .. Len(posted') : KeptForReaders(i)'
  BY DEF LatestKept
<1>1. AllReadersListed
  BY ListedBefore
<1>2. ASSUME C!AddMessage(StatusText(LatestRPI'), Consumer), OnMsgFromClient
      PROVE  \E i \in 1 .. Len(posted') : KeptForReaders(i)'
  BY <1>2, FreshStatus
<1>3. ASSUME rows' = rows
      PROVE  \E i \in 1 .. Len(posted) : i \in 1 .. Len(posted') /\ KeptForReaders(i)
  BY <1>1, <1>3, PostedStays DEF LatestKept
<1>4. ASSUME UNCHANGED <<cache, posted, LatestRPI, rows>>, received' = received,
             NEW i \in 1 .. Len(posted), KeptForReaders(i)
      PROVE  KeptForReaders(i)'
  <2>1. {CID'[c] : c \in rows} = {CID[c] : c \in rows}
    BY RowIdsStay
  <2> QED BY <1>4, <2>1, RowIdsStay DEF KeptForReaders
<1>5. CASE OnMsgFromClient /\ got' = got /\ received' = received
  <2>1. CID' = CID
    BY <1>5 DEF OnMsgFromClient, connVars, idVars
  <2>2. CASE UNCHANGED <<cache, posted, LatestRPI, rows>>
    BY <1>3, <1>4, <1>5, <2>2
  <2>3. ASSUME UNCHANGED <<LatestRPI, rows>>, NEW msg, C!AddMessage(msg, Rpi)
        PROVE  \E i \in 1 .. Len(posted') : KeptForReaders(i)'
    BY <1>3, <2>1, <2>3, KeptByCommand
  <2> QED BY <1>1, <1>2, <1>5, <2>2, <2>3, HandlerCases
<1>6. ASSUME NEW r \in Conn, "send" \in timers[r], C!Read(CID[r]),
             UNCHANGED <<CID, LatestRPI, rows>>
      PROVE  \E i \in 1 .. Len(posted') : KeptForReaders(i)'
  BY <1>1, <1>3, <1>6, KeptByRead
<1>7. CASE UNCHANGED <<cache, posted, received, got, LatestRPI, rows>>
  BY <1>3, <1>4, <1>7
<1> QED BY <1>5, <1>6, <1>7, CacheUse

-----------------------------------------------------------------------------
(* The theorems.                                                           *)

LEMMA StatusInvInductive == ASSUME Typed, StatusInv, [Next]_vars PROVE StatusInv'
  BY OwnIdsKept, OwnMessagesKept, TornDownKept, CountedKept, LatestKeptKept DEF StatusInv

LEMMA InitStatusInv == Init => StatusInv
<1> SUFFICES ASSUME Init PROVE StatusInv
  OBVIOUS
<1> USE DEF Init
<1>1. Calls = {}
  BY DEF Calls
<1>2. \A id \in 0 .. Cardinality(ConsumerConn) : received[id] = {}
  BY DEF C!Init
<1>3. OwnIds
  <2>1. \A id \in 1 .. Cardinality(ConsumerConn) : id \in 0 .. Cardinality(ConsumerConn)
    BY Finite
  <2> QED BY <1>2, <2>1, Names DEF OwnIds
<1>4. OwnMessages /\ TornDown
  BY <1>1, <1>2 DEF OwnMessages, TornDown
<1>5. CountedAtFirst
  <2>1. \A ct \in ClientType : numClients[ct] = 0
    BY Names DEF C!Init
  <2>2. ASSUME NEW ct \in ClientType
        PROVE  Cardinality({c \in Conn : cType(c) = ct /\ Registered(c)}) = 0
    <3>1. {c \in Conn : cType(c) = ct /\ Registered(c)} = {}
      BY DEF Registered
    <3> QED BY <3>1, FS_EmptySet
  <2> QED BY <2>1, <2>2 DEF CountedAtFirst
<1>6. LatestKept
  BY DEF LatestKept
<1> QED BY <1>3, <1>4, <1>5, <1>6 DEF StatusInv

\* What the consumers' knowledge of the RPI rests on holds in every state: whose ids are
\* whose, how the clients are counted, and that the latest status is kept for its readers.
THEOREM StatusInvHolds == Spec => []StatusInv
<1>1. Init => StatusInv
  BY InitStatusInv
<1>2. IndInv /\ StatusInv /\ [Next]_vars => StatusInv'
  <2>1. IndInv => Typed
    BY DEF IndInv, Typed
  <2> QED BY <2>1, StatusInvInductive
<1> QED BY <1>1, <1>2, IndInvHolds, PTL DEF Spec

LEMMA CurrentWhenCaughtUp ==
  ASSUME IndInv, StatusInv
  PROVE  CaughtUpMeansCurrent
<1> SUFFICES ASSUME \A k \in ConsumerConn : ~disposing[k] /\ (Registered(k) => k \in rows),
                    NEW c \in ConsumerConn, CaughtUp(c)
             PROVE  got[c] # {} /\ posted[Latest(got[c])].msg = StatusText(LatestRPI)
  BY DEF CaughtUpMeansCurrent
<1> USE DEF IndInv, StatusInv
<1>1. AllReadersListed
  BY DEF AllReadersListed, Registered
<1>2. c \in rows /\ C!Unread(CID[c]) = {}
  BY DEF CaughtUp
<1>3. PICK i \in 1 .. Len(posted) : KeptForReaders(i)
  BY <1>1, <1>2 DEF LatestKept
<1>4. /\ CID[c] \in 1 .. lastClientID /\ got[c] = received[CID[c]]
      /\ CID[c] \in 0 .. Cardinality(ConsumerConn)
  BY <1>2, Names DEF OwnIds, TornDown, TypeOK
<1>5. TypeOf(CID[c]) = Consumer
  BY <1>4 DEF TypeOf, RpiID, TypeOK
<1>6. i \in got[c]
  <2>1. ASSUME NEW m \in cache, m.id = i
        PROVE  i \in received[CID[c]]
    <3>1. m.targetClientType = Consumer
      BY <1>3, <2>1 DEF KeptForReaders, C!IndInv, C!Identified
    <3>2. CID[c] \in m.ThreadNums
      BY <1>2, <1>5, <3>1, Names DEF C!Unread
    <3> QED BY <1>4, <2>1, <3>2 DEF C!IndInv, C!MarksAreHistory
  <2> QED BY <1>2, <1>3, <1>4, <2>1 DEF KeptForReaders
<1>7. ASSUME NEW j \in got[c]
      PROVE  j \in Int /\ j <= i
  <2>1. j \in 1 .. Len(posted) /\ posted[j].target = Consumer
    BY <1>4, <1>5 DEF C!IndInv, C!Identified, OwnMessages
  <2>2. Len(posted) \in Nat
    BY DEF C!IndInv, C!TypeOK
  <2> QED BY <1>3, <2>1, <2>2 DEF KeptForReaders
<1>8. Latest(got[c]) = i
  <2>1. /\ Latest(got[c]) \in got[c]
        /\ \A j \in got[c] : j <= Latest(got[c])
    BY <1>6, <1>7 DEF Latest
  <2> QED BY <1>6, <1>7, <2>1
<1> QED BY <1>3, <1>6, <1>8 DEF KeptForReaders

\* A consumer that has nothing left to read knows the latest state of the RPI, however
\* many there are and whatever they read first, while none is torn down or on its way in.
THEOREM CaughtUpMeansCurrentHolds == Spec => []CaughtUpMeansCurrent
<1>1. IndInv /\ StatusInv => CaughtUpMeansCurrent
  BY CurrentWhenCaughtUp
<1> QED BY <1>1, IndInvHolds, StatusInvHolds, PTL
=============================================================================
