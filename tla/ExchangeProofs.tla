--------------------------- MODULE ExchangeProofs --------------------------
(***************************************************************************)
(* Proofs about ExchangeServer: for any connections, texts and bounds, the *)
(* service uses its cache as MsgCache allows, so that what is proved of    *)
(* the cache holds in the service; a command is handed to one connection   *)
(* of the RPI; clients are never overcounted; and no consumer that is gone *)
(* stays listed.                                                           *)
(***************************************************************************)
EXTENDS ExchangeServer, FiniteSetTheorems, TLAPS

P == INSTANCE MsgCacheProofs WITH
       Message     <- {StatusText(info) : info \in Status} \union ConsumerText,
       ClientID    <- 0 .. Cardinality(ConsumerConn),
       MaxClients  <- Cardinality(Conn) * Cardinality(Thread),
       MaxMessages <- MaxPosted

-----------------------------------------------------------------------------
(* Connections are finitely many.                                          *)

LEMMA Finite ==
  /\ IsFiniteSet(Conn) /\ Cardinality(Conn) \in Nat
  /\ IsFiniteSet(ConsumerConn) /\ Cardinality(ConsumerConn) \in Nat
  /\ IsFiniteSet(Thread) /\ Cardinality(Thread) \in Nat
<1>1. IsFiniteSet(Conn) /\ ConsumerConn \in SUBSET Conn
  BY ConnAssumption DEF Conn
<1>2. IsFiniteSet(ConsumerConn)
  BY <1>1, FS_Subset
<1>3. IsFiniteSet(Thread)
  <2>1. IsFiniteSet({} \union {"alive"})
    BY FS_EmptySet, FS_AddElement
  <2>2. IsFiniteSet(({} \union {"alive"}) \union {"send"})
    BY <2>1, FS_AddElement
  <2>3. IsFiniteSet((({} \union {"alive"}) \union {"send"}) \union {"escape"})
    BY <2>2, FS_AddElement
  <2>4. IsFiniteSet(((({} \union {"alive"}) \union {"send"}) \union {"escape"}) \union {"conn"})
    BY <2>3, FS_AddElement
  <2>5. Thread = ((({} \union {"alive"}) \union {"send"}) \union {"escape"}) \union {"conn"}
    BY DEF Thread, Timer
  <2> QED BY <2>4, <2>5
<1> QED BY <1>1, <1>2, <1>3, FS_CardinalityType

\* A new member makes a finite set larger by one, taking a member away smaller.
LEMMA CountMembers ==
  ASSUME NEW S, NEW A \in SUBSET S, NEW x \in S, IsFiniteSet(S)
  PROVE  /\ Cardinality(A) \in Nat /\ Cardinality(A \union {x}) \in Nat
         /\ Cardinality(A \ {x}) \in Nat
         /\ x \notin A => Cardinality(A \union {x}) = Cardinality(A) + 1
         /\ x \in A => Cardinality(A \ {x}) = Cardinality(A) - 1
         /\ Cardinality(A) <= Cardinality(S) /\ Cardinality(A \union {x}) <= Cardinality(S)
<1>1. IsFiniteSet(A) /\ Cardinality(A) <= Cardinality(S)
  BY FS_Subset
<1>2. A \union {x} \in SUBSET S /\ A \ {x} \in SUBSET S
  OBVIOUS
<1>3. /\ IsFiniteSet(A \union {x}) /\ Cardinality(A \union {x}) <= Cardinality(S)
      /\ IsFiniteSet(A \ {x})
  BY <1>2, FS_Subset
<1> QED BY <1>1, <1>3, FS_CardinalityType, FS_AddElement, FS_RemoveElement

-----------------------------------------------------------------------------
(* The cache.  P and C are two names of the same module.                   *)

LEMMA CacheAssumptions == P!ClientIDAssumption /\ P!BoundAssumption
<1>1. MaxPosted \in Nat
  BY Finite, TextAssumption DEF MaxPosted
<1> QED BY <1>1, Finite DEF P!ClientIDAssumption, P!BoundAssumption, P!RpiID

LEMMA SameNames ==
  /\ C!Rpi = P!Rpi /\ C!Consumer = P!Consumer /\ C!RpiID = P!RpiID
  /\ C!ClientType = P!ClientType /\ C!CacheMessage = P!CacheMessage
  /\ \A id : C!TypeOf(id) = P!TypeOf(id)
  BY DEF C!TypeOf, P!TypeOf, C!RpiID, P!RpiID, C!Consumer, P!Consumer, C!Rpi, P!Rpi,
         C!CacheMessage, P!CacheMessage, C!ClientType, P!ClientType

LEMMA SameInv == C!IndInv <=> P!IndInv
<1>1. C!TypeOK <=> P!TypeOK
  BY SameNames DEF C!TypeOK, P!TypeOK
<1>2. C!Identified <=> P!Identified
  BY DEF C!Identified, P!Identified
<1>3. C!MarksAreHistory <=> P!MarksAreHistory
  BY SameNames DEF C!MarksAreHistory, P!MarksAreHistory
<1>4. C!RpiMessageKept <=> P!RpiMessageKept
  BY SameNames DEF C!RpiMessageKept, P!RpiMessageKept
<1> QED BY <1>1, <1>2, <1>3, <1>4 DEF C!IndInv, P!IndInv

LEMMA SameRead == \A id : C!Read(id) => P!Read(id)
<1> SUFFICES ASSUME NEW id PROVE C!Read(id) => P!Read(id)
  OBVIOUS
<1>1. C!Unread(id) = P!Unread(id) /\ \A S : C!Oldest(S) = P!Oldest(S)
  BY SameNames DEF C!Unread, P!Unread, C!Oldest, P!Oldest
<1>2. C!Passed(id) = P!Passed(id)
  BY <1>1, SameNames DEF C!Passed, P!Passed
<1>3. \A m : C!IsMsgConsumed(m) <=> P!IsMsgConsumed(m)
  BY DEF C!IsMsgConsumed, P!IsMsgConsumed, C!Cardinality, P!Cardinality
<1>4. C!AfterRead(id) = P!AfterRead(id)
  BY <1>1, <1>2, <1>3 DEF C!AfterRead, P!AfterRead
<1>5. C!ReadResult(id) = P!ReadResult(id)
  BY <1>1 DEF C!ReadResult, P!ReadResult
<1> QED BY <1>4, <1>5 DEF C!Read, P!Read

LEMMA SameStep ==
  ASSUME [C!Next]_(C!vars)
  PROVE  [P!Next]_(P!vars)
<1>1. ASSUME NEW msg, NEW ct, C!AddMessage(msg, ct)
      PROVE  P!AddMessage(msg, ct)
  BY <1>1 DEF C!AddMessage, P!AddMessage, C!AfterAdd, P!AfterAdd, C!PostedAfterAdd,
              P!PostedAfterAdd, C!Accepted, P!Accepted, C!NewMessage, P!NewMessage
<1>2. ASSUME NEW m \in cache, C!IAmOld(m)
      PROVE  P!IAmOld(m)
  BY <1>2 DEF C!IAmOld, P!IAmOld
<1>3. \A ct : C!ClientAdded(ct) => P!ClientAdded(ct)
  BY DEF C!ClientAdded, P!ClientAdded
<1>4. \A ct : C!ClientRemoved(ct) => P!ClientRemoved(ct)
  BY DEF C!ClientRemoved, P!ClientRemoved
<1>5. UNCHANGED C!vars => UNCHANGED P!vars
  BY DEF C!vars, P!vars
<1> QED BY <1>1, <1>2, <1>3, <1>4, <1>5, SameRead, SameNames DEF C!Next, P!Next

\* The cache keeps its invariant.
LEMMA CacheInductive ==
  ASSUME C!IndInv, [C!Next]_(C!vars)
  PROVE  C!IndInv'
<1>1. P!IndInv'
  BY SameInv, SameStep, CacheAssumptions, P!IndInvInductive
<1>2. (C!IndInv)' <=> (P!IndInv)'
  BY SameInv, PTL
<1> QED BY <1>1, <1>2

\* What a Read under the RPI's id hands out was not handed out before.
LEMMA ReadIsNew ==
  ASSUME C!IndInv, NEW id \in 0 .. Cardinality(ConsumerConn)
  PROVE  C!ReadResult(id) \subseteq Nat /\ C!ReadResult(id) \intersect received[id] = {}
<1> USE DEF C!IndInv
<1>1. CASE C!Unread(id) = {}
  BY <1>1 DEF C!ReadResult
<1>2. CASE C!Unread(id) # {}
  <2> DEFINE m == C!Oldest(C!Unread(id))
  <2>1. m \in C!Unread(id)
    <3>1. P!TypeOK
      BY SameInv DEF P!IndInv
    <3>2. C!Unread(id) = P!Unread(id) /\ \A S : C!Oldest(S) = P!Oldest(S)
      BY SameNames DEF C!Unread, P!Unread, C!Oldest, P!Oldest
    <3>3. P!Unread(id) # {} /\ P!Unread(id) \in SUBSET cache
      BY <1>2, <3>2 DEF P!Unread
    <3>4. P!Oldest(P!Unread(id)) \in P!Unread(id)
      BY <3>1, <3>3, CacheAssumptions, P!OldestExists
    <3> QED BY <3>2, <3>4
  <2> HIDE DEF m
  <2>2. m \in cache /\ m.targetClientType = C!TypeOf(id) /\ id \notin m.ThreadNums
    BY <2>1 DEF C!Unread
  <2>3. m.id \in Nat
    BY <2>2 DEF C!TypeOK, C!CacheMessage
  <2>4. m.id \notin received[id]
    BY <2>2, <2>3 DEF C!MarksAreHistory
  <2> QED BY <1>2, <2>3, <2>4 DEF C!ReadResult, m
<1> QED BY <1>1, <1>2

-----------------------------------------------------------------------------
(* Types.                                                                  *)

Call == [conn : Conn, by : Thread,
         msg : {<<"ClientSetup">>, <<"ClientKilled">>} \union RpiText \union ConsumerText
                 \union {<< >>}]

\* Types and kinds of texts are what a step preserves together: what the handler
\* makes of a text depends on the kind of its connection.
Typed == TypeOK /\ C!IndInv /\ IdsCount /\ OwnTexts /\ SetupFirst

\* A queue with one more call, or without its first.
LEMMA QueueGrows ==
  ASSUME uiQueue \in Seq(Call), NEW call \in Call, uiQueue' = Append(uiQueue, call)
  PROVE  uiQueue' \in Seq(Call) /\ Calls' = Calls \union {call}
<1>1. Len(uiQueue) \in Nat /\ Len(uiQueue') = Len(uiQueue) + 1
  OBVIOUS
<1>2. /\ \A i \in 1 .. Len(uiQueue) : uiQueue'[i] = uiQueue[i]
      /\ uiQueue'[Len(uiQueue) + 1] = call
  OBVIOUS
<1>3. \A i \in 1 .. Len(uiQueue') : i \in 1 .. Len(uiQueue) \/ i = Len(uiQueue) + 1
  BY <1>1
<1>4. Len(uiQueue) + 1 \in 1 .. Len(uiQueue') /\ 1 .. Len(uiQueue) \subseteq 1 .. Len(uiQueue')
  BY <1>1
<1> QED BY <1>2, <1>3, <1>4 DEF Calls

LEMMA QueueServed ==
  ASSUME uiQueue \in Seq(Call), uiQueue # << >>, uiQueue' = Tail(uiQueue)
  PROVE  /\ uiQueue' \in Seq(Call) /\ Head(uiQueue) \in Call
         /\ Calls = Calls' \union {Head(uiQueue)}
<1>1. Len(uiQueue) \in Nat /\ Len(uiQueue) > 0 /\ Len(uiQueue') = Len(uiQueue) - 1
  OBVIOUS
<1>2. /\ \A i \in 1 .. Len(uiQueue') : uiQueue'[i] = uiQueue[i + 1]
      /\ Head(uiQueue) = uiQueue[1]
  OBVIOUS
<1>3. \A i \in 1 .. Len(uiQueue) : i = 1 \/ i - 1 \in 1 .. Len(uiQueue')
  BY <1>1
<1>4. ASSUME NEW i \in 1 .. Len(uiQueue), i # 1
      PROVE  uiQueue[i] \in Calls'
  <2>1. i - 1 \in 1 .. Len(uiQueue') /\ (i - 1) + 1 = i
    BY <1>3, <1>4
  <2>2. uiQueue'[i - 1] = uiQueue[i]
    BY <1>2, <2>1
  <2> QED BY <2>1, <2>2 DEF Calls
<1>5. \A i \in 1 .. Len(uiQueue') : i + 1 \in 1 .. Len(uiQueue)
  BY <1>1
<1>6. 1 \in 1 .. Len(uiQueue)
  BY <1>1
<1>7. Calls' \subseteq Calls
  BY <1>2, <1>5 DEF Calls
<1>8. Head(uiQueue) \in Calls
  BY <1>2, <1>6 DEF Calls
<1>9. Calls \subseteq Calls' \union {Head(uiQueue)}
  BY <1>2, <1>4 DEF Calls
<1>10. Head(uiQueue) \in Call /\ uiQueue' \in Seq(Call)
  BY <1>1, <1>2
<1> QED BY <1>7, <1>8, <1>9, <1>10

LEMMA CallsTyped == ASSUME TypeOK, NEW call \in Calls PROVE call \in Call
<1>1. uiQueue \in Seq(Call)
  BY DEF TypeOK, Call
<1> QED BY <1>1 DEF Calls

\* What the handler learns is a status, what it forwards is a text of a consumer.
LEMMA HandlerTypes ==
  ASSUME Typed, uiQueue # << >>, OnMsgFromClient
  PROVE  /\ Head(uiQueue) \in Call
         /\ cType(Head(uiQueue).conn) = Rpi =>
              OnRpiMsg(Head(uiQueue).msg) /\ LatestRPI' \in Status
         /\ cType(Head(uiQueue).conn) = Consumer =>
              /\ OnConsumerMsg(Head(uiQueue).conn, Head(uiQueue).msg)
              /\ Head(uiQueue).conn \in ConsumerConn
              /\ \A key \in {"StartCar", "Debug"} :
                   Contains(Head(uiQueue).msg, key) => Head(uiQueue).msg \in ConsumerText
<1> DEFINE call == Head(uiQueue)
<1>1. uiQueue \in Seq(Call)
  BY DEF Typed, TypeOK, Call
<1>2. call \in Call /\ uiQueue[1] = call /\ 1 \in 1 .. Len(uiQueue)
  BY <1>1
<1>3. call.msg \in {<<"ClientSetup">>, <<"ClientKilled">>, << >>} \union TextFrom(call.conn)
  BY <1>2 DEF Typed, OwnTexts, Calls
<1> HIDE DEF call
<1>4. IF cType(call.conn) = Consumer THEN OnConsumerMsg(call.conn, call.msg)
      ELSE OnRpiMsg(call.msg)
  BY DEF OnMsgFromClient, call
<1>5. Rpi # Consumer
  BY DEF Rpi, Consumer
<1>6. CASE cType(call.conn) = Rpi
  <2>1. call.msg \in {<<"ClientSetup">>, <<"ClientKilled">>, << >>} \union RpiText
    BY <1>3, <1>6 DEF TextFrom
  <2>2. OnRpiMsg(call.msg)
    BY <1>4, <1>5, <1>6
  <2>3. Learned(call.msg) \in Status
    <3>1. LatestRPI \in Status
      BY DEF Typed, TypeOK
    <3>2. CASE call.msg = <<"ClientSetup">>
      <4>1. <<"ClientSetup">> # <<"ClientKilled">> /\ <<"ClientSetup">> # << >>
        OBVIOUS
      <4>2. <<"ClientSetup">> \notin RpiText
        BY TextAssumption
      <4> QED BY <3>1, <3>2, <4>1, <4>2 DEF Learned, Status
    <3>3. CASE call.msg = <<"ClientKilled">>
      <4>1. <<"ClientSetup">> # <<"ClientKilled">> /\ <<"ClientKilled">> # << >>
        OBVIOUS
      <4>2. <<"ClientKilled">> \notin RpiText
        BY TextAssumption
      <4> QED BY <3>1, <3>3, <4>1, <4>2 DEF Learned, Status
    <3>4. CASE call.msg = << >>
      <4>1. <<"ClientSetup">> # << >> /\ <<"ClientKilled">> # << >>
        OBVIOUS
      <4> QED BY <3>1, <3>4, <4>1 DEF Learned
    <3>5. CASE call.msg \in RpiText /\ call.msg # << >>
      <4>1. call.msg \in Seq({"ON", "OFF"}) /\ Head(call.msg) \in {"ON", "OFF"}
        BY <3>5, TextAssumption
      <4>2. call.msg # <<"ClientSetup">> /\ call.msg # <<"ClientKilled">>
        BY <4>1
      <4> QED BY <3>5, <4>1, <4>2 DEF Learned, Status
    <3> QED BY <2>1, <3>2, <3>3, <3>4, <3>5
  <2> QED BY <1>2, <1>5, <1>6, <2>2, <2>3 DEF OnRpiMsg, call
<1>7. CASE cType(call.conn) = Consumer
  <2>1. call.conn \in ConsumerConn /\ TextFrom(call.conn) = ConsumerText
    BY <1>2, <1>5, <1>7 DEF cType, TextFrom, Call, Conn
  <2>2. OnConsumerMsg(call.conn, call.msg)
    BY <1>4, <1>7
  <2>3. ASSUME NEW key \in {"StartCar", "Debug"}, Contains(call.msg, key)
        PROVE  call.msg \in ConsumerText
    <3>1. call.msg # << >>
      BY <2>3 DEF Contains
    <3>2. call.msg # <<"ClientSetup">> /\ call.msg # <<"ClientKilled">>
      BY <2>3 DEF Contains
    <3> QED BY <1>3, <2>1, <3>1, <3>2
  <2> QED BY <1>2, <1>5, <1>7, <2>1, <2>2, <2>3 DEF call
<1> QED BY <1>2, <1>6, <1>7 DEF cType, call

\* A step of the service is a step of the cache: it calls the cache's methods, each in
\* one step, with ids of readers and with texts.
LEMMA UsesCache ==
  ASSUME Typed, [Next]_vars
  PROVE  [C!Next]_(C!vars)
<1>1. /\ C!ClientType = {Consumer, Rpi}
      /\ \A c \in Conn : cType(c) \in C!ClientType
      /\ \A c \in Conn : CID[c] \in 0 .. Cardinality(ConsumerConn)
  BY DEF C!ClientType, C!Consumer, C!Rpi, Consumer, Rpi, cType, Typed, TypeOK
<1>2. ASSUME NEW ct \in {Consumer, Rpi}, C!ClientAdded(ct) \/ C!ClientRemoved(ct)
      PROVE  C!Next
  BY <1>1, <1>2 DEF C!Next
<1>3. ASSUME NEW c \in Conn, C!Read(CID[c])
      PROVE  C!Next
  BY <1>1, <1>3 DEF C!Next
<1>4. ASSUME NEW info \in Status, SendToClients(info)
      PROVE  C!Next
  BY <1>1, <1>4 DEF C!Next, SendToClients
<1>5. ASSUME OnMsgFromClient
      PROVE  C!Next \/ UNCHANGED ClientMsgCache
  <2>1. uiQueue # << >> /\ LatestRPI \in Status
    BY <1>5 DEF OnMsgFromClient, Typed, TypeOK
  <2> DEFINE call == Head(uiQueue)
  <2>2. /\ cType(call.conn) = Rpi => OnRpiMsg(call.msg) /\ LatestRPI' \in Status
        /\ cType(call.conn) = Consumer =>
             /\ OnConsumerMsg(call.conn, call.msg)
             /\ \A key \in {"StartCar", "Debug"} :
                  Contains(call.msg, key) => call.msg \in ConsumerText
    BY <1>5, <2>1, HandlerTypes
  <2> HIDE DEF call
  <2>3. CASE cType(call.conn) = Rpi
    BY <1>4, <2>2, <2>3 DEF OnRpiMsg
  <2>4. CASE cType(call.conn) = Consumer
    <3>1. C!AddMessage(call.msg, Rpi) /\ call.msg \in ConsumerText => C!Next
      BY <1>1 DEF C!Next
    <3> QED BY <1>4, <2>1, <2>2, <2>4, <3>1 DEF OnConsumerMsg
  <2> QED BY <2>3, <2>4 DEF cType
<1>6. UNCHANGED vars => UNCHANGED ClientMsgCache
  BY DEF vars, cacheVars
<1>7. ASSUME NEW c \in Conn, ThreadStep(c)
      PROVE  C!Next \/ UNCHANGED ClientMsgCache
  BY <1>1, <1>2, <1>7 DEF ThreadStep, Register, Announce, StartTimers, Forward,
     RestartKeepAlive, ReceiveNothing, cacheVars
<1>8. ASSUME NEW c \in Conn, NEW t \in Thread, ThisConnectionSucks(c, t)
      PROVE  C!Next \/ UNCHANGED ClientMsgCache
  BY <1>1, <1>2, <1>8 DEF ThisConnectionSucks, RemoveClient, Uncount, TellKilled,
     StopAndAbort, cacheVars
<1>9. ASSUME NEW c \in Conn, GrabTransmissionInCache(c) \/ SendSpoilsReceive(c)
      PROVE  C!Next
  BY <1>3, <1>9 DEF GrabTransmissionInCache, SendSpoilsReceive
<1>10. ASSUME NEW c \in Conn,
              \/ Accept(c) \/ (\E text \in TextFrom(c) : ReceiveWholeMsg(c, text))
              \/ ReceivePart(c) \/ KeepAliveTO(c) \/ recMsgTO(c)
              \/ \E how \in {"closed", "gone"} : PeerEnds(c, how)
       PROVE  UNCHANGED ClientMsgCache
  BY <1>10 DEF Accept, ReceiveWholeMsg, ReceivePart, KeepAliveTO, recMsgTO, PeerEnds, cacheVars
<1>11. Load => UNCHANGED ClientMsgCache
  BY DEF Load, cacheVars
<1>12. UNCHANGED ClientMsgCache => UNCHANGED C!vars
  BY DEF C!vars, ClientMsgCache
<1>13. ASSUME Next
       PROVE  C!Next \/ UNCHANGED ClientMsgCache
  BY <1>5, <1>7, <1>8, <1>9, <1>10, <1>11, <1>13 DEF Next
<1> QED BY <1>6, <1>12, <1>13

\* A text of its connection goes to the end of the queue, or nowhere.
LEMMA CallPosted ==
  ASSUME Typed, NEW c \in Conn, NEW t \in Thread,
         NEW msg \in {<<"ClientSetup">>, <<"ClientKilled">>, << >>} \union TextFrom(c),
         MsgFromClient(c, t, msg)
  PROVE  /\ uiQueue' \in Seq(Call)
         /\ Calls' = IF ready THEN Calls \union {[conn |-> c, by |-> t, msg |-> msg]} ELSE Calls
<1> DEFINE call == [conn |-> c, by |-> t, msg |-> msg]
<1>1. uiQueue \in Seq(Call)
  BY DEF Typed, TypeOK, Call
<1>2. call \in Call
  BY DEF Call, TextFrom
<1>3. CASE ready
  BY <1>1, <1>2, <1>3, QueueGrows DEF MsgFromClient
<1>4. CASE ~ready
  BY <1>1, <1>4 DEF MsgFromClient, Calls
<1> QED BY <1>3, <1>4

\* Thread t of connection c alone goes on to ThisConnectionSucks.
LEMMA Decided ==
  ASSUME Typed, NEW c \in Conn, NEW t \in Thread, Decide(c, t)
  PROVE  /\ sucks' \in [Conn -> [Thread -> {"no", "decided", "removed", "told"}]]
         /\ ~disposing[c] /\ sucks[c][t] = "no"
         /\ \A k \in Conn, u \in Thread :
              sucks'[k][u] = IF k = c /\ u = t THEN "decided" ELSE sucks[k][u]
<1>1. sucks \in [Conn -> [Thread -> {"no", "decided", "removed", "told"}]]
  BY DEF Typed, TypeOK
<1>2. sucks' = [sucks EXCEPT ![c][t] = "decided"] /\ ~disposing[c] /\ sucks[c][t] = "no"
  BY DEF Decide
<1> QED BY <1>1, <1>2

LEMMA Threads == "conn" \in Thread /\ "send" \in Thread /\ "alive" \in Thread /\ "escape" \in Thread
  BY DEF Thread, Timer

LEMMA TypesKept ==
  ASSUME Typed, [Next]_vars
  PROVE  TypeOK'
<1> USE DEF Typed
<1>1. C!TypeOK'
  BY UsesCache, CacheInductive DEF C!IndInv
<1>2. uiQueue \in Seq(Call)
  BY DEF TypeOK, Call
<1>3. (uiQueue' \in Seq(Call)) <=> uiQueue' \in Seq([conn : Conn, by : Thread,
        msg : {<<"ClientSetup">>, <<"ClientKilled">>} \union RpiText \union ConsumerText
                \union {<< >>}])
  BY DEF Call
<1>4. CASE UNCHANGED vars
  BY <1>1, <1>4 DEF vars, cacheVars, history, connVars, idVars, peerVars, uiVars, TypeOK
<1>5. CASE Load
  BY <1>1, <1>5 DEF Load, cacheVars, history, connVars, idVars, peerVars, TypeOK
<1>6. CASE OnMsgFromClient
  <2>1. uiQueue' \in Seq(Call)
    BY <1>2, <1>6, QueueServed DEF OnMsgFromClient
  <2>2. audience' \in Seq(SUBSET Conn)
    <3>1. audience \in Seq(SUBSET Conn)
      BY DEF TypeOK
    <3>2. {c \in Conn : Registered(c)} \in SUBSET Conn
      OBVIOUS
    <3>3. PICK S \in SUBSET Conn : audience' = audience \/ audience' = Append(audience, S)
      BY <1>6, <3>2 DEF OnMsgFromClient
    <3> QED BY <3>1, <3>3
  <2>3. LatestRPI' \in Status /\ rows' \subseteq ConsumerConn
    <3>1. uiQueue # << >> /\ LatestRPI \in Status /\ rows \subseteq ConsumerConn
      BY <1>6 DEF OnMsgFromClient, TypeOK
    <3> QED BY <1>6, <3>1, HandlerTypes DEF OnRpiMsg, OnConsumerMsg, cType
  <2> QED BY <1>1, <1>3, <1>6, <2>1, <2>2, <2>3
       DEF OnMsgFromClient, connVars, idVars, peerVars, TypeOK
<1>7. ASSUME NEW c \in Conn, Accept(c)
      PROVE  TypeOK'
  <2>1. /\ lastClientID' \in 0 .. Cardinality(ConsumerConn)
        /\ CID'[c] \in 0 .. Cardinality(ConsumerConn)
    <3>1. CID'[c] = GenerateClientID(c)
      BY <1>7 DEF Accept, TypeOK
    <3>2. CASE c \in RpiConn
      BY <1>7, <3>1, <3>2, Finite DEF Accept, TypeOK, GenerateClientID, cType, RpiID
    <3>3. CASE c \notin RpiConn
      <4> DEFINE accepted == {k \in ConsumerConn : pc[k] # "none"}
      <4>1. c \in ConsumerConn /\ accepted \in SUBSET ConsumerConn /\ c \notin accepted
        BY <1>7, <3>3 DEF Accept, Conn
      <4>2. Cardinality(accepted) + 1 <= Cardinality(ConsumerConn)
        <5> HIDE DEF accepted
        <5> QED BY <4>1, Finite, CountMembers
      <4>3. lastClientID + 1 \in 0 .. Cardinality(ConsumerConn)
        BY <4>2, Finite DEF TypeOK, IdsCount
      <4> QED BY <1>7, <3>1, <3>3, <4>3 DEF Accept, TypeOK, GenerateClientID, cType, Rpi, Consumer
    <3> QED BY <3>2, <3>3
  <2> QED BY <1>1, <1>7, <2>1 DEF Accept, cacheVars, history, uiVars, TypeOK
<1>8. ASSUME NEW c \in Conn, ThreadStep(c)
      PROVE  TypeOK'
  <2>1. CASE Register(c)
    BY <1>1, <2>1 DEF Register, history, idVars, peerVars, uiVars, TypeOK
  <2>2. CASE Announce(c)
    <3>1. uiQueue' \in Seq(Call)
      BY <2>2, CallPosted DEF Announce, Thread
    <3> QED BY <1>1, <1>3, <2>2, <3>1 DEF Announce, cacheVars, history, idVars,
         peerVars, uiVars, TypeOK
  <2>3. CASE StartTimers(c)
    BY <1>1, <2>3 DEF StartTimers, StartedTimers, Timer, cacheVars, history, idVars, peerVars,
       uiVars, TypeOK
  <2>4. CASE Forward(c)
    <3>1. uiQueue' \in Seq(Call)
      BY <2>4, CallPosted DEF Forward, OwnTexts, Thread
    <3> QED BY <1>1, <1>3, <2>4, <3>1 DEF Forward, cacheVars, history, idVars,
         peerVars, uiVars, TypeOK
  <2>5. CASE RestartKeepAlive(c)
    BY <1>1, <2>5 DEF RestartKeepAlive, Timer, cacheVars, history, idVars,
         peerVars, uiVars, TypeOK
  <2>6. CASE ReceiveNothing(c)
    BY <1>1, <2>6, Decided, Threads DEF ReceiveNothing, cacheVars, history, idVars, peerVars,
       uiVars, TypeOK
  <2> QED BY <1>8, <2>1, <2>2, <2>3, <2>4, <2>5, <2>6 DEF ThreadStep
<1>9. ASSUME NEW c \in Conn,
             (\E text \in TextFrom(c) : ReceiveWholeMsg(c, text)) \/ ReceivePart(c)
      PROVE  TypeOK'
  <2>1. heard' \in 0 .. MaxTexts
    BY <1>9, TextAssumption DEF ReceiveWholeMsg, ReceivePart, TypeOK
  <2>2. CASE ReceivePart(c)
    BY <1>1, <2>1, <2>2 DEF ReceivePart, Timer, cacheVars, history, idVars, uiVars, TypeOK
  <2>3. ASSUME NEW text \in TextFrom(c), ReceiveWholeMsg(c, text)
        PROVE  TypeOK'
    <3>1. text \in RpiText \union ConsumerText
      BY DEF TextFrom
    <3> QED BY <1>1, <2>1, <2>3, <3>1 DEF ReceiveWholeMsg, Timer, cacheVars, history, idVars,
         uiVars, TypeOK
  <2> QED BY <1>9, <2>2, <2>3
<1>10. ASSUME NEW c \in Conn, GrabTransmissionInCache(c) \/ SendSpoilsReceive(c)
       PROVE  TypeOK'
  <2>1. C!ReadResult(CID[c]) \subseteq Nat
    BY ReadIsNew DEF TypeOK
  <2>2. got' = [got EXCEPT ![c] = @ \union C!ReadResult(CID[c])]
    BY <1>10 DEF GrabTransmissionInCache, SendSpoilsReceive
  <2>3. got' \in [Conn -> SUBSET Nat]
    BY <2>1, <2>2 DEF TypeOK
  <2>4. sucks' \in [Conn -> [Thread -> {"no", "decided", "removed", "told"}]]
    BY <1>10, Decided, Threads DEF GrabTransmissionInCache, SendSpoilsReceive, TypeOK
  <2> QED BY <1>1, <1>10, <2>3, <2>4 DEF GrabTransmissionInCache, SendSpoilsReceive, idVars,
       peerVars, uiVars, TypeOK
<1>11. ASSUME NEW c \in Conn, KeepAliveTO(c) \/ recMsgTO(c)
       PROVE  TypeOK'
  <2>1. sucks' \in [Conn -> [Thread -> {"no", "decided", "removed", "told"}]]
    BY <1>11, Decided, Threads DEF KeepAliveTO, recMsgTO, TypeOK
  <2>2. CASE KeepAliveTO(c)
    <3>1. timers' \in [Conn -> SUBSET Timer]
      BY <2>2 DEF KeepAliveTO, TypeOK
    <3> QED BY <1>1, <2>1, <2>2, <3>1 DEF KeepAliveTO, cacheVars, history, idVars, peerVars,
         uiVars, TypeOK
  <2>3. CASE recMsgTO(c)
    BY <1>1, <2>1, <2>3 DEF recMsgTO, cacheVars, history, idVars,
         peerVars, uiVars, TypeOK
  <2> QED BY <1>11, <2>2, <2>3
<1>12. ASSUME NEW c \in Conn, NEW t \in Thread, ThisConnectionSucks(c, t)
       PROVE  TypeOK'
  <2>1. CASE RemoveClient(c, t)
    BY <1>1, <2>1 DEF RemoveClient, history, idVars, peerVars, uiVars, TypeOK
  <2>2. CASE TellKilled(c, t)
    <3>1. uiQueue' \in Seq(Call)
      BY <2>2, CallPosted DEF TellKilled
    <3> QED BY <1>1, <1>3, <2>2, <3>1 DEF TellKilled, cacheVars, history, idVars,
         peerVars, uiVars, TypeOK
  <2>3. CASE StopAndAbort(c, t)
    BY <1>1, <2>3 DEF StopAndAbort, cacheVars, history, idVars,
         peerVars, uiVars, TypeOK
  <2> QED BY <1>12, <2>1, <2>2, <2>3 DEF ThisConnectionSucks
<1>13. ASSUME NEW c \in Conn, NEW how \in {"closed", "gone"}, PeerEnds(c, how)
       PROVE  TypeOK'
  BY <1>1, <1>13 DEF PeerEnds, cacheVars, history, idVars, uiVars, TypeOK
<1> QED BY <1>4, <1>5, <1>6, <1>7, <1>8, <1>9, <1>10, <1>11, <1>12, <1>13 DEF Next

\* Only Accept gives an id, and makes a connection one that has come.
LEMMA OnlyAcceptCounts ==
  ASSUME TypeOK, SetupFirst, [Next]_vars, \A c \in Conn : ~Accept(c)
  PROVE  /\ CID' = CID /\ lastClientID' = lastClientID
         /\ \A k \in Conn : pc'[k] = "none" <=> pc[k] = "none"
<1> DEFINE Same == /\ CID' = CID /\ lastClientID' = lastClientID
                   /\ \A k \in Conn : pc'[k] = "none" <=> pc[k] = "none"
<1>1. pc \in [Conn -> {"none", "add", "setup", "start", "chat", "post", "restart",
                      "spin", "ended"}]
  BY DEF TypeOK
<1>2. (UNCHANGED vars \/ Load \/ OnMsgFromClient) => Same
  BY DEF vars, connVars, idVars, Load, OnMsgFromClient
<1>3. ASSUME NEW c \in Conn, ThreadStep(c)
      PROVE  Same
  BY <1>1, <1>3 DEF ThreadStep, Register, Announce, StartTimers, Forward, RestartKeepAlive,
     ReceiveNothing, Receiving, idVars
<1>4. ASSUME NEW c \in Conn,
             \/ (\E text \in TextFrom(c) : ReceiveWholeMsg(c, text)) \/ ReceivePart(c)
             \/ \E how \in {"closed", "gone"} : PeerEnds(c, how)
      PROVE  Same
  BY <1>1, <1>4 DEF ReceiveWholeMsg, ReceivePart, PeerEnds, Receiving, idVars
<1>5. ASSUME NEW c \in Conn, \/ GrabTransmissionInCache(c) \/ SendSpoilsReceive(c)
                             \/ KeepAliveTO(c) \/ recMsgTO(c)
      PROVE  Same
  BY <1>5 DEF GrabTransmissionInCache, SendSpoilsReceive, KeepAliveTO, recMsgTO, idVars
<1>6. ASSUME NEW c \in Conn, NEW t \in Thread, RemoveClient(c, t) \/ TellKilled(c, t)
      PROVE  Same
  BY <1>6 DEF RemoveClient, TellKilled, idVars
<1>7. ASSUME NEW c \in Conn, NEW t \in Thread, StopAndAbort(c, t)
      PROVE  Same
  <2>1. pc[c] # "none"
    BY <1>7 DEF SetupFirst, StopAndAbort
  <2> QED BY <1>1, <1>7, <2>1 DEF StopAndAbort, idVars
<1> HIDE DEF Same
<1>8. ASSUME NEW c \in Conn, NEW t \in Thread, ThisConnectionSucks(c, t)
      PROVE  Same
  BY <1>6, <1>7, <1>8 DEF ThisConnectionSucks
<1>9. Same
  BY <1>2, <1>3, <1>4, <1>5, <1>8 DEF Next
<1> QED BY <1>9 DEF Same

\* The cache's list and history are touched by the handler and by reads, and so is what
\* it is used for: a read hands out, the handler learns and lists.
LEMMA CacheUse ==
  ASSUME [Next]_vars
  PROVE  \/ OnMsgFromClient /\ got' = got /\ received' = received
         \/ \E c \in Conn : /\ "send" \in timers[c] /\ C!Read(CID[c])
                            /\ got' = [got EXCEPT ![c] = @ \union C!ReadResult(CID[c])]
                            /\ UNCHANGED <<CID, pc, LatestRPI, rows>>
         \/ UNCHANGED <<cache, posted, received, got, LatestRPI, rows>>
<1> DEFINE None == UNCHANGED <<cache, posted, received, got, LatestRPI, rows>>
           ReadBy(c) == /\ "send" \in timers[c] /\ C!Read(CID[c])
                        /\ got' = [got EXCEPT ![c] = @ \union C!ReadResult(CID[c])]
                        /\ UNCHANGED <<CID, pc, LatestRPI, rows>>
<1>1. UNCHANGED ClientMsgCache => UNCHANGED <<cache, posted, received>>
  BY DEF ClientMsgCache
<1>2. (UNCHANGED vars \/ Load) => None
  BY <1>1 DEF vars, cacheVars, history, uiVars, Load
<1>3. OnMsgFromClient => got' = got /\ received' = received
  BY <1>1 DEF OnMsgFromClient, OnConsumerMsg, OnRpiMsg, SendToClients, C!AddMessage
<1>4. ASSUME NEW c \in Conn, ThreadStep(c)
      PROVE  None
  BY <1>1, <1>4 DEF ThreadStep, Register, Announce, StartTimers, Forward, RestartKeepAlive,
     ReceiveNothing, C!ClientAdded, cacheVars, history, uiVars
<1>5. ASSUME NEW c \in Conn, NEW t \in Thread, ThisConnectionSucks(c, t)
      PROVE  None
  BY <1>1, <1>5 DEF ThisConnectionSucks, RemoveClient, Uncount, TellKilled, StopAndAbort,
     C!ClientRemoved, cacheVars, history, uiVars
<1>6. ASSUME NEW c \in Conn,
             \/ Accept(c) \/ (\E text \in TextFrom(c) : ReceiveWholeMsg(c, text))
             \/ ReceivePart(c) \/ KeepAliveTO(c) \/ recMsgTO(c)
             \/ \E how \in {"closed", "gone"} : PeerEnds(c, how)
      PROVE  None
  BY <1>1, <1>6 DEF Accept, ReceiveWholeMsg, ReceivePart, KeepAliveTO, recMsgTO, PeerEnds,
     cacheVars, history, uiVars
<1>7. ASSUME NEW c \in Conn, GrabTransmissionInCache(c) \/ SendSpoilsReceive(c)
      PROVE  ReadBy(c)
  BY <1>7 DEF GrabTransmissionInCache, SendSpoilsReceive, idVars, uiVars
<1> HIDE DEF None, ReadBy
<1>8. \/ None
      \/ OnMsgFromClient /\ got' = got /\ received' = received
      \/ \E c \in Conn : ReadBy(c)
  BY <1>2, <1>3, <1>4, <1>5, <1>6, <1>7 DEF Next
<1> QED BY <1>8 DEF None, ReadBy

\* Messages are handed out by the connections' reads only.
LEMMA OnlyReadsHandOut ==
  ASSUME [Next]_vars
  PROVE  \/ got' = got /\ received' = received
         \/ \E c \in Conn : /\ C!Read(CID[c])
                            /\ got' = [got EXCEPT ![c] = @ \union C!ReadResult(CID[c])]
  BY CacheUse

LEMMA IdsKept ==
  ASSUME Typed, [Next]_vars
  PROVE  IdsCount'
<1> USE DEF Typed
<1>1. ASSUME NEW r \in RpiConn
      PROVE  CID'[r] = RpiID /\ r \in Conn /\ cType(r) = Rpi
  <2>1. r \in Conn /\ CID[r] = RpiID /\ cType(r) = Rpi
    BY DEF IdsCount, Conn, cType
  <2>2. ASSUME NEW c \in Conn, Accept(c)
        PROVE  CID'[r] = RpiID
    BY <2>1, <2>2 DEF Accept, GenerateClientID, TypeOK
  <2> QED BY <2>1, <2>2, OnlyAcceptCounts
<1>2. ASSUME NEW r \in RpiConn
      PROVE  got'[r] \subseteq received'[RpiID]
  <2>1. got[r] \subseteq received[RpiID] /\ CID[r] = RpiID /\ r \in Conn
    BY DEF IdsCount, Conn
  <2>2. CASE got' = got /\ received' = received
    BY <2>1, <2>2
  <2>3. ASSUME NEW c \in Conn, C!Read(CID[c]),
               got' = [got EXCEPT ![c] = @ \union C!ReadResult(CID[c])]
        PROVE  got'[r] \subseteq received'[RpiID]
    <3>1. /\ received' = [received EXCEPT ![CID[c]] = @ \union C!ReadResult(CID[c])]
          /\ received \in [0 .. Cardinality(ConsumerConn) -> SUBSET Nat]
          /\ got \in [Conn -> SUBSET Nat] /\ CID[c] \in 0 .. Cardinality(ConsumerConn)
      BY <2>3 DEF C!Read, TypeOK, C!TypeOK
    <3>2. RpiID \in 0 .. Cardinality(ConsumerConn)
      BY Finite DEF RpiID
    <3>3. CASE c = r
      BY <2>1, <2>3, <3>1, <3>2, <3>3
    <3>4. CASE c # r
      BY <2>1, <2>3, <3>1, <3>2, <3>4
    <3> QED BY <3>3, <3>4
  <2> QED BY <2>2, <2>3, OnlyReadsHandOut
<1>3. lastClientID' = Cardinality({k \in ConsumerConn : pc'[k] # "none"})
  <2> DEFINE come == {k \in ConsumerConn : pc[k] # "none"}
  <2>1. lastClientID = Cardinality(come) /\ come \in SUBSET ConsumerConn
    BY DEF IdsCount
  <2>2. CASE \A c \in Conn : ~Accept(c)
    <3>1. {k \in ConsumerConn : pc'[k] # "none"} = come
      BY <2>2, OnlyAcceptCounts DEF Conn
    <3> QED BY <2>1, <2>2, <3>1, OnlyAcceptCounts
  <2>3. ASSUME NEW c \in Conn, Accept(c)
        PROVE  lastClientID' = Cardinality({k \in ConsumerConn : pc'[k] # "none"})
    <3>1. /\ pc' = [pc EXCEPT ![c] = "add"] /\ pc[c] = "none" /\ lastClientID \in Nat
          /\ lastClientID' = IF GenerateClientID(c) > lastClientID
                             THEN GenerateClientID(c) ELSE lastClientID
          /\ pc \in [Conn -> {"none", "add", "setup", "start", "chat", "post", "restart",
                              "spin", "ended"}]
      BY <2>3 DEF Accept, TypeOK
    <3>2. CASE c \in RpiConn
      <4>1. {k \in ConsumerConn : pc'[k] # "none"} = come
        BY <3>1, <3>2, ConnAssumption DEF Conn
      <4>2. lastClientID' = lastClientID
        BY <3>1, <3>2 DEF GenerateClientID, cType, RpiID
      <4> QED BY <2>1, <4>1, <4>2
    <3>3. CASE c \notin RpiConn
      <4>1. c \in ConsumerConn /\ c \notin come
        BY <3>1, <3>3 DEF Conn
      <4>2. {k \in ConsumerConn : pc'[k] # "none"} = come \union {c}
        BY <3>1, <4>1 DEF Conn
      <4>3. lastClientID' = lastClientID + 1
        BY <3>1, <3>3 DEF GenerateClientID, cType, Rpi, Consumer
      <4>4. Cardinality(come \union {c}) = Cardinality(come) + 1
        <5> HIDE DEF come
        <5> QED BY <2>1, <4>1, Finite, CountMembers
      <4> QED BY <2>1, <4>2, <4>3, <4>4
    <3> QED BY <3>2, <3>3
  <2> QED BY <2>2, <2>3
<1> QED BY <1>1, <1>2, <1>3 DEF IdsCount

\* A call that was not queued before is that of an announcement, of a text or of a
\* teardown.
LEMMA NewCalls ==
  ASSUME Typed, [Next]_vars, NEW call \in Calls', call \notin Calls
  PROVE  /\ call.conn \in Conn /\ call.by \in Thread
         /\ \/ Announce(call.conn) /\ call.by = "conn" /\ call.msg = <<"ClientSetup">>
            \/ Forward(call.conn) /\ call.by = "conn" /\ call.msg = retstr[call.conn]
            \/ TellKilled(call.conn, call.by) /\ call.msg = <<"ClientKilled">>
<1> DEFINE New == /\ call.conn \in Conn /\ call.by \in Thread
                  /\ \/ Announce(call.conn) /\ call.by = "conn" /\ call.msg = <<"ClientSetup">>
                     \/ Forward(call.conn) /\ call.by = "conn" /\ call.msg = retstr[call.conn]
                     \/ TellKilled(call.conn, call.by) /\ call.msg = <<"ClientKilled">>
<1>1. ASSUME uiQueue' = uiQueue
      PROVE  FALSE
  BY <1>1 DEF Calls
<1>2. ASSUME OnMsgFromClient
      PROVE  FALSE
  <2>1. uiQueue \in Seq(Call)
    BY DEF Typed, TypeOK, Call
  <2>2. uiQueue # << >> /\ uiQueue' = Tail(uiQueue)
    BY <1>2 DEF OnMsgFromClient
  <2> QED BY <2>1, <2>2, QueueServed
<1>3. ASSUME NEW c \in Conn, Announce(c)
      PROVE  New
  <2>1. MsgFromClient(c, "conn", <<"ClientSetup">>)
    BY <1>3 DEF Announce
  <2>2. call = [conn |-> c, by |-> "conn", msg |-> <<"ClientSetup">>]
    BY <2>1, CallPosted, Threads
  <2> QED BY <1>3, <2>2, Threads
<1>4. ASSUME NEW c \in Conn, Forward(c)
      PROVE  New
  <2>1. MsgFromClient(c, "conn", retstr[c]) /\ retstr[c] \in TextFrom(c) \union {<< >>}
    BY <1>4 DEF Forward, Typed, OwnTexts
  <2>2. call = [conn |-> c, by |-> "conn", msg |-> retstr[c]]
    BY <2>1, CallPosted, Threads
  <2> QED BY <1>4, <2>2, Threads
<1>5. ASSUME NEW c \in Conn, NEW t \in Thread, TellKilled(c, t)
      PROVE  New
  <2>1. MsgFromClient(c, t, <<"ClientKilled">>)
    BY <1>5 DEF TellKilled
  <2>2. call = [conn |-> c, by |-> t, msg |-> <<"ClientKilled">>]
    BY <2>1, CallPosted
  <2> QED BY <1>5, <2>2
<1> HIDE DEF New
<1>6. ASSUME NEW c \in Conn, ThreadStep(c)
      PROVE  New
  BY <1>1, <1>3, <1>4, <1>6 DEF ThreadStep, Register, StartTimers, RestartKeepAlive, ReceiveNothing
<1>7. ASSUME NEW c \in Conn, NEW t \in Thread, ThisConnectionSucks(c, t)
      PROVE  New
  BY <1>1, <1>5, <1>7 DEF ThisConnectionSucks, RemoveClient, StopAndAbort
<1>8. ASSUME NEW c \in Conn,
             \/ Accept(c) \/ (\E text \in TextFrom(c) : ReceiveWholeMsg(c, text))
             \/ ReceivePart(c) \/ KeepAliveTO(c) \/ recMsgTO(c)
             \/ GrabTransmissionInCache(c) \/ SendSpoilsReceive(c)
             \/ \E how \in {"closed", "gone"} : PeerEnds(c, how)
      PROVE  FALSE
  BY <1>1, <1>8 DEF Accept, ReceiveWholeMsg, ReceivePart, KeepAliveTO, recMsgTO, PeerEnds,
     GrabTransmissionInCache, SendSpoilsReceive
<1>9. UNCHANGED vars \/ Load => FALSE
  BY <1>1 DEF vars, Load
<1>10. New
  BY <1>2, <1>6, <1>7, <1>8, <1>9 DEF Next
<1> QED BY <1>10 DEF New

LEMMA OwnTextsKept ==
  ASSUME Typed, [Next]_vars
  PROVE  OwnTexts'
<1> USE DEF Typed
<1>1. ASSUME NEW call \in Calls'
      PROVE  call.msg \in {<<"ClientSetup">>, <<"ClientKilled">>, << >>} \union TextFrom(call.conn)
  <2>1. CASE call \in Calls
    BY <2>1 DEF OwnTexts
  <2>2. CASE call \notin Calls
    BY <2>2, NewCalls DEF OwnTexts
  <2> QED BY <2>1, <2>2
<1>2. ASSUME NEW k \in Conn
      PROVE  retstr'[k] \in TextFrom(k) \union {<< >>}
  <2>1. /\ retstr[k] \in TextFrom(k) \union {<< >>}
        /\ retstr \in [Conn -> RpiText \union ConsumerText \union {<< >>}]
    BY DEF OwnTexts, TypeOK
  <2>2. ASSUME NEW c \in Conn, ThreadStep(c)
        PROVE  retstr'[k] \in TextFrom(k) \union {<< >>}
    BY <2>1, <2>2 DEF ThreadStep, Register, Announce, StartTimers, Forward, RestartKeepAlive,
       ReceiveNothing
  <2>3. ASSUME NEW c \in Conn, NEW t \in Thread, ThisConnectionSucks(c, t)
        PROVE  retstr'[k] \in TextFrom(k) \union {<< >>}
    BY <2>1, <2>3 DEF ThisConnectionSucks, RemoveClient, TellKilled, StopAndAbort
  <2>4. ASSUME NEW c \in Conn, NEW text \in TextFrom(c), ReceiveWholeMsg(c, text)
        PROVE  retstr'[k] \in TextFrom(k) \union {<< >>}
    BY <2>1, <2>4 DEF ReceiveWholeMsg
  <2>5. ASSUME NEW c \in Conn,
               \/ Accept(c) \/ ReceivePart(c) \/ KeepAliveTO(c) \/ recMsgTO(c)
               \/ GrabTransmissionInCache(c) \/ SendSpoilsReceive(c)
               \/ \E how \in {"closed", "gone"} : PeerEnds(c, how)
        PROVE  retstr' = retstr
    BY <2>5 DEF Accept, ReceivePart, KeepAliveTO, recMsgTO, PeerEnds, GrabTransmissionInCache,
       SendSpoilsReceive
  <2>6. UNCHANGED vars \/ Load \/ OnMsgFromClient => retstr' = retstr
    BY DEF vars, connVars, Load, OnMsgFromClient
  <2> QED BY <2>1, <2>2, <2>3, <2>4, <2>5, <2>6 DEF Next
<1> QED BY <1>1, <1>2 DEF OwnTexts, TextFrom, cType

\* No text of a peer is an event of the service.
LEMMA TextsHaveNoEvents ==
  ASSUME NEW text \in RpiText \union ConsumerText \union {<< >>}
  PROVE  text # <<"ClientSetup">> /\ text # <<"ClientKilled">>
  BY TextAssumption

\* What only the first steps of a connection do, and what they wait for.
LEMMA SetupFirstKept ==
  ASSUME Typed, [Next]_vars
  PROVE  SetupFirst'
<1> USE DEF Typed
<1> DEFINE early == {"none", "add", "setup", "start"}
           Fresh(k) == disposing[k] = FALSE /\ timers[k] = {} /\ \A t \in Thread : sucks[k][t] = "no"
           Keeps == \A k \in Conn : pc'[k] \in early => pc[k] \in early /\ Fresh(k)'
<1>1. /\ pc \in [Conn -> {"none", "add", "setup", "start", "chat", "post", "restart",
                      "spin", "ended"}]
      /\ timers \in [Conn -> SUBSET Timer] /\ disposing \in [Conn -> BOOLEAN]
      /\ sucks \in [Conn -> [Thread -> {"no", "decided", "removed", "told"}]]
  BY DEF TypeOK
<1>2. \A k \in Conn : pc[k] \in early => Fresh(k)
  BY <1>1 DEF SetupFirst
<1>3. ASSUME NEW c \in Conn, NEW t \in Thread, Decide(c, t), pc' = pc, pc[c] \notin early,
             disposing' = disposing, \A k \in Conn : k # c => timers'[k] = timers[k]
      PROVE  Keeps
  BY <1>2, <1>3, Decided
<1>4. ASSUME NEW c \in Conn, ThreadStep(c)
      PROVE  Keeps
  <2>1. CASE Register(c) \/ Announce(c) \/ StartTimers(c) \/ Forward(c) \/ RestartKeepAlive(c)
    BY <1>1, <1>2, <2>1 DEF Register, Announce, StartTimers, Forward, RestartKeepAlive
  <2>2. CASE ReceiveNothing(c)
    BY <1>3, <2>2, Threads DEF ReceiveNothing, Receiving
  <2> QED BY <1>4, <2>1, <2>2 DEF ThreadStep
<1>5. ASSUME NEW c \in Conn, NEW t \in Thread, ThisConnectionSucks(c, t)
      PROVE  Keeps
  <2>1. pc[c] \notin early
    BY <1>2, <1>5 DEF ThisConnectionSucks, RemoveClient, TellKilled, StopAndAbort
  <2>2. CASE RemoveClient(c, t)
    BY <1>1, <1>2, <2>1, <2>2 DEF RemoveClient
  <2>3. CASE TellKilled(c, t)
    BY <1>1, <1>2, <2>1, <2>3 DEF TellKilled
  <2>4. CASE StopAndAbort(c, t)
    BY <1>1, <1>2, <2>1, <2>4 DEF StopAndAbort
  <2> QED BY <1>5, <2>2, <2>3, <2>4 DEF ThisConnectionSucks
<1>6. ASSUME NEW c \in Conn,
             (\E text \in TextFrom(c) : ReceiveWholeMsg(c, text)) \/ ReceivePart(c)
      PROVE  Keeps
  BY <1>1, <1>2, <1>6 DEF ReceiveWholeMsg, ReceivePart, Receiving
<1>7. ASSUME NEW c \in Conn, "send" \in timers[c] \/ "alive" \in timers[c] \/ "escape" \in timers[c]
      PROVE  pc[c] \notin early
  BY <1>2, <1>7
<1>8. ASSUME NEW c \in Conn, GrabTransmissionInCache(c) \/ SendSpoilsReceive(c)
      PROVE  Keeps
  <2>1. pc[c] \notin early /\ pc' = pc /\ disposing' = disposing /\ timers' = timers
    BY <1>7, <1>8 DEF GrabTransmissionInCache, SendSpoilsReceive
  <2>2. sucks' = sucks \/ Decide(c, "send") \/ Decide(c, "conn")
    BY <1>8 DEF GrabTransmissionInCache, SendSpoilsReceive
  <2> QED BY <1>2, <1>3, <2>1, <2>2, Threads
<1>9. ASSUME NEW c \in Conn, KeepAliveTO(c) \/ recMsgTO(c)
      PROVE  Keeps
  <2>1. /\ pc[c] \notin early /\ pc' = pc /\ disposing' = disposing
        /\ \A k \in Conn : k # c => timers'[k] = timers[k]
    BY <1>1, <1>7, <1>9 DEF KeepAliveTO, recMsgTO
  <2>2. sucks' = sucks \/ Decide(c, "alive") \/ Decide(c, "escape")
    BY <1>9 DEF KeepAliveTO, recMsgTO
  <2>3. CASE sucks' = sucks
    BY <1>2, <2>1, <2>3
  <2> QED BY <1>3, <2>1, <2>2, <2>3, Threads
<1>10. ASSUME NEW c \in Conn, Accept(c)
       PROVE  Keeps
  BY <1>1, <1>2, <1>10 DEF Accept
<1>11. ASSUME \/ UNCHANGED vars \/ Load \/ OnMsgFromClient
              \/ \E c \in Conn, how \in {"closed", "gone"} : PeerEnds(c, how)
       PROVE  Keeps
  <2>1. pc' = pc /\ timers' = timers /\ disposing' = disposing /\ sucks' = sucks
    BY <1>11 DEF vars, connVars, Load, OnMsgFromClient, PeerEnds
  <2> QED BY <1>2, <2>1
<1>12. Keeps
  <2> HIDE DEF Keeps
  <2> QED BY <1>4, <1>5, <1>6, <1>8, <1>9, <1>10, <1>11 DEF Next
<1>13. ASSUME NEW call \in Calls', call.msg = <<"ClientSetup">>
       PROVE  call.by = "conn" /\ pc'[call.conn] = "start"
  <2>1. CASE call \notin Calls
    <3>1. CASE Announce(call.conn) /\ call.by = "conn" /\ call.conn \in Conn
      BY <1>1, <3>1 DEF Announce
    <3>2. ~(call.msg = retstr[call.conn] /\ call.conn \in Conn)
      BY <1>13, TextsHaveNoEvents DEF TypeOK
    <3>3. <<"ClientSetup">> # <<"ClientKilled">>
      OBVIOUS
    <3> QED BY <1>13, <2>1, <3>1, <3>2, <3>3, NewCalls
  <2>2. CASE call \in Calls
    <3>1. call.by = "conn" /\ pc[call.conn] = "start"
      BY <1>13, <2>2 DEF SetupFirst
    <3>2. call.conn \in Conn
      BY <2>2, CallsTyped DEF Call
    <3>3. ~Returned(call.conn, "conn")
      BY <2>2, <3>1 DEF Returned, Calls
    <3>4. ASSUME NEW c \in Conn, ThreadStep(c)
          PROVE  pc'[call.conn] = "start"
      <4>1. ~(c = call.conn /\ StartTimers(c))
        BY <3>3 DEF StartTimers
      <4> QED BY <1>1, <3>1, <3>2, <3>4, <4>1 DEF ThreadStep, Register, Announce, StartTimers,
           Forward, RestartKeepAlive, ReceiveNothing
    <3>5. ASSUME NEW c \in Conn, NEW t \in Thread, ThisConnectionSucks(c, t)
          PROVE  pc'[call.conn] = "start"
      <4>1. pc[c] \notin early
        BY <1>2, <3>5 DEF ThisConnectionSucks, RemoveClient, TellKilled, StopAndAbort
      <4> QED BY <1>1, <3>1, <3>2, <3>5, <4>1 DEF ThisConnectionSucks, RemoveClient, TellKilled,
           StopAndAbort
    <3>6. ASSUME NEW c \in Conn,
                 \/ Accept(c) \/ (\E text \in TextFrom(c) : ReceiveWholeMsg(c, text))
                 \/ ReceivePart(c)
          PROVE  pc'[call.conn] = "start"
      BY <1>1, <3>1, <3>2, <3>6 DEF Accept, ReceiveWholeMsg, ReceivePart, Receiving
    <3>7. ASSUME \/ UNCHANGED vars \/ Load \/ OnMsgFromClient
                 \/ \E c \in Conn :
                      \/ GrabTransmissionInCache(c) \/ SendSpoilsReceive(c)
                      \/ KeepAliveTO(c) \/ recMsgTO(c)
                      \/ \E how \in {"closed", "gone"} : PeerEnds(c, how)
          PROVE  pc'[call.conn] = "start"
      BY <3>1, <3>7 DEF vars, connVars, Load, OnMsgFromClient, GrabTransmissionInCache,
         SendSpoilsReceive, KeepAliveTO, recMsgTO, PeerEnds
    <3> QED BY <3>1, <3>4, <3>5, <3>6, <3>7 DEF Next
  <2> QED BY <2>1, <2>2
<1> QED BY <1>12, <1>13 DEF SetupFirst

LEMMA TypedKept == ASSUME Typed, [Next]_vars PROVE Typed'
  BY UsesCache, CacheInductive, TypesKept, IdsKept, OwnTextsKept, SetupFirstKept DEF Typed

-----------------------------------------------------------------------------
(* A command is handed to one connection.                                  *)

LEMMA CommandToOneKept ==
  ASSUME Typed, CommandToOneConnection, [Next]_vars
  PROVE  CommandToOneConnection'
<1> SUFFICES ASSUME NEW r \in RpiConn, NEW q \in RpiConn, r # q
             PROVE  got'[r] \intersect got'[q] = {}
  BY DEF CommandToOneConnection
<1>1. /\ r \in Conn /\ q \in Conn /\ CID[r] = RpiID /\ CID[q] = RpiID
      /\ got[r] \subseteq received[RpiID] /\ got[q] \subseteq received[RpiID]
      /\ got[r] \intersect got[q] = {} /\ got \in [Conn -> SUBSET Nat]
  BY DEF Typed, TypeOK, IdsCount, Conn, CommandToOneConnection
<1>2. C!ReadResult(RpiID) \intersect received[RpiID] = {}
  <2>1. RpiID \in 0 .. Cardinality(ConsumerConn)
    BY Finite DEF RpiID
  <2> QED BY <2>1, ReadIsNew DEF Typed
<1>3. ASSUME NEW c \in Conn, got' = [got EXCEPT ![c] = @ \union C!ReadResult(CID[c])]
      PROVE  got'[r] \intersect got'[q] = {}
  <2>1. CASE c = r
    <3>1. got'[r] = got[r] \union C!ReadResult(RpiID) /\ got'[q] = got[q]
      BY <1>1, <1>3, <2>1
    <3> QED BY <1>1, <1>2, <3>1
  <2>2. CASE c = q
    <3>1. got'[q] = got[q] \union C!ReadResult(RpiID) /\ got'[r] = got[r]
      BY <1>1, <1>3, <2>2
    <3> QED BY <1>1, <1>2, <3>1
  <2>3. CASE c # r /\ c # q
    BY <1>1, <1>3, <2>3
  <2> QED BY <2>1, <2>2, <2>3
<1> QED BY <1>1, <1>3, OnlyReadsHandOut

-----------------------------------------------------------------------------
(* Clients are never overcounted.                                          *)

Regs(ct) == {c \in Conn : cType(c) = ct /\ Registered(c)}

\* Registering adds one client of a type to the count and to those registered.
LEMMA RegisterCounts ==
  ASSUME Typed, NEW c \in Conn, Register(c), NEW ct \in ClientType
  PROVE  \/ UNCHANGED <<numClients[ct], Regs(ct)>>
         \/ /\ numClients'[ct] = numClients[ct] + 1
            /\ Cardinality(Regs(ct)') = Cardinality(Regs(ct)) + 1
<1> USE DEF Typed
<1>1. /\ pc \in [Conn -> {"none", "add", "setup", "start", "chat", "post", "restart",
                      "spin", "ended"}]
      /\ numClients \in [ClientType -> Int]
  BY DEF TypeOK, C!TypeOK, C!ClientType, ClientType, C!Rpi, C!Consumer, Rpi, Consumer
<1>2. /\ numClients' = [numClients EXCEPT ![cType(c)] = @ + 1] /\ cType(c) \in ClientType
      /\ pc[c] = "add" /\ pc' = [pc EXCEPT ![c] = "setup"]
      /\ disposing' = disposing /\ ~disposing[c]
  BY DEF Register, C!ClientAdded, SetupFirst, cType, ClientType
<1>3. CASE ct = cType(c)
  <2>1. Regs(ct)' = Regs(ct) \union {c} /\ c \notin Regs(ct) /\ Regs(ct) \in SUBSET Conn
    BY <1>1, <1>2, <1>3 DEF Registered, Regs
  <2>2. Cardinality(Regs(ct) \union {c}) = Cardinality(Regs(ct)) + 1
    BY <2>1, Finite, CountMembers
  <2>3. numClients'[ct] = numClients[ct] + 1
    BY <1>1, <1>2, <1>3
  <2> QED BY <2>1, <2>2, <2>3
<1>4. CASE ct # cType(c)
  BY <1>1, <1>2, <1>4 DEF Registered, Regs
<1> QED BY <1>3, <1>4

\* A teardown takes one off the count, and at most one off those registered.
LEMMA RemoveCounts ==
  ASSUME Typed, NEW c \in Conn, NEW t \in Thread, RemoveClient(c, t), NEW ct \in ClientType
  PROVE  \/ UNCHANGED <<numClients[ct], Regs(ct)>>
         \/ /\ numClients'[ct] = numClients[ct] - 1
            /\ \/ Regs(ct)' = Regs(ct)
               \/ Cardinality(Regs(ct)') = Cardinality(Regs(ct)) - 1
<1> USE DEF Typed
<1>1. disposing \in [Conn -> BOOLEAN] /\ numClients \in [ClientType -> Int]
  BY DEF TypeOK, C!TypeOK, C!ClientType, ClientType, C!Rpi, C!Consumer, Rpi, Consumer
<1>2. /\ numClients' = [numClients EXCEPT ![cType(c)] = @ - 1] /\ cType(c) \in ClientType
      /\ disposing' = [disposing EXCEPT ![c] = TRUE] /\ pc' = pc
  BY DEF RemoveClient, Uncount, C!ClientRemoved, cType, ClientType
<1>3. CASE ct = cType(c)
  <2>1. Regs(ct)' = Regs(ct) \ {c} /\ Regs(ct) \in SUBSET Conn
    BY <1>1, <1>2, <1>3 DEF Registered, Regs
  <2>2. c \in Regs(ct) => Cardinality(Regs(ct) \ {c}) = Cardinality(Regs(ct)) - 1
    BY <2>1, Finite, CountMembers
  <2>3. c \notin Regs(ct) => Regs(ct) \ {c} = Regs(ct)
    OBVIOUS
  <2>4. numClients'[ct] = numClients[ct] - 1
    BY <1>1, <1>2, <1>3
  <2> QED BY <2>1, <2>2, <2>3, <2>4
<1>4. CASE ct # cType(c)
  BY <1>1, <1>2, <1>4 DEF Registered, Regs
<1> QED BY <1>3, <1>4

\* Only these two change the count or who is registered.
LEMMA OthersCountSame ==
  ASSUME Typed, [Next]_vars, \A c \in Conn : ~Register(c),
         \A c \in Conn, t \in Thread : ~RemoveClient(c, t)
  PROVE  /\ numClients' = numClients
         /\ \A ct : Regs(ct)' = Regs(ct)
         /\ \A k \in Conn : Registered(k)' <=> Registered(k)
<1> USE DEF Typed
<1> DEFINE early == {"none", "add", "setup", "start"}
           Same == /\ numClients' = numClients
                   /\ \A k \in Conn : Registered(k)' <=> Registered(k)
<1>1. pc \in [Conn -> {"none", "add", "setup", "start", "chat", "post", "restart",
                      "spin", "ended"}]
  BY DEF TypeOK
<1>2. ASSUME NEW c \in Conn, NEW t \in Thread, sucks[c][t] # "no"
      PROVE  pc[c] \notin early
  BY <1>2 DEF SetupFirst
<1>3. UNCHANGED ClientMsgCache => numClients' = numClients
  BY DEF ClientMsgCache
<1>4. ASSUME NEW c \in Conn, ThreadStep(c)
      PROVE  Same
  BY <1>1, <1>3, <1>4 DEF ThreadStep, Announce, StartTimers, Forward, RestartKeepAlive,
     ReceiveNothing, Registered, cacheVars
<1>5. ASSUME NEW c \in Conn, NEW t \in Thread, ThisConnectionSucks(c, t)
      PROVE  Same
  <2>1. pc[c] \notin early
    BY <1>2, <1>5 DEF ThisConnectionSucks, TellKilled, StopAndAbort
  <2> QED BY <1>1, <1>3, <1>5, <2>1 DEF ThisConnectionSucks, TellKilled, StopAndAbort, Registered,
       cacheVars
<1>6. ASSUME NEW c \in Conn,
             \/ Accept(c) \/ (\E text \in TextFrom(c) : ReceiveWholeMsg(c, text)) \/ ReceivePart(c)
      PROVE  Same
  BY <1>1, <1>3, <1>6 DEF Accept, ReceiveWholeMsg, ReceivePart, Receiving, Registered, cacheVars
<1>7. ASSUME NEW c \in Conn,
             \/ KeepAliveTO(c) \/ recMsgTO(c)
             \/ GrabTransmissionInCache(c) \/ SendSpoilsReceive(c)
             \/ \E how \in {"closed", "gone"} : PeerEnds(c, how)
      PROVE  Same
  BY <1>3, <1>7 DEF KeepAliveTO, recMsgTO, GrabTransmissionInCache, SendSpoilsReceive, C!Read,
     PeerEnds, Registered, cacheVars
<1>8. UNCHANGED vars \/ Load => Same
  BY <1>3 DEF vars, Load, cacheVars, connVars, Registered
<1>9. OnMsgFromClient => Same
  BY <1>3 DEF OnMsgFromClient, OnConsumerMsg, OnRpiMsg, SendToClients, C!AddMessage, connVars,
     Registered
<1> HIDE DEF Same
<1>10. Same
  BY <1>4, <1>5, <1>6, <1>7, <1>8, <1>9 DEF Next
<1> QED BY <1>10 DEF Same, Regs

LEMMA OvercountKept ==
  ASSUME Typed, NeverOvercounted, [Next]_vars
  PROVE  NeverOvercounted'
<1>1. /\ numClients \in [ClientType -> Int] /\ \A ct \in ClientType : Regs(ct) \in SUBSET Conn
      /\ \A ct \in ClientType : numClients[ct] <= Cardinality(Regs(ct))
  BY DEF Typed, TypeOK, C!TypeOK, NeverOvercounted, C!ClientType, ClientType, C!Rpi, C!Consumer,
         Rpi, Consumer, Regs
<1>2. \A ct \in ClientType : Cardinality(Regs(ct)) \in Nat
  BY <1>1, Finite, FS_Subset, FS_CardinalityType
<1>3. ASSUME NEW ct \in ClientType
      PROVE  numClients'[ct] <= Cardinality(Regs(ct)')
  <2>1. numClients[ct] <= Cardinality(Regs(ct)) /\ numClients[ct] \in Int
    BY <1>1
  <2>2. ASSUME NEW c \in Conn, Register(c)
        PROVE  numClients'[ct] <= Cardinality(Regs(ct)')
    BY <1>2, <2>1, <2>2, RegisterCounts
  <2>3. ASSUME NEW c \in Conn, NEW t \in Thread, RemoveClient(c, t)
        PROVE  numClients'[ct] <= Cardinality(Regs(ct)')
    BY <1>2, <2>1, <2>3, RemoveCounts
  <2>4. CASE (\A c \in Conn : ~Register(c)) /\ \A c \in Conn, t \in Thread : ~RemoveClient(c, t)
    BY <2>1, <2>4, OthersCountSame
  <2> QED BY <2>2, <2>3, <2>4
<1> QED BY <1>3 DEF NeverOvercounted, Regs

-----------------------------------------------------------------------------
(* No consumer that is gone stays listed.                                  *)

Killed(c, t) == [conn |-> c, by |-> t, msg |-> <<"ClientKilled">>]

\* Which rows the handler adds and removes.
LEMMA RowsServed ==
  ASSUME Typed, OnMsgFromClient
  PROVE  /\ Calls = Calls' \union {Head(uiQueue)} /\ Head(uiQueue) \in Calls
         /\ \A c \in rows' : c \in rows \/ pc[c] = "start"
         /\ \A c \in ConsumerConn, t \in Thread : Head(uiQueue) = Killed(c, t) => c \notin rows'
<1> DEFINE call == Head(uiQueue)
<1>1. uiQueue \in Seq(Call) /\ uiQueue # << >> /\ uiQueue' = Tail(uiQueue)
  BY DEF Typed, TypeOK, Call, OnMsgFromClient
<1>2. Calls = Calls' \union {call} /\ call \in Call
  BY <1>1, QueueServed
<1>3. /\ cType(call.conn) = Rpi => rows' = rows
      /\ cType(call.conn) = Consumer =>
           OnConsumerMsg(call.conn, call.msg) /\ call.conn \in ConsumerConn
  BY <1>1, HandlerTypes DEF OnRpiMsg
<1> HIDE DEF call
<1>4. ASSUME Contains(call.msg, "ClientSetup")
      PROVE  pc[call.conn] = "start"
  <2>1. call.msg \notin RpiText \union ConsumerText \union {<< >>}
    <3>1. call.msg \notin RpiText /\ call.msg \notin ConsumerText
      BY <1>4, TextAssumption DEF Contains
    <3>2. call.msg # << >>
      BY <1>4 DEF Contains
    <3> QED BY <3>1, <3>2
  <2>2. call.msg # <<"ClientKilled">>
    BY <1>4 DEF Contains
  <2>3. call.msg = <<"ClientSetup">> /\ call \in Calls
    BY <1>2, <2>1, <2>2 DEF Call
  <2> QED BY <2>3 DEF Typed, SetupFirst
<1>5. \A c \in rows' : c \in rows \/ pc[c] = "start"
  BY <1>2, <1>3, <1>4 DEF OnConsumerMsg, cType
<1>6. ASSUME NEW c \in ConsumerConn, NEW t \in Thread, call = Killed(c, t)
      PROVE  c \notin rows'
  <2>1. call.conn = c /\ call.msg = <<"ClientKilled">>
    BY <1>6 DEF Killed
  <2>2. Contains(call.msg, "ClientKilled") /\ ~Contains(call.msg, "ClientSetup")
    BY <2>1 DEF Contains
  <2>3. cType(c) = Consumer
    BY ConnAssumption DEF cType
  <2> QED BY <1>3, <2>1, <2>2, <2>3 DEF OnConsumerMsg
<1> QED BY <1>2, <1>5, <1>6 DEF call

\* Without a call served or a thread stopped, rows stay, calls stay, no connection ends
\* and only TellKilled tells.
LEMMA OthersKeep ==
  ASSUME Typed, [Next]_vars, ~OnMsgFromClient,
         \A c \in Conn, t \in Thread : ~StopAndAbort(c, t)
  PROVE  /\ rows' = rows /\ Calls \subseteq Calls'
         /\ ~ready' => ~ready /\ uiQueue' = uiQueue
         /\ \A k \in Conn : pc'[k] = "ended" => pc[k] = "ended"
         /\ \A k \in Conn, u \in Thread :
              sucks'[k][u] = "told" => sucks[k][u] = "told" \/ TellKilled(k, u)
<1> DEFINE Kept == /\ rows' = rows /\ Calls \subseteq Calls'
                   /\ ~ready' => ~ready /\ uiQueue' = uiQueue
                   /\ \A k \in Conn : pc'[k] = "ended" => pc[k] = "ended"
                   /\ \A k \in Conn, u \in Thread :
                        sucks'[k][u] = "told" => sucks[k][u] = "told" \/ TellKilled(k, u)
<1>1. /\ pc \in [Conn -> {"none", "add", "setup", "start", "chat", "post", "restart",
                      "spin", "ended"}]
      /\ sucks \in [Conn -> [Thread -> {"no", "decided", "removed", "told"}]]
  BY DEF Typed, TypeOK
<1>2. uiQueue' = uiQueue => Calls \subseteq Calls'
  BY DEF Calls
<1>3. ASSUME NEW c \in Conn, NEW t \in Thread, Decide(c, t), pc' = pc, rows' = rows,
             uiQueue' = uiQueue, ready' = ready
      PROVE  Kept
  BY <1>2, <1>3, Decided
<1>4. ASSUME NEW c \in Conn, ThreadStep(c)
      PROVE  Kept
  <2>1. CASE Register(c) \/ StartTimers(c) \/ RestartKeepAlive(c)
    BY <1>1, <1>2, <2>1 DEF Register, StartTimers, RestartKeepAlive, uiVars
  <2>2. CASE Announce(c)
    <3>1. Calls \subseteq Calls'
      BY <2>2, CallPosted, Threads DEF Announce
    <3> QED BY <1>1, <2>2, <3>1 DEF Announce, MsgFromClient, uiVars
  <2>3. CASE Forward(c)
    <3>1. Calls \subseteq Calls'
      BY <2>3, CallPosted, Threads DEF Forward, Typed, OwnTexts
    <3> QED BY <1>1, <2>3, <3>1 DEF Forward, MsgFromClient, uiVars
  <2>4. CASE ReceiveNothing(c)
    BY <1>3, <2>4, Threads DEF ReceiveNothing, uiVars
  <2> QED BY <1>4, <2>1, <2>2, <2>3, <2>4 DEF ThreadStep
<1>5. ASSUME NEW c \in Conn, NEW t \in Thread, ThisConnectionSucks(c, t)
      PROVE  Kept
  <2>1. CASE RemoveClient(c, t)
    BY <1>1, <1>2, <2>1 DEF RemoveClient, uiVars
  <2>2. CASE TellKilled(c, t)
    <3>1. Calls \subseteq Calls'
      BY <2>2, CallPosted DEF TellKilled
    <3>2. pc' = pc /\ rows' = rows /\ sucks' = [sucks EXCEPT ![c][t] = "told"]
      BY <2>2 DEF TellKilled, uiVars
    <3>3. ASSUME NEW k \in Conn, NEW u \in Thread, sucks'[k][u] = "told"
          PROVE  sucks[k][u] = "told" \/ (k = c /\ u = t)
      BY <1>1, <3>2, <3>3
    <3>4. ready' = ready /\ (~ready => uiQueue' = uiQueue)
      BY <2>2 DEF TellKilled, MsgFromClient, uiVars
    <3> QED BY <2>2, <3>1, <3>2, <3>3, <3>4
  <2> QED BY <1>5, <2>1, <2>2 DEF ThisConnectionSucks
<1>6. ASSUME NEW c \in Conn,
             \/ Accept(c) \/ (\E text \in TextFrom(c) : ReceiveWholeMsg(c, text)) \/ ReceivePart(c)
             \/ \E how \in {"closed", "gone"} : PeerEnds(c, how)
      PROVE  Kept
  BY <1>1, <1>2, <1>6 DEF Accept, ReceiveWholeMsg, ReceivePart, PeerEnds, uiVars
<1>7. ASSUME NEW c \in Conn,
             \/ GrabTransmissionInCache(c) \/ SendSpoilsReceive(c) \/ KeepAliveTO(c) \/ recMsgTO(c)
      PROVE  Kept
  <2>1. pc' = pc /\ rows' = rows /\ uiQueue' = uiQueue /\ ready' = ready
    BY <1>7 DEF GrabTransmissionInCache, SendSpoilsReceive, KeepAliveTO, recMsgTO, uiVars
  <2>2. sucks' = sucks \/ \E t \in Thread : Decide(c, t)
    BY <1>7, Threads DEF GrabTransmissionInCache, SendSpoilsReceive, KeepAliveTO, recMsgTO
  <2>3. CASE sucks' = sucks
    BY <1>2, <2>1, <2>3
  <2> QED BY <1>3, <2>1, <2>2, <2>3
<1>8. UNCHANGED vars \/ Load => Kept
  BY <1>2 DEF vars, Load, connVars, uiVars
<1> HIDE DEF Kept
<1>9. Kept
  BY <1>4, <1>5, <1>6, <1>7, <1>8 DEF Next
<1> QED BY <1>9 DEF Kept

\* A stopped thread's call was handled, and with it its row removed.
LEMMA StoppedUnlisted ==
  ASSUME Typed, KilledQueued, NEW c \in Conn, NEW t \in Thread, StopAndAbort(c, t)
  PROVE  c \notin rows
<1>1. sucks[c][t] = "told" /\ Returned(c, t)
  BY DEF StopAndAbort
<1>2. Killed(c, t) \notin Calls
  BY <1>1 DEF Returned, Calls, Killed
<1> QED BY <1>1, <1>2 DEF KilledQueued, Killed

LEMMA NoGhostsKept ==
  ASSUME Typed, KilledQueued, NoGhostRows, [Next]_vars
  PROVE  NoGhostRows'
<1> SUFFICES ASSUME NEW c \in ConsumerConn, pc'[c] = "ended"
             PROVE  c \notin rows'
  BY DEF NoGhostRows
<1>1. /\ c \in Conn /\ (pc[c] = "ended" => c \notin rows)
      /\ pc \in [Conn -> {"none", "add", "setup", "start", "chat", "post", "restart",
                      "spin", "ended"}]
  BY DEF Conn, NoGhostRows, Typed, TypeOK
<1>2. CASE OnMsgFromClient
  <2>1. pc' = pc
    BY <1>2 DEF OnMsgFromClient, connVars
  <2> QED BY <1>1, <1>2, <2>1, RowsServed
<1>3. ASSUME NEW k \in Conn, NEW t \in Thread, StopAndAbort(k, t)
      PROVE  c \notin rows'
  <2>1. rows' = rows /\ k \notin rows /\ (c # k => pc'[c] = pc[c])
    BY <1>1, <1>3, StoppedUnlisted DEF StopAndAbort, uiVars
  <2> QED BY <1>1, <2>1
<1>4. CASE ~OnMsgFromClient /\ \A k \in Conn, t \in Thread : ~StopAndAbort(k, t)
  BY <1>1, <1>4, OthersKeep
<1> QED BY <1>2, <1>3, <1>4

LEMMA KilledQueuedKept ==
  ASSUME Typed, KilledQueued, [Next]_vars
  PROVE  KilledQueued'
<1>1. ASSUME ~ready'
      PROVE  uiQueue' = << >> /\ rows' = {}
  <2>1. CASE OnMsgFromClient
    BY <1>1, <2>1 DEF KilledQueued, OnMsgFromClient
  <2>2. ASSUME NEW c \in Conn, NEW t \in Thread, StopAndAbort(c, t)
        PROVE  uiQueue' = << >> /\ rows' = {}
    BY <1>1, <2>2 DEF KilledQueued, StopAndAbort, uiVars
  <2>3. CASE ~OnMsgFromClient /\ \A c \in Conn, t \in Thread : ~StopAndAbort(c, t)
    BY <1>1, <2>3, OthersKeep DEF KilledQueued
  <2> QED BY <2>1, <2>2, <2>3
<1>2. ASSUME NEW c \in rows', NEW t \in Thread, sucks'[c][t] = "told"
      PROVE  Killed(c, t) \in Calls'
  <2>1. c \in ConsumerConn /\ c \in Conn
    BY TypesKept DEF TypeOK, Conn
  <2>2. CASE OnMsgFromClient
    <3>1. sucks' = sucks
      BY <2>2 DEF OnMsgFromClient, connVars
    <3>2. c \in rows
      BY <1>2, <2>1, <2>2, <3>1, RowsServed DEF Typed, SetupFirst
    <3>3. Killed(c, t) \in Calls
      BY <1>2, <3>1, <3>2 DEF KilledQueued, Killed
    <3> QED BY <2>1, <2>2, <3>3, RowsServed
  <2>3. ASSUME NEW k \in Conn, NEW u \in Thread, StopAndAbort(k, u)
        PROVE  Killed(c, t) \in Calls'
    <3>1. rows' = rows /\ uiQueue' = uiQueue /\ sucks' = [sucks EXCEPT ![k][u] = "no"]
      BY <2>3 DEF StopAndAbort, uiVars
    <3>2. sucks[c][t] = "told" /\ c \in rows
      BY <1>2, <2>1, <3>1 DEF Typed, TypeOK
    <3> QED BY <3>1, <3>2 DEF KilledQueued, Killed, Calls
  <2>4. CASE ~OnMsgFromClient /\ \A k \in Conn, u \in Thread : ~StopAndAbort(k, u)
    <3>1. /\ rows' = rows /\ Calls \subseteq Calls'
          /\ sucks[c][t] = "told" \/ TellKilled(c, t)
      BY <1>2, <2>1, <2>4, OthersKeep
    <3>2. CASE sucks[c][t] = "told"
      BY <1>2, <3>1, <3>2 DEF KilledQueued, Killed
    <3>3. CASE TellKilled(c, t)
      <4>1. ready
        BY <1>2, <3>1 DEF KilledQueued
      <4> QED BY <2>1, <3>3, <4>1, CallPosted DEF TellKilled, Killed
    <3> QED BY <3>1, <3>2, <3>3
  <2> QED BY <2>2, <2>3, <2>4
<1> QED BY <1>1, <1>2 DEF KilledQueued, Killed

-----------------------------------------------------------------------------
(* The theorems.                                                           *)

LEMMA IndInvInductive == ASSUME IndInv, [Next]_vars PROVE IndInv'
<1>1. Typed
  BY DEF IndInv, Typed
<1>2. Typed'
  BY <1>1, TypedKept
<1> QED BY <1>1, <1>2, CommandToOneKept, OvercountKept, NoGhostsKept, KilledQueuedKept
     DEF IndInv, Typed

LEMMA InitIndInv == Init => IndInv
<1> SUFFICES ASSUME Init PROVE IndInv
  OBVIOUS
<1> USE DEF Init
<1>1. C!IndInv
  <2>1. P!Init
    BY DEF C!Init, P!Init, C!ClientType, P!ClientType, C!Rpi, P!Rpi, C!Consumer, P!Consumer
  <2> QED BY <2>1, CacheAssumptions, P!InitIndInv, SameInv
<1>2. TypeOK
  <2>1. C!TypeOK /\ LatestRPI \in Status /\ rows \subseteq ConsumerConn
    BY <1>1 DEF C!IndInv, Status
  <2>2. audience \in Seq(SUBSET Conn) /\ got \in [Conn -> SUBSET Nat]
    OBVIOUS
  <2>3. lastClientID \in 0 .. Cardinality(ConsumerConn) /\ heard \in 0 .. MaxTexts
    BY Finite, TextAssumption
  <2>4. CID \in [Conn -> 0 .. Cardinality(ConsumerConn)]
    BY <2>3
  <2>5. uiQueue \in Seq(Call)
    OBVIOUS
  <2> QED BY <2>1, <2>2, <2>3, <2>4, <2>5 DEF TypeOK, Call
<1>3. Calls = {}
  BY DEF Calls
<1>4. {c \in ConsumerConn : pc[c] # "none"} = {}
  BY DEF Conn
<1>5. IdsCount
  BY <1>4, FS_EmptySet DEF IdsCount, RpiID, Conn
<1>6. OwnTexts /\ SetupFirst /\ KilledQueued
  BY <1>3 DEF OwnTexts, SetupFirst, KilledQueued
<1>7. NeverOvercounted
  <2>1. \A ct \in ClientType : numClients[ct] = 0
    BY DEF C!Init, C!ClientType, ClientType, C!Rpi, C!Consumer, Rpi, Consumer
  <2>2. ASSUME NEW ct \in ClientType
        PROVE  Cardinality({c \in Conn : cType(c) = ct /\ Registered(c)}) = 0
    <3>1. {c \in Conn : cType(c) = ct /\ Registered(c)} = {}
      BY DEF Registered
    <3> QED BY <3>1, FS_EmptySet
  <2> QED BY <2>1, <2>2 DEF NeverOvercounted
<1>8. CommandToOneConnection /\ NoGhostRows
  BY DEF CommandToOneConnection, NoGhostRows, Conn
<1> QED BY <1>1, <1>2, <1>5, <1>6, <1>7, <1>8 DEF IndInv

\* The invariant that the properties below rest on holds in every state of the service.
THEOREM IndInvHolds == Spec => []IndInv
<1>1. Init => IndInv
  BY InitIndInv
<1>2. IndInv /\ [Next]_vars => IndInv'
  BY IndInvInductive
<1> QED BY <1>1, <1>2, PTL DEF Spec

\* Every variable of the service keeps its type, lastClientID among the numbers of the
\* consumers' connections.
THEOREM TypeCorrect == Spec => []TypeOK
<1>1. IndInv => TypeOK
  BY DEF IndInv
<1> QED BY <1>1, IndInvHolds, PTL

\* No two connections of the RPI are handed the same command, however many there are
\* and however their teardowns overlap.
THEOREM CommandToOneConnectionHolds == Spec => []CommandToOneConnection
<1>1. IndInv => CommandToOneConnection
  BY DEF IndInv
<1> QED BY <1>1, IndInvHolds, PTL

\* The cache never counts more clients than are registered, however many threads of a
\* connection take it out of the count.
THEOREM NeverOvercountedHolds == Spec => []NeverOvercounted
<1>1. IndInv => NeverOvercounted
  BY DEF IndInv
<1> QED BY <1>1, IndInvHolds, PTL

\* A consumer whose thread was stopped is not listed on the form any more.
THEOREM NoGhostRowsHolds == Spec => []NoGhostRows
<1>1. IndInv => NoGhostRows
  BY DEF IndInv
<1> QED BY <1>1, IndInvHolds, PTL

\* The service uses the cache as MsgCache describes it: what its connections, timers and
\* form do is a behaviour of the cache.
THEOREM ImplementsCache == Spec => C!Spec
<1>1. Init => C!Init
  BY DEF Init
<1>2. IndInv /\ [Next]_vars => [C!Next]_(C!vars)
  <2>1. IndInv => Typed
    BY DEF IndInv, Typed
  <2> QED BY <2>1, UsesCache
<1> QED BY <1>1, <1>2, IndInvHolds, PTL DEF Spec, C!Spec

\* So a command accepted for the RPI stays in the service until a connection of the RPI
\* has read it.
THEOREM CommandsKept == Spec => []C!RpiMessageKept
<1>1. IndInv => C!RpiMessageKept
  BY DEF IndInv, C!IndInv
<1> QED BY <1>1, IndInvHolds, PTL

\* Each reader gets its messages in order and at most once: a connection of the RPI goes
\* on where the one before it ended.
THEOREM DeliversInOrder == Spec => P!DeliverySpec
<1>1. C!Init => P!Init
  BY DEF C!Init, P!Init, C!ClientType, P!ClientType, C!Rpi, P!Rpi, C!Consumer, P!Consumer
<1>2. [C!Next]_(C!vars) => [P!Next]_(P!vars)
  BY SameStep
<1>3. P!Spec => P!DeliverySpec
  BY CacheAssumptions, P!ImplementsDelivery
<1> QED BY <1>1, <1>2, <1>3, ImplementsCache, PTL DEF C!Spec, P!Spec
=============================================================================
