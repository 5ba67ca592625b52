--------------------------- MODULE ExchangeServer --------------------------
(***************************************************************************)
(* The socket exchange service between the car's RPI and the web           *)
(* application: the connections (TCPClientConn in ClientListener.cs), the  *)
(* handler on the form's thread (XChngServer.OnMsgFromClient) and the      *)
(* message cache they share (MsgCache).                                    *)
(*                                                                         *)
(* A connection is worked on by four threads at a time: its own (BidiChat, *)
(* "conn" below) and the callbacks of its three timers, which run on the   *)
(* thread pool because the form they synchronize with has no window        *)
(* handle.  Each of the four may find the connection dead and call         *)
(* ThisConnectionSucks; the test of disposing before the call and the      *)
(* assignment in it are separate steps.  A thread that calls MsgFromClient *)
(* is blocked (Invoke) until the form's thread has handled the message.    *)
(*                                                                         *)
(* A text is the sequence of the keywords it contains: one for a message,  *)
(* more when TCP joins several, none when it is the tail of a dropped one. *)
(***************************************************************************)
EXTENDS Clients, Integers, Sequences, FiniteSets

CONSTANTS RpiConn,        \* the connections the RPI makes, one after another
          ConsumerConn,   \* the connections of the web application
          RpiText,        \* texts from the RPI: the CarState of each ACK_Status
          ConsumerText,   \* texts from consumers: keywords
          EarlyConn,      \* the connections that may come before gSync is set
          MortalConn,     \* the connections whose peer may end
          MaxTexts,       \* bound on the texts received
          MaxRpiSucks,    \* bound on the threads of one RPI connection that are
                          \* in ThisConnectionSucks at a time
          MaxConsumerSucks \* the same for a consumer's connection

Conn == RpiConn \union ConsumerConn

ASSUME ConnAssumption == RpiConn \intersect ConsumerConn = {} /\ IsFiniteSet(Conn)
ASSUME TextAssumption ==
  /\ RpiText \subseteq Seq({"ON", "OFF"})
  /\ ConsumerText \subseteq Seq({"ACK_Status", "StartCar", "Debug"})
  /\ MaxTexts \in Nat
ASSUME SucksAssumption == MaxRpiSucks \in Nat /\ MaxConsumerSucks \in Nat

cType(c) == IF c \in RpiConn THEN Rpi ELSE Consumer

MaxSucksOf(ct) == IF ct = Rpi THEN MaxRpiSucks ELSE MaxConsumerSucks
MaxSucks(c) == MaxSucksOf(cType(c))

Timer  == {"alive", "send", "escape"}
Thread == Timer \union {"conn"}

VARIABLES
  cache, numClients, posted, received,    \* ClientMsgCache, see MsgCache
  got,           \* history: got[c] holds the messages that connection c read
  audience,      \* history: the clients registered when each message was created
  ready,         \* GlobSyn.gSync is set
  lastClientID,  \* ClientMsgCache.lastClientID
  peer,          \* the other end: absent, open, closed (FIN) or gone (silent)
  pc,            \* where the connection's own thread is
  retstr,        \* the text its thread received last
  CID,           \* its client id
  timers,        \* its enabled timers
  disposing,     \* its teardown has started
  sucks,         \* sucks[c][t]: how far thread t is in ThisConnectionSucks
  uiQueue,       \* calls to OnMsgFromClient that wait for the form's thread
  LatestRPI,     \* what the service last learned of the RPI
  rows,          \* the connections listed in lsvRemConClients
  heard          \* number of texts received, for MaxTexts

history   == <<got, audience>>
ClientMsgCache == <<cache, numClients, posted, received>>
cacheVars == <<ClientMsgCache, history>>
idVars    == <<CID, lastClientID>>
peerVars  == <<peer, heard>>
connVars  == <<idVars, peerVars, pc, retstr, timers, disposing, sucks>>
uiVars    == <<ready, LatestRPI, rows>>
vars      == <<cacheVars, connVars, uiQueue, uiVars>>

Status == [RPIState : {"N/A", "UP", "DOWN"}, CarState : {"N/A", "ON", "OFF"}]

\* The text that SendToClients makes of LatestRPI.
StatusText(info) == <<"ACK_Status", info.CarState, info.RPIState>>

\* At most this many messages are created: one for a text, a ClientSetup, and
\* a ClientKilled by each thread.
MaxPosted == MaxTexts + Cardinality(Conn) * (Cardinality(Thread) + 1)

C == INSTANCE MsgCache WITH
       Message     <- {StatusText(info) : info \in Status} \union ConsumerText,
       ClientID    <- 0 .. Cardinality(ConsumerConn),
       MaxClients  <- Cardinality(Conn) * Cardinality(Thread),
       MaxMessages <- MaxPosted

TypeOK ==
  /\ C!TypeOK
  /\ got \in [Conn -> SUBSET Nat]
  /\ audience \in Seq(SUBSET Conn)
  /\ ready \in BOOLEAN
  /\ lastClientID \in 0 .. Cardinality(ConsumerConn)
  /\ peer \in [Conn -> {"absent", "open", "closed", "gone"}]
  /\ pc \in [Conn -> {"none", "add", "setup", "start", "chat", "post",
                      "restart", "spin", "ended"}]
  /\ retstr \in [Conn -> RpiText \union ConsumerText \union {<< >>}]
  /\ CID \in [Conn -> 0 .. Cardinality(ConsumerConn)]
  /\ timers \in [Conn -> SUBSET Timer]
  /\ disposing \in [Conn -> BOOLEAN]
  /\ sucks \in [Conn -> [Thread -> {"no", "decided", "removed", "told"}]]
  /\ uiQueue \in Seq([conn : Conn, by : Thread,
                      msg : {<<"ClientSetup">>, <<"ClientKilled">>}
                              \union RpiText \union ConsumerText \union {<< >>}])
  /\ LatestRPI \in Status
  /\ rows \subseteq ConsumerConn
  /\ heard \in 0 .. MaxTexts

-----------------------------------------------------------------------------
(* GlobSyn.MsgFromClient: queue the call for the form's thread.  Before the *)
(* form has set gSync the message is dropped and the caller goes on.       *)

MsgFromClient(c, t, msg) ==
  uiQueue' = IF ready THEN Append(uiQueue, [conn |-> c, by |-> t, msg |-> msg])
             ELSE uiQueue

\* Mutant: BeginInvoke in place of Invoke, the caller does not wait.
DoesNotWait(c, t) == TRUE

\* The call that thread t of connection c made has returned.
Returned(c, t) ==
  \A i \in 1 .. Len(uiQueue) : ~(uiQueue[i].conn = c /\ uiQueue[i].by = t)

\* frmServiceLog_Load: the listeners already run when it sets gSync.
Load ==
  /\ ~ready
  /\ ready' = TRUE
  /\ UNCHANGED <<cacheVars, connVars, uiQueue, LatestRPI, rows>>

-----------------------------------------------------------------------------
(* The listener and the connection's own thread.                           *)

\* Mutant: no id is reserved for the RPI.
NoReservedID(c) == lastClientID + 1

GenerateClientID(c) == IF cType(c) = Rpi THEN RpiID ELSE lastClientID + 1

\* TCP_Listener: a client connected and identified itself.
Accept(c) ==
  /\ pc[c] = "none" /\ (ready \/ c \in EarlyConn)
  /\ peer' = [peer EXCEPT ![c] = "open"]
  /\ pc' = [pc EXCEPT ![c] = "add"]
  /\ CID' = [CID EXCEPT ![c] = GenerateClientID(c)]
  /\ lastClientID' = IF CID'[c] > lastClientID THEN CID'[c] ELSE lastClientID
  /\ UNCHANGED <<cacheVars, heard, retstr, timers, disposing, sucks, uiQueue, uiVars>>

\* BidiChat: register with the cache, announce the client, start the timers.
Register(c) ==
  /\ pc[c] = "add"
  /\ C!ClientAdded(cType(c))
  /\ pc' = [pc EXCEPT ![c] = "setup"]
  /\ UNCHANGED <<history, idVars, peerVars, retstr, timers, disposing, sucks, uiQueue, uiVars>>

Announce(c) ==
  /\ pc[c] = "setup"
  /\ MsgFromClient(c, "conn", <<"ClientSetup">>)
  /\ pc' = [pc EXCEPT ![c] = "start"]
  /\ UNCHANGED <<cacheVars, idVars, peerVars, retstr, timers, disposing, sucks, uiVars>>

\* Mutants: the keepalive timer, the send timer is never started.
NoKeepAlive == {"send"}
NoSendTimer == {"alive"}

StartedTimers == {"alive", "send"}

StartTimers(c) ==
  /\ pc[c] = "start" /\ Returned(c, "conn")
  /\ timers' = [timers EXCEPT ![c] = StartedTimers]
  /\ pc' = [pc EXCEPT ![c] = "chat"]
  /\ UNCHANGED <<cacheVars, idVars, peerVars, retstr, disposing, sucks, uiQueue, uiVars>>

\* The connection counts as a client of the cache: its thread has registered
\* it and no teardown has begun.
Registered(c) == pc[c] \notin {"none", "add"} /\ ~disposing[c]

\* The thread is in ReceiveWholeMsg, outside its catch block.
Receiving(c) == pc[c] = "chat" /\ sucks[c]["conn"] = "no"

TextFrom(c) == IF cType(c) = Rpi THEN RpiText ELSE ConsumerText

\* ReceiveWholeMsg returns everything that was readable, with an <EOF> in it.
ReceiveWholeMsg(c, text) ==
  /\ Receiving(c) /\ peer[c] = "open" /\ heard < MaxTexts
  /\ heard' = heard + 1
  /\ retstr' = [retstr EXCEPT ![c] = text]
  /\ timers' = [timers EXCEPT ![c] = @ \ {"escape"}]
  /\ pc' = [pc EXCEPT ![c] = "post"]
  /\ UNCHANGED <<cacheVars, idVars, peer, disposing, sucks, uiQueue, uiVars>>

\* It reads bytes without <EOF>, be it that more are to come or that a consumer's
\* text is replaced by the status being sent.  If nothing follows yet the bytes are
\* dropped, with the escape timer left on; if the peer has closed, the read of zero
\* bytes is repeated for ever.
ReceivePart(c) ==
  /\ Receiving(c) /\ peer[c] \in {"open", "closed"} /\ heard < MaxTexts
  /\ heard' = heard + 1
  /\ timers' = [timers EXCEPT ![c] = @ \union {"escape"}]
  /\ pc' = [pc EXCEPT ![c] = IF peer[c] = "closed" THEN "spin" ELSE @]
  /\ UNCHANGED <<cacheVars, idVars, peer, retstr, disposing, sucks, uiQueue, uiVars>>

\* Thread t finds disposing false and goes on to ThisConnectionSucks.
Decide(c, t) ==
  /\ ~disposing[c] /\ sucks[c][t] = "no"
  /\ Cardinality({u \in Thread : sucks[c][u] # "no"}) < MaxSucks(c)
  /\ sucks' = [sucks EXCEPT ![c][t] = "decided"]

\* It reads zero bytes first: data is null, and the exception's handler finds
\* that no teardown has started.
ReceiveNothing(c) ==
  /\ Receiving(c) /\ peer[c] = "closed"
  /\ Decide(c, "conn")
  /\ UNCHANGED <<cacheVars, idVars, peerVars, pc, retstr, timers, disposing, uiQueue, uiVars>>

Forward(c) ==
  /\ pc[c] = "post"
  /\ MsgFromClient(c, "conn", retstr[c])
  /\ pc' = [pc EXCEPT ![c] = "restart"]
  /\ UNCHANGED <<cacheVars, idVars, peerVars, retstr, timers, disposing, sucks, uiVars>>

RestartKeepAlive(c) ==
  /\ pc[c] = "restart" /\ Returned(c, "conn")
  /\ timers' = [timers EXCEPT ![c] = @ \union {"alive"}]
  /\ retstr' = [retstr EXCEPT ![c] = << >>]
  /\ pc' = [pc EXCEPT ![c] = "chat"]
  /\ UNCHANGED <<cacheVars, idVars, peerVars, disposing, sucks, uiQueue, uiVars>>

-----------------------------------------------------------------------------
(* The timers' callbacks.                                                  *)

\* GrabTransmissionInCache: read one message and send it, where a failure to
\* send is ignored.  A consumer's session may have lasted over five minutes.
GrabTransmissionInCache(c) ==
  /\ "send" \in timers[c]
  /\ C!Read(CID[c])
  /\ got' = [got EXCEPT ![c] = @ \union C!ReadResult(CID[c])]
  /\ \/ UNCHANGED sucks
     \/ cType(c) = Consumer /\ Decide(c, "send")
  /\ UNCHANGED <<audience, idVars, peerVars, pc, retstr, timers, disposing, uiQueue, uiVars>>

\* The connection's thread receives into the field that the callback sends from.
\* When the callback has replaced it in between, the thread takes as many bytes of
\* the outgoing message as it received: for the RPI, whose texts are longer than a
\* command, there are not as many and the exception ends the connection.  (For a
\* consumer they are the beginning of a status, see ReceivePart.)
SendSpoilsReceive(c) ==
  /\ cType(c) = Rpi /\ "send" \in timers[c] /\ C!Unread(CID[c]) # {}
  /\ Receiving(c) /\ peer[c] = "open"
  /\ C!Read(CID[c])
  /\ got' = [got EXCEPT ![c] = @ \union C!ReadResult(CID[c])]
  /\ Decide(c, "conn")
  /\ UNCHANGED <<audience, idVars, peerVars, pc, retstr, timers, disposing, uiQueue, uiVars>>

KeepAliveTO(c) ==
  /\ "alive" \in timers[c]
  /\ timers' = [timers EXCEPT ![c] = @ \ {"alive"}]
  /\ Decide(c, "alive") \/ (disposing[c] /\ UNCHANGED sucks)
  /\ UNCHANGED <<cacheVars, idVars, peerVars, pc, retstr, disposing, uiQueue, uiVars>>

recMsgTO(c) ==
  /\ "escape" \in timers[c]
  /\ Decide(c, "escape")
  /\ UNCHANGED <<cacheVars, idVars, peerVars, pc, retstr, timers, disposing, uiQueue, uiVars>>

-----------------------------------------------------------------------------
(* ThisConnectionSucks, on thread t.                                       *)

\* Mutant: the teardown leaves the cache's count of clients alone.
StillCounted(c) == UNCHANGED ClientMsgCache

Uncount(c) == C!ClientRemoved(cType(c))

\* Mutant: disposing is not set.
RemoveUnmarked(c, t) ==
  /\ sucks[c][t] = "decided"
  /\ Uncount(c)
  /\ sucks' = [sucks EXCEPT ![c][t] = "removed"]
  /\ UNCHANGED <<disposing, history, idVars, peerVars, pc, retstr, timers, uiQueue, uiVars>>

RemoveClient(c, t) ==
  /\ sucks[c][t] = "decided"
  /\ disposing' = [disposing EXCEPT ![c] = TRUE]
  /\ Uncount(c)
  /\ sucks' = [sucks EXCEPT ![c][t] = "removed"]
  /\ UNCHANGED <<history, idVars, peerVars, pc, retstr, timers, uiQueue, uiVars>>

TellKilled(c, t) ==
  /\ sucks[c][t] = "removed"
  /\ MsgFromClient(c, t, <<"ClientKilled">>)
  /\ sucks' = [sucks EXCEPT ![c][t] = "told"]
  /\ UNCHANGED <<cacheVars, idVars, peerVars, pc, retstr, timers, disposing, uiVars>>

\* Stop the timers and abort the connection's thread.  A call that the thread
\* has queued stays queued; in its own catch block the thread is not aborted
\* before it ends itself.
StopAndAbort(c, t) ==
  /\ sucks[c][t] = "told" /\ Returned(c, t)
  /\ timers' = [timers EXCEPT ![c] = {}]
  /\ pc' = [pc EXCEPT ![c] = IF t = "conn" \/ sucks[c]["conn"] = "no"
                             THEN "ended" ELSE @]
  /\ retstr' = [retstr EXCEPT ![c] = << >>]
  /\ sucks' = [sucks EXCEPT ![c][t] = "no"]
  /\ UNCHANGED <<cacheVars, idVars, peerVars, disposing, uiQueue, uiVars>>

-----------------------------------------------------------------------------
(* The form's thread: OnMsgFromClient.                                     *)

Contains(msg, key) == \E i \in 1 .. Len(msg) : msg[i] = key

SendToClients(info) == C!AddMessage(StatusText(info), Consumer)

OnConsumerMsg(c, msg) ==
  \/ /\ Contains(msg, "ClientSetup")
     /\ rows' = rows \union {c}
     /\ SendToClients(LatestRPI)
     /\ UNCHANGED LatestRPI
  \/ /\ Contains(msg, "ClientKilled")
     /\ rows' = rows \ {c}
     /\ UNCHANGED <<ClientMsgCache, LatestRPI>>
  \/ /\ \E key \in {"StartCar", "Debug"} : Contains(msg, key)
     /\ \A key \in {"ClientSetup", "ClientKilled", "ACK_Status"} : ~Contains(msg, key)
     /\ C!AddMessage(msg, Rpi)
     /\ UNCHANGED <<LatestRPI, rows>>
  \/ /\ \A key \in {"ClientSetup", "ClientKilled"} : ~Contains(msg, key)
     /\ \/ Contains(msg, "ACK_Status")
        \/ \A key \in {"StartCar", "Debug"} : ~Contains(msg, key)
     /\ UNCHANGED <<ClientMsgCache, LatestRPI, rows>>

\* What the handler makes of LatestRPI: a message without a keyword is ignored,
\* of several joined ACK_Status the first CarState counts.
Learned(msg) ==
  CASE msg = <<"ClientSetup">>  -> [LatestRPI EXCEPT !.RPIState = "UP"]
    [] msg = <<"ClientKilled">> -> [LatestRPI EXCEPT !.RPIState = "DOWN"]
    [] msg \in RpiText /\ msg # << >> -> [RPIState |-> "UP", CarState |-> Head(msg)]
    [] msg = << >>              -> LatestRPI

\* Mutant: the status is sent before it is updated.
SendThenUpdate(msg) ==
  /\ LatestRPI' = Learned(msg)
  /\ IF msg = << >> THEN UNCHANGED ClientMsgCache ELSE SendToClients(LatestRPI)
  /\ UNCHANGED rows

OnRpiMsg(msg) ==
  /\ LatestRPI' = Learned(msg)
  /\ IF msg = << >> THEN UNCHANGED ClientMsgCache ELSE SendToClients(LatestRPI')
  /\ UNCHANGED rows

OnMsgFromClient ==
  /\ uiQueue # << >>
  /\ LET call == Head(uiQueue)
     IN  IF cType(call.conn) = Consumer THEN OnConsumerMsg(call.conn, call.msg)
         ELSE OnRpiMsg(call.msg)
  /\ uiQueue' = Tail(uiQueue)
  /\ audience' = IF Len(posted') > Len(posted)
                 THEN Append(audience, {c \in Conn : Registered(c)}) ELSE audience
  /\ UNCHANGED <<got, connVars, ready>>

-----------------------------------------------------------------------------
(* The other end of a connection: it closes the socket, or it vanishes (the *)
(* modem is powered off, the process is killed) and says nothing any more. *)

PeerEnds(c, how) ==
  /\ c \in MortalConn /\ peer[c] = "open" /\ pc[c] # "ended"
  /\ peer' = [peer EXCEPT ![c] = how]
  /\ UNCHANGED <<cacheVars, idVars, heard, pc, retstr, timers, disposing, sucks, uiQueue, uiVars>>

-----------------------------------------------------------------------------
Init ==
  /\ C!Init
  /\ got = [c \in Conn |-> {}]
  /\ audience = << >>
  /\ ready = FALSE
  /\ lastClientID = 0
  /\ peer = [c \in Conn |-> "absent"]
  /\ pc = [c \in Conn |-> "none"]
  /\ retstr = [c \in Conn |-> << >>]
  /\ CID = [c \in Conn |-> 0]
  /\ timers = [c \in Conn |-> {}]
  /\ disposing = [c \in Conn |-> FALSE]
  /\ sucks = [c \in Conn |-> [t \in Thread |-> "no"]]
  /\ uiQueue = << >>
  /\ LatestRPI = [RPIState |-> "N/A", CarState |-> "N/A"]
  /\ rows = {}
  /\ heard = 0

\* The steps a connection's thread takes without waiting for its peer.
ThreadStep(c) ==
  \/ Register(c) \/ Announce(c) \/ StartTimers(c)
  \/ Forward(c) \/ RestartKeepAlive(c) \/ ReceiveNothing(c)

ThisConnectionSucks(c, t) == RemoveClient(c, t) \/ TellKilled(c, t) \/ StopAndAbort(c, t)

Next ==
  \/ Load
  \/ OnMsgFromClient
  \/ \E c \in Conn :
       \/ Accept(c)
       \/ ThreadStep(c)
       \/ \E text \in TextFrom(c) : ReceiveWholeMsg(c, text)
       \/ ReceivePart(c)
       \/ GrabTransmissionInCache(c) \/ SendSpoilsReceive(c)
       \/ KeepAliveTO(c) \/ recMsgTO(c)
       \/ \E t \in Thread : ThisConnectionSucks(c, t)
       \/ \E how \in {"closed", "gone"} : PeerEnds(c, how)

Spec == Init /\ [][Next]_vars

-----------------------------------------------------------------------------
(* Safety.                                                                 *)

\* The cache never counts more clients of a type than are registered, so no
\* message is kept for a reader that was not there when it was created.
NeverOvercounted ==
  \A ct \in ClientType :
    numClients[ct] <= Cardinality({c \in Conn : cType(c) = ct /\ Registered(c)})

\* How far the count may fall behind: a connection that is torn down is taken out of
\* it at most as often as threads may be in its teardown at a time, those included
\* that are still to do so.  With one thread at a time that is once.
Disposed(ct)   == {c \in Conn : cType(c) = ct /\ disposing[c]}
ToUncount(ct)  == {ci \in Disposed(ct) \X Thread : sucks[ci[1]][ci[2]] = "decided"}
UndercountBounded ==
  \A ct \in ClientType :
    Cardinality({c \in Conn : cType(c) = ct /\ Registered(c)}) + Cardinality(ToUncount(ct))
      <= numClients[ct] + (MaxSucksOf(ct) - 1) * Cardinality(Disposed(ct))

\* A command reaches the car once: no two connections of the RPI are handed
\* the same message, however often the RPI reconnects (client id 0).
CommandToOneConnection ==
  \A r, q \in RpiConn : r # q => got[r] \intersect got[q] = {}

\* No consumer that was torn down stays listed on the form: its ClientSetup is
\* always handled before its last ClientKilled.
NoGhostRows == \A c \in ConsumerConn : pc[c] = "ended" => c \notin rows

\* A consumer that was announced and has nothing left to read knows the latest
\* state of the RPI, as long as no consumer has been torn down and none is
\* between its registration and its ClientSetup.
CaughtUp(c) == c \in rows /\ C!Unread(CID[c]) = {}
Latest(S) == CHOOSE i \in S : \A j \in S : j <= i
CaughtUpMeansCurrent ==
  (\A k \in ConsumerConn : ~disposing[k] /\ (Registered(k) => k \in rows)) =>
    \A c \in ConsumerConn : CaughtUp(c) =>
      /\ got[c] # {}
      /\ posted[Latest(got[c])].msg = StatusText(LatestRPI)

\* What has to hold with these for a step to preserve them.  The RPI reads under its
\* id, the ids of consumers are counted; what a connection says is of its kind.
IdsCount ==
  /\ \A r \in RpiConn : CID[r] = RpiID /\ got[r] \subseteq received[RpiID]
  /\ lastClientID = Cardinality({c \in ConsumerConn : pc[c] # "none"})

Calls == {uiQueue[i] : i \in 1 .. Len(uiQueue)}

OwnTexts ==
  /\ \A c \in Conn : retstr[c] \in TextFrom(c) \union {<< >>}
  /\ \A call \in Calls :
       call.msg \in {<<"ClientSetup">>, <<"ClientKilled">>, << >>} \union TextFrom(call.conn)

\* No teardown begins before the timers are started, and they wait until the
\* ClientSetup was handled.
SetupFirst ==
  /\ \A c \in Conn : pc[c] \in {"none", "add", "setup", "start"} =>
       ~disposing[c] /\ timers[c] = {} /\ \A t \in Thread : sucks[c][t] = "no"
  /\ \A call \in Calls : call.msg = <<"ClientSetup">> =>
       call.by = "conn" /\ pc[call.conn] = "start"

\* A teardown that finds a row has queued the call that removes it.
KilledQueued ==
  /\ ~ready => uiQueue = << >> /\ rows = {}
  /\ \A c \in rows : \A t \in Thread : sucks[c][t] = "told" =>
       [conn |-> c, by |-> t, msg |-> <<"ClientKilled">>] \in Calls

IndInv ==
  /\ TypeOK /\ C!IndInv
  /\ IdsCount /\ OwnTexts /\ SetupFirst /\ KilledQueued
  /\ NeverOvercounted /\ CommandToOneConnection /\ NoGhostRows

\* What CaughtUpMeansCurrent needs besides.  A consumer is the only reader of its id.
OwnIds ==
  /\ \A c \in ConsumerConn :
       IF pc[c] = "none" THEN got[c] = {}
       ELSE CID[c] \in 1 .. lastClientID /\ got[c] = received[CID[c]]
  /\ \A c, k \in ConsumerConn :
       c # k /\ pc[c] # "none" /\ pc[k] # "none" => CID[c] # CID[k]
  /\ \A id \in lastClientID + 1 .. Cardinality(ConsumerConn) : received[id] = {}

\* A reader gets messages of its type only.
OwnMessages ==
  \A id \in 0 .. Cardinality(ConsumerConn) : \A i \in received[id] :
    posted[i].target = TypeOf(id)

\* A connection is disposed of before it is said to be killed; one on the form has been
\* announced.
TornDown ==
  /\ \A c \in Conn, t \in Thread : sucks[c][t] \in {"removed", "told"} => disposing[c]
  /\ \A call \in Calls : call.msg = <<"ClientKilled">> => disposing[call.conn]
  /\ \A c \in rows : pc[c] \notin {"none", "add", "setup"}

\* The count is exact until the first teardown of a client of the type.
CountedAtFirst ==
  \A ct \in ClientType : (\A c \in Conn : cType(c) = ct => ~disposing[c]) =>
    numClients[ct] = Cardinality({c \in Conn : cType(c) = ct /\ Registered(c)})

\* While no consumer has been torn down and all that may read are listed, the last
\* message to consumers is the latest status, and it is kept until each of them has
\* read it: it was created for at least as many, and only they mark it.
AllReadersListed ==
  \A k \in ConsumerConn :
    ~disposing[k] /\ (pc[k] \notin {"none", "add", "setup", "start"} => k \in rows)

KeptForReaders(i) ==
  /\ posted[i] = [msg |-> StatusText(LatestRPI), target |-> Consumer]
  /\ \A j \in i + 1 .. Len(posted) : posted[j].target # Consumer
  /\ \A c \in rows : i \in received[CID[c]] \/ \E m \in cache : m.id = i
  /\ \A m \in cache : m.id = i =>
       /\ m.ThreadNums \subseteq {CID[c] : c \in rows}
       /\ Cardinality(rows) <= m.NumClientsAtCreation

LatestKept ==
  AllReadersListed /\ rows # {} => \E i \in 1 .. Len(posted) : KeptForReaders(i)

StatusInv == OwnIds /\ OwnMessages /\ TornDown /\ CountedAtFirst /\ LatestKept

\* "Don't let this thread call this thang more than once": a connection is
\* taken out of the cache's count once, so the count is that of the
\* connections registered.
CountsMatch ==
  \A ct \in ClientType :
    numClients[ct] = Cardinality({c \in Conn : cType(c) = ct /\ Registered(c)})

\* "Everybody ate this message already": a message leaves the cache only when
\* every client that was registered at its creation, and still is, has read it.
EverybodyAte ==
  [][\A m \in cache : (\A n \in cache' : n.id # m.id) =>
       \A c \in audience[m.id] :
         cType(c) = m.targetClientType /\ Registered(c) => m.id \in got'[c]]_vars

-----------------------------------------------------------------------------
(* Liveness.  Every thread goes on when it can, the form's thread serves its *)
(* queue, timers fire; the keepalive of a peer that says nothing any more   *)
(* is not restarted, so its 20 s pass.  Peers need not do anything, and the *)
(* limit on a consumer's session is not counted on.                        *)

Fairness ==
  /\ WF_vars(Load)
  /\ WF_vars(OnMsgFromClient)
  /\ \A c \in Conn :
       /\ WF_vars(ThreadStep(c))
       /\ WF_vars(GrabTransmissionInCache(c) /\ UNCHANGED sucks)
       /\ WF_vars(peer[c] # "open" /\ KeepAliveTO(c))
       /\ WF_vars(recMsgTO(c))
       /\ \A t \in Thread : WF_vars(ThisConnectionSucks(c, t))

FairSpec == Spec /\ Fairness

\* The service gets rid of a connection whose peer has ended, however it ended:
\* its thread is stopped and the form no longer lists it.
DeadPeerReaped ==
  \A c \in Conn :
    peer[c] \in {"closed", "gone"} ~> pc[c] = "ended" /\ c \notin rows

\* Commands that were accepted for the RPI are handed to a connection of the
\* RPI, unless all of them end first.
CommandHandedOut ==
  C!Unread(RpiID) # {} ~>
    C!Unread(RpiID) = {} \/ \A r \in RpiConn : pc[r] \in {"none", "add", "ended"}
=============================================================================
