-------------------------- MODULE WebSessionProofs --------------------------
(***************************************************************************)
(* Proofs about WebSession, for any tabs, callbacks and bounds: types,     *)
(* that a start was asked for, and is sent at most once by each callback,  *)
(* and that the page which took the last text shows the present state of   *)
(* the RPI when nothing is under way, unless messages that differ came     *)
(* joined or a text was lost.                                              *)
(***************************************************************************)
EXTENDS WebSession, FiniteSetTheorems, FunctionTheorems, SequenceTheorems, TLAPS

-----------------------------------------------------------------------------
(* Types.                                                                  *)

Typed == TypeOK /\ PagesHaveCache

\* A page that is open finds its cache.
LEMMA CacheFound ==
  ASSUME TypeOK, sessions # << >>
  PROVE  MyCache \in Conn
  BY DEF TypeOK, MyCache

LEMMA Queues ==
  ASSUME TypeOK, NEW c, NEW msgs \in Seq(Msg), AddMessagesToServer(c, msgs)
  PROVE  MessagesToServer' \in [Conn -> Seq(Msg)]
<1>1. MessagesToServer \in [Conn -> Seq(Msg)]
  BY DEF TypeOK
<1>2. MessagesToServer' = [MessagesToServer EXCEPT ![c] = @ \o msgs]
  BY DEF AddMessagesToServer
<1>3. CASE c \in Conn
  <2>1. MessagesToServer[c] \o msgs \in Seq(Msg)
    BY <1>1, <1>3
  <2> QED BY <1>1, <1>2, <2>1
<1>4. CASE c \notin Conn
  BY <1>1, <1>2, <1>4
<1> QED BY <1>3, <1>4

LEMMA Texts ==
  /\ <<"ACK_Status">> \in Seq(Msg) /\ <<"Debug">> \in Seq(Msg) /\ <<"StartCar">> \in Seq(Msg)
  /\ <<"StartCar", "ACK_Status">> \in Seq(Msg)
  BY DEF Msg

LEMMA Wires ==
  ASSUME TypeOK, NEW st \in Status, NEW cs, SendStatus(st, cs)
  PROVE  wire' \in [Conn -> Seq(Status)]
<1>1. wire \in [Conn -> Seq(Status)]
  BY DEF TypeOK
<1>2. wire' = [c \in Conn |-> IF c \in cs THEN Append(wire[c], st) ELSE wire[c]]
  BY DEF SendStatus
<1>3. \A c \in Conn : Append(wire[c], st) \in Seq(Status)
  BY <1>1
<1> QED BY <1>1, <1>2, <1>3

\* A text is cut off the wire.
LEMMA Cuts ==
  ASSUME TypeOK, NEW c \in Conn, NEW n \in 1 .. MaxJoin, n <= Len(wire[c])
  PROVE  /\ SubSeq(wire[c], 1, n) \in Seq(Status)
         /\ SubSeq(wire[c], n + 1, Len(wire[c])) \in Seq(Status)
         /\ Len(SubSeq(wire[c], 1, n)) = n
         /\ Len(SubSeq(wire[c], n + 1, Len(wire[c]))) = Len(wire[c]) - n
         /\ [wire EXCEPT ![c] = SubSeq(@, n + 1, Len(@))] \in [Conn -> Seq(Status)]
<1>1. wire[c] \in Seq(Status) /\ wire \in [Conn -> Seq(Status)] /\ n \in Nat /\ n >= 1
  BY BoundAssumption DEF TypeOK
<1>2. SubSeq(wire[c], 1, n) \in Seq(Status) /\ Len(SubSeq(wire[c], 1, n)) = n
  <2>1. \A i \in 1 .. n : wire[c][i] \in Status
    BY <1>1
  <2> QED BY <1>1, <2>1, SubSeqProperties
<1>3. /\ SubSeq(wire[c], n + 1, Len(wire[c])) \in Seq(Status)
      /\ Len(SubSeq(wire[c], n + 1, Len(wire[c]))) = Len(wire[c]) - n
  <2>1. \A i \in n + 1 .. Len(wire[c]) : wire[c][i] \in Status
    BY <1>1
  <2>2. n + 1 \in Int /\ Len(wire[c]) \in Int
    BY <1>1
  <2>3. /\ SubSeq(wire[c], n + 1, Len(wire[c])) \in Seq(Status)
        /\ Len(SubSeq(wire[c], n + 1, Len(wire[c]))) =
             IF n + 1 <= Len(wire[c]) THEN Len(wire[c]) - (n + 1) + 1 ELSE 0
    BY <2>1, <2>2, SubSeqProperties
  <2> QED BY <1>1, <2>3
<1> QED BY <1>1, <1>2, <1>3

LEMMA ThreadTypes ==
  ASSUME Typed, NEW c \in Conn,
         \/ Connect(c) \/ ConnectFails(c) \/ ReceiveWholeMsg(c) \/ ReceiveSpoilt(c)
         \/ AddMessageToPage(c) \/ Drop(c)
  PROVE  TypeOK'
<1> USE DEF Typed
<1>1. CASE Connect(c)
  <2>1. wire' \in [Conn -> Seq(Status)]
    BY <1>1, Wires DEF Connect, TypeOK
  <2> QED BY <1>1, <2>1 DEF Connect, cacheVars, inbox, history, requests, arrivals, TypeOK
<1>2. CASE ConnectFails(c)
  <2>1. conn' \in [Conn -> {"none", "connecting", "open", "dropped", "dead"}]
    BY <1>2 DEF ConnectFails, TypeOK
  <2>2. sessions' \in Seq(Conn) /\ loggedIn' \in BOOLEAN
    <3>1. sessions' = << >> /\ (loggedIn' <=> FALSE)
      BY <1>2 DEF ConnectFails
    <3>2. sessions' \in Seq(Conn)
      BY <3>1
    <3>3. loggedIn' \in BOOLEAN
      BY <1>2 DEF ConnectFails
    <3> QED BY <3>2, <3>3
  <2>3. page' \in [Tab -> [open : BOOLEAN, lblSrvrStatus : {"Waiting"} \union Status,
                           lblMessageStatus : {"none", "staged", "sent"}]]
    BY <1>2 DEF ConnectFails, NoPage
  <2> QED BY <1>2, <2>1, <2>2, <2>3 DEF ConnectFails, cacheVars, inbox, history, requests,
       arrivals, TypeOK
<1>3. CASE ReceiveWholeMsg(c)
  <2>1. held' \in [Conn -> Seq(Status)] /\ wire' \in [Conn -> Seq(Status)]
    BY <1>3, Cuts DEF ReceiveWholeMsg, TypeOK
  <2>2. MessagesToServer' \in [Conn -> Seq(Msg)]
    BY <1>3, Queues, Texts DEF ReceiveWholeMsg
  <2> QED BY <1>3, <2>1, <2>2 DEF ReceiveWholeMsg, history, requests, arrivals, TypeOK
<1>4. CASE ReceiveSpoilt(c)
  <2>1. wire' \in [Conn -> Seq(Status)]
    BY <1>4, Cuts DEF ReceiveSpoilt
  <2> QED BY <1>4, <2>1 DEF ReceiveSpoilt, history, requests, arrivals, TypeOK
<1>5. CASE AddMessageToPage(c)
  <2>1. held' \in [Conn -> Seq(Status)] /\ MessageToPage' \in [Conn -> Seq(Status)]
    BY <1>5 DEF AddMessageToPage, Overwrite, TypeOK
  <2> QED BY <1>5, <2>1 DEF AddMessageToPage, history, requests, arrivals, TypeOK
<1>6. CASE Drop(c)
  BY <1>6 DEF Drop, cacheVars, inbox, history, requests, arrivals, TypeOK
<1> QED BY <1>1, <1>2, <1>3, <1>4, <1>5, <1>6

LEMMA TimerTypes ==
  ASSUME Typed, NEW c \in Conn, NEW k \in Callback,
         ReadMsgForServer(c, k) \/ RemoveAt(c, k) \/ Send(c, k)
  PROVE  TypeOK'
<1> USE DEF Typed
<1>1. /\ MessagesToServer \in [Conn -> Seq(Msg)]
      /\ callback \in [Conn -> [Callback -> [at : {"idle", "read", "removed"}, msg : Msg]]]
  BY DEF TypeOK
<1>2. Idle \in [at : {"idle", "read", "removed"}, msg : Msg]
  BY DEF Idle, Msg
<1>3. CASE ReadMsgForServer(c, k)
  <2>1. Oldest(MessagesToServer[c]) \in Msg
    BY <1>1, <1>3 DEF ReadMsgForServer, Oldest
  <2>2. callback' \in [Conn -> [Callback -> [at : {"idle", "read", "removed"}, msg : Msg]]]
    BY <1>1, <1>3, <2>1 DEF ReadMsgForServer
  <2> QED BY <1>3, <2>2 DEF ReadMsgForServer, inbox, history, requests, arrivals, TypeOK
<1>4. CASE RemoveAt(c, k)
  <2>1. MessagesToServer' \in [Conn -> Seq(Msg)]
    <3>1. MessagesToServer[c] # << >> => Tail(MessagesToServer[c]) \in Seq(Msg)
      BY <1>1
    <3> QED BY <1>1, <1>4, <3>1 DEF RemoveAt
  <2>2. callback' \in [Conn -> [Callback -> [at : {"idle", "read", "removed"}, msg : Msg]]]
    <3>1. CASE callback' = [callback EXCEPT ![c][k] = Idle]
      BY <1>1, <1>2, <3>1
    <3>2. CASE callback' = [callback EXCEPT ![c][k].at = "removed"]
      <4>1. [callback[c][k] EXCEPT !.at = "removed"] \in [at : {"idle", "read", "removed"}, msg : Msg]
        <5> DEFINE e == callback[c][k]
        <5>1. e \in [at : {"idle", "read", "removed"}, msg : Msg]
          BY <1>1
        <5> HIDE DEF e
        <5>2. [e EXCEPT !.at = "removed"] \in [at : {"idle", "read", "removed"}, msg : Msg]
          BY <5>1
        <5> QED BY <5>2 DEF e
      <4>2. callback' = [callback EXCEPT ![c][k] = [callback[c][k] EXCEPT !.at = "removed"]]
        BY <1>1, <3>2
      <4> QED BY <1>1, <4>1, <4>2
    <3> QED BY <1>4, <3>1, <3>2 DEF RemoveAt
  <2> QED BY <1>4, <2>1, <2>2 DEF RemoveAt, inbox, history, requests, arrivals, TypeOK
<1>5. CASE Send(c, k)
  <2>1. callback' \in [Conn -> [Callback -> [at : {"idle", "read", "removed"}, msg : Msg]]]
    BY <1>1, <1>2, <1>5 DEF Send
  <2>2. starts' \in Nat /\ spoilt' \in Nat
    BY <1>5 DEF Send, arrivals, TypeOK
  <2> QED BY <1>5, <2>1, <2>2 DEF Send, inbox, requests, TypeOK
<1> QED BY <1>3, <1>4, <1>5

LEMMA PageTypes ==
  ASSUME Typed, NEW t \in Tab,
         \/ Load(t) \/ Close(t) \/ btnStartTheCar_Click(t) \/ btnHalt_Click(t)
         \/ timUpdateMe_Tick(t)
  PROVE  TypeOK'
<1> USE DEF Typed
<1> DEFINE Page == [open : BOOLEAN, lblSrvrStatus : {"Waiting"} \union Status,
                    lblMessageStatus : {"none", "staged", "sent"}]
<1>1. page \in [Tab -> Page] /\ {MaxLoads, MaxClicks} \subseteq Nat
  BY BoundAssumption DEF TypeOK
<1>2. CASE Load(t)
  <2>1. loads' \in Conn /\ loads' \in 0 .. MaxLoads
    BY <1>1, <1>2 DEF Load, TypeOK, Conn
  <2>2. sessions' \in Seq(Conn)
    BY <1>2, <2>1 DEF Load, TypeOK
  <2>3. page' \in [Tab -> Page]
    BY <1>1, <1>2 DEF Load, NoPage, TypeOK
  <2> QED BY <1>2, <2>1, <2>2, <2>3 DEF Load, cacheVars, inbox, arrivals, TypeOK
<1>3. CASE Close(t)
  <2>1. page' \in [Tab -> Page]
    BY <1>1, <1>3 DEF Close, NoPage
  <2> QED BY <1>3, <2>1 DEF Close, cacheVars, inbox, history, requests, arrivals, TypeOK
<1>4. CASE btnStartTheCar_Click(t)
  <2>1. clicks' \in 0 .. MaxClicks
    BY <1>1, <1>4 DEF btnStartTheCar_Click, TypeOK
  <2>2. asked' \in 0 .. MaxClicks
    BY <1>1, <1>4 DEF btnStartTheCar_Click, TypeOK
  <2>3. page' \in [Tab -> Page]
    BY <1>1, <1>4 DEF btnStartTheCar_Click
  <2>4. MessagesToServer' \in [Conn -> Seq(Msg)]
    BY <1>4, Queues, Texts DEF btnStartTheCar_Click, TypeOK
  <2>5. sent' \in Nat
    BY <1>4 DEF btnStartTheCar_Click, TypeOK
  <2>6. asked' \in 0 .. clicks'
    BY <1>4 DEF btnStartTheCar_Click, TypeOK
  <2>7. /\ UNCHANGED <<sessions, conn, wire, held, lastText, MessageToPage, callback>>
        /\ UNCHANGED <<loggedIn, rpi, loads, starts, spoilt, informed>>
    BY <1>4 DEF btnStartTheCar_Click, inbox, arrivals
  <2> QED BY <2>1, <2>3, <2>4, <2>5, <2>6, <2>7 DEF TypeOK
<1>5. CASE btnHalt_Click(t)
  <2>1. clicks' \in 0 .. MaxClicks
    BY <1>1, <1>5 DEF btnHalt_Click, TypeOK
  <2>2. MessagesToServer' \in [Conn -> Seq(Msg)]
    BY <1>5, Queues, Texts DEF btnHalt_Click
  <2> QED BY <1>5, <2>1, <2>2 DEF btnHalt_Click, inbox, arrivals, TypeOK
<1>6. CASE timUpdateMe_Tick(t)
  <2>1. MyCache \in Conn
    BY <1>6, CacheFound DEF timUpdateMe_Tick, PagesHaveCache
  <2>2. MessagesToServer' \in [Conn -> Seq(Msg)]
    BY <1>6, Queues, Texts DEF timUpdateMe_Tick
  <2>3. MessageToPage' \in [Conn -> Seq(Status)]
    BY <1>6, <2>1 DEF timUpdateMe_Tick, TypeOK
  <2>4. MessageToPage[MyCache] # << >> => Shown(MessageToPage[MyCache]) \in Status
    BY <2>1 DEF TypeOK, Shown
  <2>5. page' \in [Tab -> Page]
    BY <1>1, <1>6, <2>4 DEF timUpdateMe_Tick, Status, AfterSending
  <2>6. sent' \in Nat
    BY <1>6 DEF timUpdateMe_Tick, TypeOK
  <2>7. informed' \in SUBSET Tab
    BY <1>6 DEF timUpdateMe_Tick, TypeOK
  <2> QED BY <1>6, <2>2, <2>3, <2>5, <2>6, <2>7 DEF timUpdateMe_Tick, inbox, arrivals, TypeOK
<1> QED BY <1>2, <1>3, <1>4, <1>5, <1>6

\* The session keeps a cache for its pages until the process ends.
LEMMA CachesKept ==
  ASSUME Typed, [Next]_vars
  PROVE  PagesHaveCache'
<1> USE DEF Typed
<1> DEFINE Page == [open : BOOLEAN, lblSrvrStatus : {"Waiting"} \union Status,
                    lblMessageStatus : {"none", "staged", "sent"}]
<1>1. page \in [Tab -> Page] /\ sessions \in Seq(Conn)
  BY DEF TypeOK
<1>2. ASSUME NEW t \in Tab, Load(t)
      PROVE  PagesHaveCache'
  <2>1. sessions' = Append(sessions, loads')
    BY <1>2 DEF Load
  <2>2. sessions' # << >>
    BY <1>1, <2>1
  <2> QED BY <2>2 DEF PagesHaveCache
<1>3. ASSUME NEW c \in Conn, ConnectFails(c)
      PROVE  PagesHaveCache'
  BY <1>3 DEF ConnectFails, NoPage, PagesHaveCache
<1>4. ASSUME sessions' = sessions, \A t \in Tab : page'[t].open => page[t].open
      PROVE  PagesHaveCache'
  BY <1>4 DEF PagesHaveCache
<1>5. ASSUME NEW t \in Tab, btnStartTheCar_Click(t) \/ btnHalt_Click(t) \/ timUpdateMe_Tick(t)
      PROVE  PagesHaveCache'
  <2>1. sessions' = sessions
    BY <1>5 DEF btnStartTheCar_Click, btnHalt_Click, timUpdateMe_Tick
  <2>2. page[t].open
    BY <1>5 DEF btnStartTheCar_Click, btnHalt_Click, timUpdateMe_Tick
  <2> QED BY <2>1, <2>2 DEF PagesHaveCache
<1>6. ASSUME NEW t \in Tab, Close(t)
      PROVE  PagesHaveCache'
  BY <1>4, <1>6 DEF Close, NoPage
<1>7. ASSUME NEW c \in Conn, \/ Connect(c) \/ ReceiveWholeMsg(c) \/ ReceiveSpoilt(c)
                             \/ AddMessageToPage(c) \/ Drop(c)
      PROVE  PagesHaveCache'
  BY <1>4, <1>7 DEF Connect, ReceiveWholeMsg, ReceiveSpoilt, AddMessageToPage, Drop
<1>8. ASSUME NEW c \in Conn, SendTimer(c)
      PROVE  PagesHaveCache'
  BY <1>4, <1>8 DEF SendTimer, ReadMsgForServer, RemoveAt, Send
<1>9. ASSUME \/ UNCHANGED vars \/ btnLogIn_Click \/ \E st \in Status : Broadcast(st)
      PROVE  PagesHaveCache'
  BY <1>4, <1>9 DEF vars, btnLogIn_Click, Broadcast
<1> QED BY <1>2, <1>3, <1>5, <1>6, <1>7, <1>8, <1>9 DEF Next

LEMMA TypedInductive == ASSUME Typed, [Next]_vars PROVE Typed'
<1>1. CASE UNCHANGED vars
  BY <1>1 DEF vars, cacheVars, inbox, history, requests, arrivals, Typed, TypeOK, PagesHaveCache
<1>2. CASE btnLogIn_Click
  <2>1. TypeOK'
    BY <1>2 DEF btnLogIn_Click, cacheVars, inbox, history, requests, arrivals, Typed, TypeOK
  <2> QED BY <2>1, CachesKept DEF Typed
<1>3. ASSUME NEW st \in Status, Broadcast(st)
      PROVE  TypeOK'
  <2>1. wire' \in [Conn -> Seq(Status)]
    BY <1>3, Wires DEF Broadcast, Typed
  <2> QED BY <1>3, <2>1 DEF Broadcast, cacheVars, inbox, history, requests, arrivals, Typed, TypeOK
<1> QED BY <1>1, <1>2, <1>3, ThreadTypes, TimerTypes, PageTypes, CachesKept
     DEF Next, SendTimer, Typed

LEMMA InitTyped == Init => Typed
<1> SUFFICES ASSUME Init PROVE Typed
  OBVIOUS
<1> USE DEF Init
<1>1. sessions \in Seq(Conn)
  OBVIOUS
<1>2. /\ wire \in [Conn -> Seq(Status)] /\ held \in [Conn -> Seq(Status)]
      /\ MessageToPage \in [Conn -> Seq(Status)] /\ MessagesToServer \in [Conn -> Seq(Msg)]
  OBVIOUS
<1>3. callback \in [Conn -> [Callback -> [at : {"idle", "read", "removed"}, msg : Msg]]]
  BY DEF Idle, Msg
<1>4. page \in [Tab -> [open : BOOLEAN, lblSrvrStatus : {"Waiting"} \union Status,
                        lblMessageStatus : {"none", "staged", "sent"}]]
  BY DEF NoPage
<1>5. loggedIn \in BOOLEAN
  OBVIOUS
<1>6. /\ loads \in 0 .. MaxLoads /\ clicks \in 0 .. MaxClicks /\ asked \in 0 .. clicks
      /\ sent \in Nat /\ starts \in Nat /\ spoilt \in Nat
  BY BoundAssumption
<1>7. conn \in [Conn -> {"none", "connecting", "open", "dropped", "dead"}] /\ rpi \in Status
  BY DEF Status
<1>8. lastText \in [Conn -> {"even", "mixed", "lost"}] /\ informed \in SUBSET Tab
  OBVIOUS
<1>9. PagesHaveCache
  BY DEF PagesHaveCache, NoPage
<1> QED BY <1>1, <1>2, <1>3, <1>4, <1>5, <1>6, <1>7, <1>8, <1>9 DEF Typed, TypeOK

\* Every variable of the session keeps its type, for any number of tabs and callbacks: a
\* page that is shown always finds its cache.
THEOREM TypeCorrect == Spec => []TypeOK
<1>1. Init => Typed
  BY InitTyped
<1>2. Typed /\ [Next]_vars => Typed'
  BY TypedInductive
<1>3. Typed => TypeOK
  BY DEF Typed
<1> QED BY <1>1, <1>2, <1>3, PTL DEF Spec

-----------------------------------------------------------------------------
(* A start is sent at most once by each callback.                          *)

Callbacks == Cardinality(Callback)

Queued(q) ==
  {p \in Conn \X (1 .. MaxQueue + 1) : p[2] <= Len(q[p[1]]) /\ q[p[1]][p[2]] = "StartCar"}
Taken(cb) ==
  {p \in Conn \X Callback : cb[p[1]][p[2]].at # "idle" /\ cb[p[1]][p[2]].msg = "StartCar"}
Reading(cb, q) ==
  {p \in Conn \X Callback : /\ cb[p[1]][p[2]].at = "read"
                            /\ q[p[1]] # << >> /\ Head(q[p[1]]) = "StartCar"}
Staged(pages) == {t \in Tab : pages[t].lblMessageStatus = "staged"}

LEMMA Numbers ==
  ASSUME NEW q, NEW cb, NEW pages
  PROVE  /\ IsFiniteSet(Queued(q)) /\ Cardinality(Queued(q)) \in Nat
         /\ IsFiniteSet(Taken(cb)) /\ Cardinality(Taken(cb)) \in Nat
         /\ IsFiniteSet(Reading(cb, q)) /\ Cardinality(Reading(cb, q)) \in Nat
         /\ IsFiniteSet(Staged(pages)) /\ Cardinality(Staged(pages)) \in Nat
         /\ Callbacks \in Nat
<1>1. MaxLoads \in Nat /\ MaxQueue + 1 \in Nat
  BY BoundAssumption
<1>2. IsFiniteSet(Conn) /\ IsFiniteSet(1 .. MaxQueue + 1)
  BY <1>1, FS_Interval DEF Conn
<1>3. IsFiniteSet(Conn \X (1 .. MaxQueue + 1)) /\ IsFiniteSet(Conn \X Callback)
  BY <1>2, FiniteAssumption, FS_Product
<1>4. /\ Queued(q) \subseteq Conn \X (1 .. MaxQueue + 1)
      /\ Taken(cb) \subseteq Conn \X Callback
      /\ Reading(cb, q) \subseteq Conn \X Callback
      /\ Staged(pages) \subseteq Tab
  BY DEF Queued, Taken, Reading, Staged
<1>5. /\ IsFiniteSet(Queued(q)) /\ IsFiniteSet(Taken(cb)) /\ IsFiniteSet(Reading(cb, q))
      /\ IsFiniteSet(Staged(pages))
  BY <1>3, <1>4, FiniteAssumption, FS_Subset
<1>6. Callbacks \in Nat
  BY FiniteAssumption, FS_CardinalityType DEF Callbacks
<1> QED BY <1>5, <1>6, FS_CardinalityType

LEMMA Times ==
  ASSUME NEW n \in Nat, NEW a \in Nat, NEW b \in Nat
  PROVE  /\ n * a \in Nat
         /\ a <= b => n * a <= n * b
         /\ a <= b + 1 => n * a <= n * b + n
         /\ a <= b - 1 => n * a <= n * b - n
<1>1. n * a \in Nat /\ n * b \in Nat
  OBVIOUS
<1>2. ASSUME NEW x \in Nat, NEW y \in Nat, x <= y
      PROVE  n * x <= n * y
  <2>1. PICK z \in Nat : y = x + z
    <3>1. y - x \in Nat /\ y = x + (y - x)
      BY <1>2
    <3> QED BY <3>1
  <2>2. n * y = n * x + n * z /\ n * z \in Nat /\ n * x \in Nat
    BY <2>1
  <2> QED BY <2>2
<1>3. n * (b + 1) = n * b + n /\ n * (a + 1) = n * a + n
  OBVIOUS
<1>4. a <= b + 1 => n * a <= n * (b + 1)
  BY <1>2
<1>5. a <= b - 1 => n * (a + 1) <= n * b
  BY <1>2
<1> QED BY <1>1, <1>2, <1>3, <1>4, <1>5

\* Messages of which at most the first is a start add at most that one.
LEMMA Appended ==
  ASSUME NEW q \in [Conn -> Seq(Msg)], NEW c \in Conn, NEW msgs \in Seq(Msg),
         \A i \in 2 .. Len(msgs) : msgs[i] # "StartCar",
         NEW r, r = [q EXCEPT ![c] = q[c] \o msgs]
  PROVE  /\ Cardinality(Queued(r)) <= Cardinality(Queued(q)) + 1
         /\ msgs[1] # "StartCar" => Cardinality(Queued(r)) <= Cardinality(Queued(q))
<1> DEFINE new == <<c, Len(q[c]) + 1>>
<1>1. ASSUME NEW p \in Queued(r), p \notin Queued(q)
      PROVE  p = new /\ msgs[1] = "StartCar"
  <2>1. /\ p \in Conn \X (1 .. MaxQueue + 1) /\ p[1] \in Conn /\ p[2] \in 1 .. MaxQueue + 1
        /\ p[2] <= Len(r[p[1]]) /\ r[p[1]][p[2]] = "StartCar"
        /\ p = <<p[1], p[2]>>
    BY DEF Queued
  <2>2. p[1] = c
    <3>1. p[1] # c => r[p[1]] = q[p[1]]
      BY <2>1
    <3> QED BY <1>1, <2>1, <3>1 DEF Queued
  <2> DEFINE i == p[2]
             s == q[c]
  <2>3. s \in Seq(Msg) /\ Len(s) \in Nat /\ i \in Nat /\ i >= 1
    BY <2>1, BoundAssumption
  <2>4. i <= Len(s \o msgs) /\ (s \o msgs)[i] = "StartCar"
    BY <2>1, <2>2
  <2>5. ~(i <= Len(s) /\ s[i] = "StartCar")
    BY <1>1, <2>1, <2>2 DEF Queued
  <2> HIDE DEF i, s
  <2>6. i > Len(s) /\ i - Len(s) \in 1 .. Len(msgs) /\ msgs[i - Len(s)] = "StartCar"
    BY <2>3, <2>4, <2>5
  <2>7. i - Len(s) = 1
    BY <2>3, <2>6
  <2>8. i = Len(s) + 1 /\ msgs[1] = "StartCar"
    BY <2>3, <2>6, <2>7
  <2> QED BY <2>1, <2>2, <2>8 DEF i, s
<1> HIDE DEF new
<1>2. IsFiniteSet(Queued(q)) /\ Cardinality(Queued(q)) \in Nat /\ Cardinality(Queued(r)) \in Nat
  BY Numbers
<1>3. IsFiniteSet(Queued(q) \union {new}) /\ Cardinality(Queued(q) \union {new}) <= Cardinality(Queued(q)) + 1
  <2> DEFINE Q == Queued(q)
  <2>1. IsFiniteSet(Q) /\ Cardinality(Q) \in Nat
    BY <1>2
  <2> HIDE DEF Q
  <2>2. /\ IsFiniteSet(Q \union {new})
        /\ Cardinality(Q \union {new}) = IF new \in Q THEN Cardinality(Q) ELSE Cardinality(Q) + 1
    BY <2>1, FS_AddElement
  <2>3. Cardinality(Q \union {new}) <= Cardinality(Q) + 1
    BY <2>1, <2>2
  <2> QED BY <2>2, <2>3 DEF Q
<1>4. Queued(r) \subseteq Queued(q) \union {new}
  BY <1>1
<1>5. Cardinality(Queued(r)) <= Cardinality(Queued(q) \union {new})
  BY <1>3, <1>4, FS_Subset
<1>6. ASSUME msgs[1] # "StartCar"
      PROVE  Cardinality(Queued(r)) <= Cardinality(Queued(q))
  <2>1. Queued(r) \subseteq Queued(q)
    BY <1>1, <1>6
  <2> QED BY <1>2, <2>1, FS_Subset
<1>7. Cardinality(Queued(q) \union {new}) \in Nat
  BY <1>3, FS_CardinalityType
<1> QED BY <1>2, <1>3, <1>5, <1>6, <1>7

\* A start that is taken off a queue is in it no longer.
LEMMA TakenOff ==
  ASSUME NEW q \in [Conn -> Seq(Msg)], NEW c \in Conn, q[c] # << >>,
         Len(q[c]) <= MaxQueue + 1,
         NEW r, r = [q EXCEPT ![c] = Tail(q[c])]
  PROVE  /\ Cardinality(Queued(r)) <= Cardinality(Queued(q))
         /\ Head(q[c]) = "StartCar" => Cardinality(Queued(r)) <= Cardinality(Queued(q)) - 1
<1> DEFINE first == <<c, 1>>
           rest  == Queued(q) \ {first}
           shift == [p \in Queued(r) |-> IF p[1] = c THEN <<c, p[2] + 1>> ELSE p]
<1>1. /\ q[c] \in Seq(Msg) /\ Len(q[c]) \in Nat /\ Len(q[c]) >= 1 /\ MaxQueue \in Nat
      /\ Len(Tail(q[c])) = Len(q[c]) - 1
      /\ \A i \in 1 .. Len(q[c]) - 1 : Tail(q[c])[i] = q[c][i + 1]
      /\ Head(q[c]) = q[c][1]
  BY BoundAssumption
<1>2. ASSUME NEW p \in Queued(r)
      PROVE  /\ p[1] \in Conn /\ p[2] \in Nat /\ p[2] >= 1 /\ p = <<p[1], p[2]>>
             /\ shift[p] \in rest
  <2>1. /\ p[1] \in Conn /\ p[2] \in 1 .. MaxQueue + 1 /\ p = <<p[1], p[2]>>
        /\ p[2] <= Len(r[p[1]]) /\ r[p[1]][p[2]] = "StartCar"
    BY DEF Queued
  <2>2. p[2] \in Nat /\ p[2] >= 1
    BY <1>1, <2>1
  <2>3. CASE p[1] # c
    <3>1. r[p[1]] = q[p[1]]
      BY <2>1, <2>3
    <3>2. p \in Queued(q) /\ p # first
      BY <2>1, <2>3, <3>1 DEF Queued
    <3> QED BY <2>1, <2>2, <2>3, <3>2
  <2>4. CASE p[1] = c
    <3>1. r[c] = Tail(q[c])
      OBVIOUS
    <3>2. p[2] <= Len(q[c]) - 1 /\ Tail(q[c])[p[2]] = "StartCar"
      BY <1>1, <2>1, <2>4, <3>1
    <3>3. q[c][p[2] + 1] = "StartCar"
      BY <1>1, <2>2, <3>2
    <3>4. p[2] + 1 \in 1 .. MaxQueue + 1 /\ p[2] + 1 <= Len(q[c]) /\ p[2] + 1 # 1
      BY <1>1, <2>2, <3>2
    <3>5. <<c, p[2] + 1>> \in Queued(q) /\ <<c, p[2] + 1>> # first
      BY <3>3, <3>4 DEF Queued
    <3>6. shift[p] = <<c, p[2] + 1>>
      BY <2>4
    <3> QED BY <2>1, <2>2, <3>5, <3>6
  <2> QED BY <2>3, <2>4
<1>3. ASSUME NEW p1 \in Queued(r), NEW p2 \in Queued(r), shift[p1] = shift[p2]
      PROVE  p1 = p2
  <2>1. /\ p1 = <<p1[1], p1[2]>> /\ p2 = <<p2[1], p2[2]>>
        /\ p1[2] \in Nat /\ p2[2] \in Nat
    BY <1>2
  <2>2. /\ shift[p1] = IF p1[1] = c THEN <<c, p1[2] + 1>> ELSE p1
        /\ shift[p2] = IF p2[1] = c THEN <<c, p2[2] + 1>> ELSE p2
    OBVIOUS
  <2>3. shift[p1][1] = p1[1] /\ shift[p2][1] = p2[1]
    BY <2>2
  <2>4. p1[1] = p2[1]
    BY <1>3, <2>3
  <2>5. CASE p1[1] = c
    <3>1. shift[p1] = <<c, p1[2] + 1>> /\ shift[p2] = <<c, p2[2] + 1>>
      BY <2>2, <2>4, <2>5
    <3>2. p1[2] + 1 = p2[2] + 1
      BY <1>3, <3>1
    <3>3. p1[2] = p2[2]
      BY <2>1, <3>2
    <3> QED BY <2>1, <2>4, <3>3
  <2>6. CASE p1[1] # c
    BY <1>3, <2>2, <2>4, <2>6
  <2> QED BY <2>5, <2>6
<1>4. shift \in Injection(Queued(r), rest)
  <2>1. shift \in [Queued(r) -> rest]
    BY <1>2
  <2> QED BY <1>3, <2>1, Fun_IsInj
<1>5. IsFiniteSet(Queued(q)) /\ Cardinality(Queued(q)) \in Nat
  BY Numbers
<1>6. /\ IsFiniteSet(rest)
      /\ Cardinality(rest) = IF first \in Queued(q) THEN Cardinality(Queued(q)) - 1
                             ELSE Cardinality(Queued(q))
  BY <1>5, FS_RemoveElement
<1>7. Head(q[c]) = "StartCar" => first \in Queued(q)
  BY <1>1 DEF Queued
<1> HIDE DEF shift, rest, first
<1>8. Cardinality(Queued(r)) <= Cardinality(rest)
  BY <1>4, <1>6, FS_Injection
<1>9. Cardinality(Queued(r)) \in Nat
  BY Numbers
<1> QED BY <1>5, <1>6, <1>7, <1>8, <1>9

\* Every callback that reads a start at the head of its queue reads one that is queued.
LEMMA ReadersFew ==
  ASSUME NEW q \in [Conn -> Seq(Msg)], NEW cb
  PROVE  Cardinality(Reading(cb, q)) <= Callbacks * Cardinality(Queued(q))
<1> DEFINE P == Queued(q) \X Callback
           first == [p \in Reading(cb, q) |-> << <<p[1], 1>>, p[2]>>]
<1>1. ASSUME NEW p \in Reading(cb, q)
      PROVE  p = <<p[1], p[2]>> /\ first[p] \in P
  <2>1. /\ p[1] \in Conn /\ p[2] \in Callback /\ p = <<p[1], p[2]>>
        /\ q[p[1]] # << >> /\ Head(q[p[1]]) = "StartCar"
    BY DEF Reading
  <2>2. 1 \in 1 .. MaxQueue + 1
    BY BoundAssumption
  <2>3. 1 <= Len(q[p[1]]) /\ q[p[1]][1] = "StartCar"
    BY <2>1
  <2>4. <<p[1], 1>> \in Queued(q)
    BY <2>1, <2>2, <2>3 DEF Queued
  <2> QED BY <2>1, <2>4
<1>2. ASSUME NEW p1 \in Reading(cb, q), NEW p2 \in Reading(cb, q), first[p1] = first[p2]
      PROVE  p1 = p2
  <2>1. << <<p1[1], 1>>, p1[2]>> = << <<p2[1], 1>>, p2[2]>>
    BY <1>2
  <2>2. p1[1] = p2[1] /\ p1[2] = p2[2]
    BY <2>1
  <2> QED BY <1>1, <2>2
<1>3. first \in Injection(Reading(cb, q), P)
  <2>1. first \in [Reading(cb, q) -> P]
    BY <1>1
  <2> QED BY <1>2, <2>1, Fun_IsInj
<1>4. IsFiniteSet(P) /\ Cardinality(P) = Cardinality(Queued(q)) * Callbacks
  BY Numbers, FiniteAssumption, FS_Product DEF Callbacks
<1> HIDE DEF P, first
<1>5. Cardinality(Reading(cb, q)) <= Cardinality(P)
  BY <1>3, <1>4, FS_Injection
<1>6. Cardinality(Queued(q)) * Callbacks = Callbacks * Cardinality(Queued(q))
  BY Numbers
<1> QED BY <1>4, <1>5, <1>6

\* A start is taken off a queue under at most so many readers.
LEMMA ReadersLeft ==
  ASSUME NEW c \in Conn, NEW cb, NEW cb1, NEW q, NEW q1,
         Reading(cb, q) \subseteq Reading(cb1, q1) \union ({c} \X Callback)
  PROVE  Cardinality(Reading(cb, q)) <= Cardinality(Reading(cb1, q1)) + Callbacks
<1> DEFINE P == {c} \X Callback
           R == Reading(cb1, q1)
<1>1. IsFiniteSet(P) /\ Cardinality(P) = Callbacks
  <2>1. IsFiniteSet({c}) /\ Cardinality({c}) = 1
    BY FS_Singleton
  <2>2. IsFiniteSet(P) /\ Cardinality(P) = Cardinality({c}) * Cardinality(Callback)
    BY <2>1, FiniteAssumption, FS_Product
  <2>3. Callbacks = 1 * Callbacks
    <3>1. Callbacks \in Nat
      BY Numbers
    <3> QED BY <3>1
  <2> QED BY <2>1, <2>2, <2>3 DEF Callbacks
<1>2. IsFiniteSet(R) /\ Cardinality(R) \in Nat /\ Callbacks \in Nat
      /\ Cardinality(Reading(cb, q)) \in Nat
  BY Numbers
<1> HIDE DEF P, R
<1>3. /\ IsFiniteSet(R \union P)
      /\ Cardinality(R \union P) = Cardinality(R) + Cardinality(P) - Cardinality(R \cap P)
  BY <1>1, <1>2, FS_Union
<1>4. Cardinality(R \cap P) \in Nat
  <2>1. IsFiniteSet(R \cap P)
    BY <1>2, FS_Subset
  <2> QED BY <2>1, FS_CardinalityType
<1>5. Cardinality(Reading(cb, q)) <= Cardinality(R \union P)
  BY <1>3, FS_Subset DEF R, P
<1>6. Cardinality(R \union P) <= Cardinality(R) + Callbacks
  BY <1>1, <1>2, <1>3, <1>4
<1>7. Cardinality(R \union P) \in Nat
  BY <1>3, FS_CardinalityType
<1>8. Cardinality(Reading(cb, q)) <= Cardinality(R) + Callbacks
  BY <1>2, <1>5, <1>6, <1>7
<1> QED BY <1>8 DEF R

LEMMA Counts ==
  StartsCounted <=>
    /\ \A c \in Conn : Len(MessagesToServer[c]) <= MaxQueue + 1
    /\ Callbacks * (Cardinality(Staged(page)) + Cardinality(Queued(MessagesToServer)))
         + Cardinality(Taken(callback)) + starts + spoilt
           <= Callbacks * asked + Cardinality(Reading(callback, MessagesToServer))
<1>1. /\ StagedTabs = Staged(page) /\ QueuedStarts = Queued(MessagesToServer)
      /\ TakenStarts = Taken(callback) /\ ReadingStarts = Reading(callback, MessagesToServer)
  BY DEF StagedTabs, Staged, QueuedStarts, Queued, TakenStarts, Taken, ReadingStarts, Reading
<1> QED BY <1>1 DEF StartsCounted, Callbacks

\* A call that writes the queue adds one start at most, an acknowledgement adds none.
LEMMA Adds ==
  ASSUME Typed, StartsCounted, NEW c \in Conn,
         NEW msgs \in {<<"ACK_Status">>, <<"Debug">>, <<"StartCar">>,
                       <<"StartCar", "ACK_Status">>},
         AddMessagesToServer(c, msgs)
  PROVE  /\ \A d \in Conn : Len(MessagesToServer'[d]) <= MaxQueue + 1
         /\ Cardinality(Queued(MessagesToServer')) <= Cardinality(Queued(MessagesToServer)) + 1
         /\ msgs \in {<<"ACK_Status">>, <<"Debug">>} =>
              Cardinality(Queued(MessagesToServer')) <= Cardinality(Queued(MessagesToServer))
<1>1. /\ MessagesToServer \in [Conn -> Seq(Msg)] /\ Len(MessagesToServer[c]) < MaxQueue
      /\ MessagesToServer' = [MessagesToServer EXCEPT ![c] = MessagesToServer[c] \o msgs]
      /\ MaxQueue \in Nat
  BY BoundAssumption DEF Typed, TypeOK, AddMessagesToServer
<1>2. msgs \in Seq(Msg)
  BY Texts
<1>3. Len(msgs) \in 1 .. 2
  OBVIOUS
<1>4. \A i \in 2 .. Len(msgs) : msgs[i] # "StartCar"
  OBVIOUS
<1>5. msgs \in {<<"ACK_Status">>, <<"Debug">>} => msgs[1] # "StartCar"
  OBVIOUS
<1>6. \A d \in Conn : Len(MessagesToServer'[d]) <= MaxQueue + 1
  <2>1. Len(MessagesToServer[c] \o msgs) = Len(MessagesToServer[c]) + Len(msgs)
    BY <1>1, <1>2
  <2>2. Len(MessagesToServer'[c]) <= MaxQueue + 1
    <3>1. MessagesToServer'[c] = MessagesToServer[c] \o msgs
      BY <1>1
    <3>2. Len(MessagesToServer[c]) \in Nat
      BY <1>1
    <3> DEFINE n == Len(MessagesToServer[c])
               l == Len(msgs)
    <3>3. n \in Nat /\ l \in 1 .. 2 /\ n < MaxQueue /\ MaxQueue \in Nat
      BY <1>1, <1>3, <3>2
    <3>4. Len(MessagesToServer'[c]) = n + l
      BY <2>1, <3>1
    <3> HIDE DEF n, l
    <3>5. n + l <= MaxQueue + 1
      BY <3>3
    <3> QED BY <3>4, <3>5
  <2>3. ASSUME NEW d \in Conn, d # c
        PROVE  Len(MessagesToServer'[d]) <= MaxQueue + 1
    BY <1>1, <2>3 DEF StartsCounted
  <2> QED BY <2>2, <2>3
<1> QED BY <1>1, <1>2, <1>4, <1>5, <1>6, Appended

\* A call that writes the queue waits for the callbacks that read it.
LEMMA ReadersWait ==
  ASSUME Typed, NEW c \in Conn, NEW msgs, AddMessagesToServer(c, msgs), callback' = callback
  PROVE  Reading(callback, MessagesToServer) \subseteq Reading(callback', MessagesToServer')
<1>1. MessagesToServer \in [Conn -> Seq(Msg)]
  BY DEF Typed, TypeOK
<1>2. ASSUME NEW d \in Conn, NEW k \in Callback, callback[d][k].at = "read"
      PROVE  MessagesToServer'[d] = MessagesToServer[d]
  <2>1. d # c
    BY <1>2 DEF AddMessagesToServer, CanWrite
  <2> QED BY <1>1, <2>1 DEF AddMessagesToServer
<1> QED BY <1>2 DEF Reading

\* The sum of StartsCounted, of P starts staged and queued, T taken, A asked for, R first
\* under a reader, and D arrived, is kept.
LEMMA Balance ==
  ASSUME NEW M \in Nat, NEW P \in Nat, NEW P1 \in Nat, NEW T \in Nat, NEW T1 \in Nat,
         NEW A \in Nat, NEW A1 \in Nat, NEW R \in Nat, NEW R1 \in Nat,
         NEW D \in Nat, NEW D1 \in Nat,
         M * P + T + D <= M * A + R
  PROVE  /\ P1 <= P /\ T1 + D1 + R <= T + D + R1 /\ A1 = A
              => M * P1 + T1 + D1 <= M * A1 + R1
         /\ P1 <= P + 1 /\ T1 + D1 + R <= T + D + R1 /\ A1 = A + 1
              => M * P1 + T1 + D1 <= M * A1 + R1
         /\ P1 <= P - 1 /\ T1 + D1 + R <= T + D + R1 + M /\ A1 = A
              => M * P1 + T1 + D1 <= M * A1 + R1
<1> DEFINE X == M * P
           X1 == M * P1
           Y == M * A
           Y1 == M * A1
<1>1. /\ X \in Nat /\ X1 \in Nat /\ Y \in Nat /\ Y1 \in Nat
      /\ P1 <= P => X1 <= X
      /\ P1 <= P + 1 => X1 <= X + M
      /\ P1 <= P - 1 => X1 <= X - M
      /\ A1 = A => Y1 = Y
  BY Times
<1>2. A1 = A + 1 => Y1 = Y + M
  OBVIOUS
<1>3. X + T + D <= Y + R
  OBVIOUS
<1> HIDE DEF X, X1, Y, Y1
<1>4. /\ P1 <= P /\ T1 + D1 + R <= T + D + R1 /\ A1 = A => X1 + T1 + D1 <= Y1 + R1
      /\ P1 <= P + 1 /\ T1 + D1 + R <= T + D + R1 /\ A1 = A + 1 => X1 + T1 + D1 <= Y1 + R1
      /\ P1 <= P - 1 /\ T1 + D1 + R <= T + D + R1 + M /\ A1 = A => X1 + T1 + D1 <= Y1 + R1
  BY <1>1, <1>2, <1>3
<1> QED BY <1>4 DEF X, X1, Y, Y1

LEMMA CountsKept ==
  ASSUME Typed, StartsCounted, [Next]_vars
  PROVE  StartsCounted'
<1> USE DEF Typed
<1> DEFINE S == Cardinality(Staged(page))
           Q == Cardinality(Queued(MessagesToServer))
           T == Cardinality(Taken(callback))
           R == Cardinality(Reading(callback, MessagesToServer))
           D == starts + spoilt
           S1 == Cardinality(Staged(page'))
           Q1 == Cardinality(Queued(MessagesToServer'))
           T1 == Cardinality(Taken(callback'))
           R1 == Cardinality(Reading(callback', MessagesToServer'))
           D1 == starts' + spoilt'
           asked1 == asked'
<1>1. /\ MessagesToServer \in [Conn -> Seq(Msg)]
      /\ callback \in [Conn -> [Callback -> [at : {"idle", "read", "removed"}, msg : Msg]]]
      /\ page \in [Tab -> [open : BOOLEAN, lblSrvrStatus : {"Waiting"} \union Status,
                           lblMessageStatus : {"none", "staged", "sent"}]]
      /\ starts \in Nat /\ spoilt \in Nat /\ asked \in Nat /\ clicks \in Nat
  BY DEF TypeOK
<1>2. /\ S \in Nat /\ Q \in Nat /\ T \in Nat /\ R \in Nat /\ D \in Nat /\ asked \in Nat
      /\ S1 \in Nat /\ Q1 \in Nat /\ T1 \in Nat /\ R1 \in Nat /\ Callbacks \in Nat
  <2>1. D \in Nat /\ asked \in Nat
    BY <1>1
  <2> QED BY <2>1, Numbers
<1>t. D1 \in Nat /\ asked1 \in Nat
  <2>1. TypeOK'
    BY TypedInductive
  <2>2. starts' \in Nat /\ spoilt' \in Nat /\ asked' \in 0 .. clicks' /\ clicks' \in 0 .. MaxClicks
    BY <2>1 DEF TypeOK
  <2>3. clicks' \in Nat /\ asked' \in Nat
    BY <2>2, BoundAssumption
  <2> DEFINE s1 == starts'
             p1 == spoilt'
  <2>4. s1 \in Nat /\ p1 \in Nat
    BY <2>2
  <2> HIDE DEF s1, p1
  <2>5. s1 + p1 \in Nat
    BY <2>4
  <2> QED BY <2>3, <2>5 DEF s1, p1
<1>q. \A c \in Conn : Len(MessagesToServer[c]) <= MaxQueue + 1
  BY Counts
<1>s. Callbacks * (S + Q) + T + D <= Callbacks * asked + R
  <2> DEFINE L == Callbacks * (S + Q) + T
  <2>1. L + starts + spoilt <= Callbacks * asked + R
    BY Counts
  <2>2. L \in Int
    BY <1>2
  <2> HIDE DEF L
  <2>3. L + starts + spoilt = L + D
    BY <1>1, <2>2
  <2> QED BY <2>1, <2>3 DEF L
<1>3. ASSUME starts' = starts, spoilt' = spoilt
      PROVE  D1 = D
  BY <1>3
<1>4. ASSUME \A c \in Conn : Len(MessagesToServer'[c]) <= MaxQueue + 1,
             Callbacks * (S1 + Q1) + T1 + D1 <= Callbacks * asked1 + R1
      PROVE  StartsCounted'
  <2>1. /\ StagedTabs' = Staged(page') /\ QueuedStarts' = Queued(MessagesToServer')
        /\ TakenStarts' = Taken(callback')
        /\ ReadingStarts' = Reading(callback', MessagesToServer')
    BY DEF StagedTabs, Staged, QueuedStarts, Queued, TakenStarts, Taken, ReadingStarts, Reading
  <2> DEFINE L1 == Callbacks * (S1 + Q1) + T1
             s1 == starts'
             p1 == spoilt'
  <2>2. L1 \in Int /\ s1 \in Nat /\ p1 \in Nat
    <3>1. starts' \in Nat /\ spoilt' \in Nat
      BY TypedInductive DEF TypeOK
    <3> QED BY <1>2, <3>1
  <2>3. L1 + (s1 + p1) <= Callbacks * asked1 + R1
    BY <1>4
  <2> HIDE DEF L1, s1, p1
  <2>4. L1 + s1 + p1 <= Callbacks * asked1 + R1
    <3>1. L1 + (s1 + p1) = L1 + s1 + p1
      BY <2>2
    <3> QED BY <2>3, <3>1
  <2>5. Callbacks * (S1 + Q1) + T1 + starts' + spoilt' <= Callbacks * asked' + R1
    BY <2>4 DEF L1, s1, p1
  <2> QED BY <1>4, <2>1, <2>5 DEF StartsCounted, Callbacks
<1>5. ASSUME \A t \in Tab : page'[t].lblMessageStatus = "staged" =>
                              page[t].lblMessageStatus = "staged"
      PROVE  S1 <= S
  <2>1. Staged(page') \subseteq Staged(page)
    BY <1>5 DEF Staged
  <2> QED BY <2>1, Numbers, FS_Subset
<1>6. page' = page => S1 = S
  OBVIOUS
<1>7. callback' = callback => T1 = T
  OBVIOUS
<1>8. MessagesToServer' = MessagesToServer => Q1 = Q
  OBVIOUS
<1>r. callback' = callback /\ MessagesToServer' = MessagesToServer => R1 = R
  OBVIOUS
<1>9. ASSUME NEW t \in Tab, page[t].lblMessageStatus = "staged",
             \A u \in Tab : page'[u].lblMessageStatus = "staged" =>
                              page[u].lblMessageStatus = "staged" /\ u # t
      PROVE  S1 <= S - 1
  <2>1. Staged(page') \subseteq Staged(page) \ {t} /\ t \in Staged(page)
    BY <1>9 DEF Staged
  <2>2. /\ IsFiniteSet(Staged(page) \ {t})
        /\ Cardinality(Staged(page) \ {t}) = Cardinality(Staged(page)) - 1
    BY <2>1, Numbers, FS_RemoveElement
  <2> QED BY <2>1, <2>2, FS_Subset
<1>10. ASSUME NEW t \in Tab,
              \A u \in Tab \ {t} : page'[u].lblMessageStatus = "staged" =>
                                     page[u].lblMessageStatus = "staged"
       PROVE  S1 <= S + 1
  <2>1. Staged(page') \subseteq Staged(page) \union {t}
    BY <1>10 DEF Staged
  <2>2. IsFiniteSet(Staged(page) \union {t}) /\ Cardinality(Staged(page) \union {t}) \in {S, S + 1}
    BY Numbers, FS_AddElement
  <2>3. S1 <= Cardinality(Staged(page) \union {t})
    BY <2>1, <2>2, FS_Subset
  <2> QED BY <1>2, <2>2, <2>3
<1>11. ASSUME Taken(callback') \subseteq Taken(callback)
       PROVE  T1 <= T
  BY <1>11, Numbers, FS_Subset
<1>12. ASSUME Reading(callback, MessagesToServer) \subseteq Reading(callback', MessagesToServer')
       PROVE  R <= R1
  BY <1>12, Numbers, FS_Subset
<1> HIDE DEF S, Q, T, R, D, S1, Q1, T1, R1, D1, asked1
\* Starts are neither asked for nor taken out of a queue; or one is asked for; or one is
\* taken out of a queue.
<1>b. ASSUME \A c \in Conn : Len(MessagesToServer'[c]) <= MaxQueue + 1,
             \/ S1 + Q1 <= S + Q /\ T1 + D1 + R <= T + D + R1 /\ asked1 = asked
             \/ S1 + Q1 <= S + Q + 1 /\ T1 + D1 + R <= T + D + R1 /\ asked1 = asked + 1
             \/ S1 + Q1 <= S + Q - 1 /\ T1 + D1 + R <= T + D + R1 + Callbacks /\ asked1 = asked
      PROVE  StartsCounted'
  <2>1. S + Q \in Nat /\ S1 + Q1 \in Nat
    BY <1>2
  <2>2. Callbacks * (S1 + Q1) + T1 + D1 <= Callbacks * asked1 + R1
    BY <1>2, <1>t, <1>s, <1>b, <2>1, Balance
  <2> QED BY <1>4, <1>b, <2>2
\* The steps that leave queues and callbacks alone.
<1>13. ASSUME MessagesToServer' = MessagesToServer, callback' = callback,
              starts' = starts, spoilt' = spoilt, asked' = asked,
              \A t \in Tab : page'[t].lblMessageStatus = "staged" =>
                               page[t].lblMessageStatus = "staged"
       PROVE  StartsCounted'
  <2>1. S1 <= S /\ T1 = T /\ Q1 = Q /\ R1 = R /\ D1 = D /\ asked1 = asked
    BY <1>3, <1>5, <1>7, <1>8, <1>r, <1>13 DEF asked1
  <2>2. S1 + Q1 <= S + Q /\ T1 + D1 + R <= T + D + R1
    BY <1>2, <2>1
  <2> QED BY <1>b, <1>q, <1>13, <2>1, <2>2
\* The steps that queue no start.
<1>14. ASSUME NEW c \in Conn, NEW msgs \in {<<"ACK_Status">>, <<"Debug">>},
              AddMessagesToServer(c, msgs), callback' = callback,
              starts' = starts, spoilt' = spoilt, asked' = asked,
              \A t \in Tab : page'[t].lblMessageStatus = "staged" =>
                               page[t].lblMessageStatus = "staged"
       PROVE  StartsCounted'
  <2>1. Q1 <= Q /\ \A d \in Conn : Len(MessagesToServer'[d]) <= MaxQueue + 1
    BY <1>14, Adds DEF Q, Q1
  <2>2. S1 <= S /\ T1 = T /\ R <= R1 /\ D1 = D /\ asked1 = asked
    BY <1>3, <1>5, <1>7, <1>12, <1>14, ReadersWait DEF asked1
  <2>3. S1 + Q1 <= S + Q /\ T1 + D1 + R <= T + D + R1
    BY <1>2, <1>t, <2>1, <2>2
  <2> QED BY <1>b, <2>1, <2>2, <2>3
<1>15. NoPage.lblMessageStatus # "staged"
  BY DEF NoPage
<1>16. ASSUME NEW c \in Conn, Connect(c) \/ ConnectFails(c) \/ ReceiveSpoilt(c)
                              \/ AddMessageToPage(c) \/ Drop(c)
       PROVE  StartsCounted'
  BY <1>13, <1>15, <1>16 DEF Connect, ConnectFails, ReceiveSpoilt, AddMessageToPage, Drop,
     cacheVars, history, requests, arrivals
<1>17. ASSUME NEW c \in Conn, ReceiveWholeMsg(c)
       PROVE  StartsCounted'
  BY <1>14, <1>17 DEF ReceiveWholeMsg, history, requests, arrivals
<1>18. ASSUME UNCHANGED vars \/ btnLogIn_Click \/ \E st \in Status : Broadcast(st)
       PROVE  StartsCounted'
  BY <1>13, <1>18 DEF vars, btnLogIn_Click, Broadcast, cacheVars, history, requests, arrivals
<1>19. ASSUME NEW t \in Tab, Load(t) \/ Close(t)
       PROVE  StartsCounted'
  <2>1. /\ MessagesToServer' = MessagesToServer /\ callback' = callback
        /\ starts' = starts /\ spoilt' = spoilt /\ asked' = asked
    BY <1>19 DEF Load, Close, cacheVars, history, requests, arrivals
  <2>2. \A u \in Tab \ {t} : page'[u] = page[u]
    BY <1>1, <1>19 DEF Load, Close
  <2>3. page'[t].lblMessageStatus # "staged"
    BY <1>1, <1>19 DEF Load, Close, NoPage
  <2> QED BY <1>13, <2>1, <2>2, <2>3
<1>20. ASSUME NEW t \in Tab, btnHalt_Click(t)
       PROVE  StartsCounted'
  <2>1. MyCache \in Conn
    BY <1>20, CacheFound DEF btnHalt_Click, PagesHaveCache
  <2> QED BY <1>14, <1>20, <2>1 DEF btnHalt_Click, arrivals
<1>21. ASSUME NEW t \in Tab, btnStartTheCar_Click(t)
       PROVE  StartsCounted'
  <2>1. MyCache \in Conn
    BY <1>21, CacheFound DEF btnStartTheCar_Click, PagesHaveCache
  <2>2. callback' = callback /\ starts' = starts /\ spoilt' = spoilt /\ asked' = asked + 1
    BY <1>21 DEF btnStartTheCar_Click, arrivals
  <2>3. T1 = T /\ D1 = D /\ asked1 = asked + 1
    BY <1>3, <1>7, <2>2 DEF asked1
  <2>4. ASSUME AddMessagesToServer(MyCache, <<"StartCar">>),
               page' = [page EXCEPT ![t].lblMessageStatus = "sent"]
        PROVE  StartsCounted'
    <3>1. Q1 <= Q + 1 /\ \A d \in Conn : Len(MessagesToServer'[d]) <= MaxQueue + 1
      BY <2>1, <2>4, Adds DEF Q, Q1
    <3>2. \A u \in Tab : page'[u].lblMessageStatus = "staged" =>
                           page[u].lblMessageStatus = "staged"
      BY <1>1, <2>4
    <3>3. S1 <= S /\ R <= R1
      BY <1>5, <1>12, <2>1, <2>2, <2>4, <3>2, ReadersWait
    <3>4. S1 + Q1 <= S + Q + 1 /\ T1 + D1 + R <= T + D + R1
      BY <1>2, <1>t, <2>3, <3>1, <3>3
    <3> QED BY <1>b, <2>3, <3>1, <3>4
  <2>5. ASSUME MessagesToServer' = MessagesToServer,
               page' = [page EXCEPT ![t].lblMessageStatus = "staged"]
        PROVE  StartsCounted'
    <3>1. \A u \in Tab \ {t} : page'[u] = page[u]
      BY <1>1, <2>5
    <3>2. S1 <= S + 1 /\ Q1 = Q /\ R1 = R
      BY <1>8, <1>10, <1>r, <2>2, <2>5, <3>1
    <3>3. S1 + Q1 <= S + Q + 1 /\ T1 + D1 + R <= T + D + R1
      BY <1>2, <1>t, <2>3, <3>2
    <3> QED BY <1>b, <1>q, <2>3, <2>5, <3>3
  <2> QED BY <1>21, <2>4, <2>5 DEF btnStartTheCar_Click
<1>22. ASSUME NEW t \in Tab, timUpdateMe_Tick(t)
       PROVE  StartsCounted'
  <2> DEFINE text == MessageToPage[MyCache]
  <2>1. MyCache \in Conn
    BY <1>22, CacheFound DEF timUpdateMe_Tick, PagesHaveCache
  <2>2. callback' = callback /\ starts' = starts /\ spoilt' = spoilt /\ asked' = asked
    BY <1>22 DEF timUpdateMe_Tick, arrivals
  <2>3. ASSUME AddMessagesToServer(MyCache, <<"ACK_Status">>),
               page' = page \/ page' = [page EXCEPT ![t].lblSrvrStatus = Shown(text)]
        PROVE  StartsCounted'
    <3> DEFINE shown == Shown(text)
    <3>a. page' = page \/ page' = [page EXCEPT ![t].lblSrvrStatus = shown]
      BY <2>3
    <3> HIDE DEF text, shown
    <3>1. \A u \in Tab : page'[u].lblMessageStatus = page[u].lblMessageStatus
      <4>1. ASSUME NEW u \in Tab, page' = [page EXCEPT ![t].lblSrvrStatus = shown]
            PROVE  page'[u].lblMessageStatus = page[u].lblMessageStatus
        <5>1. page'[u] = IF u = t THEN [page[t] EXCEPT !.lblSrvrStatus = shown] ELSE page[u]
          BY <1>1, <4>1
        <5>2. page[t] \in [open : BOOLEAN, lblSrvrStatus : {"Waiting"} \union Status,
                           lblMessageStatus : {"none", "staged", "sent"}]
          BY <1>1
        <5> QED BY <5>1, <5>2
      <4> QED BY <3>a, <4>1
    <3> QED BY <1>14, <2>1, <2>2, <2>3, <3>1
  <2>4. ASSUME StartStaged(t), AddMessagesToServer(MyCache, <<"StartCar", "ACK_Status">>),
               page' = [page EXCEPT ![t].lblSrvrStatus = "UP",
                                    ![t].lblMessageStatus = AfterSending]
        PROVE  StartsCounted'
    <3>1. Q1 <= Q + 1 /\ \A d \in Conn : Len(MessagesToServer'[d]) <= MaxQueue + 1
      BY <2>1, <2>4, Adds DEF Q, Q1
    <3>2. /\ \A u \in Tab \ {t} : page'[u] = page[u]
          /\ page'[t].lblMessageStatus = "sent"
      BY <1>1, <2>4 DEF AfterSending
    <3>3. S1 <= S - 1
      BY <1>9, <2>4, <3>2 DEF StartStaged
    <3>4. T1 = T /\ D1 = D /\ asked1 = asked /\ R <= R1
      BY <1>3, <1>7, <1>12, <2>1, <2>2, <2>4, ReadersWait DEF asked1
    <3>5. S1 + Q1 <= S + Q /\ T1 + D1 + R <= T + D + R1
      BY <1>2, <1>t, <3>1, <3>3, <3>4
    <3> QED BY <1>b, <3>1, <3>4, <3>5
  <2> QED BY <1>22, <2>3, <2>4 DEF timUpdateMe_Tick
\* A callback.
<1>23. ASSUME NEW c \in Conn, NEW k \in Callback, ReadMsgForServer(c, k)
       PROVE  StartsCounted'
  <2> DEFINE m == Head(MessagesToServer[c])
  <2>1. /\ MessagesToServer' = MessagesToServer /\ starts' = starts /\ spoilt' = spoilt
        /\ asked' = asked /\ page' = page /\ MessagesToServer[c] # << >>
        /\ callback[c][k].at = "idle"
        /\ callback' = [callback EXCEPT ![c][k] = [at |-> "read", msg |-> m]]
    BY <1>23 DEF ReadMsgForServer, Oldest, history, requests, arrivals
  <2> HIDE DEF m
  <2>2. /\ \A d \in Conn, j \in Callback : <<d, j>> # <<c, k>> => callback'[d][j] = callback[d][j]
        /\ callback'[c][k] = [at |-> "read", msg |-> m]
    BY <1>1, <2>1
  <2>3. Reading(callback, MessagesToServer) \subseteq Reading(callback', MessagesToServer')
    BY <2>1, <2>2 DEF Reading
  <2>4. S1 = S /\ Q1 = Q /\ D1 = D /\ asked1 = asked
    BY <1>3, <1>6, <1>8, <2>1 DEF asked1
  <2>5. ASSUME m # "StartCar"
        PROVE  T1 <= T /\ R <= R1
    <3>1. Taken(callback') \subseteq Taken(callback)
      BY <2>2, <2>5 DEF Taken
    <3> QED BY <1>11, <1>12, <2>3, <3>1
  <2>6. ASSUME m = "StartCar"
        PROVE  T1 <= T + 1 /\ R + 1 <= R1
    <3> DEFINE V == Taken(callback)
               W == Reading(callback, MessagesToServer)
               V1 == Taken(callback')
               W1 == Reading(callback', MessagesToServer')
               p == <<c, k>>
    <3>1. V1 \subseteq V \union {p}
      BY <2>2 DEF Taken
    <3>2. p \in W1 /\ p \notin W
      BY <2>1, <2>2, <2>6 DEF Reading, m
    <3>3. W \union {p} \subseteq W1
      BY <2>3, <3>2
    <3>4. /\ IsFiniteSet(V) /\ IsFiniteSet(W) /\ IsFiniteSet(W1)
          /\ Cardinality(V) \in Nat /\ Cardinality(W) \in Nat
      BY Numbers
    <3> HIDE DEF V, W, V1, W1, p
    <3>5. IsFiniteSet(V \union {p}) /\ Cardinality(V \union {p}) <= Cardinality(V) + 1
      <4>1. /\ IsFiniteSet(V \union {p})
            /\ Cardinality(V \union {p}) = IF p \in V THEN Cardinality(V) ELSE Cardinality(V) + 1
        BY <3>4, FS_AddElement
      <4> QED BY <3>4, <4>1
    <3>6. Cardinality(W \union {p}) = Cardinality(W) + 1
      BY <3>2, <3>4, FS_AddElement
    <3>7. Cardinality(V1) <= Cardinality(V \union {p}) /\ Cardinality(W \union {p}) <= Cardinality(W1)
      BY <3>1, <3>3, <3>4, <3>5, FS_Subset
    <3>8. V1 = Taken(callback') /\ V = Taken(callback)
      BY DEF V, V1
    <3>9. T1 <= Cardinality(V \union {p}) /\ Cardinality(V \union {p}) <= T + 1
      BY <3>5, <3>7, <3>8 DEF T, T1
    <3>10. R + 1 <= R1
      BY <3>6, <3>7 DEF W, W1, R, R1
    <3>11. Cardinality(V \union {p}) \in Nat
      BY <3>5, FS_CardinalityType
    <3>12. T1 <= T + 1
      BY <1>2, <3>9, <3>11
    <3> QED BY <3>10, <3>12
  <2>7. S1 + Q1 <= S + Q /\ T1 + D1 + R <= T + D + R1
    BY <1>2, <1>t, <2>4, <2>5, <2>6
  <2> QED BY <1>b, <1>q, <2>1, <2>4, <2>7
<1>24. ASSUME NEW c \in Conn, NEW k \in Callback, RemoveAt(c, k)
       PROVE  StartsCounted'
  <2>1. starts' = starts /\ spoilt' = spoilt /\ asked' = asked /\ page' = page
    BY <1>24 DEF RemoveAt, history, requests, arrivals
  <2>2. S1 = S /\ D1 = D /\ asked1 = asked
    BY <1>3, <1>6, <2>1 DEF asked1
  <2>3. ASSUME MessagesToServer' = MessagesToServer, MessagesToServer[c] = << >>,
               callback' = [callback EXCEPT ![c][k] = Idle]
        PROVE  StartsCounted'
    <3>1. /\ \A d \in Conn, j \in Callback : <<d, j>> # <<c, k>> => callback'[d][j] = callback[d][j]
          /\ callback'[c][k].at = "idle"
      BY <1>1, <2>3 DEF Idle
    <3>2. Taken(callback') \subseteq Taken(callback)
      BY <3>1 DEF Taken
    <3>3. Reading(callback, MessagesToServer) \subseteq Reading(callback', MessagesToServer')
      BY <2>3, <3>1 DEF Reading
    <3>4. T1 <= T /\ R <= R1 /\ Q1 = Q
      BY <1>8, <1>11, <1>12, <2>3, <3>2, <3>3
    <3>5. S1 + Q1 <= S + Q /\ T1 + D1 + R <= T + D + R1
      BY <1>2, <1>t, <2>2, <3>4
    <3> QED BY <1>b, <1>q, <2>2, <2>3, <3>5
  <2>4. ASSUME MessagesToServer[c] # << >>, callback[c][k].at = "read",
               MessagesToServer' = [MessagesToServer EXCEPT ![c] = Tail(MessagesToServer[c])],
               callback' = [callback EXCEPT ![c][k].at = "removed"]
        PROVE  StartsCounted'
    <3>1. /\ Q1 <= Q
          /\ Head(MessagesToServer[c]) = "StartCar" => Q1 <= Q - 1
      BY <1>1, <1>q, <2>4, TakenOff DEF Q, Q1
    <3>2. \A d \in Conn : Len(MessagesToServer'[d]) <= MaxQueue + 1
      <4>1. Len(Tail(MessagesToServer[c])) = Len(MessagesToServer[c]) - 1
        BY <1>1, <2>4
      <4>2. Len(MessagesToServer[c]) \in Nat /\ MaxQueue \in Nat
        BY <1>1, BoundAssumption
      <4>3. Len(MessagesToServer'[c]) <= MaxQueue + 1
        <5>1. MessagesToServer'[c] = Tail(MessagesToServer[c])
          BY <1>1, <2>4
        <5> QED BY <1>q, <4>1, <4>2, <5>1
      <4>4. \A d \in Conn \ {c} : MessagesToServer'[d] = MessagesToServer[d]
        BY <1>1, <2>4
      <4> QED BY <1>q, <4>3, <4>4
    <3>3. /\ \A d \in Conn, j \in Callback : <<d, j>> # <<c, k>> => callback'[d][j] = callback[d][j]
          /\ callback'[c][k].msg = callback[c][k].msg
      BY <1>1, <2>4
    <3>4. T1 <= T
      <4>1. Taken(callback') \subseteq Taken(callback)
        BY <2>4, <3>3 DEF Taken
      <4> QED BY <1>11, <4>1
    <3>5. \A d \in Conn, j \in Callback :
            d # c => callback'[d][j] = callback[d][j] /\ MessagesToServer'[d] = MessagesToServer[d]
      BY <1>1, <2>4, <3>3
    <3>6. ASSUME Head(MessagesToServer[c]) # "StartCar"
          PROVE  R <= R1
      <4>1. Reading(callback, MessagesToServer) \subseteq Reading(callback', MessagesToServer')
        BY <3>5, <3>6 DEF Reading
      <4> QED BY <1>12, <4>1
    <3>7. R <= R1 + Callbacks
      <4>1. Reading(callback, MessagesToServer)
              \subseteq Reading(callback', MessagesToServer') \union ({c} \X Callback)
        BY <3>5 DEF Reading
      <4> QED BY <4>1, ReadersLeft DEF R, R1
    <3>8. \/ Q1 <= Q /\ R <= R1
          \/ Q1 <= Q - 1 /\ R <= R1 + Callbacks
      BY <3>1, <3>6, <3>7
    <3>9. \/ S1 + Q1 <= S + Q /\ T1 + D1 + R <= T + D + R1
          \/ S1 + Q1 <= S + Q - 1 /\ T1 + D1 + R <= T + D + R1 + Callbacks
      BY <1>2, <1>t, <2>2, <3>4, <3>8
    <3> QED BY <1>b, <2>2, <3>2, <3>9
  <2> QED BY <1>24, <2>3, <2>4 DEF RemoveAt
<1>25. ASSUME NEW c \in Conn, NEW k \in Callback, Send(c, k)
       PROVE  StartsCounted'
  <2>1. /\ MessagesToServer' = MessagesToServer /\ asked' = asked /\ page' = page
        /\ callback[c][k].at = "removed" /\ callback' = [callback EXCEPT ![c][k] = Idle]
    BY <1>25 DEF Send, requests
  <2>2. /\ \A d \in Conn, j \in Callback : <<d, j>> # <<c, k>> => callback'[d][j] = callback[d][j]
        /\ callback'[c][k].at = "idle"
    BY <1>1, <2>1 DEF Idle
  <2>3. Reading(callback, MessagesToServer) \subseteq Reading(callback', MessagesToServer')
    BY <2>1, <2>2 DEF Reading
  <2>4. Taken(callback') \subseteq Taken(callback)
    BY <2>2 DEF Taken
  <2>5. ASSUME callback[c][k].msg = "StartCar"
        PROVE  T1 <= T - 1
    <3>1. <<c, k>> \in Taken(callback) /\ Taken(callback') \subseteq Taken(callback) \ {<<c, k>>}
      BY <2>1, <2>2, <2>4, <2>5 DEF Taken
    <3>2. /\ IsFiniteSet(Taken(callback) \ {<<c, k>>})
          /\ Cardinality(Taken(callback) \ {<<c, k>>}) = Cardinality(Taken(callback)) - 1
      BY <3>1, Numbers, FS_RemoveElement
    <3> QED BY <3>1, <3>2, FS_Subset DEF T, T1
  <2>6. \/ callback[c][k].msg = "StartCar" /\ D1 = D + 1
        \/ D1 = D
    <3> DEFINE s1 == starts'
               p1 == spoilt'
    <3>1. \/ callback[c][k].msg = "StartCar" /\ s1 = starts + 1 /\ p1 = spoilt
          \/ callback[c][k].msg = "StartCar" /\ p1 = spoilt + 1 /\ s1 = starts
          \/ s1 = starts /\ p1 = spoilt
      BY <1>25 DEF Send, arrivals
    <3> HIDE DEF s1, p1
    <3>2. \/ callback[c][k].msg = "StartCar" /\ s1 + p1 = starts + spoilt + 1
          \/ s1 + p1 = starts + spoilt
      BY <1>1, <3>1
    <3> QED BY <3>2 DEF s1, p1, D, D1
  <2>7. S1 = S /\ Q1 = Q /\ T1 <= T /\ R <= R1 /\ asked1 = asked
    BY <1>6, <1>8, <1>11, <1>12, <2>1, <2>3, <2>4 DEF asked1
  <2>8. \/ T1 <= T - 1 /\ D1 = D + 1
        \/ T1 <= T /\ D1 = D
    BY <2>5, <2>6, <2>7
  <2>9. S1 + Q1 <= S + Q /\ T1 + D1 + R <= T + D + R1
    BY <1>2, <1>t, <2>7, <2>8
  <2> QED BY <1>b, <1>q, <2>1, <2>7, <2>9
<1> QED BY <1>16, <1>17, <1>18, <1>19, <1>20, <1>21, <1>22, <1>23, <1>24, <1>25
     DEF Next, SendTimer

LEMMA InitCounts == Init => Typed /\ StartsCounted
<1> SUFFICES ASSUME Init
             PROVE  StartsCounted
  BY InitTyped
<1>1. /\ Staged(page) = {} /\ Taken(callback) = {}
      /\ Reading(callback, MessagesToServer) = {}
  BY DEF Init, Staged, Taken, Reading, NoPage, Idle
<1>2. \A c \in Conn : Len(MessagesToServer[c]) = 0
  BY DEF Init
<1>3. Queued(MessagesToServer) = {}
  <2>1. ASSUME NEW p \in Conn \X (1 .. MaxQueue + 1)
        PROVE  ~(p[2] <= Len(MessagesToServer[p[1]]))
    <3>1. p[2] >= 1 /\ p[2] \in Int /\ p[1] \in Conn
      BY <2>1, BoundAssumption
    <3> QED BY <1>2, <3>1
  <2> QED BY <2>1 DEF Queued
<1>4. \A c \in Conn : Len(MessagesToServer[c]) <= MaxQueue + 1
  BY <1>2, BoundAssumption
<1>5. starts = 0 /\ spoilt = 0 /\ asked = 0
  BY DEF Init
<1>6. Callbacks * (0 + 0) + 0 + 0 + 0 <= Callbacks * 0 + 0
  BY Numbers
<1> QED BY <1>1, <1>3, <1>4, <1>5, <1>6, Counts, FS_EmptySet

\* A start that reaches the service was asked for: whichever pages, ticks and queues a click
\* went through, it was sent at most once by each of the callbacks that may overlap.
THEOREM StartsAskedHolds == Spec => []StartsAsked
<1>1. Init => Typed /\ StartsCounted
  BY InitCounts
<1>2. (Typed /\ StartsCounted) /\ [Next]_vars => (Typed /\ StartsCounted)'
  BY TypedInductive, CountsKept
<1>3. Typed /\ StartsCounted => StartsAsked
  <2> SUFFICES ASSUME Typed, StartsCounted
               PROVE  StartsAsked
    OBVIOUS
  <2> DEFINE S == Cardinality(Staged(page))
             Q == Cardinality(Queued(MessagesToServer))
             T == Cardinality(Taken(callback))
             R == Cardinality(Reading(callback, MessagesToServer))
             X == Callbacks * (S + Q)
             Y == Callbacks * asked
             Z == Callbacks * Q
  <2>1. S \in Nat /\ Q \in Nat /\ T \in Nat /\ R \in Nat /\ Callbacks \in Nat
    BY Numbers
  <2>2. starts \in Nat /\ spoilt \in Nat /\ asked \in Nat
    BY DEF Typed, TypeOK
  <2>3. X + T + starts + spoilt <= Y + R
    BY Counts
  <2>4. R <= Z
    BY ReadersFew DEF Typed, TypeOK
  <2>5. Z <= X /\ X \in Nat /\ Y \in Nat /\ Z \in Nat
    <3> HIDE DEF S, Q
    <3>1. S + Q \in Nat /\ Q <= S + Q
      BY <2>1
    <3> QED BY <2>1, <2>2, <3>1, Times
  <2> HIDE DEF S, Q, T, R, X, Y, Z
  <2>6. starts <= Y
    BY <2>1, <2>2, <2>3, <2>4, <2>5
  <2> QED BY <2>6 DEF Y, StartsAsked, Callbacks
<1> QED BY <1>1, <1>2, <1>3, PTL DEF Spec

\* When the callbacks of a send timer do not overlap, a click starts the car at most once.
THEOREM AskedOnce ==
  ASSUME Cardinality(Callback) = 1
  PROVE  Spec => [](starts <= asked)
<1>1. TypeOK /\ StartsAsked => starts <= asked
  <2> SUFFICES ASSUME TypeOK, StartsAsked
               PROVE  starts <= asked
    OBVIOUS
  <2>1. asked \in Nat /\ starts <= 1 * asked
    BY DEF TypeOK, StartsAsked
  <2> QED BY <2>1
<1> QED BY <1>1, TypeCorrect, StartsAskedHolds, PTL

-----------------------------------------------------------------------------
(* What the pages show.                                                    *)

\* Of a text that is not empty and whose states agree, each is the last.
LEMMA AllAlike ==
  ASSUME NEW text \in Seq(Status), text # << >>, ~Mixed(text), NEW i \in 1 .. Len(text)
  PROVE  text[i] = text[Len(text)]
<1>1. Len(text) \in Nat /\ Len(text) # 0
  OBVIOUS
<1>2. Len(text) \in 1 .. Len(text)
  BY <1>1
<1> QED BY <1>2 DEF Mixed

\* When statuses are taken off the wire, the last one stays the last, or is taken as the
\* last.
LEMMA TakeSome ==
  ASSUME TypeOK, NEW c \in Conn, NEW n \in 1 .. MaxJoin, n <= Len(wire[c])
  PROVE  /\ SubSeq(wire[c], n + 1, Len(wire[c])) # << >> =>
              SubSeq(wire[c], n + 1, Len(wire[c]))
                [Len(SubSeq(wire[c], n + 1, Len(wire[c])))] = wire[c][Len(wire[c])]
         /\ SubSeq(wire[c], n + 1, Len(wire[c])) = << >> => SubSeq(wire[c], 1, n) = wire[c]
         /\ wire[c] # << >>
<1>1. n \in Nat /\ n >= 1 /\ wire[c] \in Seq(Status) /\ Len(wire[c]) \in Nat
  BY BoundAssumption DEF TypeOK
<1>2. /\ SubSeq(wire[c], 1, n) \in Seq(Status)
      /\ Len(SubSeq(wire[c], 1, n)) = n
      /\ SubSeq(wire[c], n + 1, Len(wire[c])) \in Seq(Status)
      /\ Len(SubSeq(wire[c], n + 1, Len(wire[c]))) = Len(wire[c]) - n
  BY <1>1, Cuts
<1>3. ASSUME SubSeq(wire[c], n + 1, Len(wire[c])) = << >>
      PROVE  SubSeq(wire[c], 1, n) = wire[c]
  <2> DEFINE w    == wire[c]
             rest == SubSeq(w, n + 1, Len(w))
  <2>1. w \in Seq(Status) /\ Len(w) \in Nat /\ Len(rest) = Len(w) - n /\ rest = << >>
    BY <1>1, <1>2, <1>3
  <2> HIDE DEF rest, w
  <2>2. Len(rest) = 0
    BY <2>1
  <2>3. n = Len(w)
    BY <1>1, <2>1, <2>2
  <2>4. SubSeq(w, 1, Len(w)) = w
    BY <2>1
  <2>5. SubSeq(w, 1, n) = w
    BY <2>3, <2>4
  <2> QED BY <2>5 DEF w
<1>4. wire[c] # << >>
  <2> DEFINE w == wire[c]
  <2>1. Len(w) # 0
    BY <1>1
  <2> HIDE DEF w
  <2>2. w = << >> => Len(w) = 0
    OBVIOUS
  <2>3. w # << >>
    BY <2>1, <2>2
  <2> QED BY <2>3 DEF w
<1>5. ASSUME SubSeq(wire[c], n + 1, Len(wire[c])) # << >>
      PROVE  SubSeq(wire[c], n + 1, Len(wire[c]))[Len(wire[c]) - n] = wire[c][Len(wire[c])]
  <2>1. Len(SubSeq(wire[c], n + 1, Len(wire[c]))) > 0
    BY <1>2, <1>5
  <2>2. /\ n + 1 \in Int /\ Len(wire[c]) \in Int
        /\ Len(wire[c]) - n \in 1 .. Len(wire[c]) - (n + 1) + 1
    BY <1>1, <1>2, <2>1
  <2>3. \A i \in n + 1 .. Len(wire[c]) : wire[c][i] \in Status
    BY <1>1
  <2>4. \A i \in 1 .. Len(wire[c]) - (n + 1) + 1 :
          SubSeq(wire[c], n + 1, Len(wire[c]))[i] = wire[c][(n + 1) + i - 1]
    BY <2>2, <2>3, SubSeqProperties
  <2> DEFINE rest == SubSeq(wire[c], n + 1, Len(wire[c]))
             last == Len(wire[c]) - n
             w    == wire[c]
             m    == Len(wire[c]) - (n + 1) + 1
  <2>5. \A l \in Nat : (n + 1) + (l - n) - 1 = l
    BY <1>1
  <2>6. last \in 1 .. m /\ (n + 1) + last - 1 = Len(w)
    BY <1>1, <2>2, <2>5
  <2>7. \A i \in 1 .. m : rest[i] = w[(n + 1) + i - 1]
    BY <2>4
  <2> HIDE DEF rest, last, w, m
  <2>8. rest[last] = w[(n + 1) + last - 1]
    BY <2>6, <2>7
  <2>9. rest[last] = w[Len(w)]
    BY <2>6, <2>8
  <2> QED BY <2>9 DEF rest, last, w
<1> QED BY <1>2, <1>3, <1>4, <1>5

AllOf(text, st) == \A i \in 1 .. Len(text) : text[i] = st

\* What LatestUnderWay says of the pages' connection c.
LatestOn(c) ==
  /\ wire[c] # << >> => wire[c][Len(wire[c])] = rpi
  /\ wire[c] = << >> /\ lastText[c] = "even" =>
       /\ AllOf(held[c], rpi)
       /\ held[c] = << >> => AllOf(MessageToPage[c], rpi)
       /\ held[c] = << >> /\ MessageToPage[c] = << >> =>
            \A t \in informed : page[t].lblSrvrStatus \in {"Waiting", rpi}

LEMMA LatestKept ==
  ASSUME Typed, LatestUnderWay, [Next]_vars
  PROVE  LatestUnderWay'
<1> USE DEF Typed
<1> SUFFICES ASSUME sessions' # << >>, (conn[MyCache])' = "open"
             PROVE  (LatestOn(MyCache))'
  BY DEF LatestUnderWay, LatestOn, AllOf
<1> DEFINE c == MyCache
<1>1. ASSUME sessions # << >>, conn[MyCache] = "open"
      PROVE  LatestOn(MyCache)
  BY <1>1 DEF LatestUnderWay, LatestOn, AllOf
<1>2. /\ conn \in [Conn -> {"none", "connecting", "open", "dropped", "dead"}]
      /\ wire \in [Conn -> Seq(Status)] /\ held \in [Conn -> Seq(Status)]
      /\ lastText \in [Conn -> {"even", "mixed", "lost"}] /\ informed \in SUBSET Tab
      /\ MessageToPage \in [Conn -> Seq(Status)]
      /\ page \in [Tab -> [open : BOOLEAN, lblSrvrStatus : {"Waiting"} \union Status,
                           lblMessageStatus : {"none", "staged", "sent"}]]
      /\ sessions \in Seq(Conn)
  BY DEF TypeOK
<1>3. (MyCache)' \in Conn
  BY TypedInductive DEF TypeOK, MyCache
<1>4. sessions' = sessions => (MyCache)' = MyCache /\ sessions # << >>
  BY DEF MyCache
<1>5. ASSUME sessions' = sessions, conn' = conn, wire' = wire, held' = held,
             lastText' = lastText, MessageToPage' = MessageToPage, rpi' = rpi,
             informed' = informed,
             \A t \in Tab : page'[t].lblSrvrStatus \in {"Waiting", page[t].lblSrvrStatus}
      PROVE  (LatestOn(MyCache))'
  <2>1. LatestOn(MyCache)
    BY <1>1, <1>4, <1>5
  <2>2. informed \subseteq Tab
    BY <1>2
  <2> QED BY <1>4, <1>5, <2>1, <2>2 DEF LatestOn
<1>6. ASSUME UNCHANGED vars \/ btnLogIn_Click
      PROVE  (LatestOn(MyCache))'
  BY <1>5, <1>6 DEF vars, btnLogIn_Click, cacheVars, inbox, history
<1>7. ASSUME NEW d \in Conn, SendTimer(d)
      PROVE  (LatestOn(MyCache))'
  BY <1>5, <1>7 DEF SendTimer, ReadMsgForServer, RemoveAt, Send, inbox, history
<1>8. ASSUME NEW t \in Tab, Close(t) \/ btnStartTheCar_Click(t) \/ btnHalt_Click(t)
      PROVE  (LatestOn(MyCache))'
  <2>1. \A u \in Tab : page'[u].lblSrvrStatus \in {"Waiting", page[u].lblSrvrStatus}
    <3>1. ASSUME Close(t)
          PROVE  \A u \in Tab : page'[u] \in {NoPage, page[u]}
      BY <1>2, <3>1 DEF Close
    <3>2. NoPage.lblSrvrStatus = "Waiting"
      BY DEF NoPage
    <3>3. ASSUME btnHalt_Click(t)
          PROVE  page' = page
      BY <3>3 DEF btnHalt_Click
    <3>4. ASSUME btnStartTheCar_Click(t)
          PROVE  page' \in {[page EXCEPT ![t].lblMessageStatus = "sent"],
                            [page EXCEPT ![t].lblMessageStatus = "staged"]}
      BY <3>4 DEF btnStartTheCar_Click
    <3>5. ASSUME NEW s, page' = [page EXCEPT ![t].lblMessageStatus = s]
          PROVE  \A u \in Tab : page'[u].lblSrvrStatus = page[u].lblSrvrStatus
      BY <1>2, <3>5
    <3>6. ASSUME btnStartTheCar_Click(t)
          PROVE  \A u \in Tab : page'[u].lblSrvrStatus = page[u].lblSrvrStatus
      BY <3>4, <3>5, <3>6
    <3>7. ASSUME Close(t), NEW u \in Tab
          PROVE  page'[u].lblSrvrStatus \in {"Waiting", page[u].lblSrvrStatus}
      BY <3>1, <3>2, <3>7
    <3> QED BY <1>8, <3>3, <3>6, <3>7
  <2> QED BY <1>5, <1>8, <2>1 DEF Close, btnStartTheCar_Click, btnHalt_Click, cacheVars, inbox,
       history
<1>9. ASSUME NEW t \in Tab, Load(t)
      PROVE  (LatestOn(MyCache))'
  <2>1. /\ sessions' = Append(sessions, loads') /\ conn' = [conn EXCEPT ![loads'] = "connecting"]
        /\ wire' = wire /\ held' = held /\ lastText' = lastText
        /\ MessageToPage' = MessageToPage /\ rpi' = rpi /\ informed' = informed
    BY <1>9 DEF Load, cacheVars, inbox
  <2>2. (MyCache)' # loads'
    BY <1>2, <1>3, <2>1
  <2>3. sessions # << >> /\ (MyCache)' = MyCache
    BY <1>2, <2>1, <2>2 DEF MyCache
  <2>4. LatestOn(MyCache)
    BY <1>1, <1>2, <1>3, <2>1, <2>2, <2>3
  <2>5. \A u \in Tab : page'[u].lblSrvrStatus \in {"Waiting", page[u].lblSrvrStatus}
    BY <1>2, <1>9 DEF Load, NoPage
  <2>6. informed \subseteq Tab
    BY <1>2
  <2> QED BY <2>1, <2>3, <2>4, <2>5, <2>6 DEF LatestOn
<1>10. ASSUME NEW d \in Conn, ConnectFails(d)
       PROVE  FALSE
  BY <1>10 DEF ConnectFails
<1>11. ASSUME NEW st \in Status, NEW cs, SendStatus(st, cs), rpi' = st, MyCache \in cs,
              sessions' = sessions
       PROVE  (LatestOn(MyCache))'
  <2>1. (MyCache)' = MyCache /\ MyCache \in Conn
    BY <1>3, <1>4, <1>11
  <2>2. wire'[MyCache] = Append(wire[MyCache], st)
    BY <1>11, <2>1 DEF SendStatus
  <2> DEFINE w == wire[MyCache]
  <2>a. w \in Seq(Status)
    BY <1>2, <2>1
  <2> HIDE DEF w
  <2>b. Append(w, st) # << >> /\ Append(w, st)[Len(Append(w, st))] = st
    <3>1. Append(w, st) \in Seq(Status) /\ Len(Append(w, st)) = Len(w) + 1 /\ Len(w) \in Nat
      BY <1>11, <2>a
    <3>2. Append(w, st)[Len(w) + 1] = st
      BY <1>11, <2>a
    <3>3. Len(Append(w, st)) # 0
      BY <3>1
    <3>4. Append(w, st) = << >> => Len(Append(w, st)) = 0
      OBVIOUS
    <3> QED BY <3>1, <3>2, <3>3, <3>4
  <2>3. /\ Append(wire[MyCache], st) # << >>
        /\ Append(wire[MyCache], st)[Len(Append(wire[MyCache], st))] = st
    BY <2>b DEF w
  <2>4. wire'[MyCache] # << >> /\ wire'[MyCache][Len(wire'[MyCache])] = rpi'
    BY <1>11, <2>2, <2>3
  <2> QED BY <2>1, <2>4 DEF LatestOn
<1>12. ASSUME NEW d \in Conn, Connect(d)
       PROVE  (LatestOn(MyCache))'
  <2>1. SendStatus(rpi, Open \union {d}) /\ rpi' = rpi /\ sessions' = sessions /\ rpi \in Status
    BY <1>12 DEF Connect, TypeOK
  <2>2. MyCache \in Open \union {d}
    BY <1>2, <1>3, <1>4, <1>12, <2>1 DEF Connect, Open
  <2> QED BY <1>11, <2>1, <2>2
<1>13. ASSUME NEW st \in Status, Broadcast(st)
       PROVE  (LatestOn(MyCache))'
  <2>1. SendStatus(st, Open) /\ rpi' = st /\ sessions' = sessions /\ conn' = conn
    BY <1>13 DEF Broadcast
  <2>2. MyCache \in Open
    BY <1>3, <1>4, <2>1 DEF Open
  <2> QED BY <1>11, <2>1, <2>2
<1>14. ASSUME NEW d \in Conn, Drop(d)
       PROVE  (LatestOn(MyCache))'
  <2>1. conn' = [conn EXCEPT ![d] = "dropped"] /\ sessions' = sessions
    BY <1>14 DEF Drop
  <2>2. conn[MyCache] = "open"
    BY <1>2, <1>3, <1>4, <2>1
  <2>3. LatestOn(MyCache)
    BY <1>1, <1>4, <2>1, <2>2
  <2> QED BY <1>4, <1>14, <2>3 DEF Drop, LatestOn, cacheVars, inbox, history
<1>15. ASSUME NEW d \in Conn, ReceiveWholeMsg(d) \/ ReceiveSpoilt(d)
       PROVE  (LatestOn(MyCache))'
  <2>1. /\ sessions' = sessions /\ conn' = conn /\ MessageToPage' = MessageToPage
        /\ rpi' = rpi /\ page' = page /\ informed' = informed /\ held[d] = << >>
    BY <1>15 DEF ReceiveWholeMsg, ReceiveSpoilt, history
  <2>2. (MyCache)' = MyCache /\ MyCache \in Conn /\ LatestOn(MyCache)
    BY <1>1, <1>3, <1>4, <2>1
  <2>3. PICK n \in 1 .. MaxJoin :
          /\ n <= Len(wire[d])
          /\ wire' = [wire EXCEPT ![d] = SubSeq(wire[d], n + 1, Len(wire[d]))]
          /\ \/ lastText' = [lastText EXCEPT ![d] = "lost"] /\ held' = held
             \/ /\ held' = [held EXCEPT ![d] = SubSeq(wire[d], 1, n)]
                /\ lastText' = [lastText EXCEPT ![d] = IF Mixed(held'[d]) THEN "mixed" ELSE "even"]
    BY <1>2, <1>15 DEF ReceiveWholeMsg, ReceiveSpoilt
  <2>4. CASE d # MyCache
    <3>1. /\ wire'[MyCache] = wire[MyCache] /\ held'[MyCache] = held[MyCache]
          /\ lastText'[MyCache] = lastText[MyCache]
      BY <1>2, <2>2, <2>3, <2>4
    <3> QED BY <2>1, <2>2, <3>1 DEF LatestOn
  <2>5. CASE d = MyCache
    <3> DEFINE rest == SubSeq(wire[d], n + 1, Len(wire[d]))
    <3>1. /\ rest # << >> => rest[Len(rest)] = wire[d][Len(wire[d])]
          /\ rest = << >> => SubSeq(wire[d], 1, n) = wire[d]
          /\ wire[d] # << >>
      BY <2>3, TakeSome
    <3>2. wire[d][Len(wire[d])] = rpi
      BY <2>2, <2>5, <3>1 DEF LatestOn
    <3>3. wire'[d] = rest
      BY <1>2, <2>3
    <3> HIDE DEF rest
    <3>4. wire'[d] # << >> => wire'[d][Len(wire'[d])] = rpi
      BY <3>1, <3>2, <3>3
    <3>5. ASSUME wire'[d] = << >>, lastText'[d] = "even"
          PROVE  held'[d] # << >> /\ AllOf(held'[d], rpi)
      <4>1. /\ held' = [held EXCEPT ![d] = SubSeq(wire[d], 1, n)]
            /\ lastText' = [lastText EXCEPT ![d] = IF Mixed(held'[d]) THEN "mixed" ELSE "even"]
        BY <1>2, <2>3, <3>5
      <4>2. held'[d] = wire[d] /\ ~Mixed(held'[d])
        BY <1>2, <3>1, <3>3, <3>5, <4>1
      <4>3. wire[d] \in Seq(Status) /\ ~Mixed(wire[d])
        BY <1>2, <4>2
      <4>4. \A i \in 1 .. Len(wire[d]) : wire[d][i] = rpi
        BY <3>1, <3>2, <4>3, AllAlike
      <4> QED BY <3>1, <4>2, <4>4 DEF AllOf
    <3> QED BY <2>1, <2>2, <2>5, <3>4, <3>5 DEF LatestOn
  <2> QED BY <2>4, <2>5
<1>16. ASSUME NEW d \in Conn, AddMessageToPage(d)
       PROVE  (LatestOn(MyCache))'
  <2>1. /\ sessions' = sessions /\ conn' = conn /\ wire' = wire /\ lastText' = lastText
        /\ rpi' = rpi /\ page' = page /\ informed' = informed /\ held[d] # << >>
        /\ MessageToPage' = [MessageToPage EXCEPT ![d] = held[d]]
        /\ held' = [held EXCEPT ![d] = << >>]
    BY <1>2, <1>16 DEF AddMessageToPage, Overwrite, history
  <2>2. (MyCache)' = MyCache /\ MyCache \in Conn /\ LatestOn(MyCache)
    BY <1>1, <1>3, <1>4, <2>1
  <2>3. CASE d # MyCache
    <3>1. held'[MyCache] = held[MyCache] /\ MessageToPage'[MyCache] = MessageToPage[MyCache]
      BY <1>2, <2>1, <2>2, <2>3
    <3> QED BY <2>1, <2>2, <3>1 DEF LatestOn
  <2>4. CASE d = MyCache
    <3>1. held'[MyCache] = << >> /\ MessageToPage'[MyCache] = held[MyCache]
      BY <1>2, <2>1, <2>2, <2>4
    <3>2. AllOf(<< >>, rpi)
      BY DEF AllOf
    <3> QED BY <2>1, <2>2, <2>4, <3>1, <3>2 DEF LatestOn
  <2> QED BY <2>3, <2>4
<1>17. ASSUME NEW t \in Tab, timUpdateMe_Tick(t)
       PROVE  (LatestOn(MyCache))'
  <2> DEFINE text == MessageToPage[MyCache]
  <2>1. /\ sessions' = sessions /\ conn' = conn /\ wire' = wire /\ lastText' = lastText
        /\ rpi' = rpi /\ held' = held
        /\ MessageToPage' = [MessageToPage EXCEPT ![MyCache] = << >>]
    BY <1>17 DEF timUpdateMe_Tick, inbox
  <2>2. (MyCache)' = MyCache /\ MyCache \in Conn /\ LatestOn(MyCache)
    BY <1>1, <1>3, <1>4, <2>1
  <2>3. MessageToPage'[MyCache] = << >> /\ text \in Seq(Status)
    BY <1>2, <2>1, <2>2
  <2>4. \/ text = << >> /\ page' = page /\ informed' = informed
        \/ text # << >> /\ page'[t].lblSrvrStatus = Head(text) /\ informed' = {t}
    BY <1>2, <1>17 DEF timUpdateMe_Tick, Shown
  <2> HIDE DEF text
  <2>5. ASSUME text # << >>, AllOf(text, rpi), page'[t].lblSrvrStatus = Head(text),
               informed' = {t}
        PROVE  \A u \in informed' : page'[u].lblSrvrStatus \in {"Waiting", rpi}
    <3>1. Head(text) = text[1] /\ 1 \in 1 .. Len(text)
      BY <2>3, <2>5
    <3>2. Head(text) = rpi
      BY <2>5, <3>1 DEF AllOf
    <3> QED BY <2>5, <3>2
  <2>6. ASSUME wire[MyCache] = << >>, lastText[MyCache] = "even", held[MyCache] = << >>
        PROVE  \A u \in informed' : page'[u].lblSrvrStatus \in {"Waiting", rpi}
    <3>1. AllOf(text, rpi)
      BY <2>2, <2>6 DEF LatestOn, text
    <3>2. text = << >> => \A u \in informed : page[u].lblSrvrStatus \in {"Waiting", rpi}
      BY <2>2, <2>6 DEF LatestOn, text
    <3> QED BY <2>4, <2>5, <3>1, <3>2
  <2>7. wire[MyCache] = << >> /\ lastText[MyCache] = "even" => AllOf(held[MyCache], rpi)
    BY <2>2 DEF LatestOn
  <2>8. wire[MyCache] # << >> => wire[MyCache][Len(wire[MyCache])] = rpi
    BY <2>2 DEF LatestOn
  <2>9. AllOf(<< >>, rpi)
    BY DEF AllOf
  <2> QED BY <2>1, <2>2, <2>3, <2>6, <2>7, <2>8, <2>9 DEF LatestOn
<1> QED BY <1>6, <1>7, <1>8, <1>9, <1>10, <1>12, <1>13, <1>14, <1>15, <1>16, <1>17 DEF Next

\* The page that took the last text and has none left to read shows the present state of
\* the RPI, unless that text held messages that differ; for any tabs, caches, and number
\* of messages that are received together.
THEOREM StaleOnlyIfJoinedHolds == Spec => []StaleOnlyIfJoined
<1>1. Init => Typed /\ LatestUnderWay
  BY InitTyped DEF Init, LatestUnderWay
<1>2. (Typed /\ LatestUnderWay) /\ [Next]_vars => (Typed /\ LatestUnderWay)'
  BY LatestKept, TypedInductive
<1>3. Typed /\ LatestUnderWay => StaleOnlyIfJoined
  <2> SUFFICES ASSUME Typed, LatestUnderWay, Quiet, lastText[MyCache] # "mixed"
               PROVE  \A t \in informed : page[t].lblSrvrStatus \in {"Waiting", rpi}
    BY DEF StaleOnlyIfJoined
  <2>1. lastText[MyCache] = "even"
    BY CacheFound DEF Typed, TypeOK, Quiet
  <2> QED BY <2>1 DEF LatestUnderWay, Quiet
<1> QED BY <1>1, <1>2, <1>3, PTL DEF Spec

\* Both at once, with the counting of starts and the order of texts that they rest on.
THEOREM IndInvHolds == Spec => []IndInv
<1>1. Init => IndInv
  BY InitCounts DEF Init, LatestUnderWay, IndInv, Typed
<1>2. IndInv /\ [Next]_vars => IndInv'
  <2> SUFFICES ASSUME IndInv, [Next]_vars
               PROVE  IndInv'
    OBVIOUS
  <2>1. Typed
    BY DEF IndInv, Typed
  <2> QED BY <2>1, TypedInductive, CountsKept, LatestKept DEF IndInv, Typed
<1> QED BY <1>1, <1>2, PTL DEF Spec
=============================================================================
