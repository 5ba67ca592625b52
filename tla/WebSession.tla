----------------------------- MODULE WebSession ----------------------------
(***************************************************************************)
(* One browser session of the web application: its car control pages       *)
(* (CarControl.aspx.cs), the list in which every page load adds a cache    *)
(* and a connection (SessionManager.cs), the caches (SendCache.cs) and the *)
(* connections to the exchange service (ClientConnection.cs).              *)
(*                                                                         *)
(* The requests of a session are served one at a time, so a request is one *)
(* step, but for a wait for a lock.  A connection is worked on by its      *)
(* thread and by the callbacks of its send timer, of which several may run *)
(* at a time when one is late.  The thread receives into the field that a  *)
(* callback sends from (bytes), so each may spoil what the other has put   *)
(* there.  The exchange service is reduced to what a session sees of it:   *)
(* it sends the state of the RPI to its consumers when it hears of the RPI *)
(* and when a consumer joins, and it may drop a consumer at any time.      *)
(***************************************************************************)
EXTENDS Naturals, Sequences, FiniteSets

CONSTANTS Tab,          \* the browser's tabs
          Callback,     \* the callbacks of a send timer that may overlap
          HungConn,     \* the connections whose Connect does not return, unless it fails
          MaxLoads,     \* bound on the pages loaded, and so on connections
          MaxClicks,    \* bound on the clicks on Start and on Debug
          MaxQueue,     \* bound on the queue to the service that a call finds
          MaxWire,      \* bound on the messages on their way to a connection
          MaxJoin       \* bound on the messages that one receive returns

ASSUME BoundAssumption ==
  {MaxLoads, MaxClicks, MaxQueue, MaxWire, MaxJoin} \subseteq Nat

ASSUME FiniteAssumption == IsFiniteSet(Tab) /\ IsFiniteSet(Callback)

Conn   == 1 .. MaxLoads
Status == {"UP", "DOWN"}
Msg    == {"StartCar", "Debug", "ACK_Status"}

VARIABLES
  sessions,          \* SessionManager.sessions: the connections of this session
  conn,              \* where connection c is
  wire,              \* what the service has sent to it
  held,              \* the text that its thread has received, not yet stored
  lastText,          \* history: what became of the text it received last
  MessageToPage,     \* of its cache: a text, << >> when there is none
  MessagesToServer,  \* of its cache
  callback,          \* where each callback of its send timer is
  loggedIn,          \* Session["New"] is set
  page,              \* the page in each tab
  rpi,               \* RPIState in the service
  loads, clicks,     \* the pages loaded, the clicks on a button
  asked, sent,       \* history: the clicks on Start, the starts that a page
                     \* reported as sent,
  starts, spoilt,    \* those that reached the service, as they are and as
                     \* other bytes,
  informed           \* the tab that took the last text that was taken

inbox     == <<held, lastText>>
cacheVars == <<inbox, MessageToPage, MessagesToServer, callback>>
requests  == <<loads, clicks, asked, sent>>
arrivals  == <<starts, spoilt>>
history   == <<requests, arrivals, informed>>
vars      == <<sessions, conn, wire, cacheVars, loggedIn, page, rpi, history>>

NoPage == [open |-> FALSE, lblSrvrStatus |-> "Waiting", lblMessageStatus |-> "none"]
Idle   == [at |-> "idle", msg |-> "ACK_Status"]

TypeOK ==
  /\ sessions \in Seq(Conn)
  /\ conn \in [Conn -> {"none", "connecting", "open", "dropped", "dead"}]
  /\ wire \in [Conn -> Seq(Status)]
  /\ held \in [Conn -> Seq(Status)] /\ lastText \in [Conn -> {"even", "mixed", "lost"}]
  /\ MessageToPage \in [Conn -> Seq(Status)]
  /\ MessagesToServer \in [Conn -> Seq(Msg)]
  /\ callback \in [Conn -> [Callback -> [at : {"idle", "read", "removed"}, msg : Msg]]]
  /\ page \in [Tab -> [open : BOOLEAN, lblSrvrStatus : {"Waiting"} \union Status,
                       lblMessageStatus : {"none", "staged", "sent"}]]
  /\ loggedIn \in BOOLEAN /\ rpi \in Status
  /\ loads \in 0 .. MaxLoads /\ clicks \in 0 .. MaxClicks
  /\ asked \in 0 .. clicks /\ sent \in Nat
  /\ starts \in Nat /\ spoilt \in Nat
  /\ informed \in SUBSET Tab

-----------------------------------------------------------------------------
(* SessionManager and the caches.                                          *)

\* The lookup returns the first entry of the session.
MyCache == sessions[1]

\* Mutant: the last message is read, while the first is removed.
Newest(msgs) == msgs[Len(msgs)]

Oldest(msgs) == Head(msgs)

\* A writer waits while a callback reads the queue.
CanWrite(c) == \A k \in Callback : callback[c][k].at # "read"

\* AddMessageToServer, for each of msgs in order.
AddMessagesToServer(c, msgs) ==
  /\ CanWrite(c)
  /\ Len(MessagesToServer[c]) < MaxQueue
  /\ MessagesToServer' = [MessagesToServer EXCEPT ![c] = @ \o msgs]

-----------------------------------------------------------------------------
(* The connection.                                                         *)

\* The service sends the RPI's state st to connections cs.
SendStatus(st, cs) ==
  /\ \A c \in cs : Len(wire[c]) < MaxWire
  /\ wire' = [c \in Conn |-> IF c \in cs THEN Append(wire[c], st) ELSE wire[c]]

Open == {c \in Conn : conn[c] = "open"}

\* BidiChat: connect and identify.  The service registers the connection and
\* tells all consumers the state of the RPI.
Connect(c) ==
  /\ conn[c] = "connecting" /\ c \notin HungConn
  /\ conn' = [conn EXCEPT ![c] = "open"]
  /\ SendStatus(rpi, Open \union {c})
  /\ UNCHANGED <<sessions, cacheVars, loggedIn, page, rpi, history>>

\* Connect throws, outside of any try: the application's process ends, and with
\* it the sessions.  The browser is sent to the login page.
ConnectFails(c) ==
  /\ conn[c] = "connecting"
  /\ conn' = [d \in Conn |-> IF conn[d] = "none" THEN "none" ELSE "dead"]
  /\ sessions' = << >>
  /\ loggedIn' = FALSE
  /\ page' = [t \in Tab |-> NoPage]
  /\ UNCHANGED <<wire, cacheVars, rpi, history>>

\* A text of several messages whose states differ.
Mixed(text) == \E i \in 1 .. Len(text) : text[i] # text[1]

\* ReceiveWholeMsg: take what has arrived and queue an acknowledgement.
ReceiveWholeMsg(c) ==
  /\ conn[c] \in {"open", "dropped"} /\ held[c] = << >>
  /\ \E n \in 1 .. MaxJoin :
       /\ n <= Len(wire[c])
       /\ held' = [held EXCEPT ![c] = SubSeq(wire[c], 1, n)]
       /\ wire' = [wire EXCEPT ![c] = SubSeq(@, n + 1, Len(@))]
  /\ lastText' = [lastText EXCEPT ![c] = IF Mixed(held'[c]) THEN "mixed" ELSE "even"]
  /\ AddMessagesToServer(c, <<"ACK_Status">>)
  /\ UNCHANGED <<sessions, conn, MessageToPage, callback, loggedIn, page, rpi, history>>

\* A callback has replaced the field: the text is longer than the message that is
\* there now, GetString throws, and the text is lost without a word.
ReceiveSpoilt(c) ==
  /\ conn[c] \in {"open", "dropped"} /\ held[c] = << >>
  /\ \E k \in Callback : callback[c][k].at = "removed"
  /\ \E n \in 1 .. MaxJoin :
       /\ n <= Len(wire[c])
       /\ wire' = [wire EXCEPT ![c] = SubSeq(@, n + 1, Len(@))]
  /\ lastText' = [lastText EXCEPT ![c] = "lost"]
  /\ UNCHANGED <<sessions, conn, held, MessageToPage, MessagesToServer, callback,
                 loggedIn, page, rpi, history>>

\* Mutant: a text that the page has not read yet is kept.
KeepOld(old, new) == IF old = << >> THEN new ELSE old

Overwrite(old, new) == new

AddMessageToPage(c) ==
  /\ held[c] # << >> /\ conn[c] # "dead"
  /\ MessageToPage' = [MessageToPage EXCEPT ![c] = Overwrite(@, held[c])]
  /\ held' = [held EXCEPT ![c] = << >>]
  /\ UNCHANGED <<sessions, conn, wire, lastText, MessagesToServer, callback, loggedIn,
                 page, rpi, history>>

\* GrabTransmissionInCache: under the read lock, which other callbacks may hold
\* as well, read the first message and remove the first; then send.
ReadMsgForServer(c, k) ==
  /\ conn[c] \in {"open", "dropped"} /\ callback[c][k].at = "idle"
  /\ MessagesToServer[c] # << >>
  /\ callback' = [callback EXCEPT ![c][k] =
                    [at |-> "read", msg |-> Oldest(MessagesToServer[c])]]
  /\ UNCHANGED <<sessions, conn, wire, inbox, MessageToPage, MessagesToServer,
                 loggedIn, page, rpi, history>>

\* RemoveAt throws when another callback has emptied the queue, and the timer
\* swallows the exception.
RemoveAt(c, k) ==
  /\ conn[c] # "dead" /\ callback[c][k].at = "read"
  /\ \/ /\ MessagesToServer[c] # << >>
        /\ MessagesToServer' = [MessagesToServer EXCEPT ![c] = Tail(@)]
        /\ callback' = [callback EXCEPT ![c][k].at = "removed"]
     \/ /\ MessagesToServer[c] = << >>
        /\ callback' = [callback EXCEPT ![c][k] = Idle]
        /\ UNCHANGED MessagesToServer
  /\ UNCHANGED <<sessions, conn, wire, inbox, MessageToPage, loggedIn, page, rpi,
                 history>>

\* The message goes out, or what the connection's thread has put in its place.  A
\* connection that the service has dropped takes it as well, or throws.
Send(c, k) ==
  /\ conn[c] # "dead" /\ callback[c][k].at = "removed"
  /\ callback' = [callback EXCEPT ![c][k] = Idle]
  /\ \/ /\ conn[c] = "open" /\ callback[c][k].msg = "StartCar"
        /\ \/ starts' = starts + 1 /\ UNCHANGED spoilt
           \/ spoilt' = spoilt + 1 /\ UNCHANGED starts
     \/ /\ conn[c] # "open" \/ callback[c][k].msg # "StartCar"
        /\ UNCHANGED arrivals
  /\ UNCHANGED <<sessions, conn, wire, inbox, MessageToPage, MessagesToServer,
                 loggedIn, page, rpi, requests, informed>>

-----------------------------------------------------------------------------
(* The pages.                                                              *)

\* The login page; other names and passwords change nothing.
btnLogIn_Click ==
  /\ ~loggedIn
  /\ loggedIn' = TRUE
  /\ UNCHANGED <<sessions, conn, wire, cacheVars, page, rpi, history>>

\* Page_PreInit: a page that is loaded, or loaded again, adds a session, also
\* when Page_Load then finds that nobody has logged in and redirects.
Load(t) ==
  /\ loads < MaxLoads
  /\ loads' = loads + 1
  /\ sessions' = Append(sessions, loads')
  /\ conn' = [conn EXCEPT ![loads'] = "connecting"]
  /\ page' = [page EXCEPT ![t] = [NoPage EXCEPT !.open = loggedIn]]
  /\ UNCHANGED <<wire, cacheVars, loggedIn, rpi, clicks, asked, sent, arrivals,
                 informed>>

Close(t) ==
  /\ page[t].open
  /\ page' = [page EXCEPT ![t] = NoPage]
  /\ UNCHANGED <<sessions, conn, wire, cacheVars, loggedIn, rpi, history>>

\* The start button is disabled while a start is staged.
btnStartTheCar_Click(t) ==
  /\ page[t].open /\ page[t].lblMessageStatus # "staged"
  /\ clicks < MaxClicks
  /\ clicks' = clicks + 1 /\ asked' = asked + 1
  /\ \/ /\ page[t].lblSrvrStatus = "UP"
        /\ AddMessagesToServer(MyCache, <<"StartCar">>)
        /\ page' = [page EXCEPT ![t].lblMessageStatus = "sent"]
        /\ sent' = sent + 1
     \/ /\ page[t].lblSrvrStatus # "UP"
        /\ page' = [page EXCEPT ![t].lblMessageStatus = "staged"]
        /\ UNCHANGED <<MessagesToServer, sent>>
  /\ UNCHANGED <<sessions, conn, wire, inbox, MessageToPage, callback, loggedIn, rpi,
                 loads, arrivals, informed>>

btnHalt_Click(t) ==
  /\ page[t].open /\ clicks < MaxClicks
  /\ clicks' = clicks + 1
  /\ AddMessagesToServer(MyCache, <<"Debug">>)
  /\ UNCHANGED <<sessions, conn, wire, inbox, MessageToPage, callback, loggedIn, page,
                 rpi, loads, asked, sent, arrivals, informed>>

\* Mutant: the field is taken with its name.
WithName(text) == "RPIState:UP"

\* The page takes the first status of a text.
Shown(text) == Head(text)

\* Mutants: the label is compared with another text than it was given; it is
\* left as it is when the start is sent.
NeverStaged(t) == FALSE
StillStaged    == "staged"

StartStaged(t) == page[t].lblMessageStatus = "staged"

AfterSending == "sent"

\* A tick reads the cache, sends a staged start if the RPI is up, and queues an
\* acknowledgement in any case.
timUpdateMe_Tick(t) ==
  LET text == MessageToPage[MyCache]
  IN
  /\ page[t].open
  /\ MessageToPage' = [MessageToPage EXCEPT ![MyCache] = << >>]
  /\ informed' = IF text = << >> THEN informed ELSE {t}
  /\ \/ /\ text = << >>
        /\ AddMessagesToServer(MyCache, <<"ACK_Status">>)
        /\ UNCHANGED <<page, sent>>
     \/ /\ text # << >> /\ ~(StartStaged(t) /\ Shown(text) = "UP")
        /\ AddMessagesToServer(MyCache, <<"ACK_Status">>)
        /\ page' = [page EXCEPT ![t].lblSrvrStatus = Shown(text)]
        /\ UNCHANGED sent
     \/ /\ text # << >> /\ StartStaged(t) /\ Shown(text) = "UP"
        /\ AddMessagesToServer(MyCache, <<"StartCar", "ACK_Status">>)
        /\ page' = [page EXCEPT ![t].lblSrvrStatus = "UP",
                                ![t].lblMessageStatus = AfterSending]
        /\ sent' = sent + 1
  /\ UNCHANGED <<sessions, conn, wire, inbox, callback, loggedIn, rpi, loads, clicks,
                 asked, arrivals>>

-----------------------------------------------------------------------------
(* The exchange service.                                                   *)

\* It hears of the RPI, which is as before or not.
Broadcast(st) ==
  /\ rpi' = st
  /\ SendStatus(st, Open)
  /\ UNCHANGED <<sessions, conn, cacheVars, loggedIn, page, history>>

\* The session lasted too long, or the keepalive passed.
Drop(c) ==
  /\ conn[c] = "open"
  /\ conn' = [conn EXCEPT ![c] = "dropped"]
  /\ UNCHANGED <<sessions, wire, cacheVars, loggedIn, page, rpi, history>>

-----------------------------------------------------------------------------
Init ==
  /\ sessions = << >>
  /\ conn = [c \in Conn |-> "none"]
  /\ wire = [c \in Conn |-> << >>]
  /\ held = [c \in Conn |-> << >>] /\ lastText = [c \in Conn |-> "even"]
  /\ MessageToPage = [c \in Conn |-> << >>]
  /\ MessagesToServer = [c \in Conn |-> << >>]
  /\ callback = [c \in Conn |-> [k \in Callback |-> Idle]]
  /\ loggedIn = FALSE
  /\ page = [t \in Tab |-> NoPage]
  /\ rpi = "DOWN"
  /\ loads = 0 /\ clicks = 0 /\ asked = 0 /\ sent = 0 /\ starts = 0 /\ spoilt = 0
  /\ informed = {}

SendTimer(c) == \E k \in Callback : ReadMsgForServer(c, k) \/ RemoveAt(c, k) \/ Send(c, k)

Next ==
  \/ \E c \in Conn :
       \/ Connect(c) \/ ConnectFails(c)
       \/ ReceiveWholeMsg(c) \/ ReceiveSpoilt(c) \/ AddMessageToPage(c)
       \/ SendTimer(c)
       \/ Drop(c)
  \/ btnLogIn_Click
  \/ \E t \in Tab :
       \/ Load(t) \/ Close(t)
       \/ btnStartTheCar_Click(t) \/ btnHalt_Click(t) \/ timUpdateMe_Tick(t)
  \/ \E st \in Status : Broadcast(st)

Spec == Init /\ [][Next]_vars

-----------------------------------------------------------------------------
(* Properties.                                                             *)

\* A start that reaches the service was asked for: a click, be it staged, polled, queued
\* and sent by whichever tick, starts at most once, or as often as there are callbacks
\* that read the queue before one of them removes what they read.
StartsAsked == starts <= Cardinality(Callback) * asked

\* Nothing is on its way to the cache that the pages read, and the last text that
\* came got there.
Quiet ==
  /\ sessions # << >> /\ conn[MyCache] = "open" /\ lastText[MyCache] # "lost"
  /\ wire[MyCache] = << >> /\ held[MyCache] = << >> /\ MessageToPage[MyCache] = << >>

\* "Only the most recent message to the page is helpful": the page that has taken the last
\* text, and has none left to read, shows the state of the RPI that the service has.
PageCurrent ==
  Quiet => \A t \in informed : page[t].lblSrvrStatus \in {"Waiting", rpi}

\* What is true of it: messages that arrive together and differ are the only reason, apart
\* from a lost text, for that page to show anything else, over reloads, closed pages,
\* other tabs, texts that were overwritten or lost before, and a service that comes and
\* goes.  That a text is overwritten before a page has read it does no harm.
StaleOnlyIfJoined ==
  Quiet /\ lastText[MyCache] # "mixed" =>
    \A t \in informed : page[t].lblSrvrStatus \in {"Waiting", rpi}

\* What has to hold with them for a step to preserve them.  A page that is shown has
\* added a cache.
PagesHaveCache == (\E t \in Tab : page[t].open) => sessions # << >>

\* Every start asked for is staged, queued, taken by a callback, or has arrived.  While it
\* is the first of the queue it may be taken by every callback, those that are reading
\* at the time included; when one of them removes it, those have taken it.
QueuedStarts ==
  {p \in Conn \X (1 .. MaxQueue + 1) : p[2] <= Len(MessagesToServer[p[1]])
                                      /\ MessagesToServer[p[1]][p[2]] = "StartCar"}
TakenStarts ==
  {p \in Conn \X Callback : callback[p[1]][p[2]].at # "idle" /\ callback[p[1]][p[2]].msg = "StartCar"}
ReadingStarts ==
  {p \in Conn \X Callback : /\ callback[p[1]][p[2]].at = "read"
                            /\ MessagesToServer[p[1]] # << >>
                            /\ Head(MessagesToServer[p[1]]) = "StartCar"}
StagedTabs == {t \in Tab : page[t].lblMessageStatus = "staged"}

StartsCounted ==
  /\ \A c \in Conn : Len(MessagesToServer[c]) <= MaxQueue + 1
  /\ Cardinality(Callback) * (Cardinality(StagedTabs) + Cardinality(QueuedStarts))
       + Cardinality(TakenStarts) + starts + spoilt
         <= Cardinality(Callback) * asked + Cardinality(ReadingStarts)

\* What comes last on the way to the pages is the state of the RPI; so is all of a text
\* that was not lost and whose states agree, when nothing comes after it.
LatestUnderWay ==
  sessions # << >> /\ conn[MyCache] = "open" =>
    /\ wire[MyCache] # << >> => wire[MyCache][Len(wire[MyCache])] = rpi
    /\ wire[MyCache] = << >> /\ lastText[MyCache] = "even" =>
         /\ \A i \in 1 .. Len(held[MyCache]) : held[MyCache][i] = rpi
         /\ held[MyCache] = << >> =>
              \A i \in 1 .. Len(MessageToPage[MyCache]) : MessageToPage[MyCache][i] = rpi
         /\ held[MyCache] = << >> /\ MessageToPage[MyCache] = << >> =>
              \A t \in informed : page[t].lblSrvrStatus \in {"Waiting", rpi}

IndInv ==
  TypeOK /\ PagesHaveCache /\ StartsCounted /\ LatestUnderWay

\* The threads run, the timers of connections and open pages tick, and an RPI
\* that is up is heard of every few seconds (its ping).  The steps that write
\* the queue are strongly fair: the lock lets a waiting writer go first.  Nothing is
\* assumed of the way threads and callbacks take turns at bytes.
Fairness ==
  /\ \A c \in Conn :
       /\ WF_vars(Connect(c) \/ ConnectFails(c))
       /\ SF_vars(ReceiveWholeMsg(c)) /\ WF_vars(AddMessageToPage(c))
       /\ \A k \in Callback :
            WF_vars(ReadMsgForServer(c, k) \/ RemoveAt(c, k) \/ Send(c, k))
  /\ \A t \in Tab : SF_vars(timUpdateMe_Tick(t))
  /\ WF_vars(rpi = "UP" /\ Broadcast("UP"))

FairSpec == Spec /\ Fairness

\* "Message sent at": a start that a page reports as sent reaches the service.
SentArrives == \A n \in 1 .. MaxClicks : sent >= n ~> starts >= n


\* "Message staged until client up": when the RPI stays up, the pages' connection
\* is kept, and texts stop being lost on it, a staged start is sent, or its page
\* is left.
StagedIsSent ==
  <>[](rpi = "UP" /\ sessions # << >> /\ conn[MyCache] = "open"
         /\ lastText[MyCache] # "lost") =>
    \A t \in Tab : page[t].lblMessageStatus = "staged" ~>
                    page[t].lblMessageStatus # "staged"
=============================================================================
