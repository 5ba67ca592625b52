---------------------------- MODULE RemoteStart ----------------------------
(***************************************************************************)
(* The way of a command from the exchange service to the car: the handler  *)
(* adds it to the message cache (MsgCache), the send timer of a connection *)
(* of the RPI reads it and sends it, and the RPI's program obeys it, or    *)
(* not.  Both ends fail: the link is lost, the program hangs up, reboots   *)
(* and connects again, the service tears connections down late or twice.   *)
(*                                                                         *)
(* What a connection sends is a field, bytes, which its own thread also    *)
(* receives into: it replaces the field every 10 ms, so the command that   *)
(* the callback of the send timer has put there may be gone when Send      *)
(* takes it.  The peer then gets other bytes (Garbage).                    *)
(*                                                                         *)
(* A command is the number of its posting.  ExchangeServer has the rest of *)
(* the service, RpiClient the timers, pins and modem of the RPI.           *)
(***************************************************************************)
EXTENDS Clients, Integers, Sequences, FiniteSets, Functions

CONSTANTS MaxConn,      \* bound on the connections that the RPI makes
          MaxCommands,  \* bound on the commands posted
          MaxRemovals   \* bound on the threads that take one connection out of
                        \* the cache's count

ASSUME BoundAssumption == MaxConn \in Nat /\ MaxCommands \in Nat /\ MaxRemovals \in Nat

Conn    == 1 .. MaxConn
Command == {"StartCar", "Debug", "Joined"}  \* Joined: several in one text
Garbage == 0    \* other bytes than a command
Nothing == -1   \* no bytes

VARIABLES
  cache, numClients, posted, received,  \* ClientMsgCache, see MsgCache
  conn,      \* TCPClientConn c in the service: none, up or dead
  removals,  \* how often it was taken out of the cache's count
  bytes,     \* what its send timer is about to send
  link,      \* link[c]: what is sent on connection c reaches the RPI
  wire,      \* what was sent and the RPI has not received
  sock,      \* the program's connection, 0 when it has none
  running,   \* the program is in its main loop
  startMsgToConsume,  \* it holds down the button
  outcome    \* history: what became of each command

ClientMsgCache == <<cache, numClients, posted, received>>
service == <<conn, removals>>
network == <<bytes, link, wire>>
program == <<sock, running, startMsgToConsume>>
vars    == <<ClientMsgCache, service, network, program, outcome>>

C == INSTANCE MsgCache WITH
       Message     <- Command,
       ClientID    <- {RpiID},
       MaxClients  <- MaxConn * (MaxRemovals + 1),
       MaxMessages <- MaxCommands

Item == {Garbage} \union 1 .. MaxCommands

TypeOK ==
  /\ C!TypeOK
  /\ conn \in [Conn -> {"none", "up", "dead"}]
  /\ removals \in [Conn -> 0 .. MaxRemovals]
  /\ bytes \in [Conn -> Item \union {Nothing}]
  /\ link \in [Conn -> BOOLEAN]
  /\ wire \in [Conn -> Seq(Item)]
  /\ sock \in {0} \union Conn
  /\ running \in BOOLEAN
  /\ startMsgToConsume \in BOOLEAN
  /\ outcome \in [1 .. MaxCommands -> {"none", "obeyed", "ignored", "lost"}]

\* The history: this became of the commands among items.
Ends(items, how) ==
  outcome' = [i \in 1 .. MaxCommands |-> IF i \in items THEN how ELSE outcome[i]]

-----------------------------------------------------------------------------
(* The exchange service.                                                   *)

\* The handler takes StartCar or Debug from a consumer, with all that the consumer's
\* connection received together with it.
AddMessage(msg) ==
  /\ C!AddMessage(msg, Rpi)
  /\ UNCHANGED <<service, network, program, outcome>>

\* The 3 s timer of a message.
IAmOld(m) ==
  /\ C!IAmOld(m)
  /\ UNCHANGED <<service, network, program, outcome>>

\* A tick of the send timer: the callback reads a command, which counts as read
\* from now on, and puts it into bytes.
GrabTransmissionInCache(c) ==
  /\ conn[c] = "up" /\ bytes[c] = Nothing
  /\ C!Read(RpiID)
  /\ bytes' = [bytes EXCEPT ![c] =
                 IF C!Unread(RpiID) = {} THEN Nothing ELSE C!Oldest(C!Unread(RpiID)).id]
  /\ UNCHANGED <<service, link, wire, program, outcome>>

\* ReceiveWholeMsg: the connection's thread replaces the field before Send.
NewBytes(c) ==
  /\ conn[c] = "up" /\ bytes[c] \notin {Nothing, Garbage}
  /\ bytes' = [bytes EXCEPT ![c] = Garbage]
  /\ Ends({bytes[c]}, "lost")
  /\ UNCHANGED <<ClientMsgCache, service, link, wire, program>>

\* Mutant: the bytes stay where they are and are sent again.
Resend(c) == bytes[c]

AfterSend(c) == Nothing

\* Send, which the teardown of the connection does not stop.  On a link that is
\* lost it throws, which is logged, or the bytes get nowhere.
Send(c) ==
  /\ bytes[c] # Nothing
  /\ bytes' = [bytes EXCEPT ![c] = AfterSend(c)]
  /\ \/ link[c] /\ wire' = [wire EXCEPT ![c] = Append(@, bytes[c])] /\ UNCHANGED outcome
     \/ ~link[c] /\ Ends({bytes[c]}, "lost") /\ UNCHANGED wire
  /\ UNCHANGED <<ClientMsgCache, service, link, program>>

\* ThisConnectionSucks: the keepalive, or whichever thread of the connection finds
\* it dead, takes it out of the count; the first that is through stops the timers, and
\* another that has passed the test of disposing may take it out after that.
RemoveClient(c) ==
  /\ conn[c] # "none" /\ removals[c] < MaxRemovals
  /\ C!ClientRemoved(Rpi)
  /\ removals' = [removals EXCEPT ![c] = @ + 1]
  /\ UNCHANGED <<conn, network, program, outcome>>

StopTimers(c) ==
  /\ conn[c] = "up" /\ removals[c] > 0
  /\ conn' = [conn EXCEPT ![c] = "dead"]
  /\ UNCHANGED <<ClientMsgCache, removals, network, program, outcome>>

-----------------------------------------------------------------------------
(* The link: it is lost, with the end of what was under way.               *)

LinkLost(c) ==
  /\ link[c]
  /\ link' = [link EXCEPT ![c] = FALSE]
  /\ \E n \in 0 .. Len(wire[c]) :
       /\ wire' = [wire EXCEPT ![c] = SubSeq(@, 1, n)]
       /\ Ends(Range(SubSeq(wire[c], n + 1, Len(wire[c]))), "lost")
  /\ UNCHANGED <<ClientMsgCache, service, bytes, program>>

-----------------------------------------------------------------------------
(* The program on the RPI.                                                 *)

\* It connects and identifies itself; the service registers the connection.
Connect(c) ==
  /\ running /\ sock = 0 /\ conn[c] = "none"
  /\ \A d \in Conn : d < c => conn[d] # "none"
  /\ sock' = c
  /\ link' = [link EXCEPT ![c] = TRUE]
  /\ conn' = [conn EXCEPT ![c] = "up"]
  /\ C!ClientAdded(Rpi)
  /\ UNCHANGED <<removals, bytes, wire, running, startMsgToConsume, outcome>>

\* Mutant: the test of the press is inverted.
IsStartInPress(text) ==
  /\ Len(text) = 1 /\ text[1] # Garbage
  /\ posted[text[1]].msg = "StartCar" /\ startMsgToConsume

\* StartCar counts when it is all that recv returned, and no press is on.
IsStart(text) ==
  /\ Len(text) = 1 /\ text[1] # Garbage
  /\ posted[text[1]].msg = "StartCar" /\ ~startMsgToConsume

\* Debug counts when it is all that recv returned.
IsDebug(text) == Len(text) = 1 /\ text[1] # Garbage /\ posted[text[1]].msg = "Debug"

\* recv returns what has arrived, be it one command or several.
Recv ==
  /\ running /\ sock # 0
  /\ \E n \in 1 .. Len(wire[sock]) :
       LET text == SubSeq(wire[sock], 1, n)
       IN  /\ wire' = [wire EXCEPT ![sock] = SubSeq(@, n + 1, Len(@))]
           /\ startMsgToConsume' = (startMsgToConsume \/ IsStart(text))
           /\ running' = ~IsDebug(text)
           /\ Ends(Range(text), IF IsStart(text) \/ IsDebug(text) THEN "obeyed" ELSE "ignored")
  /\ UNCHANGED <<ClientMsgCache, service, bytes, link, sock>>

\* The press has lasted its time.
Release ==
  /\ running /\ startMsgToConsume
  /\ startMsgToConsume' = FALSE
  /\ UNCHANGED <<ClientMsgCache, service, network, sock, running, outcome>>

\* What the connection of the program holds is gone with it.
CloseSocket ==
  /\ sock' = 0
  /\ link' = [c \in Conn |-> link[c] /\ c # sock]
  /\ wire' = [c \in Conn |-> IF c = sock THEN << >> ELSE wire[c]]
  /\ IF sock = 0 THEN UNCHANGED outcome ELSE Ends(Range(wire[sock]), "lost")

\* No reason is left to stay in service; a press is one.
HangUp ==
  /\ running /\ sock # 0 /\ ~startMsgToConsume
  /\ CloseSocket
  /\ UNCHANGED <<ClientMsgCache, service, bytes, running, startMsgToConsume>>

\* A call on a lost link, or a connect, has failed and ordered a reboot.
Reboot ==
  /\ sock \in {0} \union {c \in Conn : ~link[c]}
  /\ CloseSocket
  /\ running' = TRUE /\ startMsgToConsume' = FALSE
  /\ UNCHANGED <<ClientMsgCache, service, bytes>>

-----------------------------------------------------------------------------
Init ==
  /\ C!Init
  /\ conn = [c \in Conn |-> "none"]
  /\ removals = [c \in Conn |-> 0]
  /\ bytes = [c \in Conn |-> Nothing]
  /\ link = [c \in Conn |-> FALSE]
  /\ wire = [c \in Conn |-> << >>]
  /\ sock = 0
  /\ running = TRUE
  /\ startMsgToConsume = FALSE
  /\ outcome = [i \in 1 .. MaxCommands |-> "none"]

Next ==
  \/ \E msg \in Command : AddMessage(msg)
  \/ \E m \in cache : IAmOld(m)
  \/ \E c \in Conn :
       \/ GrabTransmissionInCache(c) \/ NewBytes(c) \/ Send(c)
       \/ RemoveClient(c) \/ StopTimers(c)
       \/ LinkLost(c)
       \/ Connect(c)
  \/ Recv \/ Release \/ HangUp \/ Reboot

Spec == Init /\ [][Next]_vars

-----------------------------------------------------------------------------
(* Safety.                                                                 *)

\* What is on connection c, read from the cache and not received yet.
On(c) == ({bytes[c]} \ {Nothing}) \union Range(wire[c])

UnderWay == UNION {On(c) : c \in Conn}
Waiting  == {m.id : m \in C!Unread(RpiID)}

\* No command vanishes: each one posted waits in the cache, is under way, or has
\* ended, and never two of these, whatever fails.
NoneVanishes ==
  \A i \in 1 .. Len(posted) :
    /\ outcome[i] = "none" <=> i \in Waiting \union UnderWay
    /\ ~(i \in Waiting /\ i \in UnderWay)

Obeyed == {i \in 1 .. MaxCommands : outcome[i] = "obeyed"}

\* From end to end the system is a Delivery to the car: commands are obeyed in the
\* order in which they were posted, each at most once, although the RPI and the
\* service may have several connections between them at a time.
D == INSTANCE Delivery WITH
       Message  <- Command,
       ClientID <- {RpiID},
       received <- [id \in {RpiID} |-> Obeyed]

DeliveredToCar == D!Spec

\* What has to hold with them for a step to preserve them.  Only the connection
\* that the program has now leads anywhere, and a new one starts out empty.
OneWay ==
  \A c \in Conn :
    /\ link[c] \/ wire[c] # << >> => c = sock
    /\ conn[c] = "none" => bytes[c] = Nothing

\* The commands that were read are those that are under way or have ended.
Tracked ==
  /\ \A i \in 1 .. Len(posted) : posted[i].target = Rpi
  /\ Len(posted) <= MaxCommands
  /\ \A c \in Conn : On(c) \subseteq {Garbage} \union received[RpiID]
  /\ \A i \in 1 .. MaxCommands :
       outcome[i] = "none" <=> i \in UnderWay \/ i \notin received[RpiID]

\* The commands under way are in one place each, in the order of their posting
\* on the way to the program, and later than those that it has obeyed.
InOrder ==
  /\ \A c, d \in Conn :
       /\ bytes[c] = bytes[d] => c = d \/ bytes[c] \in {Nothing, Garbage}
       /\ bytes[c] \in Range(wire[d]) => bytes[c] = Garbage
  /\ \A c \in Conn : \A a, b \in 1 .. Len(wire[c]) :
       a < b /\ wire[c][b] # Garbage => wire[c][a] < wire[c][b]
  /\ \A c \in Conn : \A a \in 1 .. Len(wire[c]) :
       bytes[c] > Garbage => wire[c][a] < bytes[c]
  /\ sock # 0 => \A i \in Obeyed : \A x \in On(sock) \ {Garbage} : i < x

IndInv == TypeOK /\ C!IndInv /\ OneWay /\ Tracked /\ InOrder

-----------------------------------------------------------------------------
(* Liveness.  The send timers tick and the program receives.  Nothing is    *)
(* assumed of users, of the link, or of the way the two threads of a       *)
(* connection take turns at bytes.                                         *)

Fairness ==
  /\ \A c \in Conn : WF_vars(GrabTransmissionInCache(c)) /\ WF_vars(Send(c))
  /\ WF_vars(Recv)

FairSpec == Spec /\ Fairness

\* The program and the service have the same connection.
Serving == running /\ sock # 0 /\ conn[sock] = "up"

Posted(i) == i \in 1 .. Len(posted)

\* A command waits for the RPI as long as it takes, its timeout notwithstanding:
\* once the RPI is back for good, every command ends.
EveryCommandEnds ==
  <>[]Serving => \A i \in 1 .. MaxCommands : Posted(i) ~> Posted(i) /\ outcome[i] # "none"

\* A start that nothing stands in the way of, neither a press, nor a lost link, nor
\* other bytes it might be received with, leads to a press, unless another command
\* follows it too closely or its own bytes are lost.
Alone(i) ==
  /\ Posted(i) /\ Serving /\ link[sock] /\ ~startMsgToConsume
  /\ posted[i].msg = "StartCar" /\ Waiting \union UnderWay = {i}

StartPresses ==
  \A i \in 1 .. MaxCommands :
    Alone(i) ~> \/ outcome[i] \in {"obeyed", "lost"}
                \/ (Waiting \union UnderWay) \ {i} # {}
                \/ ~Serving \/ ~link[sock]

\* A command that was created for one client leaves the list again once the RPI is
\* back for good.  One that was created while two connections were counted does not:
\* the RPI's id marks it only once.
CommandsForgotten ==
  <>[]Serving =>
    \A i \in 1 .. MaxCommands :
      (\E m \in cache : m.id = i /\ m.NumClientsAtCreation = 1) ~>
        \A m \in cache : m.id # i
=============================================================================
