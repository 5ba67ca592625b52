------------------------------ MODULE Listener -----------------------------
(***************************************************************************)
(* The listener of one port of the exchange service: ClientListener's      *)
(* TCP_Listener and the RecSock it listens with (SocketType.cs).  It takes *)
(* one client at a time, waits for its first message and starts a          *)
(* TCPClientConn for it.  The text received is a field of the RecSock, and *)
(* nothing resets it between clients: what one client sent before it broke *)
(* off stays in front of what the next one sends.  Of a text, the model    *)
(* keeps whether it contains <EOF> ("EOF") and, if not, whether it ends in *)
(* the beginning of one ("EO"), which is all that a search for <EOF> in it *)
(* and in what is added to it can tell; one place to cut an <EOF> in two   *)
(* stands for all.                                                         *)
(***************************************************************************)
EXTENDS Naturals, Sequences, FiniteSets

CONSTANTS Client, NoClient,
          Backlog,      \* clients that may wait for Accept
          MaxUnread     \* bound on the chunks a client has sent and nobody read

ASSUME ListenerAssumption ==
  NoClient \notin Client /\ Backlog \in Nat /\ MaxUnread \in Nat

\* What one Receive may return, one of each kind: other text, a beginning of <EOF> at the
\* end, the rest of it at the start, a whole one.
Chunk == {"text", "EO", "F", "EOF"}

\* A text, by what it contains or ends in.
Text == {"none", "EO", "EOF"}

VARIABLES
  where,        \* where client c is
  backlog,      \* the clients that wait for Accept
  handler,      \* the client whose first message is awaited
  data,         \* RecSock.data
  unread,       \* what c has sent and the service has not read
  peer,         \* c's end of the connection
  said, heard   \* history: the text that c has sent, and what was read of it

history == <<said, heard>>
vars    == <<where, backlog, handler, data, unread, peer, history>>

TypeOK ==
  /\ where \in [Client -> {"absent", "refused", "waiting", "handler", "talking", "failed"}]
  /\ backlog \in Seq(Client) /\ Len(backlog) <= Backlog
  /\ handler \in Client \union {NoClient}
  /\ data \in Text
  /\ unread \in [Client -> Seq(Chunk)]
  /\ peer \in [Client -> {"open", "closed", "reset"}]
  /\ said \in [Client -> Text] /\ heard \in [Client -> Text]

\* The text with the chunk added to it.
Added(text, chunk) ==
  IF text = "EOF" \/ chunk = "EOF" \/ (text = "EO" /\ chunk = "F") THEN "EOF"
  ELSE IF chunk = "EO" THEN "EO" ELSE "none"

\* Mutant: whatever has been received is taken for a whole message.
Anything(text) == TRUE

HasEOF(text) == text = "EOF"

-----------------------------------------------------------------------------
(* The clients.                                                            *)

\* Mutant: off by one.
RoomForOneMore == Len(backlog) <= Backlog

HasRoom == Len(backlog) < Backlog

Connect(c) ==
  /\ where[c] = "absent"
  /\ \/ /\ HasRoom
        /\ where' = [where EXCEPT ![c] = "waiting"]
        /\ backlog' = Append(backlog, c)
     \/ /\ ~HasRoom
        /\ where' = [where EXCEPT ![c] = "refused"]
        /\ UNCHANGED backlog
  /\ UNCHANGED <<handler, data, unread, peer, history>>

\* Clients send what they like: the system's own send a message that ends in <EOF>, which
\* may arrive in parts.
Send(c, chunk) ==
  /\ where[c] \in {"waiting", "handler"} /\ peer[c] = "open"
  /\ Len(unread[c]) < MaxUnread
  /\ unread' = [unread EXCEPT ![c] = Append(@, chunk)]
  /\ said' = [said EXCEPT ![c] = Added(@, chunk)]
  /\ UNCHANGED <<where, backlog, handler, data, peer, heard>>

End(c, how) ==
  /\ where[c] \in {"waiting", "handler"} /\ peer[c] = "open"
  /\ peer' = [peer EXCEPT ![c] = how]
  /\ UNCHANGED <<where, backlog, handler, data, unread, history>>

-----------------------------------------------------------------------------
(* TCP_Listener.                                                           *)

AcceptAConnection ==
  /\ handler = NoClient /\ backlog # << >>
  /\ handler' = Head(backlog)
  /\ backlog' = Tail(backlog)
  /\ where' = [where EXCEPT ![handler'] = "handler"]
  /\ UNCHANGED <<data, unread, peer, history>>

\* ReceiveWholeMsg, an iteration: what Receive returns is added to data; when <EOF> is
\* in it, the client is handed to a TCPClientConn of its own.
ReceiveWholeMsg ==
  /\ handler # NoClient /\ unread[handler] # << >> /\ peer[handler] # "reset"
  /\ unread' = [unread EXCEPT ![handler] = Tail(@)]
  /\ data' = Added(data, Head(unread[handler]))
  /\ heard' = [heard EXCEPT ![handler] = Added(@, Head(unread[handler]))]
  /\ \/ /\ HasEOF(data')
        /\ where' = [where EXCEPT ![handler] = "talking"]
        /\ handler' = NoClient
     \/ ~HasEOF(data') /\ UNCHANGED <<where, handler>>
  /\ UNCHANGED <<backlog, peer, said>>

\* A client that has closed is read again and again, zero bytes each time, for
\* ever if data has no <EOF>: only the other case is a step.
ReceiveNothing ==
  /\ handler # NoClient /\ unread[handler] = << >> /\ peer[handler] = "closed"
  /\ HasEOF(data)
  /\ where' = [where EXCEPT ![handler] = "talking"]
  /\ handler' = NoClient
  /\ UNCHANGED <<backlog, data, unread, peer, history>>

\* Mutant: the exception ends the listener's thread.
StaysWith(c) == c

AfterException(c) == NoClient

\* A connection that was reset makes Receive throw; the loop catches it.
ReceiveThrows ==
  /\ handler # NoClient /\ peer[handler] = "reset"
  /\ where' = [where EXCEPT ![handler] = "failed"]
  /\ handler' = AfterException(handler)
  /\ UNCHANGED <<backlog, data, unread, peer, history>>

-----------------------------------------------------------------------------
Init ==
  /\ where = [c \in Client |-> "absent"]
  /\ backlog = << >>
  /\ handler = NoClient
  /\ data = "none"
  /\ unread = [c \in Client |-> << >>]
  /\ peer = [c \in Client |-> "open"]
  /\ said = [c \in Client |-> "none"] /\ heard = [c \in Client |-> "none"]

TCP_Listener == AcceptAConnection \/ ReceiveWholeMsg \/ ReceiveNothing \/ ReceiveThrows

Next ==
  \/ TCP_Listener
  \/ \E c \in Client :
       \/ Connect(c)
       \/ \E chunk \in Chunk : Send(c, chunk)
       \/ \E how \in {"closed", "reset"} : End(c, how)

Spec == Init /\ [][Next]_vars

FairSpec == Spec /\ WF_vars(TCP_Listener)

-----------------------------------------------------------------------------
(* Properties.                                                             *)

\* "WHAT IS YOUR PURPOSE HERE, SON?!  IDENTIFY YOURSELF": not that every client that is
\* served has sent a whole message, since data keeps what identified another; but nobody
\* is served before a client has sent an <EOF>, or has broken off in the middle of one,
\* which the next client may complete.
BrokenOff(c) == peer[c] = "reset" /\ heard[c] = "EO"

EOFBegun == \E c \in Client : heard[c] = "EOF" \/ BrokenOff(c)

ServedAfterEOF == (\E c \in Client : where[c] = "talking") => EOFBegun

\* What has to hold with it for a step to preserve it: an <EOF> in data was begun by some
\* client, a beginning that data ends in is that of the present one or of one that
\* broke off, and data keeps what identifies a client.
EOFAccounted ==
  /\ data = "EOF" => EOFBegun
  /\ data = "EO" => \/ handler # NoClient /\ heard[handler] = "EO"
                    \/ \E c \in Client : BrokenOff(c)
  /\ \A c \in Client :
       /\ heard[c] = "EOF" \/ where[c] = "talking" => data = "EOF"
       /\ heard[c] = "EO" =>
            data = "EOF" \/ BrokenOff(c) \/ (c = handler /\ data = "EO")

IndInv == TypeOK /\ ServedAfterEOF /\ EOFAccounted

\* The port serves everybody it let in, unless someone in front neither says
\* what it wants nor breaks the connection.
Pending(c) == where[c] \in {"waiting", "handler"}

WaitersServed ==
  (\A c \in Client : Pending(c) ~> said[c] = "EOF" \/ peer[c] = "reset" \/ ~Pending(c)) =>
    \A c \in Client : Pending(c) ~> ~Pending(c)
=============================================================================
