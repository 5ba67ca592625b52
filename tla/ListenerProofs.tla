--------------------------- MODULE ListenerProofs --------------------------
(***************************************************************************)
(* Proofs about Listener: for any clients, any backlog and any number of   *)
(* chunks, the types hold and nobody is served before a client has sent a  *)
(* whole message, or has broken off in the middle of an <EOF>.             *)
(***************************************************************************)
EXTENDS Listener, TLAPS

\* A step of the clients or of the listener preserves the types.
LEMMA TypeInductive ==
  ASSUME TypeOK, [Next]_vars
  PROVE  TypeOK'
<1> USE DEF TypeOK, Chunk, Text, history
<1>1. ASSUME NEW c \in Client, Connect(c)
      PROVE  TypeOK'
  <2>1. CASE HasRoom
    <3>1. backlog' = Append(backlog, c) /\ where' = [where EXCEPT ![c] = "waiting"]
      BY <1>1, <2>1 DEF Connect
    <3>2. backlog' \in Seq(Client) /\ Len(backlog') <= Backlog
      BY <2>1, <3>1, ListenerAssumption DEF HasRoom
    <3> QED BY <1>1, <3>1, <3>2 DEF Connect
  <2>2. CASE ~HasRoom
    BY <1>1, <2>2 DEF Connect
  <2> QED BY <2>1, <2>2
<1>2. ASSUME NEW c \in Client, NEW chunk \in Chunk, Send(c, chunk)
      PROVE  TypeOK'
  BY <1>2 DEF Send, Added
<1>3. ASSUME NEW c \in Client, NEW how \in {"closed", "reset"}, End(c, how)
      PROVE  TypeOK'
  BY <1>3 DEF End
<1>4. CASE AcceptAConnection
  <2>1. Head(backlog) \in Client /\ Tail(backlog) \in Seq(Client)
        /\ Len(Tail(backlog)) <= Backlog
    BY <1>4, ListenerAssumption DEF AcceptAConnection
  <2> QED BY <1>4, <2>1 DEF AcceptAConnection
<1>5. CASE ReceiveWholeMsg
  <2>1. data' \in Text /\ heard' \in [Client -> Text]
    BY <1>5 DEF ReceiveWholeMsg, Added
  <2>2. unread' \in [Client -> Seq(Chunk)]
    BY <1>5 DEF ReceiveWholeMsg
  <2> QED BY <1>5, <2>1, <2>2 DEF ReceiveWholeMsg
<1>6. CASE ReceiveNothing
  BY <1>6 DEF ReceiveNothing
<1>7. CASE ReceiveThrows
  BY <1>7 DEF ReceiveThrows, AfterException
<1>8. CASE UNCHANGED vars
  BY <1>8 DEF vars, history
<1> QED
  BY <1>1, <1>2, <1>3, <1>4, <1>5, <1>6, <1>7, <1>8 DEF Next, TCP_Listener

LEMMA InitTypes ==
  ASSUME Init
  PROVE  TypeOK
<1>1. << >> \in Seq(Client) /\ Len(<< >>) = 0 /\ << >> \in Seq(Chunk)
  OBVIOUS
<1>2. unread \in [Client -> Seq(Chunk)]
  BY <1>1 DEF Init
<1>3. backlog \in Seq(Client) /\ Len(backlog) <= Backlog
  BY <1>1, ListenerAssumption DEF Init
<1> QED BY <1>2, <1>3 DEF Init, TypeOK, Text

\* The variables always have the types of the code's fields.
THEOREM TypeCorrect == Spec => []TypeOK
<1>1. Init => TypeOK
  BY InitTypes
<1>2. TypeOK /\ [Next]_vars => TypeOK'
  BY TypeInductive
<1> QED BY <1>1, <1>2, PTL DEF Spec

\* A client that has broken off, or has sent a whole message that was read, stays so:
\* nobody reads on a connection that was reset.
LEMMA BegunStays ==
  ASSUME TypeOK, [Next]_vars, NEW c \in Client
  PROVE  /\ heard[c] = "EOF" => heard'[c] = "EOF"
         /\ BrokenOff(c) => BrokenOff(c)'
<1>1. heard[c] = "EOF" => heard'[c] = "EOF"
  BY DEF TypeOK, Added, Next, TCP_Listener, Connect, Send, End, AcceptAConnection,
         ReceiveWholeMsg, ReceiveNothing, ReceiveThrows, vars, history
<1>2. peer[c] = "reset" => peer'[c] = "reset" /\ heard'[c] = heard[c]
  BY DEF TypeOK, Next, TCP_Listener, Connect, Send, End, AcceptAConnection,
         ReceiveWholeMsg, ReceiveNothing, ReceiveThrows, vars, history
<1> QED BY <1>1, <1>2 DEF BrokenOff

LEMMA IndInvInductive ==
  ASSUME IndInv, [Next]_vars
  PROVE  IndInv'
<1> USE DEF IndInv
<1>1. TypeOK'
  BY TypeInductive
<1>2. EOFBegun => EOFBegun'
  BY BegunStays DEF EOFBegun
<1>3. (\E c \in Client : BrokenOff(c)) => \E c \in Client : BrokenOff(c)'
  BY BegunStays
<1>4. ASSUME ReceiveWholeMsg
      PROVE  ServedAfterEOF' /\ EOFAccounted'
  <2> DEFINE chunk == Head(unread[handler])
  <2>1. /\ handler \in Client /\ data' = Added(data, chunk)
        /\ heard' = [heard EXCEPT ![handler] = Added(@, chunk)]
    BY <1>4 DEF ReceiveWholeMsg, TypeOK
  <2>2. /\ heard'[handler] = Added(heard[handler], chunk)
        /\ \A c \in Client : c # handler => heard'[c] = heard[c]
    BY <2>1 DEF TypeOK
  <2> HIDE DEF chunk
  <2>3. ASSUME data' = "EOF"
        PROVE  EOFBegun'
    <3>1. CASE data = "EOF"
      BY <1>2, <3>1 DEF EOFAccounted
    <3>2. CASE chunk = "EOF"
      BY <2>1, <2>2, <3>2 DEF Added, EOFBegun
    <3>3. CASE data = "EO" /\ chunk = "F"
      <4>1. CASE heard[handler] = "EO"
        BY <2>1, <2>2, <3>3, <4>1 DEF Added, EOFBegun
      <4>2. CASE \E c \in Client : BrokenOff(c)
        BY <1>3, <4>2 DEF EOFBegun, BrokenOff
      <4> QED BY <3>3, <4>1, <4>2 DEF EOFAccounted
    <3> QED BY <2>1, <2>3, <3>1, <3>2, <3>3 DEF Added
  <2>4. ASSUME data' = "EO"
        PROVE  handler' # NoClient /\ heard'[handler'] = "EO"
    <3>1. chunk = "EO" /\ data # "EOF"
      BY <2>1, <2>4 DEF Added
    <3>2. heard[handler] # "EOF"
      BY <2>1, <3>1 DEF EOFAccounted
    <3>3. handler' = handler
      BY <1>4, <2>4 DEF ReceiveWholeMsg, HasEOF
    <3> QED BY <1>4, <2>2, <3>1, <3>2, <3>3 DEF Added, ReceiveWholeMsg
  <2>5. ASSUME NEW c \in Client, heard'[c] = "EOF" \/ where'[c] = "talking"
        PROVE  data' = "EOF"
    <3>1. data = "EOF" => data' = "EOF"
      BY <2>1 DEF Added
    <3>2. CASE c = handler
      <4>1. CASE heard'[c] = "EOF"
        <5>1. CASE heard[handler] = "EO" /\ chunk = "F"
          <6>1. ~BrokenOff(handler)
            BY <1>4 DEF ReceiveWholeMsg, BrokenOff
          <6> QED BY <2>1, <3>1, <5>1, <6>1 DEF Added, EOFAccounted
        <5> QED BY <2>1, <2>2, <3>1, <3>2, <4>1, <5>1 DEF Added, EOFAccounted
      <4>2. CASE where'[c] = "talking"
        <5>1. CASE HasEOF(data')
          BY <5>1 DEF HasEOF
        <5>2. CASE ~HasEOF(data')
          BY <1>4, <3>1, <4>2, <5>2 DEF ReceiveWholeMsg, EOFAccounted
        <5> QED BY <5>1, <5>2
      <4> QED BY <2>5, <4>1, <4>2
    <3>3. CASE c # handler
      <4>1. heard'[c] = heard[c] /\ where'[c] = where[c]
        BY <1>4, <2>2, <3>3 DEF ReceiveWholeMsg, TypeOK
      <4> QED BY <2>5, <3>1, <4>1 DEF EOFAccounted
    <3> QED BY <3>2, <3>3
  <2>6. ASSUME NEW c \in Client, heard'[c] = "EO"
        PROVE  data' = "EOF" \/ BrokenOff(c)' \/ (c = handler' /\ data' = "EO")
    <3>1. CASE c = handler
      <4>1. chunk = "EO"
        BY <2>2, <2>6, <3>1 DEF Added
      <4> QED BY <1>4, <2>1, <3>1, <4>1 DEF Added, ReceiveWholeMsg, HasEOF
    <3>2. CASE c # handler
      <4>1. data = "EOF" \/ BrokenOff(c)
        BY <2>2, <2>6, <3>2 DEF EOFAccounted
      <4> QED BY <2>1, <4>1, BegunStays DEF Added
    <3> QED BY <3>1, <3>2
  <2>7. EOFAccounted'
    BY <2>3, <2>4, <2>5, <2>6 DEF EOFAccounted
  <2>8. ServedAfterEOF'
    BY <2>3, <2>5 DEF ServedAfterEOF
  <2> QED BY <2>7, <2>8
<1>5. ASSUME ReceiveNothing
      PROVE  ServedAfterEOF' /\ EOFAccounted'
  <2>1. data' = "EOF" /\ data = "EOF" /\ heard' = heard
    BY <1>5 DEF ReceiveNothing, HasEOF, history
  <2>2. EOFBegun'
    BY <1>2, <2>1 DEF EOFAccounted
  <2> QED BY <2>1, <2>2 DEF ServedAfterEOF, EOFAccounted
<1>6. ASSUME ReceiveThrows
      PROVE  ServedAfterEOF' /\ EOFAccounted'
  <2>1. /\ handler \in Client /\ peer[handler] = "reset"
        /\ data' = data /\ heard' = heard /\ peer' = peer
        /\ \A c \in Client : where'[c] = "talking" => where[c] = "talking"
    BY <1>6 DEF ReceiveThrows, history, TypeOK
  <2>2. data' = "EO" => \E c \in Client : BrokenOff(c)'
    BY <1>3, <2>1 DEF EOFAccounted, BrokenOff
  <2>3. \A c \in Client : heard'[c] = "EO" => data' = "EOF" \/ BrokenOff(c)'
    BY <2>1 DEF EOFAccounted, BrokenOff
  <2> QED BY <1>2, <2>1, <2>2, <2>3 DEF ServedAfterEOF, EOFAccounted
<1>7. ASSUME \/ \E c \in Client : Connect(c)
             \/ \E c \in Client, chunk \in Chunk : Send(c, chunk)
             \/ \E c \in Client, how \in {"closed", "reset"} : End(c, how)
             \/ AcceptAConnection
             \/ UNCHANGED vars
      PROVE  ServedAfterEOF' /\ EOFAccounted'
  <2>1. /\ data' = data /\ heard' = heard
        /\ handler # NoClient => handler' = handler
    BY <1>7 DEF Connect, Send, End, AcceptAConnection, vars, history
  <2>2. \A c \in Client : where'[c] = "talking" => where[c] = "talking"
    BY <1>7 DEF Connect, Send, End, AcceptAConnection, vars, TypeOK
  <2>3. data' = "EO" => \/ handler' # NoClient /\ heard'[handler'] = "EO"
                        \/ \E c \in Client : BrokenOff(c)'
    BY <1>3, <2>1 DEF EOFAccounted
  <2>4. \A c \in Client : heard'[c] = "EO" =>
          data' = "EOF" \/ BrokenOff(c)' \/ (c = handler' /\ data' = "EO")
    BY <2>1, BegunStays, ListenerAssumption DEF EOFAccounted
  <2> QED BY <1>2, <2>1, <2>2, <2>3, <2>4 DEF ServedAfterEOF, EOFAccounted
<1> QED
  BY <1>1, <1>4, <1>5, <1>6, <1>7 DEF Next, TCP_Listener

LEMMA InitIndInv ==
  ASSUME Init
  PROVE  IndInv
BY InitTypes DEF Init, IndInv, ServedAfterEOF, EOFAccounted

\* Every <EOF> in RecSock.data, and every beginning of one at its end, is accounted for by
\* what some client sent; and data has an <EOF> from the first client that is served on.
THEOREM IndInvHolds == Spec => []IndInv
<1>1. Init => IndInv
  BY InitIndInv
<1>2. IndInv /\ [Next]_vars => IndInv'
  BY IndInvInductive
<1> QED BY <1>1, <1>2, PTL DEF Spec

\* So nobody is served before a client has sent a whole message, or has broken off in the
\* middle of an <EOF>, which another's bytes complete.
THEOREM ServedAfterEOFHolds == Spec => []ServedAfterEOF
<1>1. IndInv => ServedAfterEOF
  BY DEF IndInv
<1> QED BY <1>1, IndInvHolds, PTL
=============================================================================
