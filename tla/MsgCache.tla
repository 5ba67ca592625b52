------------------------------ MODULE MsgCache -----------------------------
(***************************************************************************)
(* The message cache of the exchange service (ClientMsgCache.cs): one list *)
(* of messages shared by all connections, each message addressed to all    *)
(* clients of one type.  Every public method runs under the write lock of  *)
(* cacheLock, so a call is one step.                                       *)
(*                                                                         *)
(* The list is a set of messages that carry their creation number id:      *)
(* messages are only ever added at the end, so the order of the list is    *)
(* the order of the ids.  posted and received are history variables.       *)
(*                                                                         *)
(* The environment of this module is any program: it may call any method   *)
(* at any time, so what holds here holds for every use of the class.       *)
(***************************************************************************)
EXTENDS Clients, Integers, Sequences, FiniteSets

CONSTANTS Message,      \* the texts handed to AddMessage
          ClientID,     \* the client ids that read
          MaxClients,   \* bound on the client counters, both ways
          MaxMessages   \* bound on the messages created

ASSUME ClientIDAssumption == ClientID \subseteq Nat /\ RpiID \in ClientID
ASSUME BoundAssumption    == MaxClients \in Nat /\ MaxMessages \in Nat

VARIABLES cache,        \* MessagesToClients
          numClients,   \* numControlClients and numRPIClients, by type
          posted,       \* history: the messages created, in order
          received      \* history: received[id] holds the ids that reader id got

vars == <<cache, numClients, posted, received>>

CacheMessage ==
  [id : Nat, msg : Message, targetClientType : ClientType,
   NumClientsAtCreation : Nat, ThreadNums : SUBSET ClientID, expired : BOOLEAN]

TypeOK ==
  /\ cache \subseteq CacheMessage
  /\ numClients \in [ClientType -> Int]
  /\ posted \in Seq([msg : Message, target : ClientType])
  /\ received \in [ClientID -> SUBSET Nat]

-----------------------------------------------------------------------------
(* Read: the scan of the list, as functions of the cache.                  *)

\* Mutant: a message counts as consumed one reader too late.
ConsumedTooLate(m) == Cardinality(m.ThreadNums) > m.NumClientsAtCreation

IsMsgConsumed(m) == Cardinality(m.ThreadNums) >= m.NumClientsAtCreation

\* Mutant: ConsumeThisMsg without the test of ThreadNums.
ReadAgain(id) == {m \in cache : m.targetClientType = TypeOf(id)}

\* Mutant: an expired message is not handed out any more.
UnreadFresh(id) ==
  {m \in cache : /\ m.targetClientType = TypeOf(id)
                 /\ id \notin m.ThreadNums /\ ~m.expired}

\* The messages for reader id that ConsumeThisMsg has not yet marked with it.
Unread(id) ==
  {m \in cache : m.targetClientType = TypeOf(id) /\ id \notin m.ThreadNums}

\* Mutant: the scan starts at the end of the list.
Newest(S) == CHOOSE m \in S : \A n \in S : n.id <= m.id

Oldest(S) == CHOOSE m \in S : \A n \in S : m.id <= n.id

\* The messages the scan goes past without returning: those before the first
\* unread one, or all of them when there is none.
Passed(id) ==
  {m \in cache : /\ m.targetClientType = TypeOf(id)
                 /\ \A n \in Unread(id) : m.id < n.id}

\* Mutant: the scan also removes expired messages.
AfterReadExpiring(id) ==
  LET kept == {m \in cache : ~m.expired}
      next == Oldest(Unread(id))
  IN  IF Unread(id) = {}
      THEN kept
      ELSE (kept \ {next}) \union {[next EXCEPT !.ThreadNums = @ \union {id}]}

\* Mutant: the message that is returned is not marked.
AfterReadUnmarked(id) == cache \ {m \in Passed(id) : IsMsgConsumed(m)}

\* The list after the scan: passed messages that everybody consumed are
\* removed, and the first unread one is marked with the reader's id.
AfterRead(id) ==
  LET kept == cache \ {m \in Passed(id) : IsMsgConsumed(m)}
      next == Oldest(Unread(id))
  IN  IF Unread(id) = {}
      THEN kept
      ELSE (kept \ {next}) \union {[next EXCEPT !.ThreadNums = @ \union {id}]}

\* The ids of the messages that a Read by id returns: none or one.
ReadResult(id) == IF Unread(id) = {} THEN {} ELSE {Oldest(Unread(id)).id}

(* AddMessage: a message for a type without clients is dropped.            *)

\* Mutant: messages are created for a type without clients.
AlwaysAccepted(ct) == TRUE

Accepted(ct) == numClients[ct] > 0

NewMessage(msg, ct) ==
  [id |-> Len(posted) + 1, msg |-> msg, targetClientType |-> ct,
   NumClientsAtCreation |-> numClients[ct], ThreadNums |-> {}, expired |-> FALSE]

AfterAdd(msg, ct) ==
  IF Accepted(ct) THEN cache \union {NewMessage(msg, ct)} ELSE cache

PostedAfterAdd(msg, ct) ==
  IF Accepted(ct) THEN Append(posted, [msg |-> msg, target |-> ct]) ELSE posted

-----------------------------------------------------------------------------
(* The public methods, one action each.                                    *)

ClientAdded(ct) ==
  /\ numClients[ct] < MaxClients
  /\ numClients' = [numClients EXCEPT ![ct] = @ + 1]
  /\ UNCHANGED <<cache, posted, received>>

ClientRemoved(ct) ==
  /\ numClients[ct] > -MaxClients
  /\ numClients' = [numClients EXCEPT ![ct] = @ - 1]
  /\ UNCHANGED <<cache, posted, received>>

AddMessage(msg, ct) ==
  /\ Len(posted) < MaxMessages
  /\ cache' = AfterAdd(msg, ct)
  /\ posted' = PostedAfterAdd(msg, ct)
  /\ UNCHANGED <<numClients, received>>

Read(id) ==
  /\ cache' = AfterRead(id)
  /\ received' = [received EXCEPT ![id] = @ \union ReadResult(id)]
  /\ UNCHANGED <<numClients, posted>>

\* The 3 s timer of a message, which runs until Read removes the message.
IAmOld(m) ==
  /\ ~m.expired
  /\ cache' = (cache \ {m}) \union {[m EXCEPT !.expired = TRUE]}
  /\ UNCHANGED <<numClients, posted, received>>

Init ==
  /\ cache = {}
  /\ numClients = [ct \in ClientType |-> 0]
  /\ posted = << >>
  /\ received = [id \in ClientID |-> {}]

Next ==
  \/ \E ct \in ClientType : ClientAdded(ct) \/ ClientRemoved(ct)
  \/ \E msg \in Message, ct \in ClientType : AddMessage(msg, ct)
  \/ \E id \in ClientID : Read(id)
  \/ \E m \in cache : IAmOld(m)

Spec == Init /\ [][Next]_vars

-----------------------------------------------------------------------------
(* Properties.                                                             *)

\* A message to the RPI (StartCar, Debug) stays in the list until a Read under
\* the RPI's id has returned it: neither the removal of consumed messages in
\* Read, nor the timeout, nor clients that come and go can lose it there.
RpiMessageKept ==
  \A i \in 1 .. Len(posted) :
    posted[i].target = Rpi =>
      \/ i \in received[RpiID]
      \/ \E m \in cache : m.id = i

\* The number of a listed message finds it in the history, and two listed
\* messages never share one.
Identified ==
  /\ \A m \in cache : /\ m.id \in 1 .. Len(posted)
                       /\ posted[m.id].target = m.targetClientType
  /\ \A m, n \in cache : m.id = n.id => m = n
  /\ \A id \in ClientID : received[id] \subseteq 1 .. Len(posted)

\* The marks in ThreadNums are what Read has returned, and a reader that got a
\* message has a mark on every older one still listed.  This is why a scan
\* that always stops at the first unmarked message never goes back in time.
MarksAreHistory ==
  \A m \in cache, id \in ClientID :
    /\ id \in m.ThreadNums => m.id \in received[id]
    /\ (m.targetClientType = TypeOf(id) /\ \E j \in received[id] : m.id <= j)
         => id \in m.ThreadNums

\* The inductive invariant behind the two properties around it.
IndInv == TypeOK /\ Identified /\ MarksAreHistory /\ RpiMessageKept

\* The cache delivers in order and at most once: it implements Delivery.
D == INSTANCE Delivery
DeliverySpec == D!Spec
=============================================================================
