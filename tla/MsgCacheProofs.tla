-------------------------- MODULE MsgCacheProofs ---------------------------
(***************************************************************************)
(* Proofs about MsgCache: the invariant IndInv is inductive, so a message  *)
(* to the RPI is kept until it was read, and the cache implements Delivery,*)
(* for any set of client ids, any texts and any bounds.                    *)
(***************************************************************************)
EXTENDS MsgCache, WellFoundedInduction, TLAPS

\* A non-empty set of listed messages has an oldest one, which is the one
\* that Oldest chooses.
LEMMA OldestExists ==
  ASSUME TypeOK, NEW S \in SUBSET cache, S # {}
  PROVE  Oldest(S) \in S /\ \A n \in S : Oldest(S).id <= n.id
<1> DEFINE ids == {m.id : m \in S}
<1>1. ids \in SUBSET Nat /\ ids # {}
  BY DEF TypeOK, CacheMessage
<1>2. PICK i \in ids : \A j \in ids : ~(<<j, i>> \in OpToRel(<, Nat))
  <2> HIDE DEF ids
  <2> QED BY <1>1, NatLessThanWellFounded, WFMin
<1>3. \A j \in ids : i <= j
  <2>1. SUFFICES ASSUME NEW j \in ids PROVE i <= j
    OBVIOUS
  <2>2. ~(j < i)
    BY <1>1, <1>2 DEF OpToRel
  <2> QED BY <1>1, <2>2
<1>4. PICK m \in S : m.id = i
  OBVIOUS
<1> QED BY <1>3, <1>4 DEF Oldest

\* The value that a Read by id returns, when there is one, is an unread
\* message of the reader's type that is no newer than any other.
LEMMA NextIsOldestUnread ==
  ASSUME TypeOK, NEW id, Unread(id) # {}
  PROVE  /\ Oldest(Unread(id)) \in cache
         /\ Oldest(Unread(id)).targetClientType = TypeOf(id)
         /\ id \notin Oldest(Unread(id)).ThreadNums
         /\ \A n \in Unread(id) : Oldest(Unread(id)).id <= n.id
<1>1. Unread(id) \in SUBSET cache
  BY DEF Unread
<1>2. Oldest(Unread(id)) \in Unread(id)
  BY <1>1, OldestExists
<1>3. \A n \in Unread(id) : Oldest(Unread(id)).id <= n.id
  BY <1>1, OldestExists
<1> QED BY <1>2, <1>3 DEF Unread

-----------------------------------------------------------------------------
(* Type correctness.                                                       *)

LEMMA TypeInductive ==
  ASSUME TypeOK, [Next]_vars
  PROVE  TypeOK'
<1>1. ASSUME NEW ct \in ClientType, ClientAdded(ct) \/ ClientRemoved(ct)
      PROVE  TypeOK'
  BY <1>1 DEF TypeOK, ClientAdded, ClientRemoved
<1>2. ASSUME NEW msg \in Message, NEW ct \in ClientType, AddMessage(msg, ct)
      PROVE  TypeOK'
  <2>1. CASE Accepted(ct)
    <3>1. NewMessage(msg, ct) \in CacheMessage
      BY <2>1 DEF TypeOK, NewMessage, CacheMessage, Accepted
    <3>2. [msg |-> msg, target |-> ct] \in [msg : Message, target : ClientType]
      OBVIOUS
    <3>3. posted' = Append(posted, [msg |-> msg, target |-> ct])
      BY <1>2, <2>1 DEF AddMessage, PostedAfterAdd
    <3>4. posted' \in Seq([msg : Message, target : ClientType])
      BY <3>2, <3>3 DEF TypeOK
    <3> QED BY <1>2, <2>1, <3>1, <3>4 DEF TypeOK, AddMessage, AfterAdd
  <2>2. CASE ~Accepted(ct)
    BY <1>2, <2>2 DEF TypeOK, AddMessage, AfterAdd, PostedAfterAdd
  <2> QED BY <2>1, <2>2
<1>3. ASSUME NEW id \in ClientID, Read(id)
      PROVE  TypeOK'
  <2>1. CASE Unread(id) = {}
    BY <1>3, <2>1 DEF TypeOK, Read, AfterRead, ReadResult
  <2>2. CASE Unread(id) # {}
    <3> DEFINE next == Oldest(Unread(id))
    <3>1. next \in cache
      BY <2>2, NextIsOldestUnread
    <3>2. [next EXCEPT !.ThreadNums = @ \union {id}] \in CacheMessage
      <4> HIDE DEF next
      <4> QED BY <3>1 DEF TypeOK, CacheMessage
    <3>3. next.id \in Nat
      BY <3>1 DEF TypeOK, CacheMessage
    <3> QED BY <1>3, <2>2, <3>2, <3>3 DEF TypeOK, Read, AfterRead, ReadResult
  <2> QED BY <2>1, <2>2
<1>4. ASSUME NEW m \in cache, IAmOld(m)
      PROVE  TypeOK'
  <2>1. [m EXCEPT !.expired = TRUE] \in CacheMessage
    BY DEF TypeOK, CacheMessage
  <2> QED BY <1>4, <2>1 DEF TypeOK, IAmOld
<1>5. CASE UNCHANGED vars
  BY <1>5 DEF TypeOK, vars
<1> QED BY <1>1, <1>2, <1>3, <1>4, <1>5 DEF Next

\* The variables always have the types of the code's fields.
THEOREM TypeCorrect == Spec => []TypeOK
<1>1. Init => TypeOK
  BY DEF Init, TypeOK
<1>2. TypeOK /\ [Next]_vars => TypeOK'
  BY TypeInductive
<1> QED BY <1>1, <1>2, PTL DEF Spec

-----------------------------------------------------------------------------
(* The inductive invariant.                                                *)

\* A Read either returns nothing and only removes messages the reader has
\* already marked, or it also marks one message, newer than all that it got.
LEMMA ReadStep ==
  ASSUME IndInv, NEW id \in ClientID, Read(id)
  PROVE  /\ \A m \in cache \ cache' :
              /\ m.targetClientType = TypeOf(id)
              /\ id \in m.ThreadNums \/ m.id \in received'[id]
         /\ \/ cache' \subseteq cache /\ received' = received
            \/ \E m \in cache :
                 /\ m.targetClientType = TypeOf(id)
                 /\ \A n \in cache : (n.targetClientType = TypeOf(id) /\ n.id < m.id)
                                       => id \in n.ThreadNums
                 /\ \A j \in received[id] : j < m.id
                 /\ received' = [received EXCEPT ![id] = @ \union {m.id}]
                 /\ cache' \subseteq (cache \ {m}) \union
                                   {[m EXCEPT !.ThreadNums = @ \union {id}]}
                 /\ [m EXCEPT !.ThreadNums = @ \union {id}] \in cache'
<1> USE DEF IndInv
<1>1. CASE Unread(id) = {}
  <2>1. received' = received
    BY <1>1 DEF Read, ReadResult, TypeOK
  <2>2. cache' = cache \ {m \in Passed(id) : IsMsgConsumed(m)}
    BY <1>1 DEF Read, AfterRead
  <2>3. \A m \in Passed(id) : m.targetClientType = TypeOf(id) /\ id \in m.ThreadNums
    BY <1>1 DEF Passed, Unread
  <2> QED BY <2>1, <2>2, <2>3
<1>2. CASE Unread(id) # {}
  <2> DEFINE next == Oldest(Unread(id))
             marked == [next EXCEPT !.ThreadNums = @ \union {id}]
             gone == {m \in Passed(id) : IsMsgConsumed(m)}
  <2>1. /\ next \in cache
        /\ next.targetClientType = TypeOf(id)
        /\ id \notin next.ThreadNums
        /\ \A n \in Unread(id) : next.id <= n.id
    BY <1>2, NextIsOldestUnread
  <2>2. received' = [received EXCEPT ![id] = @ \union {next.id}]
    BY <1>2 DEF Read, ReadResult
  <2>3. cache' = ((cache \ gone) \ {next}) \union {marked}
    BY <1>2 DEF Read, AfterRead
  <2>4. next \in Unread(id)
    BY <2>1 DEF Unread
  <2>5. \A m \in Passed(id) : /\ m \in cache
                               /\ m.targetClientType = TypeOf(id)
                               /\ id \in m.ThreadNums
    <3>1. SUFFICES ASSUME NEW m \in Passed(id) PROVE m \notin Unread(id)
      BY DEF Passed, Unread
    <3>2. m \in cache /\ m.id \in Nat
      BY DEF Passed, TypeOK, CacheMessage
    <3> QED BY <3>2 DEF Passed
  <2>6. next.id \in Nat /\ next.id \in received'[id]
    BY <2>1, <2>2 DEF TypeOK, CacheMessage
  <2>7. \A n \in cache : (n.targetClientType = TypeOf(id) /\ n.id < next.id)
                          => id \in n.ThreadNums
    <3>1. SUFFICES ASSUME NEW n \in cache, n.targetClientType = TypeOf(id),
                          n.id < next.id, id \notin n.ThreadNums
                   PROVE  FALSE
      OBVIOUS
    <3>2. n \in Unread(id)
      BY <3>1 DEF Unread
    <3>3. next.id <= n.id /\ n.id \in Nat
      BY <2>1, <3>2 DEF TypeOK, CacheMessage
    <3> QED BY <3>1, <3>3, <2>6
  <2>8. \A j \in received[id] : j < next.id
    <3>1. SUFFICES ASSUME NEW j \in received[id], next.id <= j PROVE FALSE
      BY <2>6 DEF TypeOK
    <3> QED BY <2>1, <3>1 DEF MarksAreHistory
  <2>9. \A m \in cache \ cache' :
           /\ m.targetClientType = TypeOf(id)
           /\ id \in m.ThreadNums \/ m.id \in received'[id]
    BY <2>1, <2>3, <2>5, <2>6
  <2> HIDE DEF next
  <2> QED BY <2>1, <2>2, <2>3, <2>7, <2>8, <2>9
<1> QED BY <1>1, <1>2

\* Read preserves the three parts of the invariant.
LEMMA ReadInductive ==
  ASSUME IndInv, NEW id \in ClientID, Read(id)
  PROVE  Identified' /\ MarksAreHistory' /\ RpiMessageKept'
<1> USE DEF IndInv
<1>1. posted' = posted
  BY DEF Read
<1>2. \A m \in cache : m \notin cache' =>
                      /\ m.targetClientType = TypeOf(id)
                      /\ id \in m.ThreadNums \/ m.id \in received'[id]
  BY ReadStep
<1>3. \A r \in ClientID : received[r] \subseteq received'[r]
  BY DEF Read, TypeOK
<1>4. RpiMessageKept'
  <2>1. SUFFICES ASSUME NEW i \in 1 .. Len(posted), posted[i].target = Rpi,
                        i \notin received'[RpiID]
                 PROVE  \E m \in cache' : m.id = i
    BY <1>1 DEF RpiMessageKept
  <2>2. RpiID \in ClientID /\ i \notin received[RpiID]
    BY <1>3, <2>1, ClientIDAssumption
  <2>3. PICK m \in cache : m.id = i
    BY <2>1, <2>2 DEF RpiMessageKept
  <2>4. CASE m \in cache'
    BY <2>3, <2>4
  <2>5. CASE m \notin cache'
    <3>1. m.targetClientType = Rpi
      BY <2>1, <2>3 DEF Identified
    <3>2. m \in cache /\ m \notin cache'
      BY <2>3, <2>5
    <3>3. m.targetClientType = TypeOf(id) /\ (id \in m.ThreadNums \/ m.id \in received'[id])
      BY <1>2, <3>2
    <3>4. id = RpiID
      BY <3>1, <3>3 DEF TypeOf, Rpi, Consumer
    <3>5. RpiID \in m.ThreadNums
      BY <2>1, <2>3, <3>3, <3>4
    <3> QED BY <2>2, <2>3, <3>5 DEF MarksAreHistory
  <2> QED BY <2>4, <2>5
<1>5. CASE cache' \subseteq cache /\ received' = received
  BY <1>1, <1>4, <1>5 DEF Identified, MarksAreHistory
<1>6. ASSUME NEW m \in cache,
             m.targetClientType = TypeOf(id),
             \A n \in cache : (n.targetClientType = TypeOf(id) /\ n.id < m.id)
                              => id \in n.ThreadNums,
             \A j \in received[id] : j < m.id,
             received' = [received EXCEPT ![id] = @ \union {m.id}],
             cache' \subseteq (cache \ {m}) \union
                            {[m EXCEPT !.ThreadNums = @ \union {id}]}
      PROVE  Identified' /\ MarksAreHistory'
  <2> DEFINE marked == [m EXCEPT !.ThreadNums = @ \union {id}]
  <2>1. /\ marked.id = m.id
        /\ marked.targetClientType = m.targetClientType
        /\ marked.ThreadNums = m.ThreadNums \union {id}
    BY DEF TypeOK, CacheMessage
  <2>2. cache' \subseteq (cache \ {m}) \union {marked}
    BY <1>6
  <2> HIDE DEF marked
  <2>3. \A n \in cache : n.id \in Nat /\ n.id \in 1 .. Len(posted)
    BY DEF TypeOK, CacheMessage, Identified
  <2>4. received'[id] = received[id] \union {m.id}
        /\ \A r \in ClientID : r # id => received'[r] = received[r]
    BY <1>6 DEF TypeOK
  <2>5. Identified'
    <3>1. \A n \in cache' : /\ n.id \in 1 .. Len(posted)
                            /\ posted[n.id].target = n.targetClientType
      BY <2>1, <2>2 DEF Identified
    <3>2. \A n, p \in cache' : n.id = p.id => n = p
      BY <2>1, <2>2 DEF Identified
    <3>3. \A r \in ClientID : received'[r] \subseteq 1 .. Len(posted)
      BY <2>3, <2>4 DEF Identified
    <3> QED BY <1>1, <3>1, <3>2, <3>3 DEF Identified
  <2>6. ASSUME NEW n \in cache', NEW r \in ClientID
        PROVE  /\ r \in n.ThreadNums => n.id \in received'[r]
               /\ (n.targetClientType = TypeOf(r) /\ \E j \in received'[r] : n.id <= j)
                    => r \in n.ThreadNums
    <3>1. CASE n = marked
      <4>1. CASE r = id
        BY <2>1, <2>4, <3>1, <4>1
      <4>2. CASE r # id
        BY <2>1, <2>4, <3>1, <4>2 DEF MarksAreHistory
      <4> QED BY <4>1, <4>2
    <3>2. CASE n \in cache /\ n # m
      <4>1. CASE r = id
        <5>1. r \in n.ThreadNums => n.id \in received'[r]
          BY <2>4, <3>2, <4>1 DEF MarksAreHistory
        <5>2. ASSUME n.targetClientType = TypeOf(r), NEW j \in received'[r], n.id <= j
              PROVE  r \in n.ThreadNums
          <6>1. CASE j = m.id
            <7>1. n.id # m.id
              BY <3>2 DEF Identified
            <7>2. n.id < m.id
              BY <2>3, <3>2, <5>2, <6>1, <7>1
            <7> QED BY <1>6, <3>2, <4>1, <5>2, <7>2
          <6>2. CASE j \in received[id]
            BY <3>2, <4>1, <5>2, <6>2 DEF MarksAreHistory
          <6> QED BY <2>4, <4>1, <5>2, <6>1, <6>2
        <5> QED BY <5>1, <5>2
      <4>2. CASE r # id
        BY <2>4, <3>2, <4>2 DEF MarksAreHistory
      <4> QED BY <4>1, <4>2
    <3> QED BY <2>2, <3>1, <3>2
  <2> QED BY <2>5, <2>6 DEF MarksAreHistory
<1> QED BY <1>4, <1>5, <1>6, ReadStep

LEMMA IndInvInductive ==
  ASSUME IndInv, [Next]_vars
  PROVE  IndInv'
<1> USE DEF IndInv
<1>1. TypeOK'
  BY TypeInductive
<1>2. ASSUME NEW ct \in ClientType, ClientAdded(ct) \/ ClientRemoved(ct)
      PROVE  Identified' /\ MarksAreHistory' /\ RpiMessageKept'
  BY <1>2 DEF ClientAdded, ClientRemoved, Identified, MarksAreHistory, RpiMessageKept
<1>3. ASSUME NEW msg \in Message, NEW ct \in ClientType, AddMessage(msg, ct)
      PROVE  Identified' /\ MarksAreHistory' /\ RpiMessageKept'
  <2>1. CASE ~Accepted(ct)
    BY <1>3, <2>1 DEF AddMessage, AfterAdd, PostedAfterAdd,
                      Identified, MarksAreHistory, RpiMessageKept
  <2>2. CASE Accepted(ct)
    <3> DEFINE new == NewMessage(msg, ct)
               entry == [msg |-> msg, target |-> ct]
    <3>1. cache' = cache \union {new} /\ posted' = Append(posted, entry)
          /\ received' = received
      BY <1>3, <2>2 DEF AddMessage, AfterAdd, PostedAfterAdd
    <3>2. new.id = Len(posted) + 1 /\ new.targetClientType = ct /\ new.ThreadNums = {}
      BY DEF NewMessage
    <3>3. /\ Len(posted) \in Nat
          /\ Len(posted') = Len(posted) + 1
          /\ posted'[Len(posted) + 1] = entry
          /\ \A i \in 1 .. Len(posted) : posted'[i] = posted[i]
      BY <3>1 DEF TypeOK
    <3> HIDE DEF new, entry
    <3>4. entry.target = ct
      BY DEF entry
    <3>5. \A m \in cache : m.id \in 1 .. Len(posted)
      BY DEF Identified
    <3>6. Identified'
      BY <3>1, <3>2, <3>3, <3>4, <3>5 DEF Identified
    <3>7. MarksAreHistory'
      <4>1. \A id \in ClientID : \A j \in received[id] : ~(new.id <= j)
        BY <3>2, <3>3 DEF Identified
      <4> QED BY <3>1, <3>2, <4>1 DEF MarksAreHistory
    <3>8. RpiMessageKept'
      BY <3>1, <3>2, <3>3 DEF RpiMessageKept
    <3> QED BY <3>6, <3>7, <3>8
  <2> QED BY <2>1, <2>2
<1>4. ASSUME NEW id \in ClientID, Read(id)
      PROVE  Identified' /\ MarksAreHistory' /\ RpiMessageKept'
  BY <1>4, ReadInductive
<1>5. ASSUME NEW m \in cache, IAmOld(m)
      PROVE  Identified' /\ MarksAreHistory' /\ RpiMessageKept'
  <2> DEFINE old == [m EXCEPT !.expired = TRUE]
  <2>1. /\ old.id = m.id
        /\ old.targetClientType = m.targetClientType
        /\ old.ThreadNums = m.ThreadNums
    BY DEF TypeOK, CacheMessage
  <2>2. cache' = (cache \ {m}) \union {old} /\ posted' = posted /\ received' = received
    BY <1>5 DEF IAmOld
  <2> HIDE DEF old
  <2>3. Identified'
    BY <2>1, <2>2 DEF Identified
  <2>4. MarksAreHistory'
    BY <2>1, <2>2 DEF MarksAreHistory
  <2>5. RpiMessageKept'
    BY <2>1, <2>2 DEF RpiMessageKept
  <2> QED BY <2>3, <2>4, <2>5
<1>6. ASSUME UNCHANGED vars
      PROVE  Identified' /\ MarksAreHistory' /\ RpiMessageKept'
  BY <1>6 DEF vars, Identified, MarksAreHistory, RpiMessageKept
<1> QED BY <1>1, <1>2, <1>3, <1>4, <1>5, <1>6 DEF Next

LEMMA InitIndInv == Init => IndInv
  BY DEF Init, IndInv, TypeOK, Identified, MarksAreHistory, RpiMessageKept

\* The marks on the listed messages agree with what the readers got.
THEOREM IndInvHolds == Spec => []IndInv
<1>1. Init => IndInv
  BY InitIndInv
<1>2. IndInv /\ [Next]_vars => IndInv'
  BY IndInvInductive
<1> QED BY <1>1, <1>2, PTL DEF Spec

\* A message accepted for the RPI is listed until the RPI's id has read it.
THEOREM RpiMessageKeptHolds == Spec => []RpiMessageKept
<1>1. IndInv => RpiMessageKept
  BY DEF IndInv
<1> QED BY <1>1, IndInvHolds, PTL

-----------------------------------------------------------------------------
(* The cache implements Delivery.                                          *)

LEMMA StepImplementsDelivery ==
  ASSUME IndInv, [Next]_vars
  PROVE  [D!Next]_<<posted, received>>
<1>1. ASSUME NEW msg \in Message, NEW ct \in ClientType, AddMessage(msg, ct)
      PROVE  D!Next \/ UNCHANGED <<posted, received>>
  BY <1>1 DEF AddMessage, PostedAfterAdd, D!Next, D!Post,
              ClientType, Consumer, Rpi, D!ClientType, D!Consumer, D!Rpi
<1>2. ASSUME NEW id \in ClientID, Read(id)
      PROVE  D!Next \/ UNCHANGED <<posted, received>>
  <2>1. posted' = posted
    BY <1>2 DEF Read
  <2>2. ASSUME NEW m \in cache,
               m.targetClientType = TypeOf(id),
               \A j \in received[id] : j < m.id,
               received' = [received EXCEPT ![id] = @ \union {m.id}]
        PROVE  D!Next
    <3>1. m.id \in 1 .. Len(posted) /\ posted[m.id].target = TypeOf(id)
      BY <2>2 DEF IndInv, Identified
    <3>2. TypeOf(id) = D!TypeOf(id)
      BY DEF TypeOf, RpiID, Rpi, Consumer, D!TypeOf, D!RpiID, D!Rpi, D!Consumer
    <3>3. D!Deliver(id, m.id)
      BY <2>1, <2>2, <3>1, <3>2 DEF D!Deliver
    <3> QED BY <3>1, <3>3 DEF D!Next
  <2> QED BY <1>2, <2>1, <2>2, ReadStep
<1> QED BY <1>1, <1>2 DEF Next, vars, ClientAdded, ClientRemoved, IAmOld

\* Every reader gets the messages for its type at most once and in the order
\* in which they were added, whatever calls the program makes.
THEOREM ImplementsDelivery == Spec => DeliverySpec
<1>1. Init => D!Init
  BY DEF Init, D!Init
<1>2. IndInv /\ [Next]_vars => [D!Next]_<<posted, received>>
  BY StepImplementsDelivery
<1> QED BY <1>1, <1>2, IndInvHolds, PTL DEF Spec, DeliverySpec, D!Spec
=============================================================================
