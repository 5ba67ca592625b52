---------------------------- MODULE CountProofs ----------------------------
(***************************************************************************)
(* Proofs about how the service counts its clients (numClients), for any   *)
(* connections, texts and bounds: how far the count falls behind when      *)
(* several threads tear one connection down; that it is exact, and a       *)
(* command accepted while the RPI is connected, when only one may; and     *)
(* that the bounds of the cache hold no step of the service back.          *)
(***************************************************************************)
EXTENDS ExchangeProofs

\* The threads of a connection that are in ThisConnectionSucks.
TornBy(c) == {t \in Thread : sucks[c][t] # "no"}

ThreadsLimited == \A c \in Conn : Cardinality(TornBy(c)) <= MaxSucks(c)

\* A step enters a teardown, takes the connection out of the count, or goes on with a
\* teardown that has done so.
LEMMA TeardownSteps ==
  ASSUME Typed, [Next]_vars
  PROVE  \/ \E c \in Conn, t \in Thread : RemoveClient(c, t)
         \/ /\ disposing' = disposing
            /\ \/ sucks' = sucks
               \/ \E c \in Conn, t \in Thread : Decide(c, t)
               \/ \E c \in Conn, t \in Thread, s \in {"told", "no"} :
                    /\ sucks[c][t] \notin {"no", "decided"}
                    /\ sucks' = [sucks EXCEPT ![c][t] = s]
<1> DEFINE Goes(c, t) == /\ disposing' = disposing /\ sucks[c][t] \notin {"no", "decided"}
                         /\ \E s \in {"told", "no"} : sucks' = [sucks EXCEPT ![c][t] = s]
           Enters(c) == disposing' = disposing /\ \E t \in Thread : Decide(c, t)
           Keeps == disposing' = disposing /\ sucks' = sucks
<1>1. ASSUME NEW c \in Conn, NEW t \in Thread, ThisConnectionSucks(c, t)
      PROVE  RemoveClient(c, t) \/ Goes(c, t)
  BY <1>1 DEF ThisConnectionSucks, TellKilled, StopAndAbort
<1>2. ASSUME NEW c \in Conn, \/ GrabTransmissionInCache(c) \/ SendSpoilsReceive(c)
                             \/ KeepAliveTO(c) \/ recMsgTO(c) \/ ReceiveNothing(c)
      PROVE  Keeps \/ Enters(c)
  BY <1>2, Threads DEF GrabTransmissionInCache, SendSpoilsReceive, KeepAliveTO, recMsgTO,
     ReceiveNothing
<1>3. ASSUME NEW c \in Conn,
             \/ Accept(c) \/ Register(c) \/ Announce(c) \/ StartTimers(c) \/ Forward(c)
             \/ RestartKeepAlive(c) \/ ReceivePart(c)
             \/ \E text \in TextFrom(c) : ReceiveWholeMsg(c, text)
             \/ \E how \in {"closed", "gone"} : PeerEnds(c, how)
      PROVE  Keeps
  BY <1>3 DEF Accept, Register, Announce, StartTimers, Forward, RestartKeepAlive, ReceivePart,
     ReceiveWholeMsg, PeerEnds
<1>4. UNCHANGED vars \/ Load \/ OnMsgFromClient => Keeps
  BY DEF vars, connVars, Load, OnMsgFromClient
<1> HIDE DEF Goes, Enters, Keeps
<1>5. \/ Keeps \/ \E c \in Conn : Enters(c)
      \/ \E c \in Conn, t \in Thread : RemoveClient(c, t) \/ Goes(c, t)
  BY <1>1, <1>2, <1>3, <1>4 DEF Next, ThreadStep
<1> QED BY <1>5 DEF Goes, Enters, Keeps

LEMMA ThreadsLimitedKept ==
  ASSUME Typed, ThreadsLimited, [Next]_vars
  PROVE  ThreadsLimited'
<1> SUFFICES ASSUME NEW k \in Conn
             PROVE  Cardinality(TornBy(k)') <= MaxSucks(k)
  BY DEF ThreadsLimited
<1>1. /\ sucks \in [Conn -> [Thread -> {"no", "decided", "removed", "told"}]]
      /\ Cardinality(TornBy(k)) <= MaxSucks(k) /\ MaxSucks(k) \in Nat
      /\ IsFiniteSet(TornBy(k)) /\ TornBy(k) \in SUBSET Thread /\ Cardinality(TornBy(k)) \in Nat
  <2>1. MaxSucks(k) \in Nat
    BY SucksAssumption DEF MaxSucks, MaxSucksOf
  <2>2. TornBy(k) \in SUBSET Thread
    BY DEF TornBy
  <2> QED BY <2>1, <2>2, Finite, FS_Subset, FS_CardinalityType DEF Typed, TypeOK, ThreadsLimited
<1>2. TornBy(k)' \subseteq TornBy(k) => Cardinality(TornBy(k)') <= MaxSucks(k)
  <2> DEFINE after == TornBy(k)'
  <2> HIDE DEF after
  <2>1. after \subseteq TornBy(k) => Cardinality(after) \in Nat /\ Cardinality(after) <= Cardinality(TornBy(k))
    BY <1>1, FS_Subset, FS_CardinalityType
  <2>2. after \subseteq TornBy(k) => Cardinality(after) <= MaxSucks(k)
    BY <1>1, <2>1
  <2> QED BY <2>2 DEF after
<1>3. ASSUME NEW c \in Conn, NEW t \in Thread, RemoveClient(c, t)
      PROVE  TornBy(k)' \subseteq TornBy(k)
  BY <1>1, <1>3 DEF RemoveClient, TornBy
<1>4. ASSUME NEW c \in Conn, NEW t \in Thread, NEW s \in {"told", "no"},
             sucks[c][t] \notin {"no", "decided"}, sucks' = [sucks EXCEPT ![c][t] = s]
      PROVE  TornBy(k)' \subseteq TornBy(k)
  BY <1>1, <1>4 DEF TornBy
<1>5. ASSUME NEW c \in Conn, NEW t \in Thread, Decide(c, t)
      PROVE  Cardinality(TornBy(k)') <= MaxSucks(k)
  <2>1. CASE c # k
    <3>1. TornBy(k)' \subseteq TornBy(k)
      BY <1>5, <2>1, Decided DEF TornBy
    <3> QED BY <1>2, <3>1
  <2>2. CASE c = k
    <3>1. TornBy(k)' = TornBy(k) \union {t} /\ t \notin TornBy(k)
      BY <1>5, <2>2, Decided DEF TornBy
    <3>2. Cardinality(TornBy(k)) < MaxSucks(k)
      BY <1>5, <2>2 DEF Decide, TornBy
    <3>3. Cardinality(TornBy(k) \union {t}) = Cardinality(TornBy(k)) + 1
      BY <1>1, <3>1, FS_AddElement
    <3>4. Cardinality(TornBy(k) \union {t}) <= MaxSucks(k)
      BY <1>1, <3>2, <3>3
    <3> QED BY <3>1, <3>4
  <2> QED BY <2>1, <2>2
<1>6. CASE sucks' = sucks
  BY <1>2, <1>6 DEF TornBy
<1> QED BY <1>2, <1>3, <1>4, <1>5, <1>6, TeardownSteps

-----------------------------------------------------------------------------
(* How far the count falls behind.                                         *)

LEMMA CountsFinite ==
  ASSUME NEW ct
  PROVE  /\ IsFiniteSet(Regs(ct)) /\ Cardinality(Regs(ct)) \in Nat
         /\ IsFiniteSet(Disposed(ct)) /\ Cardinality(Disposed(ct)) \in Nat
         /\ IsFiniteSet(ToUncount(ct)) /\ Cardinality(ToUncount(ct)) \in Nat
<1>1. Regs(ct) \in SUBSET Conn /\ Disposed(ct) \in SUBSET Conn
  BY DEF Regs, Disposed
<1>2. IsFiniteSet(Disposed(ct)) /\ IsFiniteSet(Regs(ct))
  BY <1>1, Finite, FS_Subset
<1>3. IsFiniteSet(Disposed(ct) \X Thread)
  BY <1>2, Finite, FS_Product
<1>4. ToUncount(ct) \in SUBSET (Disposed(ct) \X Thread)
  BY DEF ToUncount
<1>5. IsFiniteSet(ToUncount(ct))
  BY <1>3, <1>4, FS_Subset
<1> QED BY <1>2, <1>5, FS_CardinalityType

\* A teardown that begins leaves the other threads of the connection that are in it to
\* take the connection out of the count.
LEMMA FirstRemoval ==
  ASSUME Typed, ThreadsLimited, NEW c \in Conn, NEW t \in Thread, RemoveClient(c, t), ~disposing[c]
  PROVE  LET ct == cType(c)
         IN  /\ Cardinality(Regs(ct)') = Cardinality(Regs(ct)) - 1
             /\ Cardinality(Disposed(ct)') = Cardinality(Disposed(ct)) + 1
             /\ Cardinality(ToUncount(ct)') \in Nat
             /\ Cardinality(ToUncount(ct)')
                  <= Cardinality(ToUncount(ct)) + MaxSucksOf(ct) - 1
<1> DEFINE ct == cType(c)
           others == TornBy(c) \ {t}
<1> HIDE DEF ct
<1>1. /\ sucks \in [Conn -> [Thread -> {"no", "decided", "removed", "told"}]]
      /\ disposing \in [Conn -> BOOLEAN]
      /\ disposing' = [disposing EXCEPT ![c] = TRUE] /\ pc' = pc
      /\ sucks[c][t] = "decided" /\ sucks' = [sucks EXCEPT ![c][t] = "removed"]
  BY DEF Typed, TypeOK, RemoveClient
<1>2. Cardinality(Regs(ct)') = Cardinality(Regs(ct)) - 1
  <2>1. c \in Regs(ct)
    BY <1>1 DEF Typed, SetupFirst, Regs, Registered, ct
  <2>2. Regs(ct)' = Regs(ct) \ {c}
    BY <1>1 DEF Regs, Registered
  <2> QED BY <2>1, <2>2, CountsFinite, FS_RemoveElement
<1>3. Cardinality(Disposed(ct)') = Cardinality(Disposed(ct)) + 1
  <2>1. c \notin Disposed(ct) /\ Disposed(ct)' = Disposed(ct) \union {c}
    BY <1>1 DEF Disposed, ct
  <2> QED BY <2>1, CountsFinite, FS_AddElement
<1>4. IsFiniteSet(others) /\ Cardinality(others) \in Nat /\ Cardinality(others) <= MaxSucksOf(ct) - 1
  <2>1. TornBy(c) \in SUBSET Thread /\ t \in TornBy(c)
    BY <1>1 DEF TornBy
  <2>2. IsFiniteSet(TornBy(c)) /\ Cardinality(TornBy(c)) \in Nat
    BY <2>1, Finite, FS_Subset, FS_CardinalityType
  <2>3. IsFiniteSet(others) /\ Cardinality(others) = Cardinality(TornBy(c)) - 1
    BY <2>1, <2>2, FS_RemoveElement
  <2>4. Cardinality(TornBy(c)) <= MaxSucksOf(ct) /\ MaxSucksOf(ct) \in Nat
    BY SucksAssumption DEF ThreadsLimited, MaxSucks, MaxSucksOf, ct
  <2> QED BY <2>2, <2>3, <2>4, FS_CardinalityType
<1>5. /\ Cardinality(ToUncount(ct)') \in Nat
      /\ Cardinality(ToUncount(ct)') <= Cardinality(ToUncount(ct)) + MaxSucksOf(ct) - 1
  <2> DEFINE waiting == {c} \X others
             after == ToUncount(ct)'
  <2>1. after \subseteq ToUncount(ct) \union waiting
    BY <1>1 DEF ToUncount, Disposed, TornBy
  <2>2. IsFiniteSet(waiting) /\ Cardinality(waiting) = Cardinality(others)
    <3> HIDE DEF others
    <3>1. IsFiniteSet({c}) /\ Cardinality({c}) = 1
      BY FS_Singleton
    <3>2. IsFiniteSet(waiting) /\ Cardinality(waiting) = Cardinality({c}) * Cardinality(others)
      BY <1>4, <3>1, FS_Product
    <3> QED BY <1>4, <3>1, <3>2
  <2> HIDE DEF waiting, others, after
  <2> DEFINE both == ToUncount(ct) \union waiting
  <2>3. /\ IsFiniteSet(both)
        /\ Cardinality(both) = Cardinality(ToUncount(ct)) + Cardinality(waiting)
                                 - Cardinality(ToUncount(ct) \intersect waiting)
        /\ Cardinality(ToUncount(ct) \intersect waiting) \in Nat
    BY <2>2, CountsFinite, FS_Union, FS_Intersection, FS_CardinalityType
  <2> HIDE DEF both
  <2>4. after \in SUBSET both
    BY <2>1 DEF both
  <2>5. Cardinality(after) \in Nat /\ Cardinality(after) <= Cardinality(both)
    BY <2>3, <2>4, FS_Subset, FS_CardinalityType
  <2>6. Cardinality(both) \in Nat /\ Cardinality(ToUncount(ct)) \in Nat
    BY <2>3, CountsFinite, FS_CardinalityType
  <2>7. MaxSucksOf(ct) \in Nat
    BY SucksAssumption DEF MaxSucksOf
  <2>8. Cardinality(after) <= Cardinality(ToUncount(ct)) + MaxSucksOf(ct) - 1
    BY <1>4, <2>2, <2>3, <2>5, <2>6, <2>7
  <2> QED BY <2>5, <2>8 DEF after
<1> QED BY <1>2, <1>3, <1>5 DEF ct

\* A later removal takes one off the count, and one off those that are still to come.
LEMMA LaterRemoval ==
  ASSUME Typed, NEW c \in Conn, NEW t \in Thread, RemoveClient(c, t), disposing[c]
  PROVE  LET ct == cType(c)
         IN  /\ Regs(ct)' = Regs(ct) /\ Disposed(ct)' = Disposed(ct)
             /\ Cardinality(ToUncount(ct)') = Cardinality(ToUncount(ct)) - 1
<1> DEFINE ct == cType(c)
<1> HIDE DEF ct
<1>1. /\ sucks \in [Conn -> [Thread -> {"no", "decided", "removed", "told"}]]
      /\ disposing \in [Conn -> BOOLEAN]
      /\ disposing' = [disposing EXCEPT ![c] = TRUE] /\ pc' = pc
      /\ sucks[c][t] = "decided" /\ sucks' = [sucks EXCEPT ![c][t] = "removed"]
  BY DEF Typed, TypeOK, RemoveClient
<1>2. disposing' = disposing
  BY <1>1
<1>3. Regs(ct)' = Regs(ct) /\ Disposed(ct)' = Disposed(ct)
  BY <1>1, <1>2 DEF Regs, Registered, Disposed
<1>4. <<c, t>> \in ToUncount(ct) /\ ToUncount(ct)' = ToUncount(ct) \ {<<c, t>>}
  BY <1>1, <1>2 DEF ToUncount, Disposed, ct
<1>5. Cardinality(ToUncount(ct) \ {<<c, t>>}) = Cardinality(ToUncount(ct)) - 1
  BY <1>4, CountsFinite, FS_RemoveElement
<1> QED BY <1>3, <1>4, <1>5 DEF ct

\* Clients of one type are torn down without an effect on the count of the other.
LEMMA OtherType ==
  ASSUME Typed, NEW c \in Conn, NEW t \in Thread, RemoveClient(c, t),
         NEW ct \in ClientType, ct # cType(c)
  PROVE  /\ numClients'[ct] = numClients[ct] /\ Regs(ct)' = Regs(ct)
         /\ Disposed(ct)' = Disposed(ct) /\ ToUncount(ct)' = ToUncount(ct)
<1>1. /\ sucks \in [Conn -> [Thread -> {"no", "decided", "removed", "told"}]]
      /\ disposing \in [Conn -> BOOLEAN] /\ numClients \in [ClientType -> Int]
      /\ disposing' = [disposing EXCEPT ![c] = TRUE] /\ pc' = pc
      /\ sucks' = [sucks EXCEPT ![c][t] = "removed"]
      /\ numClients' = [numClients EXCEPT ![cType(c)] = @ - 1]
  BY DEF Typed, TypeOK, RemoveClient, Uncount, C!ClientRemoved, C!TypeOK, C!ClientType,
         ClientType, C!Rpi, C!Consumer, Rpi, Consumer
<1>2. Disposed(ct)' = Disposed(ct) /\ Regs(ct)' = Regs(ct) /\ numClients'[ct] = numClients[ct]
  BY <1>1 DEF Disposed, Regs, Registered
<1>3. ToUncount(ct)' = ToUncount(ct)
  BY <1>1, <1>2 DEF ToUncount, Disposed
<1> QED BY <1>2, <1>3

\* No other step begins a teardown or makes one come to the count.
LEMMA OthersTearNone ==
  ASSUME Typed, [Next]_vars, \A c \in Conn, t \in Thread : ~RemoveClient(c, t)
  PROVE  \A ct : Disposed(ct)' = Disposed(ct) /\ ToUncount(ct)' = ToUncount(ct)
<1> SUFFICES ASSUME NEW ct PROVE Disposed(ct)' = Disposed(ct) /\ ToUncount(ct)' = ToUncount(ct)
  OBVIOUS
<1>1. disposing' = disposing /\ Disposed(ct)' = Disposed(ct)
  BY TeardownSteps DEF Disposed
<1>2. CASE sucks' = sucks
  BY <1>1, <1>2 DEF ToUncount, Disposed
<1>3. ASSUME NEW c \in Conn, NEW t \in Thread, Decide(c, t)
      PROVE  ToUncount(ct)' = ToUncount(ct)
  BY <1>1, <1>3, Decided DEF ToUncount, Disposed
<1>4. ASSUME NEW c \in Conn, NEW t \in Thread, NEW s \in {"told", "no"},
             sucks[c][t] \notin {"no", "decided"}, sucks' = [sucks EXCEPT ![c][t] = s]
      PROVE  ToUncount(ct)' = ToUncount(ct)
  BY <1>1, <1>4 DEF ToUncount, Disposed, Typed, TypeOK
<1> QED BY <1>1, <1>2, <1>3, <1>4, TeardownSteps

LEMMA UndercountKept ==
  ASSUME Typed, ThreadsLimited, UndercountBounded, [Next]_vars
  PROVE  UndercountBounded'
<1> SUFFICES ASSUME NEW ct \in ClientType
             PROVE  Cardinality(Regs(ct)') + Cardinality(ToUncount(ct)')
                      <= numClients'[ct] + (MaxSucksOf(ct) - 1) * Cardinality(Disposed(ct)')
  BY DEF UndercountBounded, Regs
<1> DEFINE R == Cardinality(Regs(ct))
           D == Cardinality(Disposed(ct))
           U == Cardinality(ToUncount(ct))
           N == numClients[ct]
           more == MaxSucksOf(ct) - 1
           R1 == Cardinality(Regs(ct)')
           D1 == Cardinality(Disposed(ct)')
           U1 == Cardinality(ToUncount(ct)')
           N1 == numClients'[ct]
<1>1. R \in Nat /\ D \in Nat /\ U \in Nat /\ N \in Int /\ more \in Int
  BY CountsFinite, SucksAssumption DEF Typed, TypeOK, C!TypeOK, C!ClientType, ClientType, C!Rpi,
     C!Consumer, Rpi, Consumer, MaxSucksOf
<1>2. R + U <= N + more * D
  BY DEF UndercountBounded, Regs
<1>3. ASSUME NEW c \in Conn, Register(c)
      PROVE  R1 + U1 <= N1 + more * D1
  <2>1. \A k \in Conn, t \in Thread : ~RemoveClient(k, t)
    BY <1>3 DEF Register, RemoveClient, Typed, SetupFirst, TypeOK
  <2>2. D1 = D /\ U1 = U
    BY <2>1, OthersTearNone
  <2>3. (N1 = N /\ R1 = R) \/ (N1 = N + 1 /\ R1 = R + 1)
    BY <1>3, RegisterCounts
  <2> HIDE DEF R, D, U, N, more, R1, D1, U1, N1
  <2>4. more * D \in Int
    BY <1>1
  <2> QED BY <1>1, <1>2, <2>2, <2>3, <2>4
<1>4. ASSUME NEW c \in Conn, NEW t \in Thread, RemoveClient(c, t)
      PROVE  R1 + U1 <= N1 + more * D1
  <2>1. CASE ct # cType(c)
    <3>1. N1 = N /\ R1 = R /\ D1 = D /\ U1 = U
      BY <1>4, <2>1, OtherType
    <3> HIDE DEF R, D, U, N, more, R1, D1, U1, N1
    <3> QED BY <1>2, <3>1
  <2>2. CASE ct = cType(c)
    <3>1. N1 = N - 1
      BY <1>4, <2>2 DEF RemoveClient, Uncount, C!ClientRemoved, Typed, TypeOK, C!TypeOK,
         C!ClientType, ClientType, C!Rpi, C!Consumer, Rpi, Consumer
    <3>2. CASE disposing[c]
      <4>1. R1 = R /\ D1 = D /\ U1 = U - 1
        BY <1>4, <2>2, <3>2, LaterRemoval
      <4> HIDE DEF R, D, U, N, more, R1, D1, U1, N1
      <4>2. more * D \in Int
        BY <1>1
      <4> QED BY <1>1, <1>2, <3>1, <4>1, <4>2
    <3>3. CASE ~disposing[c]
      <4>1. R1 = R - 1 /\ D1 = D + 1 /\ U1 \in Nat /\ U1 <= U + more
        BY <1>1, <1>4, <2>2, <3>3, FirstRemoval
      <4> HIDE DEF R, D, U, N, more, R1, D1, U1, N1
      <4>2. more * (D + 1) = more * D + more /\ more * D \in Int
        BY <1>1
      <4> QED BY <1>1, <1>2, <3>1, <4>1, <4>2
    <3> QED BY <3>2, <3>3
  <2> QED BY <2>1, <2>2
<1>5. ASSUME \A c \in Conn : ~Register(c), \A c \in Conn, t \in Thread : ~RemoveClient(c, t)
      PROVE  R1 + U1 <= N1 + more * D1
  <2>1. N1 = N /\ R1 = R /\ D1 = D /\ U1 = U
    BY <1>5, OthersCountSame, OthersTearNone
  <2> HIDE DEF R, D, U, N, more, R1, D1, U1, N1
  <2> QED BY <1>2, <2>1
<1> QED BY <1>3, <1>4, <1>5

LEMMA InitCountInv == Init => ThreadsLimited /\ UndercountBounded
<1> SUFFICES ASSUME Init PROVE ThreadsLimited /\ UndercountBounded
  OBVIOUS
<1>1. ThreadsLimited
  <2>1. ASSUME NEW c \in Conn
        PROVE  TornBy(c) = {} /\ MaxSucks(c) \in Nat
    BY SucksAssumption DEF Init, TornBy, MaxSucks, MaxSucksOf
  <2> QED BY <2>1, FS_EmptySet DEF ThreadsLimited
<1>2. ASSUME NEW ct \in ClientType
      PROVE  Cardinality(Regs(ct)) + Cardinality(ToUncount(ct))
               <= numClients[ct] + (MaxSucksOf(ct) - 1) * Cardinality(Disposed(ct))
  <2>1. Disposed(ct) = {} /\ Regs(ct) = {}
    BY DEF Init, Disposed, Regs, Registered
  <2>2. ToUncount(ct) = {}
    BY <2>1 DEF ToUncount
  <2>3. numClients[ct] = 0
    BY DEF Init, C!Init, C!ClientType, ClientType, C!Rpi, C!Consumer, Rpi, Consumer
  <2>4. MaxSucksOf(ct) \in Nat
    BY SucksAssumption DEF MaxSucksOf
  <2> QED BY <2>1, <2>2, <2>3, <2>4, FS_EmptySet
<1> QED BY <1>1, <1>2 DEF UndercountBounded, Regs

\* A connection that is torn down is taken out of the count no more often than threads
\* may be in its teardown at a time.
THEOREM UndercountBoundedHolds == Spec => []UndercountBounded
<1>1. Init => Typed /\ ThreadsLimited /\ UndercountBounded
  BY InitIndInv, InitCountInv DEF IndInv, Typed
<1>2. Typed /\ ThreadsLimited /\ UndercountBounded /\ [Next]_vars
        => (Typed /\ ThreadsLimited /\ UndercountBounded)'
  BY TypedKept, ThreadsLimitedKept, UndercountKept
<1> QED BY <1>1, <1>2, PTL DEF Spec

LEMMA ExactAlone ==
  ASSUME TypeOK, NeverOvercounted, UndercountBounded, MaxRpiSucks <= 1, MaxConsumerSucks <= 1
  PROVE  CountsMatch
<1> SUFFICES ASSUME NEW ct \in ClientType
             PROVE  numClients[ct] = Cardinality(Regs(ct))
  BY DEF CountsMatch, Regs
<1> DEFINE R == Cardinality(Regs(ct))
           D == Cardinality(Disposed(ct))
           U == Cardinality(ToUncount(ct))
           N == numClients[ct]
           more == MaxSucksOf(ct) - 1
           allowed == more * D
<1>1. R \in Nat /\ D \in Nat /\ U \in Nat /\ N \in Int /\ more \in {-1, 0}
  BY CountsFinite, SucksAssumption DEF TypeOK, C!TypeOK, C!ClientType, ClientType, C!Rpi,
     C!Consumer, Rpi, Consumer, MaxSucksOf
<1>2. R + U <= N + allowed /\ N <= R
  BY DEF UndercountBounded, NeverOvercounted, Regs
<1> HIDE DEF R, D, U, N, more, allowed
<1>3. allowed = 0 \/ allowed = -D
  BY <1>1 DEF allowed
<1>4. N = R
  BY <1>1, <1>2, <1>3
<1> QED BY <1>4 DEF N, R

\* The count goes wrong through threads that tear the same connection down together and
\* through nothing else: with one thread at a time it is exact in every state.
THEOREM ExactWithoutRace ==
  ASSUME MaxRpiSucks <= 1, MaxConsumerSucks <= 1
  PROVE  Spec => []CountsMatch
<1>1. IndInv /\ UndercountBounded => CountsMatch
  BY ExactAlone DEF IndInv
<1> QED BY <1>1, IndInvHolds, UndercountBoundedHolds, PTL

\* A command is dropped only when the service has no connection of the RPI: while one is
\* registered, and no connection is torn down by two threads together, AddMessage creates
\* the message.
THEOREM AcceptedWhileRegistered ==
  ASSUME MaxRpiSucks <= 1, MaxConsumerSucks <= 1
  PROVE  Spec => [](\A c \in Conn : Registered(c) => C!Accepted(cType(c)))
<1>1. TypeOK /\ CountsMatch => \A c \in Conn : Registered(c) => C!Accepted(cType(c))
  <2> SUFFICES ASSUME TypeOK, CountsMatch, NEW c \in Conn, Registered(c)
               PROVE  numClients[cType(c)] > 0
    BY DEF C!Accepted
  <2> DEFINE ct == cType(c)
  <2>1. c \in Regs(ct) /\ ct \in ClientType
    BY DEF Regs, ct, cType, ClientType
  <2>2. IsFiniteSet(Regs(ct)) /\ Cardinality(Regs(ct)) \in Nat
    BY CountsFinite
  <2>3. Cardinality(Regs(ct)) # 0
    BY <2>1, <2>2, FS_EmptySet
  <2>4. numClients[ct] = Cardinality(Regs(ct))
    BY <2>1 DEF CountsMatch, Regs
  <2> QED BY <2>2, <2>3, <2>4
<1> QED BY <1>1, TypeCorrect, ExactWithoutRace, PTL

-----------------------------------------------------------------------------
(* The bounds of the cache hold nothing up.                                *)

Posting   == {c \in Conn : pc[c] = "post"}
Announced == {c \in Conn : pc[c] \notin {"none", "add", "setup"}}
Pairs     == Conn \X Thread

\* The threads that have told the form of a teardown, or never will; those that have taken
\* their connection out of the count, or never will.
Told     == {p \in Pairs : disposing[p[1]] /\ sucks[p[1]][p[2]] \in {"no", "told"}}
Done(ct) == {p \in Pairs : /\ cType(p[1]) = ct /\ disposing[p[1]]
                           /\ sucks[p[1]][p[2]] # "decided"}

\* Each message was created by a call to the form, and a call is made for a text, for a
\* connection that is announced and for a thread that tears one down; the count goes below
\* zero by no more than the removals.
Room ==
  /\ \A c \in Conn, t \in Thread : sucks[c][t] \in {"removed", "told"} => disposing[c]
  /\ Len(posted) + Len(uiQueue) + Cardinality(Posting)
       <= heard + Cardinality(Announced) + Cardinality(Told)
  /\ \A ct \in ClientType : numClients[ct] + Cardinality(Done(ct)) >= 0

BoundsFree ==
  /\ uiQueue # << >> => Len(posted) < MaxPosted
  /\ \A c \in Conn : pc[c] = "add" =>
       numClients[cType(c)] < Cardinality(Conn) * Cardinality(Thread)
  /\ \A c \in Conn, t \in Thread : sucks[c][t] = "decided" =>
       numClients[cType(c)] > -(Cardinality(Conn) * Cardinality(Thread))

LEMMA PairsFinite ==
  /\ IsFiniteSet(Pairs) /\ Cardinality(Pairs) = Cardinality(Conn) * Cardinality(Thread)
  /\ IsFiniteSet(Told) /\ Cardinality(Told) \in Nat /\ Cardinality(Told) <= Cardinality(Pairs)
  /\ IsFiniteSet(Posting) /\ Cardinality(Posting) \in Nat
  /\ IsFiniteSet(Announced) /\ Cardinality(Announced) \in Nat
  /\ Cardinality(Announced) <= Cardinality(Conn)
  /\ \A ct : /\ IsFiniteSet(Done(ct)) /\ Cardinality(Done(ct)) \in Nat
             /\ Done(ct) \in SUBSET Pairs
<1>1. IsFiniteSet(Pairs) /\ Cardinality(Pairs) = Cardinality(Conn) * Cardinality(Thread)
  BY Finite, FS_Product DEF Pairs
<1>2. Told \in SUBSET Pairs /\ Posting \in SUBSET Conn /\ Announced \in SUBSET Conn
  BY DEF Told, Posting, Announced
<1>3. \A ct : Done(ct) \in SUBSET Pairs
  BY DEF Done
<1>4. \A ct : IsFiniteSet(Done(ct)) /\ Cardinality(Done(ct)) \in Nat
  BY <1>1, <1>3, FS_Subset, FS_CardinalityType
<1>5. /\ IsFiniteSet(Told) /\ Cardinality(Told) \in Nat /\ Cardinality(Told) <= Cardinality(Pairs)
      /\ IsFiniteSet(Posting) /\ Cardinality(Posting) \in Nat
      /\ IsFiniteSet(Announced) /\ Cardinality(Announced) \in Nat
      /\ Cardinality(Announced) <= Cardinality(Conn)
  BY <1>1, <1>2, Finite, FS_Subset, FS_CardinalityType
<1> QED BY <1>1, <1>3, <1>4, <1>5

\* No step takes back what a teardown has done.
LEMMA TeardownsGoOn ==
  ASSUME Typed, Room, [Next]_vars
  PROVE  /\ \A c \in Conn, t \in Thread : sucks'[c][t] \in {"removed", "told"} => disposing'[c]
         /\ Told \subseteq Told'
         /\ \A ct : Done(ct) \subseteq Done(ct)'
         /\ \A c \in Conn, t \in Thread : TellKilled(c, t) => <<c, t>> \in Told' \ Told
         /\ \A c \in Conn, t \in Thread :
              RemoveClient(c, t) => <<c, t>> \in Done(cType(c))' \ Done(cType(c))
<1>1. /\ sucks \in [Conn -> [Thread -> {"no", "decided", "removed", "told"}]]
      /\ disposing \in [Conn -> BOOLEAN]
      /\ \A c \in Conn, t \in Thread : sucks[c][t] \in {"removed", "told"} => disposing[c]
  BY DEF Typed, TypeOK, Room
<1> DEFINE Goal == /\ \A c \in Conn, t \in Thread :
                        sucks'[c][t] \in {"removed", "told"} => disposing'[c]
                   /\ \A c \in Conn : disposing[c] => disposing'[c]
                   /\ \A c \in Conn, t \in Thread : disposing[c] =>
                        /\ sucks[c][t] \in {"no", "told"} => sucks'[c][t] \in {"no", "told"}
                        /\ sucks[c][t] # "decided" => sucks'[c][t] # "decided"
<1>2. ASSUME NEW c \in Conn, NEW t \in Thread, RemoveClient(c, t)
      PROVE  Goal
  <2>1. /\ disposing' = [disposing EXCEPT ![c] = TRUE]
        /\ sucks' = [sucks EXCEPT ![c][t] = "removed"] /\ sucks[c][t] = "decided"
    BY <1>2 DEF RemoveClient
  <2> QED BY <1>1, <2>1
<1>3. ASSUME disposing' = disposing, sucks' = sucks
      PROVE  Goal
  BY <1>1, <1>3
<1>4. ASSUME disposing' = disposing, NEW c \in Conn, NEW t \in Thread, Decide(c, t)
      PROVE  Goal
  BY <1>1, <1>4, Decided
<1>5. ASSUME disposing' = disposing, NEW c \in Conn, NEW t \in Thread, NEW s \in {"told", "no"},
             sucks[c][t] \notin {"no", "decided"}, sucks' = [sucks EXCEPT ![c][t] = s]
      PROVE  Goal
  BY <1>1, <1>5
<1> HIDE DEF Goal
<1>6. Goal
  BY <1>2, <1>3, <1>4, <1>5, TeardownSteps
<1>7. Told \subseteq Told' /\ \A ct : Done(ct) \subseteq Done(ct)'
  BY <1>6 DEF Goal, Told, Done, Pairs
<1>8. ASSUME NEW c \in Conn, NEW t \in Thread, TellKilled(c, t)
      PROVE  <<c, t>> \in Told' \ Told
  <2>1. /\ sucks[c][t] = "removed" /\ disposing' = disposing /\ disposing[c]
        /\ sucks' = [sucks EXCEPT ![c][t] = "told"]
    BY <1>1, <1>8 DEF TellKilled
  <2> QED BY <1>1, <2>1 DEF Told, Pairs
<1>9. ASSUME NEW c \in Conn, NEW t \in Thread, RemoveClient(c, t)
      PROVE  <<c, t>> \in Done(cType(c))' \ Done(cType(c))
  <2>1. /\ disposing' = [disposing EXCEPT ![c] = TRUE]
        /\ sucks' = [sucks EXCEPT ![c][t] = "removed"] /\ sucks[c][t] = "decided"
    BY <1>9 DEF RemoveClient
  <2> QED BY <1>1, <2>1 DEF Done, Pairs
<1> QED BY <1>6, <1>7, <1>8, <1>9 DEF Goal

\* What a step may add to the queue and to the messages, and what it is counted against.
LEMMA CallSteps ==
  ASSUME Typed, [Next]_vars
  PROVE  LET Same == UNCHANGED <<posted, uiQueue, heard>>
             Stays == Announced \subseteq Announced' /\ Posting' \subseteq Posting
             Calls1(c, t, msg) == UNCHANGED <<posted, heard>> /\ MsgFromClient(c, t, msg)
         IN  \/ OnMsgFromClient /\ UNCHANGED <<heard, pc>>
             \/ Stays /\ UNCHANGED <<posted, uiQueue>> /\ heard' \in {heard, heard + 1}
             \/ /\ UNCHANGED <<posted, uiQueue>> /\ heard' = heard + 1
                /\ Announced \subseteq Announced'
                /\ \E c \in Conn : Posting' \subseteq Posting \union {c}
             \/ \E c \in Conn : /\ Calls1(c, "conn", <<"ClientSetup">>) /\ Posting' \subseteq Posting
                                /\ c \notin Announced /\ Announced \union {c} \subseteq Announced'
             \/ \E c \in Conn : /\ Calls1(c, "conn", retstr[c]) /\ Announced \subseteq Announced'
                                /\ c \in Posting /\ Posting' \subseteq Posting \ {c}
             \/ \E c \in Conn, t \in Thread :
                  TellKilled(c, t) /\ Calls1(c, t, <<"ClientKilled">>) /\ Stays
<1> DEFINE Stays == Announced \subseteq Announced' /\ Posting' \subseteq Posting
           CallBy(c, t, msg) == UNCHANGED <<posted, heard>> /\ MsgFromClient(c, t, msg)
           A == OnMsgFromClient /\ UNCHANGED <<heard, pc>>
           B == Stays /\ UNCHANGED <<posted, uiQueue>> /\ heard' \in {heard, heard + 1}
           D == /\ UNCHANGED <<posted, uiQueue>> /\ heard' = heard + 1
                /\ Announced \subseteq Announced'
                /\ \E c \in Conn : Posting' \subseteq Posting \union {c}
           E(c) == /\ CallBy(c, "conn", <<"ClientSetup">>) /\ Posting' \subseteq Posting
                   /\ c \notin Announced /\ Announced \union {c} \subseteq Announced'
           F(c) == /\ CallBy(c, "conn", retstr[c]) /\ Announced \subseteq Announced'
                   /\ c \in Posting /\ Posting' \subseteq Posting \ {c}
           G(c, t) == TellKilled(c, t) /\ CallBy(c, t, <<"ClientKilled">>) /\ Stays
<1>1. /\ pc \in [Conn -> {"none", "add", "setup", "start", "chat", "post", "restart",
                      "spin", "ended"}]
      /\ \A c \in Conn : pc[c] \in {"none", "add", "setup", "start"} =>
           \A t \in Thread : sucks[c][t] = "no"
  BY DEF Typed, TypeOK, SetupFirst
<1>2. pc' = pc => Stays
  BY DEF Announced, Posting
<1>3. ASSUME NEW c \in Conn, NEW at, pc' = [pc EXCEPT ![c] = at],
             at # "post", at \notin {"none", "add", "setup"} \/ pc[c] \in {"none", "add", "setup"}
      PROVE  Stays
  BY <1>1, <1>3 DEF Announced, Posting
<1>4. OnMsgFromClient => A
  BY DEF OnMsgFromClient, connVars, peerVars
<1>5. UNCHANGED vars \/ Load => B
  BY <1>2 DEF vars, Load, cacheVars, ClientMsgCache, connVars, peerVars
<1>6. ASSUME NEW c \in Conn, Accept(c) \/ Register(c) \/ StartTimers(c) \/ RestartKeepAlive(c)
                             \/ ReceiveNothing(c) \/ ReceivePart(c)
      PROVE  B
  <2>1. UNCHANGED <<posted, uiQueue>> /\ heard' \in {heard, heard + 1}
    BY <1>6 DEF Accept, Register, C!ClientAdded, StartTimers, RestartKeepAlive, ReceiveNothing,
       ReceivePart, cacheVars, ClientMsgCache, peerVars
  <2>2. Stays
    BY <1>1, <1>2, <1>3, <1>6 DEF Accept, Register, StartTimers, RestartKeepAlive,
       ReceiveNothing, ReceivePart, Receiving
  <2> QED BY <2>1, <2>2
<1>7. ASSUME NEW c \in Conn, \/ GrabTransmissionInCache(c) \/ SendSpoilsReceive(c)
                             \/ KeepAliveTO(c) \/ recMsgTO(c)
                             \/ \E how \in {"closed", "gone"} : PeerEnds(c, how)
      PROVE  B
  <2>1. pc' = pc /\ UNCHANGED <<posted, uiQueue, heard>>
    BY <1>7 DEF GrabTransmissionInCache, SendSpoilsReceive, KeepAliveTO, recMsgTO, PeerEnds,
       C!Read, cacheVars, ClientMsgCache, peerVars
  <2> QED BY <1>2, <2>1
<1>8. ASSUME NEW c \in Conn, NEW text \in TextFrom(c), ReceiveWholeMsg(c, text)
      PROVE  D
  <2>1. /\ UNCHANGED <<posted, uiQueue>> /\ heard' = heard + 1 /\ pc[c] = "chat"
        /\ pc' = [pc EXCEPT ![c] = "post"]
    BY <1>8 DEF ReceiveWholeMsg, Receiving, cacheVars, ClientMsgCache
  <2>2. Announced \subseteq Announced' /\ Posting' \subseteq Posting \union {c}
    BY <1>1, <2>1 DEF Announced, Posting
  <2> QED BY <2>1, <2>2
<1>9. ASSUME NEW c \in Conn, Announce(c)
      PROVE  E(c)
  <2>1. /\ CallBy(c, "conn", <<"ClientSetup">>) /\ pc[c] = "setup"
        /\ pc' = [pc EXCEPT ![c] = "start"]
    BY <1>9 DEF Announce, cacheVars, ClientMsgCache, peerVars
  <2>2. /\ Posting' \subseteq Posting /\ c \notin Announced
        /\ Announced \union {c} \subseteq Announced'
    BY <1>1, <2>1 DEF Announced, Posting
  <2> QED BY <2>1, <2>2
<1>10. ASSUME NEW c \in Conn, Forward(c)
       PROVE  F(c)
  <2>1. CallBy(c, "conn", retstr[c]) /\ pc[c] = "post" /\ pc' = [pc EXCEPT ![c] = "restart"]
    BY <1>10 DEF Forward, cacheVars, ClientMsgCache, peerVars
  <2>2. Announced \subseteq Announced' /\ c \in Posting /\ Posting' \subseteq Posting \ {c}
    BY <1>1, <2>1 DEF Announced, Posting
  <2> QED BY <2>1, <2>2
<1>11. ASSUME NEW c \in Conn, NEW t \in Thread, TellKilled(c, t)
       PROVE  G(c, t)
  BY <1>2, <1>11 DEF TellKilled, cacheVars, ClientMsgCache, peerVars
<1>12. ASSUME NEW c \in Conn, NEW t \in Thread, RemoveClient(c, t) \/ StopAndAbort(c, t)
       PROVE  B
  <2>1. UNCHANGED <<posted, uiQueue, heard>>
    BY <1>12 DEF RemoveClient, Uncount, C!ClientRemoved, StopAndAbort, cacheVars,
       ClientMsgCache, peerVars
  <2>2. Stays
    <3>1. CASE RemoveClient(c, t)
      BY <1>2, <3>1 DEF RemoveClient
    <3>2. CASE StopAndAbort(c, t)
      <4>1. pc' = [pc EXCEPT ![c] = "ended"] \/ pc' = [pc EXCEPT ![c] = pc[c]]
        BY <3>2 DEF StopAndAbort
      <4>2. pc' = [pc EXCEPT ![c] = pc[c]] => pc' = pc
        BY <1>1
      <4> QED BY <1>2, <1>3, <4>1, <4>2
    <3> QED BY <1>12, <3>1, <3>2
  <2> QED BY <2>1, <2>2
<1> HIDE DEF A, B, D, E, F, G
<1>13. A \/ B \/ D \/ (\E c \in Conn : E(c) \/ F(c)) \/ \E c \in Conn, t \in Thread : G(c, t)
  BY <1>4, <1>5, <1>6, <1>7, <1>8, <1>9, <1>10, <1>11, <1>12 DEF Next, ThreadStep,
     ThisConnectionSucks
<1> QED BY <1>13 DEF A, B, D, E, F, G

\* A call lengthens the queue by one at most.
LEMMA CallCounted ==
  ASSUME Typed, NEW c, NEW t, NEW msg, MsgFromClient(c, t, msg)
  PROVE  Len(uiQueue') \in Nat /\ Len(uiQueue') <= Len(uiQueue) + 1
<1>1. uiQueue \in Seq(Call) /\ Len(uiQueue) \in Nat
  BY DEF Typed, TypeOK, Call
<1> DEFINE call == [conn |-> c, by |-> t, msg |-> msg]
<1> HIDE DEF call
<1>2. Len(Append(uiQueue, call)) = Len(uiQueue) + 1
  BY <1>1
<1>3. uiQueue' = uiQueue \/ uiQueue' = Append(uiQueue, call)
  BY DEF MsgFromClient, call
<1> QED BY <1>1, <1>2, <1>3

\* The handler takes a call off the queue and creates one message at most.
LEMMA HandlerCounted ==
  ASSUME Typed, OnMsgFromClient
  PROVE  /\ Len(uiQueue') \in Nat /\ Len(uiQueue') = Len(uiQueue) - 1
         /\ Len(posted') \in Nat /\ Len(posted') <= Len(posted) + 1
<1>1. uiQueue \in Seq(Call) /\ Len(uiQueue) \in Nat /\ uiQueue # << >> /\ uiQueue' = Tail(uiQueue)
  BY DEF Typed, TypeOK, Call, OnMsgFromClient
<1>2. Len(Tail(uiQueue)) = Len(uiQueue) - 1 /\ Len(uiQueue) - 1 \in Nat
  BY <1>1
<1>3. Len(posted) \in Nat
  BY DEF Typed, TypeOK, C!TypeOK
<1>4. posted' = posted \/ \E e : posted' = Append(posted, e)
  BY DEF OnMsgFromClient, OnConsumerMsg, OnRpiMsg, SendToClients, C!AddMessage,
         C!PostedAfterAdd, ClientMsgCache
<1>5. ASSUME NEW e
      PROVE  Len(Append(posted, e)) = Len(posted) + 1
  BY DEF Typed, TypeOK, C!TypeOK
<1>6. Len(posted') \in Nat /\ Len(posted') <= Len(posted) + 1
  BY <1>3, <1>4, <1>5
<1> QED BY <1>1, <1>2, <1>6

LEMMA RoomKept ==
  ASSUME Typed, Room, [Next]_vars
  PROVE  Room'
<1> DEFINE a == Len(posted)
           q == Len(uiQueue)
           p == Cardinality(Posting)
           n == Cardinality(Announced)
           d == Cardinality(Told)
           h == heard
           a1 == Len(posted')
           q1 == Len(uiQueue')
           p1 == Cardinality(Posting')
           n1 == Cardinality(Announced')
           d1 == Cardinality(Told')
           h1 == heard'
<1>1. a \in Nat /\ q \in Nat /\ p \in Nat /\ n \in Nat /\ d \in Nat /\ h \in Nat
  BY PairsFinite, TextAssumption DEF Typed, TypeOK, C!TypeOK
<1>2. /\ IsFiniteSet(Posting) /\ IsFiniteSet(Announced') /\ IsFiniteSet(Told')
      /\ n1 \in Nat /\ d1 \in Nat
  <2>1. Announced' \in SUBSET Conn /\ Told' \in SUBSET Pairs
    BY DEF Announced, Told
  <2> QED BY <2>1, PairsFinite, Finite, FS_Subset, FS_CardinalityType
<1>3. Told \subseteq Told' /\ d <= d1
  BY <1>2, TeardownsGoOn, FS_Subset
<1>4. Announced \subseteq Announced' => n <= n1
  BY <1>2, FS_Subset
<1>5. Posting' \subseteq Posting => p1 \in Nat /\ p1 <= p
  BY <1>2, FS_Subset, FS_CardinalityType
<1>6. a + q + p <= h + n + d
  BY DEF Room
<1>7. a1 + q1 + p1 <= h1 + n1 + d1
  <2>1. ASSUME OnMsgFromClient, UNCHANGED <<heard, pc>>
        PROVE  a1 + q1 + p1 <= h1 + n1 + d1
    <3>1. a1 \in Nat /\ q1 \in Nat /\ q1 = q - 1 /\ a1 <= a + 1
      BY <2>1, HandlerCounted
    <3>2. p1 = p /\ n1 = n /\ h1 = h
      BY <2>1 DEF Posting, Announced
    <3> HIDE DEF a, q, p, n, d, h, a1, q1, p1, n1, d1, h1
    <3> QED BY <1>1, <1>2, <1>3, <1>6, <3>1, <3>2
  <2>2. ASSUME Announced \subseteq Announced', Posting' \subseteq Posting,
               UNCHANGED <<posted, uiQueue>>, heard' \in {heard, heard + 1}
        PROVE  a1 + q1 + p1 <= h1 + n1 + d1
    <3>1. a1 = a /\ q1 = q /\ n <= n1 /\ p1 \in Nat /\ p1 <= p /\ h1 \in {h, h + 1}
      BY <1>4, <1>5, <2>2
    <3> HIDE DEF a, q, p, n, d, h, a1, q1, p1, n1, d1, h1
    <3> QED BY <1>1, <1>2, <1>3, <1>6, <3>1
  <2>3. ASSUME UNCHANGED <<posted, uiQueue>>, heard' = heard + 1, Announced \subseteq Announced',
               NEW c \in Conn, Posting' \subseteq Posting \union {c}
        PROVE  a1 + q1 + p1 <= h1 + n1 + d1
    <3>1. /\ IsFiniteSet(Posting \union {c}) /\ Cardinality(Posting \union {c}) \in {p, p + 1}
      BY <1>2, FS_AddElement
    <3>2. p1 \in Nat /\ p1 <= Cardinality(Posting \union {c})
      BY <2>3, <3>1, FS_Subset, FS_CardinalityType
    <3>3. a1 = a /\ q1 = q /\ n <= n1 /\ h1 = h + 1
      BY <1>4, <2>3
    <3> HIDE DEF a, q, p, n, d, h, a1, q1, p1, n1, d1, h1
    <3>4. p1 <= p + 1
      BY <1>1, <3>1, <3>2
    <3> QED BY <1>1, <1>2, <1>3, <1>6, <3>2, <3>3, <3>4
  <2>4. ASSUME NEW c \in Conn, UNCHANGED <<posted, heard>>,
               MsgFromClient(c, "conn", <<"ClientSetup">>), Posting' \subseteq Posting,
               c \notin Announced, Announced \union {c} \subseteq Announced'
        PROVE  a1 + q1 + p1 <= h1 + n1 + d1
    <3>1. IsFiniteSet(Announced \union {c}) /\ Cardinality(Announced \union {c}) = n + 1
      BY <2>4, PairsFinite, FS_AddElement
    <3>2. n + 1 <= n1
      BY <1>2, <2>4, <3>1, FS_Subset
    <3>3. a1 = a /\ h1 = h /\ p1 \in Nat /\ p1 <= p /\ q1 \in Nat /\ q1 <= q + 1
      BY <1>5, <2>4, CallCounted
    <3> HIDE DEF a, q, p, n, d, h, a1, q1, p1, n1, d1, h1
    <3> QED BY <1>1, <1>2, <1>3, <1>6, <3>2, <3>3
  <2>5. ASSUME NEW c \in Conn, UNCHANGED <<posted, heard>>, MsgFromClient(c, "conn", retstr[c]),
               Announced \subseteq Announced', c \in Posting, Posting' \subseteq Posting \ {c}
        PROVE  a1 + q1 + p1 <= h1 + n1 + d1
    <3>1. IsFiniteSet(Posting \ {c}) /\ Cardinality(Posting \ {c}) = p - 1
      BY <1>2, <2>5, FS_RemoveElement
    <3>2. p1 \in Nat /\ p1 <= p - 1
      BY <2>5, <3>1, FS_Subset, FS_CardinalityType
    <3>3. a1 = a /\ h1 = h /\ n <= n1 /\ q1 \in Nat /\ q1 <= q + 1
      BY <1>4, <2>5, CallCounted
    <3> HIDE DEF a, q, p, n, d, h, a1, q1, p1, n1, d1, h1
    <3> QED BY <1>1, <1>2, <1>3, <1>6, <3>2, <3>3
  <2>6. ASSUME NEW c \in Conn, NEW t \in Thread, TellKilled(c, t), UNCHANGED <<posted, heard>>,
               MsgFromClient(c, t, <<"ClientKilled">>), Announced \subseteq Announced',
               Posting' \subseteq Posting
        PROVE  a1 + q1 + p1 <= h1 + n1 + d1
    <3>1. <<c, t>> \in Told' \ Told
      BY <2>6, TeardownsGoOn
    <3>2. IsFiniteSet(Told \union {<<c, t>>}) /\ Cardinality(Told \union {<<c, t>>}) = d + 1
      BY <3>1, PairsFinite, FS_AddElement
    <3>3. d + 1 <= d1
      <4>1. Told \union {<<c, t>>} \subseteq Told'
        BY <1>3, <3>1
      <4> QED BY <1>2, <3>2, <4>1, FS_Subset
    <3>4. a1 = a /\ h1 = h /\ n <= n1 /\ p1 \in Nat /\ p1 <= p /\ q1 \in Nat /\ q1 <= q + 1
      BY <1>4, <1>5, <2>6, CallCounted
    <3> HIDE DEF a, q, p, n, d, h, a1, q1, p1, n1, d1, h1
    <3> QED BY <1>1, <1>2, <1>6, <3>3, <3>4
  <2> HIDE DEF a, q, p, n, d, h, a1, q1, p1, n1, d1, h1
  <2> QED BY <2>1, <2>2, <2>3, <2>4, <2>5, <2>6, CallSteps
<1>8. ASSUME NEW ct \in ClientType
      PROVE  numClients'[ct] + Cardinality(Done(ct)') >= 0
  <2> DEFINE N == numClients[ct]
             N1 == numClients'[ct]
             D == Cardinality(Done(ct))
             D1 == Cardinality(Done(ct)')
  <2>1. N \in Int /\ D \in Nat /\ N + D >= 0
    BY PairsFinite DEF Room, Typed, TypeOK, C!TypeOK, C!ClientType, ClientType, C!Rpi, C!Consumer,
       Rpi, Consumer
  <2>2. IsFiniteSet(Done(ct)') /\ D1 \in Nat
    <3>1. Done(ct)' \in SUBSET Pairs
      BY DEF Done
    <3> QED BY <3>1, PairsFinite, FS_Subset, FS_CardinalityType
  <2>3. D <= D1
    BY <2>2, TeardownsGoOn, FS_Subset
  <2>4. ASSUME NEW c \in Conn, NEW t \in Thread, RemoveClient(c, t)
        PROVE  N1 + D1 >= 0
    <3>1. CASE ct # cType(c)
      <4>1. N1 = N
        BY <2>4, <3>1, OtherType
      <4> HIDE DEF N, N1, D, D1
      <4> QED BY <2>1, <2>2, <2>3, <4>1
    <3>2. CASE ct = cType(c)
      <4>1. <<c, t>> \in Done(ct)' \ Done(ct)
        BY <2>4, <3>2, TeardownsGoOn
      <4>2. /\ IsFiniteSet(Done(ct) \union {<<c, t>>})
            /\ Cardinality(Done(ct) \union {<<c, t>>}) = D + 1
        BY <4>1, PairsFinite, FS_AddElement
      <4>3. Done(ct) \union {<<c, t>>} \subseteq Done(ct)'
        BY <4>1, TeardownsGoOn
      <4>4. D + 1 <= D1
        BY <2>2, <4>2, <4>3, FS_Subset
      <4>5. N1 \in {N, N - 1}
        BY <2>4, RemoveCounts
      <4> HIDE DEF N, N1, D, D1
      <4> QED BY <2>1, <2>2, <4>4, <4>5
    <3> QED BY <3>1, <3>2
  <2>5. ASSUME \A c \in Conn, t \in Thread : ~RemoveClient(c, t)
        PROVE  N1 + D1 >= 0
    <3>1. N1 \in {N, N + 1}
      BY <2>5, RegisterCounts, OthersCountSame
    <3> HIDE DEF N, N1, D, D1
    <3> QED BY <2>1, <2>2, <2>3, <3>1
  <2> QED BY <2>4, <2>5
<1> QED BY <1>7, <1>8, TeardownsGoOn DEF Room

LEMMA InitRoom == Init => Room
<1> SUFFICES ASSUME Init PROVE Room
  OBVIOUS
<1>1. Posting = {} /\ Announced = {} /\ Told = {}
  BY DEF Init, Posting, Announced, Told, Pairs
<1>2. \A ct : Done(ct) = {}
  BY DEF Init, Done, Pairs
<1>3. Len(posted) = 0 /\ Len(uiQueue) = 0 /\ heard = 0
  BY DEF Init, C!Init
<1>4. \A ct \in ClientType : numClients[ct] = 0
  BY DEF Init, C!Init, C!ClientType, ClientType, C!Rpi, C!Consumer, Rpi, Consumer
<1>5. \A c \in Conn, t \in Thread : sucks[c][t] = "no"
  BY DEF Init
<1>6. Cardinality({}) = 0
  BY FS_EmptySet
<1>7. /\ Cardinality(Posting) = 0 /\ Cardinality(Announced) = 0 /\ Cardinality(Told) = 0
      /\ \A ct \in ClientType : Cardinality(Done(ct)) = 0
  BY <1>1, <1>2, <1>6
<1> HIDE DEF Init
<1> QED BY <1>3, <1>4, <1>5, <1>7 DEF Room

LEMMA RoomSuffices ==
  ASSUME Typed, NeverOvercounted, Room
  PROVE  BoundsFree
<1> DEFINE N == Cardinality(Conn)
           T == Cardinality(Thread)
           M == N * T
<1>1. N \in Nat /\ T \in Nat /\ T # 0 /\ M \in Nat /\ N <= M /\ N * (T + 1) = M + N
  <2>1. N \in Nat /\ T \in Nat /\ T # 0
    BY Finite, Threads, FS_EmptySet
  <2> HIDE DEF N, T
  <2>2. N <= N * T
    <3>1. PICK u \in Nat : T = u + 1
      <4>1. T - 1 \in Nat /\ T = (T - 1) + 1
        BY <2>1
      <4> QED BY <4>1
    <3>2. N * (u + 1) = N * u + N /\ N * u \in Nat
      BY <2>1, <3>1
    <3> QED BY <2>1, <3>1, <3>2
  <2> QED BY <2>1, <2>2
<1> HIDE DEF N, T, M
<1>2. ASSUME uiQueue # << >>
      PROVE  Len(posted) < MaxPosted
  <2> DEFINE a == Len(posted)
             q == Len(uiQueue)
             p == Cardinality(Posting)
             n == Cardinality(Announced)
             d == Cardinality(Told)
  <2>1. /\ a \in Nat /\ q \in Nat /\ p \in Nat /\ n \in Nat /\ d \in Nat
        /\ heard \in Nat /\ MaxTexts \in Nat /\ heard <= MaxTexts
    BY PairsFinite, TextAssumption DEF Typed, TypeOK, C!TypeOK
  <2>2. q >= 1
    <3>1. uiQueue \in Seq(Call)
      BY DEF Typed, TypeOK, Call
    <3> QED BY <1>2, <3>1
  <2>3. a + q + p <= heard + n + d
    BY DEF Room
  <2>4. n <= N /\ d <= M
    BY PairsFinite DEF N, T, M
  <2>5. MaxPosted = MaxTexts + N * (T + 1)
    BY DEF MaxPosted, N, T
  <2> HIDE DEF a, q, p, n, d
  <2>6. a < MaxTexts + (M + N)
    BY <1>1, <2>1, <2>2, <2>3, <2>4
  <2> QED BY <1>1, <2>5, <2>6 DEF a
<1>3. \A c \in Conn : cType(c) \in ClientType
  BY DEF cType, ClientType
<1>4. \A ct \in ClientType : numClients[ct] \in Int
  BY DEF Typed, TypeOK, C!TypeOK, C!ClientType, ClientType, C!Rpi, C!Consumer, Rpi, Consumer
<1>5. ASSUME NEW c \in Conn, pc[c] = "add"
      PROVE  numClients[cType(c)] < M
  <2> DEFINE ct == cType(c)
             R == Cardinality(Regs(ct))
  <2>1. Regs(ct) \subseteq Conn \ {c}
    BY <1>5 DEF Regs, Registered
  <2>2. IsFiniteSet(Conn \ {c}) /\ Cardinality(Conn \ {c}) = N - 1
    BY Finite, FS_RemoveElement DEF N
  <2>3. R <= N - 1 /\ R \in Nat
    BY <2>1, <2>2, CountsFinite, FS_Subset
  <2>4. numClients[ct] <= R /\ numClients[ct] \in Int
    BY <1>3, <1>4 DEF NeverOvercounted, Regs
  <2> HIDE DEF ct, R
  <2>5. numClients[ct] < M
    BY <1>1, <2>3, <2>4
  <2> QED BY <2>5 DEF ct
<1>6. ASSUME NEW c \in Conn, NEW t \in Thread, sucks[c][t] = "decided"
      PROVE  numClients[cType(c)] > -M
  <2> DEFINE ct == cType(c)
             D == Cardinality(Done(ct))
  <2>1. <<c, t>> \in Pairs /\ Done(ct) \subseteq Pairs \ {<<c, t>>}
    BY <1>6 DEF Pairs, Done
  <2>2. /\ IsFiniteSet(Pairs \ {<<c, t>>})
        /\ Cardinality(Pairs \ {<<c, t>>}) = M - 1
    <3>1. IsFiniteSet(Pairs) /\ Cardinality(Pairs) = M
      BY PairsFinite DEF M, N, T
    <3>2. /\ IsFiniteSet(Pairs \ {<<c, t>>})
          /\ Cardinality(Pairs \ {<<c, t>>}) = Cardinality(Pairs) - 1
      BY <2>1, <3>1, FS_RemoveElement
    <3> QED BY <3>1, <3>2
  <2>3. D <= M - 1 /\ D \in Nat
    BY <2>1, <2>2, PairsFinite, FS_Subset
  <2>4. numClients[ct] + D >= 0 /\ numClients[ct] \in Int
    BY <1>3, <1>4 DEF Room
  <2> HIDE DEF ct, D
  <2>5. numClients[ct] > -M
    BY <1>1, <2>3, <2>4
  <2> QED BY <2>5 DEF ct
<1> QED BY <1>2, <1>5, <1>6 DEF BoundsFree, M, N, T

\* The bounds that keep the cache's counters and messages finite never hold a step back:
\* where the code goes on, a client being registered or taken out of the count, a call being
\* handled, the model goes on.
THEOREM BoundsNeverBlock == Spec => []BoundsFree
<1>1. Init => Typed /\ Room
  BY InitIndInv, InitRoom DEF IndInv, Typed
<1>2. (Typed /\ Room) /\ [Next]_vars => (Typed /\ Room)'
  BY TypedKept, RoomKept
<1>3. (Typed /\ Room) /\ NeverOvercounted => BoundsFree
  BY RoomSuffices
<1> QED BY <1>1, <1>2, <1>3, NeverOvercountedHolds, PTL DEF Spec
=============================================================================
