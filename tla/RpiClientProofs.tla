-------------------------- MODULE RpiClientProofs --------------------------
(***************************************************************************)
(* Proofs about RpiClient: the invariant IndInv is inductive for any waits *)
(* that satisfy the assumptions, so the button is down only while a press  *)
(* is timed, power is cut only offline, and the program never has two      *)
(* connections in the eyes of the service.                                 *)
(***************************************************************************)
EXTENDS RpiClient, TLAPS

\* The waits are numbers smaller than the bound on ages.
LEMMA TimesAreNat ==
  /\ ServiceTime \in Nat /\ PingTime \in Nat /\ PressTime \in Nat
  /\ CarUpTime \in Nat /\ HangUpTime \in Nat /\ OffTime \in Nat
  /\ ModemBootTime \in Nat /\ DialTime \in Nat /\ BootTime \in Nat
  /\ KeepAlive \in Nat /\ MaxAge \in Nat
  /\ PressTime < MaxAge /\ KeepAlive < MaxAge
  BY TimeAssumption DEF Times

\* An age grows by at most one and stops at MaxAge.
LEMMA OlderAge ==
  ASSUME NEW age \in Age
  PROVE  /\ Older(age) \in Age
         /\ Older(age) <= age + 1
         /\ age <= Older(age)
         /\ Older(age) = MaxAge \/ Older(age) = age + 1
  BY TimesAreNat DEF Older, Age

\* What an iteration sees of the timers are ages, no older than the timers.
LEMMA SeenAges ==
  ASSUME TypeOK
  PROVE  /\ modemAge \in Age /\ modemAge <= modemTimer
         /\ carUpAge \in Age
  BY TimesAreNat DEF TypeOK, modemAge, carUpAge, Age

-----------------------------------------------------------------------------
(* The invariant, action by action.                                        *)

LEMMA TickInductive == ASSUME IndInv, Tick PROVE IndInv'
<1> USE DEF IndInv
<1>1. TypeOK'
  BY OlderAge DEF TypeOK, Tick, pins, link
<1>2. ButtonTimed' /\ PowerCutOffline'
  BY DEF ButtonTimed, PowerCutOffline, Tick, pins, link
<1>3. PressOnTime'
  <2>1. /\ latchStartTime' <= latchStartTime + 1
        /\ latchStartTime \in Nat /\ latchStartTime' \in Nat
    BY OlderAge, TimesAreNat DEF TypeOK, Tick, Age
  <2>2. looped /\ ~looped' /\ radioPin' = radioPin /\ mode' = mode
    BY Zenon DEF Tick, pins
  <2> QED BY <2>1, <2>2, TimesAreNat DEF PressOnTime
<1>4. WaitsElapsed'
  <2>1. socket = "closed" => silent' = MaxAge \/ silent' = silent + 1
    BY OlderAge DEF TypeOK, Tick
  <2>2. modemTimer' <= modemTimer + 1 /\ modemTimer' \in Age
    BY OlderAge DEF TypeOK, Tick
  <2>3. silent \in Nat /\ silent <= MaxAge /\ modemTimer \in Nat /\ modemTimer' \in Nat
    BY <2>2, TimesAreNat DEF TypeOK, Age
  <2>4. ASSUME NEW t \in Nat, NEW u \in Nat, Elapsed(t), socket = "closed", u <= t + 1
        PROVE  silent' = MaxAge \/ silent' >= u
    <3>1. CASE silent = MaxAge
      BY <2>4, <3>1, TimesAreNat DEF Tick, Older
    <3>2. CASE silent >= t
      BY <2>1, <2>3, <2>4, <3>2, TimesAreNat
    <3> QED BY <2>4, <3>1, <3>2 DEF Elapsed
  <2>5. mode' = mode /\ modemState' = modemState /\ socket' = socket
    BY DEF Tick, link
  <2>6. mode = "boot" => silent' = MaxAge \/ silent' >= modemTimer'
    BY <2>2, <2>3, <2>4 DEF WaitsElapsed
  <2>7. modemState = 1 => silent' = MaxAge \/ silent' >= modemTimer'
    BY <2>2, <2>3, <2>4 DEF WaitsElapsed, PowerCutOffline
  <2>8. modemState = 2 => silent' = MaxAge \/ silent' >= HangUpTime + modemTimer'
    BY <2>2, <2>3, <2>4, TimesAreNat DEF WaitsElapsed, PowerCutOffline
  <2>9. modemState = 3 => silent' = MaxAge \/ silent' >= HangUpTime + OffTime + modemTimer'
    BY <2>2, <2>3, <2>4, TimesAreNat DEF WaitsElapsed, PowerCutOffline
  <2>10. modemState = 4 =>
           silent' = MaxAge \/ silent' >= HangUpTime + OffTime + ModemBootTime + modemTimer'
    BY <2>2, <2>3, <2>4, TimesAreNat DEF WaitsElapsed, PowerCutOffline
  <2> QED BY <2>5, <2>6, <2>7, <2>8, <2>9, <2>10 DEF WaitsElapsed, Elapsed
<1> QED BY <1>1, <1>2, <1>3, <1>4

LEMMA EnvironmentInductive ==
  ASSUME IndInv, Engine \/ LinkLost \/ (\E msg \in Message : Arrive(msg))
  PROVE  IndInv'
<1>1. CASE Engine
  BY <1>1 DEF IndInv, TypeOK, ButtonTimed, PowerCutOffline, PressOnTime, WaitsElapsed,
              Elapsed, Engine, pins, link, ages
<1>2. CASE LinkLost
  BY <1>2 DEF IndInv, TypeOK, ButtonTimed, PowerCutOffline, PressOnTime, WaitsElapsed,
              Elapsed, LinkLost, pins, ages
<1>3. ASSUME NEW msg \in Message, Arrive(msg) PROVE IndInv'
  <2>1. buffer' \in Seq(Message)
    BY <1>3 DEF IndInv, TypeOK, Arrive
  <2> QED BY <1>3, <2>1 DEF IndInv, TypeOK, ButtonTimed, PowerCutOffline, PressOnTime,
                WaitsElapsed, Elapsed, Arrive, pins, ages
<1> QED BY <1>1, <1>2, <1>3

LEMMA StartUpInductive == ASSUME IndInv, Reboot \/ Connect \/ Wait PROVE IndInv'
<1> USE DEF IndInv
<1>1. CASE Reboot
  <2>1. ~startMsgToConsume'
    BY <1>1, Zenon DEF Reboot
  <2>2. rebooting' \in BOOLEAN /\ looped' \in BOOLEAN /\ carSensePin' \in BOOLEAN
        /\ startMsgToConsume' \in BOOLEAN
    BY <1>1, Zenon DEF Reboot, TypeOK
  <2>3. TypeOK'
    BY <1>1, <2>2, TimesAreNat DEF Reboot, TypeOK, Age
  <2>4. ButtonTimed' /\ PowerCutOffline' /\ PressOnTime'
    BY <1>1, <2>1 DEF Reboot, ButtonTimed, PowerCutOffline, PressOnTime
  <2>5. WaitsElapsed'
    BY <1>1, <2>3, TimesAreNat DEF Reboot, WaitsElapsed, Elapsed, TypeOK, Age
  <2> QED BY <2>1, <2>3, <2>4, <2>5
<1>2. CASE Connect
  <2>1. ~startMsgToConsume /\ modemState = 0 /\ radioPin = "LOW"
    BY <1>2 DEF Connect, ButtonTimed, WaitsElapsed, TypeOK
  <2>2. /\ modemState' = modemState /\ radioPin' = radioPin /\ modemPwrPin' = modemPwrPin
        /\ startMsgToConsume' = startMsgToConsume /\ mode' # "boot"
    BY <1>2 DEF Connect, pins
  <2>3. rebooting' \in BOOLEAN /\ looped' \in BOOLEAN /\ carSensePin' \in BOOLEAN
        /\ startMsgToConsume' \in BOOLEAN
    BY <1>2, Zenon DEF Connect, TypeOK
  <2>4. TypeOK'
    BY <1>2, <2>3, TimesAreNat DEF Connect, TypeOK, Age, pins
  <2>5. ButtonTimed' /\ PowerCutOffline' /\ PressOnTime' /\ WaitsElapsed'
    BY <2>1, <2>2 DEF ButtonTimed, PowerCutOffline, PressOnTime, WaitsElapsed
  <2> QED BY <2>4, <2>5
<1>3. CASE Wait
  BY <1>3, TimesAreNat DEF Wait, TypeOK, ButtonTimed, PowerCutOffline, PressOnTime,
              WaitsElapsed, Elapsed, Age, pins, link, ages
<1> QED BY <1>1, <1>2, <1>3

\* The part of an iteration in service.
LEMMA ServiceInductive ==
  ASSUME IndInv, SampleFails \/ Serve \/ HangUp \/ HangUpFails
  PROVE  IndInv'
<1> USE DEF IndInv
<1>1. modemAge \in Age /\ modemAge <= modemTimer /\ carUpAge \in Age
  BY SeenAges
<1>2. 0 \in Age
  BY TimesAreNat DEF Age
<1>3. CASE SampleFails
  BY <1>2, <1>3 DEF SampleFails, TypeOK, ButtonTimed, PowerCutOffline, PressOnTime,
              WaitsElapsed, Elapsed, pins, link
<1>4. CASE Serve
  <2>1. TypeOK'
    <3>1. startMsgToConsume' \in BOOLEAN
      BY <1>4 DEF Serve
    <3>2. rebooting' \in BOOLEAN /\ looped' \in BOOLEAN /\ carSensePin' \in BOOLEAN
      BY <1>4, Zenon DEF Serve, Sample, Ping, TypeOK
    <3>3. lastPingTime' \in Age
      BY <1>2, <1>4 DEF Serve, Ping, TypeOK
    <3> QED BY <1>1, <1>2, <1>4, <3>1, <3>2, <3>3 DEF Serve, Sample, TypeOK
  <2>2. ButtonTimed' /\ PowerCutOffline'
    BY <1>4 DEF Serve, Sample, ButtonTimed, PowerCutOffline, Pressing, Released, Pressed
  <2>3. PressOnTime'
    <3>1. latchStartTime \in Nat /\ PressTime \in Nat
      BY TimesAreNat DEF TypeOK, Age
    <3>2. radioPin' = "HIGH" => Pressed \/ (radioPin = "HIGH" /\ ~Released)
      BY <1>4 DEF Serve
    <3>3. radioPin = "HIGH" => startMsgToConsume
      BY DEF ButtonTimed
    <3> QED BY <1>4, <3>1, <3>2, <3>3 DEF Serve, Sample, PressOnTime, Released
  <2>4. WaitsElapsed'
    BY <1>4 DEF Serve, Sample, WaitsElapsed
  <2> QED BY <2>1, <2>2, <2>3, <2>4
<1>5. CASE HangUp
  <2>1. startMsgToConsume = FALSE /\ radioPin = "LOW"
    BY <1>5 DEF HangUp, Reason, ButtonTimed, TypeOK
  <2> QED BY <1>1, <1>2, <1>5, <2>1, TimesAreNat DEF HangUp, Sample, TypeOK, ButtonTimed,
              PowerCutOffline, PressOnTime, WaitsElapsed, Elapsed, pins
<1>6. CASE HangUpFails
  <2>1. startMsgToConsume = FALSE /\ radioPin = "LOW"
    BY <1>6 DEF HangUpFails, Reason, ButtonTimed, TypeOK
  <2> QED BY <1>1, <1>6, <2>1 DEF HangUpFails, Sample, TypeOK, ButtonTimed,
              PowerCutOffline, PressOnTime, WaitsElapsed, Elapsed, pins, link
<1> QED BY <1>3, <1>4, <1>5, <1>6

\* The part of an iteration in a modem cycle.
LEMMA CycleInductive ==
  ASSUME IndInv, Cycle \/ Reconnect \/ WaitOn
  PROVE  IndInv'
<1> USE DEF IndInv
<1>1. modemAge \in Nat /\ modemTimer \in Nat /\ modemAge <= modemTimer /\ carUpAge \in Age
      /\ modemAge \in Age /\ silent \in Nat
  BY SeenAges, TimesAreNat DEF Age, TypeOK
<1>2. 0 \in Age
  BY TimesAreNat DEF Age
<1>3. modemState # 0 /\ ~startMsgToConsume /\ radioPin = "LOW" /\ socket = "closed"
      /\ Sample
  BY DEF Cycle, Reconnect, WaitOn, ButtonTimed, PowerCutOffline, TypeOK
<1>4. CASE Cycle
  <2>1. TypeOK'
    BY <1>1, <1>2, <1>4 DEF Cycle, Sample, TypeOK, PowerAfter, Following, link
  <2>2. ButtonTimed' /\ PowerCutOffline' /\ PressOnTime'
    BY <1>3, <1>4 DEF Cycle, Sample, TypeOK, ButtonTimed, PowerCutOffline, PressOnTime,
              PowerAfter, Following, link
  <2>3. WaitsElapsed'
    <3>1. /\ silent' = silent /\ modemTimer' = 0 /\ modemState' = modemState + 1
          /\ mode' = "run" /\ modemState \in 1 .. 3 /\ modemTimer > WaitIn(modemState)
      BY <1>1, <1>4, TimesAreNat DEF Cycle, Sample, Following, WaitIn
    <3>2. CASE modemState = 1
      BY <1>1, <3>1, <3>2, TimesAreNat DEF WaitsElapsed, Elapsed, WaitIn
    <3>3. CASE modemState = 2
      BY <1>1, <3>1, <3>3, TimesAreNat DEF WaitsElapsed, Elapsed, WaitIn
    <3>4. CASE modemState = 3
      BY <1>1, <3>1, <3>4, TimesAreNat DEF WaitsElapsed, Elapsed, WaitIn
    <3> QED BY <3>1, <3>2, <3>3, <3>4
  <2> QED BY <2>1, <2>2, <2>3
<1>5. CASE Reconnect
  <2>1. rebooting' \in BOOLEAN /\ looped' \in BOOLEAN /\ carSensePin' \in BOOLEAN
    BY <1>5, Zenon DEF Reconnect, Sample, TypeOK
  <2>2. TypeOK'
    BY <1>1, <1>2, <1>5, <2>1 DEF Reconnect, Sample, TypeOK, pins
  <2>3. ButtonTimed' /\ PowerCutOffline' /\ PressOnTime' /\ WaitsElapsed'
    BY <1>3, <1>5 DEF Reconnect, Sample, ButtonTimed, PowerCutOffline, PressOnTime,
              WaitsElapsed, pins
  <2> QED BY <2>2, <2>3
<1>6. CASE WaitOn
  BY <1>1, <1>3, <1>6, TimesAreNat DEF WaitOn, Sample, TypeOK, ButtonTimed,
              PowerCutOffline, PressOnTime, WaitsElapsed, Elapsed, pins, link
<1> QED BY <1>4, <1>5, <1>6

LEMMA IndInvInductive == ASSUME IndInv, [Next]_vars PROVE IndInv'
<1>1. CASE UNCHANGED vars
  BY <1>1 DEF vars, pins, link, ages, IndInv, TypeOK, ButtonTimed, PowerCutOffline,
              PressOnTime, WaitsElapsed, Elapsed
<1> QED
  BY <1>1, TickInductive, EnvironmentInductive, StartUpInductive, ServiceInductive,
     CycleInductive DEF Next, Loop

\* The button, the modem's power and the waits stay consistent, whatever the
\* engine, the link and the service do.
THEOREM IndInvHolds == Spec => []IndInv
<1>1. Init => IndInv
  <2> SUFFICES ASSUME Init PROVE IndInv
    OBVIOUS
  <2>1. ~startMsgToConsume
    BY Zenon DEF Init
  <2>2. rebooting \in BOOLEAN /\ looped \in BOOLEAN /\ carSensePin \in BOOLEAN
        /\ startMsgToConsume \in BOOLEAN
    BY Zenon DEF Init
  <2>3. TypeOK
    BY <2>2, TimesAreNat DEF Init, TypeOK, Age
  <2>4. ButtonTimed /\ PowerCutOffline /\ PressOnTime /\ WaitsElapsed
    BY <2>1 DEF Init, ButtonTimed, PowerCutOffline, PressOnTime, WaitsElapsed, Elapsed
  <2> QED BY <2>3, <2>4 DEF IndInv
<1>2. IndInv /\ [Next]_vars => IndInv'
  BY IndInvInductive
<1> QED BY <1>1, <1>2, PTL DEF Spec

-----------------------------------------------------------------------------
(* What follows from it.                                                   *)

\* Every variable keeps its type, the times measured by the loop among those that the
\* bounds allow.
THEOREM TypeCorrect == Spec => []TypeOK
<1>1. IndInv => TypeOK
  BY DEF IndInv
<1> QED BY <1>1, IndInvHolds, PTL

\* The button is down exactly while a press is timed, and then in service.
THEOREM ButtonTimedHolds == Spec => []ButtonTimed
<1>1. IndInv => ButtonTimed
  BY DEF IndInv
<1> QED BY <1>1, IndInvHolds, PTL

\* The modem is without power only in modemState 2, and then offline.
THEOREM PowerCutOfflineHolds == Spec => []PowerCutOffline
<1>1. IndInv => PowerCutOffline
  BY DEF IndInv
<1> QED BY <1>1, IndInvHolds, PTL

\* While the main loop runs, a press is over one tick after PressTime.
THEOREM PressBoundedHolds == Spec => []PressBounded
<1>1. IndInv => PressBounded
  BY TimesAreNat DEF IndInv, TypeOK, PressOnTime, PressBounded, Age
<1> QED BY <1>1, IndInvHolds, PTL

\* Only a reboot lets go of the button, or begins the time of a press again, before
\* PressTime is over.
THEOREM PressHeldHolds == Spec => PressHeld
<1>1. IndInv /\ [Next]_vars =>
        [radioPin = "HIGH" /\ (radioPin' = "LOW" \/ latchStartTime' < latchStartTime) =>
           latchStartTime > PressTime \/ rebooting]_vars
  <2> SUFFICES ASSUME IndInv, Next, radioPin = "HIGH",
                      radioPin' = "LOW" \/ latchStartTime' < latchStartTime
               PROVE  latchStartTime > PressTime \/ rebooting
    OBVIOUS
  <2>1. latchStartTime \in Nat /\ startMsgToConsume /\ mode # "boot"
    BY TimesAreNat DEF IndInv, TypeOK, ButtonTimed, Age
  <2>2. CASE Serve
    BY <2>1, <2>2 DEF Serve, Released, Pressed, Pressing
  <2>3. CASE Reboot
    BY <2>3 DEF Reboot
  <2>4. CASE Tick
    <3>1. radioPin' = radioPin /\ latchStartTime' = Older(latchStartTime)
      BY <2>4 DEF Tick, pins
    <3>2. latchStartTime <= Older(latchStartTime) /\ Older(latchStartTime) \in Nat
      BY OlderAge, TimesAreNat DEF IndInv, TypeOK, Age
    <3> QED BY <2>1, <3>1, <3>2
  <2>5. ASSUME ~Serve, ~Reboot, ~Tick
        PROVE  radioPin' = radioPin /\ latchStartTime' = latchStartTime
    BY <2>1, <2>5 DEF Next, Loop, Engine, LinkLost, Arrive, Connect, Wait, SampleFails,
                HangUp, HangUpFails, Cycle, Reconnect, WaitOn, pins, ages
  <2> QED BY <2>1, <2>2, <2>3, <2>4, <2>5
<1> QED BY <1>1, IndInvHolds, PTL DEF Spec, PressHeld

\* The program has been silent for longer than the service waits when it
\* connects again, in a modem cycle as well as after a reboot.
THEOREM SilentBeforeConnectHolds == Spec => SilentBeforeConnect
<1>1. IndInv /\ [Next]_vars =>
        [socket = "closed" /\ socket' # "closed" => silent > KeepAlive]_vars
  <2> SUFFICES ASSUME IndInv, Next, socket = "closed", socket' # "closed"
               PROVE  silent > KeepAlive
    OBVIOUS
  <2>1. Connect \/ Reconnect
    BY DEF Next, Loop, Tick, Engine, LinkLost, Arrive, Reboot, Wait, SampleFails, Serve,
           HangUp, HangUpFails, Cycle, WaitOn, link
  <2>2. modemTimer \in Nat /\ silent \in Nat /\ modemAge \in Nat /\ modemAge <= modemTimer
    BY SeenAges, TimesAreNat DEF IndInv, TypeOK, Age
  <2>3. CASE Connect
    BY <2>2, <2>3, TimesAreNat, CycleAssumption DEF Connect, IndInv, WaitsElapsed, Elapsed
  <2>4. CASE Reconnect
    BY <2>2, <2>4, TimesAreNat, CycleAssumption DEF Reconnect, IndInv, WaitsElapsed, Elapsed
  <2> QED BY <2>1, <2>3, <2>4
<1> QED BY <1>1, IndInvHolds, PTL DEF Spec, SilentBeforeConnect
=============================================================================
