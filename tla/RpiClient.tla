----------------------------- MODULE RpiClient -----------------------------
(***************************************************************************)
(* The program on the RPI in the car (TestClient.py).  It holds down the   *)
(* button of the car's remote starter through radioPin when the service    *)
(* sends StartCar, reports whether the engine runs, and cycles the power   *)
(* of the modem it is connected through when it has nothing to do.         *)
(*                                                                         *)
(* An iteration of the main loop is one step.  Time passes in ticks; the   *)
(* loop sleeps half a millisecond, so at least one iteration runs between  *)
(* two ticks.  For a time t that the program took, the model keeps the age *)
(* of t, the ticks since then.  Ages stop at MaxAge.                       *)
(***************************************************************************)
EXTENDS Integers, Sequences

CONSTANTS ServiceTime,    \* how long the modem is used without a reason to
          PingTime,       \* between two ACK_Status
          PressTime,      \* how long the button is held
          CarUpTime,      \* how long a running engine is a reason
          HangUpTime, OffTime, ModemBootTime, DialTime,  \* modemState 1, 2, 3, 4
          BootTime,       \* the two waits before the first connection
          KeepAlive,      \* after which the service drops a silent connection
          MaxAge,         \* bound on ages
          MaxUnread       \* bound on the messages in the socket's buffer

Times == {ServiceTime, PingTime, PressTime, CarUpTime, HangUpTime, OffTime,
          ModemBootTime, DialTime, BootTime, KeepAlive}

ASSUME TimeAssumption ==
  /\ Times \subseteq Nat /\ MaxAge \in Nat /\ MaxUnread \in Nat
  /\ \A t \in Times : t < MaxAge

\* The waits of a modem cycle, and those of a reboot, outlast KeepAlive.
ASSUME CycleAssumption ==
  /\ KeepAlive < HangUpTime + OffTime + ModemBootTime + DialTime
  /\ KeepAlive <= BootTime

VARIABLES
  mode,         \* boot, run (the main loop) or halted (left the loop, or died)
  rebooting,    \* "shutdown -r now" was called
  modemState, carState, radioPin, modemPwrPin, startMsgToConsume,
  carSensePin,  \* the input: the engine runs
  socket,       \* up, down (the link is lost) or closed
  buffer,       \* the messages that recv will return
  modemTimer, lastPingTime, latchStartTime, carUpResetTime,   \* ages
  silent,       \* history: ticks since the last connection was closed
  looped        \* an iteration has run since the last tick

pins   == <<radioPin, modemPwrPin>>
ages   == <<modemTimer, lastPingTime, latchStartTime, carUpResetTime, silent>>
link   == <<socket, buffer>>
vars   == <<mode, rebooting, modemState, carState, pins, startMsgToConsume,
            carSensePin, link, ages, looped>>

Message == {"StartCar", "Debug"}
Age     == 0 .. MaxAge

TypeOK ==
  /\ mode \in {"boot", "run", "halted"}
  /\ rebooting \in BOOLEAN
  /\ modemState \in 0 .. 4
  /\ carState \in {"ON", "OFF"}
  /\ radioPin \in {"HIGH", "LOW"} /\ modemPwrPin \in {"HIGH", "LOW"}
  /\ startMsgToConsume \in BOOLEAN
  /\ carSensePin \in BOOLEAN
  /\ socket \in {"up", "down", "closed"}
  /\ buffer \in Seq(Message)
  /\ modemTimer \in Age /\ lastPingTime \in Age /\ latchStartTime \in Age
  /\ carUpResetTime \in Age /\ silent \in Age
  /\ looped \in BOOLEAN

-----------------------------------------------------------------------------
(* The environment.                                                        *)

Older(age) == IF age < MaxAge THEN age + 1 ELSE age

Tick ==
  /\ looped
  /\ looped' = FALSE
  /\ modemTimer' = Older(modemTimer)
  /\ lastPingTime' = Older(lastPingTime)
  /\ latchStartTime' = Older(latchStartTime)
  /\ carUpResetTime' = Older(carUpResetTime)
  /\ silent' = IF socket = "closed" THEN Older(silent) ELSE silent
  /\ UNCHANGED <<mode, rebooting, modemState, carState, pins, startMsgToConsume,
                 carSensePin, link>>

Engine ==
  /\ carSensePin' = ~carSensePin
  /\ UNCHANGED <<mode, rebooting, modemState, carState, pins, startMsgToConsume,
                 link, ages, looped>>

Arrive(msg) ==
  /\ socket = "up" /\ Len(buffer) < MaxUnread
  /\ buffer' = Append(buffer, msg)
  /\ UNCHANGED <<mode, rebooting, modemState, carState, pins, startMsgToConsume,
                 carSensePin, socket, ages, looped>>

LinkLost ==
  /\ socket = "up"
  /\ socket' = "down"
  /\ UNCHANGED <<mode, rebooting, modemState, carState, pins, startMsgToConsume,
                 carSensePin, buffer, ages, looped>>

-----------------------------------------------------------------------------
(* Start-up: the pins are set, the program waits for the modem and connects. *)

Init ==
  /\ mode = "boot" /\ rebooting = FALSE
  /\ radioPin = "LOW" /\ modemPwrPin = "HIGH"
  /\ modemState = 0 /\ carState = "OFF" /\ startMsgToConsume = FALSE
  /\ carSensePin \in BOOLEAN
  /\ socket = "closed" /\ buffer = << >>
  /\ modemTimer = 0 /\ lastPingTime = 0 /\ latchStartTime = 0 /\ carUpResetTime = 0
  /\ silent = 0
  /\ looped = TRUE

\* The system comes back from "shutdown -r now" and starts the program again.
Reboot ==
  /\ rebooting
  /\ mode' = "boot" /\ rebooting' = FALSE
  /\ radioPin' = "LOW" /\ modemPwrPin' = "HIGH"
  /\ modemState' = 0 /\ carState' = "OFF" /\ startMsgToConsume' = FALSE
  /\ socket' = "closed" /\ buffer' = << >>
  /\ modemTimer' = 0 /\ lastPingTime' = 0 /\ latchStartTime' = 0
  /\ carUpResetTime' = 0
  /\ silent' = IF socket = "closed" THEN silent ELSE 0
  /\ looped' = TRUE
  /\ UNCHANGED carSensePin

\* The first connection, and the send that identifies the program, outside of any try.
\* When connect fails, a reboot is ordered and the send ends the program; when only the
\* send fails, nobody orders one.
Connect ==
  /\ mode = "boot" /\ modemTimer > BootTime
  /\ \/ mode' = "run" /\ socket' = "up" /\ UNCHANGED <<rebooting, silent>>
     \/ mode' = "halted" /\ rebooting' = TRUE /\ UNCHANGED <<socket, silent>>
     \/ mode' = "halted" /\ silent' = 0 /\ UNCHANGED <<rebooting, socket>>
  /\ modemTimer' = 0 /\ lastPingTime' = 0 /\ latchStartTime' = 0
  /\ carUpResetTime' = 0
  /\ looped' = TRUE
  /\ UNCHANGED <<modemState, carState, pins, startMsgToConsume, carSensePin, buffer>>

\* The program waits, or does nothing any more, while time passes.
Wait ==
  /\ mode = "halted" \/ (mode = "boot" /\ modemTimer <= BootTime)
  /\ ~looped /\ looped' = TRUE
  /\ UNCHANGED <<mode, rebooting, modemState, carState, pins, startMsgToConsume,
                 carSensePin, link, ages>>

-----------------------------------------------------------------------------
(* An iteration of the main loop.  It first samples the engine.            *)

\* Mutant: the level of the input in place of its change.
isOff == ~carSensePin

turnedOn  == carSensePin /\ carState = "OFF"
turnedOff == ~carSensePin /\ carState = "ON"

\* The ages that the rest of the iteration sees.
modemAge == IF turnedOff THEN 0 ELSE modemTimer
carUpAge == IF turnedOn THEN 0 ELSE carUpResetTime

\* Outcomes of a call on the socket: on a lost link it may still succeed.
Works == socket \in {"up", "down"}
Fails == socket \in {"down", "closed"}

\* The status that reports a started engine is sent at once, in service.
Sample ==
  /\ mode = "run"
  /\ (turnedOn /\ modemState = 0) => Works
  /\ carState' = IF carSensePin THEN "ON" ELSE "OFF"
  /\ carUpResetTime' = carUpAge
  /\ looped' = TRUE
  /\ UNCHANGED carSensePin

\* When that fails, the outer except orders a reboot and ends the iteration;
\* the next one follows without the sleep.
SampleFails ==
  /\ mode = "run" /\ turnedOn /\ modemState = 0 /\ Fails
  /\ carState' = "ON" /\ carUpResetTime' = 0
  /\ rebooting' = TRUE
  /\ UNCHANGED <<mode, modemState, pins, startMsgToConsume, carSensePin, link,
                 modemTimer, lastPingTime, latchStartTime, silent, looped>>

\* Mutant: a press is no reason to stay in service.
NoPressReason == modemAge < ServiceTime \/ (carSensePin /\ carUpAge < CarUpTime)

\* In service as long as the modem is new, a press is on or the engine is up.
Reason ==
  \/ modemAge < ServiceTime
  \/ startMsgToConsume
  \/ carSensePin /\ carUpAge < CarUpTime

Ping ==
  \/ /\ lastPingTime > PingTime
     /\ lastPingTime' = 0
     /\ \/ Works /\ UNCHANGED rebooting
        \/ Fails /\ rebooting' = TRUE
  \/ lastPingTime <= PingTime /\ UNCHANGED <<lastPingTime, rebooting>>

\* Mutant: the press is measured with the wrong timer.
ReleasedByModemTimer == startMsgToConsume /\ modemTimer > PressTime

\* The press has lasted long enough, or it goes on.
Released == startMsgToConsume /\ latchStartTime > PressTime
Pressing == startMsgToConsume /\ ~Released

\* Mutant: a StartCar that comes during a press starts its time again.
PressedAgain == buffer = <<"StartCar">>

\* recv returns all that has arrived; StartCar counts only when it is alone.
Pressed == buffer = <<"StartCar">> /\ ~Pressing

Serve ==
  /\ Sample /\ modemState = 0 /\ Reason
  /\ Ping
  /\ modemTimer' = IF Released THEN 0 ELSE modemAge
  /\ startMsgToConsume' = (Pressing \/ Pressed)
  /\ radioPin' = IF Pressed THEN "HIGH" ELSE IF Released THEN "LOW" ELSE radioPin
  /\ latchStartTime' = IF Pressed THEN 0 ELSE latchStartTime
  /\ mode' = IF buffer = <<"Debug">> THEN "halted" ELSE mode
  /\ buffer' = << >>
  /\ UNCHANGED <<modemState, modemPwrPin, socket, silent>>

\* Mutant: the modem is not cycled, only dialled again.
RedialOnly ==
  /\ Sample /\ modemState = 0 /\ ~Reason /\ Works
  /\ socket' = "closed" /\ buffer' = << >> /\ silent' = 0
  /\ modemState' = 4 /\ modemTimer' = 0
  /\ UNCHANGED <<mode, rebooting, pins, startMsgToConsume, lastPingTime,
                 latchStartTime>>

\* No reason is left: close the connection to refresh the modem.
HangUp ==
  /\ Sample /\ modemState = 0 /\ ~Reason /\ Works
  /\ socket' = "closed" /\ buffer' = << >> /\ silent' = 0
  /\ modemState' = 1 /\ modemTimer' = 0
  /\ UNCHANGED <<mode, rebooting, pins, startMsgToConsume, lastPingTime,
                 latchStartTime>>

\* shutdown() raises on a socket that is not connected.
HangUpFails ==
  /\ Sample /\ modemState = 0 /\ ~Reason /\ Fails
  /\ rebooting' = TRUE /\ modemTimer' = modemAge
  /\ UNCHANGED <<mode, modemState, pins, startMsgToConsume, link, lastPingTime,
                 latchStartTime, silent>>

\* modemState 1 to 3: after a wait, power off, power on, dial.
WaitIn(state) ==
  CASE state = 1 -> HangUpTime
    [] state = 2 -> OffTime
    [] state = 3 -> ModemBootTime
    [] state = 4 -> DialTime

\* Mutants: the power comes back one state late; a state is skipped.
PowerBackLate(state) == IF state = 3 THEN "HIGH" ELSE "LOW"

PowerAfter(state) ==
  CASE state = 1 -> "LOW"
    [] state = 2 -> "HIGH"
    [] state = 3 -> modemPwrPin

Skip(state) == state + 2

Following(state) == state + 1

Cycle ==
  /\ Sample /\ modemState \in 1 .. 3 /\ modemAge > WaitIn(modemState)
  /\ modemPwrPin' = PowerAfter(modemState)
  /\ modemState' = Following(modemState) /\ modemTimer' = 0
  /\ UNCHANGED <<mode, rebooting, radioPin, startMsgToConsume, link, lastPingTime,
                 latchStartTime, silent>>

\* modemState 4: connect again and identify; a failure orders a reboot.
Reconnect ==
  /\ Sample /\ modemState = 4 /\ modemAge > DialTime
  /\ modemState' = 0 /\ modemTimer' = 0
  /\ \/ socket' = "up" /\ UNCHANGED rebooting
     \/ socket' \in {"closed", "down"} /\ rebooting' = TRUE
  /\ UNCHANGED <<mode, pins, startMsgToConsume, buffer, lastPingTime,
                 latchStartTime, silent>>

WaitOn ==
  /\ Sample /\ modemState # 0 /\ modemAge <= WaitIn(modemState)
  /\ modemTimer' = modemAge
  /\ UNCHANGED <<mode, rebooting, modemState, pins, startMsgToConsume, link,
                 lastPingTime, latchStartTime, silent>>

Loop == SampleFails \/ Serve \/ HangUp \/ HangUpFails \/ Cycle \/ Reconnect \/ WaitOn

Next ==
  \/ Tick \/ Engine \/ LinkLost \/ (\E msg \in Message : Arrive(msg))
  \/ Reboot \/ Connect \/ Wait \/ Loop

Spec == Init /\ [][Next]_vars

-----------------------------------------------------------------------------
(* Properties.                                                             *)

\* The button is down exactly while a press is being timed, and only in
\* service: the modem is never cycled during a press.
ButtonTimed ==
  /\ radioPin = "HIGH" <=> startMsgToConsume
  /\ startMsgToConsume => mode # "boot" /\ modemState = 0

\* The modem is without power only in the middle of a cycle, when the program
\* has given up its connection.
PowerCutOffline ==
  /\ modemPwrPin = "LOW" <=> modemState = 2
  /\ modemState # 0 => socket = "closed"

\* While the main loop runs, the button is let go when its time is over: a
\* press that is older than PressTime ends with the next iteration.
PressBounded == radioPin = "HIGH" /\ mode = "run" => latchStartTime <= PressTime + 1

\* A press is held to its end, and not begun again before: only a reboot cuts it short, and
\* a StartCar that arrives meanwhile neither does so nor stretches it.
PressHeld ==
  [][radioPin = "HIGH" /\ (radioPin' = "LOW" \/ latchStartTime' < latchStartTime) =>
       latchStartTime > PressTime \/ rebooting]_vars

\* When the program connects again, the service has already dropped the last
\* connection for its silence: it never has two connections of this program.
SilentBeforeConnect ==
  [][socket = "closed" /\ socket' # "closed" => silent > KeepAlive]_vars

\* What has to hold with the properties above for a step to preserve them: the
\* press is on time before each tick, and the time since the connection was
\* closed covers the waits that are over.
PressOnTime ==
  radioPin = "HIGH" /\ mode = "run" =>
    /\ latchStartTime <= PressTime + 1
    /\ looped => latchStartTime <= PressTime

Elapsed(t) == silent = MaxAge \/ silent >= t

WaitsElapsed ==
  /\ mode = "boot" => modemState = 0 /\ socket = "closed" /\ Elapsed(modemTimer)
  /\ modemState = 1 => Elapsed(modemTimer)
  /\ modemState = 2 => Elapsed(HangUpTime + modemTimer)
  /\ modemState = 3 => Elapsed(HangUpTime + OffTime + modemTimer)
  /\ modemState = 4 => Elapsed(HangUpTime + OffTime + ModemBootTime + modemTimer)

IndInv == TypeOK /\ ButtonTimed /\ PowerCutOffline /\ PressOnTime /\ WaitsElapsed

Fairness == WF_vars(Tick) /\ WF_vars(Connect \/ Wait \/ Loop) /\ WF_vars(Reboot)

FairSpec == Spec /\ Fairness

\* Whatever commands keep coming, the time of a press runs out, unless the program
\* has left its loop: a StartCar does not stretch a press that is on.  One that
\* comes just at the end begins the next press in the iteration that ends the
\* last, so the button may stay down.
PressEnds ==
  radioPin = "HIGH" ~>
    radioPin = "LOW" \/ latchStartTime > PressTime \/ mode = "halted"

\* The modem comes back: once the engine neither starts nor stops any more, a
\* program that is not in service is in service again later.
BackInService ==
  (<>[]carSensePin \/ <>[]~carSensePin) =>
    (modemState # 0 ~> modemState = 0)
=============================================================================
