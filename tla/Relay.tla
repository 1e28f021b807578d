-------------------------------- MODULE Relay --------------------------------
(* One relay channel (Supla::Control::Relay): its countdown, the functions the *)
(* server gives it, and what survives a loss of power.                         *)
(*                                                                             *)
(* Two stores outlive a restart and neither knows of the other: the function   *)
(* is kept in the configuration file, the pin and one 32-bit duration in state *)
(* storage.  That one duration is the length of a staircase or impulse, or the *)
(* rest of a countdown, depending on the function at the time of saving.       *)
(*                                                                             *)
(* The server's messages, the saves and the countdown run in the main loop;    *)
(* the buttons run in the 10 ms timer, which on the ESP32 is a task that       *)
(* interrupts the loop, also between the loop's seeing that a countdown has    *)
(* run out and its switching the relay.                                        *)
EXTENDS Integers

CONSTANTS
    StateOnInit,          \* "off", "on" or "restore"
    RestartTimerOnToggle,
    MotionSensor,         \* an attached sensor decides the state at boot
    Functions,            \* the functions the server gives the channel
    DefaultStaircaseMs,
    DefaultImpulseMs,
    Durations,            \* the durations the server sends
    TimeStepMs,           \* granularity of time
    ClockCapMs            \* bound of the clock: larger values are not told apart

ASSUME RelayAssumption ==
    /\ StateOnInit \in {"off", "on", "restore"}
    /\ RestartTimerOnToggle \in BOOLEAN /\ MotionSensor \in BOOLEAN
    /\ Functions \subseteq {"none", "power", "staircase", "gate"}
    /\ "power" \in Functions
    /\ DefaultStaircaseMs \in Nat /\ DefaultStaircaseMs > 0
    /\ DefaultImpulseMs \in Nat /\ DefaultImpulseMs > 0
    /\ Durations \subseteq Nat /\ 0 \in Durations
    /\ TimeStepMs \in Nat /\ TimeStepMs > 0
    /\ ClockCapMs \in Nat

VARIABLES
    function,         \* default function of the channel
    on,               \* the level of the pin
    durationMs,       \* the running countdown; 0 when there is none
    elapsedMs,        \* since durationTimestamp
    storedMs,         \* storedTurnOnDurationMs
    expired,          \* iterateAlways has seen the end of the countdown and is
                      \* about to toggle
    exempt,           \* history: the present state was asked for without a timer,
                      \* or comes from a time when the channel had no function
    savedFunction,    \* in the configuration file
    saved             \* in state storage

persistent == <<savedFunction, saved>>
relay == <<function, on, durationMs, elapsedMs, storedMs, exempt>>
vars == <<relay, expired, persistent>>

SavedState == [duration : Nat, on : BOOLEAN,
               flag : {"staircase", "gate", "neither"}]

\* isStaircaseFunction() || isImpulseFunction()
Timed(f) == f \in {"staircase", "gate"}

DefaultMs(f) == IF f = "staircase" THEN DefaultStaircaseMs ELSE DefaultImpulseMs

-----------------------------------------------------------------------------
(* The three methods every operation ends in.                                  *)

\* turnOn of a channel with function f, where stored is the value
\* storedTurnOnDurationMs has for the call.
TurnOn(f, duration, stored) ==
    /\ on' = TRUE
    /\ durationMs' = IF Timed(f) THEN stored ELSE duration
    /\ elapsedMs' = 0

TurnOff(duration) ==
    /\ on' = FALSE
    /\ durationMs' = duration
    /\ elapsedMs' = 0

\* Mutant of Toggle: the end of a countdown starts the next one.
TogglePassingDuration ==
    IF on THEN TurnOff(durationMs) ELSE TurnOn(function, durationMs, storedMs)

Toggle == IF on THEN TurnOff(0) ELSE TurnOn(function, 0, storedMs)

-----------------------------------------------------------------------------
(* Actions.                                                                    *)

Init ==
    /\ function = "power" /\ savedFunction = "power"
    /\ on = (StateOnInit = "on")
    /\ durationMs = 0 /\ elapsedMs = 0 /\ storedMs = 0
    /\ exempt = FALSE /\ expired = FALSE
    /\ saved = [duration |-> 0, on |-> FALSE, flag |-> "neither"]

\* handleNewValueFromServer with value 1.
ServerTurnOn(duration) ==
    LET kept == IF function = "gate" /\ duration > 0 THEN duration ELSE storedMs
        untimed == function = "staircase" /\ duration = 0
    IN  /\ ~expired
        /\ TurnOn(function, duration, IF untimed THEN 0 ELSE kept)
        /\ storedMs' = kept
        /\ exempt' = untimed
        /\ UNCHANGED <<function, expired, persistent>>

\* handleNewValueFromServer with value 0.
ServerTurnOff(duration) ==
    /\ ~expired
    /\ TurnOff(IF Timed(function) THEN 0 ELSE duration)
    /\ exempt' = FALSE
    /\ UNCHANGED <<function, storedMs, expired, persistent>>

\* handleAction, called by a button from the timer.
HandleAction(action) ==
    /\ \/ action = "TURN_ON_WITHOUT_TIMER" /\ TurnOn(function, 0, 0)
       \/ action = "TURN_ON" /\ TurnOn(function, 0, storedMs)
       \/ action = "TURN_OFF" /\ TurnOff(0)
       \/ /\ action = "TOGGLE"
          /\ IF RestartTimerOnToggle /\ Timed(function)
             THEN TurnOn(function, 0, storedMs) ELSE Toggle
    /\ exempt' = (action = "TURN_ON_WITHOUT_TIMER")
    /\ UNCHANGED <<function, storedMs, expired, persistent>>

\* setAndSaveFunction: the duration storedTurnOnDurationMs gets, and whether the
\* relay is switched off.
DurationFor(newFunction) ==
    IF ~Timed(newFunction) THEN 0
    ELSE IF newFunction # function THEN DefaultMs(newFunction) ELSE storedMs

\* Mutant of SetAndSaveFunction: the relay keeps its state under the new function.
SetFunctionLeavingRelay(newFunction) ==
    /\ function' = newFunction
    /\ exempt' = (exempt \/ (newFunction # function /\ function = "none"))
    /\ UNCHANGED <<on, durationMs, elapsedMs>>

SetAndSaveFunction(newFunction) ==
    /\ function' = newFunction
    /\ IF newFunction # function /\ function # "none"
       THEN TurnOff(0) /\ exempt' = FALSE
       ELSE /\ exempt' = (exempt \/ (newFunction # function /\ function = "none"))
            /\ UNCHANGED <<on, durationMs, elapsedMs>>

\* handleChannelConfig: the function first, then what applyChannelConfig takes
\* from the default configuration of a staircase timer (time 0 is not taken, nor
\* is a configuration while a local change waits to be sent).
HandleChannelConfig(newFunction, timeMs) ==
    /\ ~expired
    /\ SetAndSaveFunction(newFunction)
    /\ storedMs' = IF newFunction = "staircase" /\ timeMs > 0
                   THEN timeMs ELSE DurationFor(newFunction)
    /\ UNCHANGED <<expired, persistent>>

\* iterateAlways in two steps, for what the timer does between them; no
\* overcurrent threshold is set.
IterateAlways ==
    /\ ~expired
    /\ durationMs > 0 /\ elapsedMs > durationMs
    /\ expired' = TRUE
    /\ UNCHANGED <<relay, persistent>>

ToggleExpired ==
    /\ expired
    /\ Toggle
    /\ exempt' = FALSE /\ expired' = FALSE
    /\ UNCHANGED <<function, storedMs, persistent>>

\* Mutant of RemainingMs: no check that the countdown has run out already.
RemainingUnchecked == durationMs - elapsedMs

\* The rest of the countdown, as onSaveState computes it.
RemainingMs == IF elapsedMs < durationMs THEN durationMs - elapsedMs ELSE 0

\* Mutant of OnSaveState: no flag for the impulse functions.
SaveStateWithoutImpulse ==
    /\ ~expired
    /\ saved' = [duration |-> IF ~Timed(function) /\ StateOnInit = "restore"
                              THEN RemainingMs ELSE storedMs,
                 on |-> on /\ StateOnInit = "restore",
                 flag |-> IF function = "staircase" THEN function ELSE "neither"]
    /\ UNCHANGED <<relay, expired, savedFunction>>

\* onSaveState, from the periodic save of the main loop.
OnSaveState ==
    /\ ~expired
    /\ saved' = [duration |-> IF ~Timed(function) /\ StateOnInit = "restore"
                              THEN RemainingMs ELSE storedMs,
                 on |-> on /\ StateOnInit = "restore",
                 flag |-> IF Timed(function) THEN function ELSE "neither"]
    /\ UNCHANGED <<relay, expired, savedFunction>>

\* Config::saveIfNeeded: the file is written 5 s after the change.
CommitConfig ==
    /\ ~expired
    /\ savedFunction' = function
    /\ UNCHANGED <<relay, expired, saved>>

\* Power loss, then onLoadConfig, onLoadState and onInit.
Resumed == IF StateOnInit = "restore" /\ ~Timed(savedFunction)
           THEN saved.duration ELSE 0

StoredAtLoad ==
    IF ~Timed(savedFunction) THEN 0
    ELSE IF saved.duration = 0 THEN DefaultMs(savedFunction) ELSE saved.duration

StatesAtInit ==
    IF MotionSensor THEN BOOLEAN
    ELSE IF StateOnInit = "restore" THEN {saved.on} ELSE {StateOnInit = "on"}

Restart ==
    /\ function' = savedFunction
    /\ storedMs' = StoredAtLoad
    /\ \E stateOn \in StatesAtInit :
          IF stateOn THEN TurnOn(savedFunction, Resumed, StoredAtLoad) ELSE TurnOff(Resumed)
    /\ exempt' = FALSE /\ expired' = FALSE
    /\ UNCHANGED persistent

TimePasses ==
    /\ durationMs > 0 /\ elapsedMs < ClockCapMs
    /\ elapsedMs' = elapsedMs + TimeStepMs
    /\ UNCHANGED <<function, on, durationMs, storedMs, exempt, expired, persistent>>

Actions == {"TURN_ON", "TURN_OFF", "TOGGLE", "TURN_ON_WITHOUT_TIMER"}

Command ==
    \/ \E duration \in Durations : ServerTurnOn(duration)
    \/ \E duration \in Durations : ServerTurnOff(duration)
    \/ \E action \in Actions : HandleAction(action)
    \/ \E newFunction \in Functions, timeMs \in Durations :
          HandleChannelConfig(newFunction, timeMs)

Next ==
    \/ Command
    \/ IterateAlways
    \/ ToggleExpired
    \/ OnSaveState
    \/ CommitConfig
    \/ Restart
    \/ TimePasses

Spec == Init /\ [][Next]_vars

\* The main loop passes over every element, saves the state and the
\* configuration, and time goes on.
Fairness ==
    /\ WF_vars(IterateAlways) /\ WF_vars(ToggleExpired)
    /\ WF_vars(OnSaveState) /\ WF_vars(CommitConfig)
    /\ WF_vars(TimePasses)

FairSpec == Spec /\ Fairness
-----------------------------------------------------------------------------

\* Every member has the type the code gives it.
TypeOK ==
    /\ function \in Functions \cup {"power"}
    /\ on \in BOOLEAN /\ exempt \in BOOLEAN /\ expired \in BOOLEAN
    /\ durationMs \in Nat /\ elapsedMs \in Nat /\ storedMs \in Nat
    /\ savedFunction \in Functions \cup {"power"}
    /\ saved \in SavedState

\* A staircase light or a gate is on exactly while a countdown runs: whatever
\* buttons, server, change of function or restart did, it is never left on with
\* nothing to switch it off, and never off with a countdown that will switch it
\* on.  Only a request that asks for no timer is exempt.
TimedRelay ==
    Timed(function) /\ ~exempt => IF on THEN durationMs > 0 ELSE durationMs = 0

Undisturbed == <>[][~Command /\ ~Restart]_vars

\* When commands and restarts cease, the last countdown runs out, and no other
\* one starts.
CountdownEnds == Undisturbed => <>[](durationMs = 0)

\* ... and then both stores come to agree with the relay, so that the next power
\* loss restores the function and the state it had.
StoresCatchUp ==
    Undisturbed /\ StateOnInit = "restore" =>
        <>[](/\ savedFunction = function
             /\ saved.on = on
             /\ saved.flag = IF Timed(function) THEN function ELSE "neither"
             /\ saved.duration = storedMs)

\* A countdown resumed after a restart is the rest of a countdown: the length of
\* a staircase or an impulse is not taken for one.
RestoredCountdown ==
    [][Restart /\ ~Timed(function') /\ durationMs' > 0
         => saved.flag = "neither"]_vars
=============================================================================
