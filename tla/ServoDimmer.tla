----------------------------- MODULE ServoDimmer -----------------------------
(* One servo channel of the firmware: SuplaServoDimmer on top of the command   *)
(* path of RGBWBase and DimmerBase.                                            *)
(*                                                                             *)
(* Three contexts share its state.  The network code turns a server request    *)
(* into a requested brightness; the 1 ms timer notices that the requested      *)
(* value differs from the last one applied and starts a move; the main loop    *)
(* interpolates the pulse, watches the limit switches, ends the move and       *)
(* releases the pin.  None of them waits for another: a loop pass may come     *)
(* long after the timer (a blocking reconnect stalls the loop, not the timer)  *)
(* and several commands may come between two passes.                           *)
(*                                                                             *)
(* Time is kept as elapsed milliseconds since the events the code timestamps,  *)
(* advanced in steps of TimeStepMs and saturated at ClockCapMs.                *)
EXTENDS ServoPulse

CONSTANTS
    DetachDelayMs,    \* KEY_SERVO_TIME; 0 keeps the pin driven for ever
    HasLimitUp,       \* a GPIO is configured for the upper limit switch
    HasLimitDown,
    Percents,         \* the brightness values the server sends
    PowerLossAnytime, \* FALSE: restarts happen only with the servo at rest
    TimeStepMs,       \* granularity of time
    ClockCapMs        \* bound of the clocks: larger values are not told apart

IterateIntervalMs == 20

ASSUME SpecAssumption ==
    /\ DetachDelayMs \in Nat
    /\ HasLimitUp \in BOOLEAN /\ HasLimitDown \in BOOLEAN
    /\ PowerLossAnytime \in BOOLEAN
    /\ Percents \subseteq 0 .. 100 /\ 0 \in Percents
    /\ TimeStepMs \in Nat /\ TimeStepMs > 0
    /\ ClockCapMs \in Nat /\ ClockCapMs >= TransitionTimeMs
    /\ ClockCapMs >= DetachDelayMs /\ ClockCapMs >= IterateIntervalMs

VARIABLES
    curBrightness,    \* RGBWBase: requested percentage
    hwBrightness,     \* RGBWBase: 10-bit value last handed to the device
    savedBrightness,  \* the percentage in state storage
    servo,            \* the members of SuplaServoDimmer
    horn,             \* the last pulse the motor received, across restarts
    limitUp,          \* the switches are closed
    limitDown

vars == <<curBrightness, hwBrightness, savedBrightness, servo, horn,
          limitUp, limitDown>>

Pulse == MinUs .. MaxUs
Clock == 0 .. ClockCapMs

ServoState ==
    [firstCloudSync : BOOLEAN, isMoving : BOOLEAN, isAttached : BOOLEAN,
     isWaitingToDetach : BOOLEAN,
     currentBrightness : 0 .. 255,
     startMicroSec : Int, currentMicroSec : Int, targetMicroSec : Int,
     lastWrittenMicroSec : Int,
     pulse : Int,                  \* on the wire; 0 when there is no signal
     moveDurationMs : Nat,
     sinceMoveStart : Clock, sinceTargetReached : Clock, sinceIterate : Clock,
     channelValue : 0 .. Thousandths(100)]  \* what the channel reports to the server

-----------------------------------------------------------------------------
(* Steps of the driver, each from one state of the members to the next.        *)

\* The constructor followed by onInit: the channel still reads 0.
Booted ==
    [firstCloudSync |-> TRUE, isMoving |-> FALSE, isAttached |-> FALSE,
     isWaitingToDetach |-> FALSE, currentBrightness |-> 0,
     startMicroSec |-> CalculateMicroSec(0),
     currentMicroSec |-> CalculateMicroSec(0),
     targetMicroSec |-> CalculateMicroSec(0),
     lastWrittenMicroSec |-> 0, pulse |-> 0, moveDurationMs |-> 0,
     sinceMoveStart |-> 0, sinceTargetReached |-> 0, sinceIterate |-> ClockCapMs,
     channelValue |-> 0]

FirstSync(s, brightness255) ==
    LET us == CalculateMicroSec(brightness255)
    IN  [s EXCEPT !.firstCloudSync = FALSE, !.currentBrightness = brightness255,
                  !.targetMicroSec = us, !.currentMicroSec = us,
                  !.startMicroSec = us]

\* Mutant of StartMove: the start of the move is not brought up to date.
StartMoveFromOldStart(s, brightness255) ==
    LET target == TargetPulse(brightness255)
    IN  [s EXCEPT !.targetMicroSec = target,
                  !.moveDurationMs = MoveDuration(s.currentMicroSec, target,
                                         s.currentBrightness, brightness255),
                  !.sinceMoveStart = 0, !.isMoving = TRUE,
                  !.isWaitingToDetach = FALSE, !.isAttached = TRUE,
                  !.channelValue = ChannelValue(brightness255)]

StartMove(s, brightness255) ==
    LET target == TargetPulse(brightness255)
    IN  [s EXCEPT !.startMicroSec = s.currentMicroSec,
                  !.targetMicroSec = target,
                  !.moveDurationMs = MoveDuration(s.currentMicroSec, target,
                                         s.currentBrightness, brightness255),
                  !.sinceMoveStart = 0, !.isMoving = TRUE,
                  !.isWaitingToDetach = FALSE, !.isAttached = TRUE,
                  !.channelValue = ChannelValue(brightness255)]

\* The first value after boot only sets the members: nothing moves.
SetRGBWValueOnDevice(s, hw) ==
    IF s.firstCloudSync THEN FirstSync(s, Brightness255(hw))
                        ELSE StartMove(s, Brightness255(hw))

ForceStopAndSync(s, brightness255) ==
    LET stop == IF Type = 1 THEN MidUs ELSE s.currentMicroSec
    IN  [s EXCEPT !.targetMicroSec = stop,
                  !.pulse = IF s.isAttached THEN stop ELSE @,
                  !.currentBrightness = brightness255,
                  !.isMoving = FALSE, !.isWaitingToDetach = TRUE,
                  !.sinceTargetReached = 0,
                  !.channelValue = ChannelValue(brightness255)]

\* Mutant of LimitSwitchCheck360: the directions are mixed up.
LimitSwitchesSwapped(s) ==
    IF Type = 0 THEN s
    ELSE IF limitUp /\ s.targetMicroSec < MidUs THEN ForceStopAndSync(s, 255)
    ELSE IF limitDown /\ s.targetMicroSec > MidUs THEN ForceStopAndSync(s, 0)
    ELSE s

LimitSwitchCheck360(s) ==
    IF Type = 0 THEN s
    ELSE IF limitUp /\ s.targetMicroSec > MidUs THEN ForceStopAndSync(s, 255)
    ELSE IF limitDown /\ s.targetMicroSec < MidUs THEN ForceStopAndSync(s, 0)
    ELSE s

\* Mutant of Interpolated: a late loop pass extrapolates.
Extrapolated(s) ==
    IF s.moveDurationMs > 0
    THEN MapRange(s.sinceMoveStart, 0, s.moveDurationMs,
                  s.startMicroSec, s.targetMicroSec)
    ELSE s.targetMicroSec

\* A 180 degree servo is led along the line from start to target.
Interpolated(s) ==
    IF s.sinceMoveStart < s.moveDurationMs
    THEN MapRange(s.sinceMoveStart, 0, s.moveDurationMs,
                  s.startMicroSec, s.targetMicroSec)
    ELSE s.targetMicroSec

\* Mutant of TimedRollerMove: a switch is timed too.
TimedInAnyMode(s) == s.targetMicroSec # MidUs

TimedRollerMove(s) == Mode = "roller" /\ s.targetMicroSec # MidUs

\* The time or the position that ends the move has come.
Reached(s) ==
    IF Type = 0 \/ TimedRollerMove(s) THEN s.sinceMoveStart >= s.moveDurationMs
                                      ELSE s.targetMicroSec = MidUs

\* The pulse computed before the stop is compared, and written, after it.
WritePulse(s, us) ==
    [s EXCEPT !.currentMicroSec = us,
              !.pulse = IF us # s.lastWrittenMicroSec THEN us ELSE @,
              !.lastWrittenMicroSec = us]

\* Mutant of MoveStep: the end of a move does not ask for the release of the pin.
MoveStepKeepingPin(s) ==
    LET us == IF Type = 0 THEN Interpolated(s) ELSE s.targetMicroSec
    IN  IF ~s.isMoving THEN s
        ELSE [WritePulse(s, us) EXCEPT !.isMoving = ~Reached(s)]

\* Mutant of MoveStep: the move ends before its last pulse is written.
MoveStepEndingEarly(s) ==
    LET us == IF Type = 0 THEN Interpolated(s) ELSE s.targetMicroSec
    IN  IF ~s.isMoving THEN s
        ELSE IF ~Reached(s) THEN WritePulse(s, us)
        ELSE [s EXCEPT !.isMoving = FALSE, !.isWaitingToDetach = TRUE,
                       !.sinceTargetReached = 0]

MoveStep(s) ==
    LET us      == IF Type = 0 THEN Interpolated(s) ELSE s.targetMicroSec
        stopped == IF Type = 1 /\ TimedRollerMove(s) /\ Reached(s)
                   THEN ForceStopAndSync(s, 127) ELSE s
        written == WritePulse(stopped, us)
    IN  IF ~s.isMoving THEN s
        ELSE IF ~Reached(s) THEN written
        ELSE [written EXCEPT
                !.isMoving = FALSE, !.isWaitingToDetach = TRUE,
                !.sinceTargetReached = IF written.isWaitingToDetach THEN @ ELSE 0]

DetachServoSafe(s) ==
    [s EXCEPT !.isAttached = FALSE, !.pulse = 0, !.lastWrittenMicroSec = 0]

DetachStep(s) ==
    IF s.isWaitingToDetach /\ DetachDelayMs > 0
       /\ s.sinceTargetReached >= DetachDelayMs
    THEN LET released == IF Type = 0 \/ s.currentMicroSec = MidUs
                         THEN DetachServoSafe(s) ELSE s
         IN  [released EXCEPT !.isWaitingToDetach = FALSE]
    ELSE s

IteratePass(s) ==
    LET checked == LimitSwitchCheck360(s)
    IN  IF checked.sinceIterate < IterateIntervalMs THEN checked
        ELSE DetachStep(MoveStep([checked EXCEPT !.sinceIterate = 0]))

-----------------------------------------------------------------------------
(* Actions.                                                                    *)

HornFollows == horn' = IF servo'.pulse = 0 THEN horn ELSE servo'.pulse

Init ==
    /\ curBrightness \in Percents
    /\ savedBrightness = curBrightness
    /\ hwBrightness = 0
    /\ servo = Booted
    /\ horn = TargetPulse(Brightness255(HwValue(curBrightness)))
    /\ limitUp = FALSE /\ limitDown = FALSE

\* handleNewValueFromServer through setRGBW: any request ends as a percentage.
\* The link to the server is up long after the first millisecond of the timer.
HandleNewValueFromServer(percent) ==
    /\ ~servo.firstCloudSync
    /\ curBrightness' = percent
    /\ UNCHANGED <<hwBrightness, savedBrightness, servo, horn, limitUp, limitDown>>

\* onFastTimer, with the fade effect off: the new value is applied at once.
OnFastTimer ==
    /\ servo.firstCloudSync \/ hwBrightness # HwValue(curBrightness)
    /\ hwBrightness' = HwValue(curBrightness)
    /\ servo' = SetRGBWValueOnDevice(servo, HwValue(curBrightness))
    /\ HornFollows
    /\ UNCHANGED <<curBrightness, savedBrightness, limitUp, limitDown>>

\* iterateAlways.
IterateAlways ==
    /\ servo.isAttached
    /\ servo' = IteratePass(servo)
    /\ HornFollows
    /\ UNCHANGED <<curBrightness, hwBrightness, savedBrightness, limitUp, limitDown>>

\* Mutant of StopAction: every stop reports the middle.
StopReportingMiddle ==
    /\ Mode = "roller" /\ ~servo.firstCloudSync
    /\ servo' = ForceStopAndSync(servo, 127)
    /\ HornFollows
    /\ UNCHANGED <<curBrightness, hwBrightness, savedBrightness, limitUp, limitDown>>

\* handleAction in roller mode with one of the two actions taken as "stop".
StopAction ==
    /\ Mode = "roller" /\ ~servo.firstCloudSync
    /\ servo' = ForceStopAndSync(servo,
                    IF Type = 1 THEN 127
                    ELSE CalculateBrightnessFromMicroSec(servo.currentMicroSec))
    /\ HornFollows
    /\ UNCHANGED <<curBrightness, hwBrightness, savedBrightness, limitUp, limitDown>>

\* setRGBW schedules a save 5 s ahead: it happens some time after the change.
SaveState ==
    /\ savedBrightness' = curBrightness
    /\ UNCHANGED <<curBrightness, hwBrightness, servo, horn, limitUp, limitDown>>

AtRest ==
    /\ savedBrightness = curBrightness /\ hwBrightness = HwValue(curBrightness)
    /\ ~servo.isMoving
    /\ horn = TargetPulse(Brightness255(hwBrightness))

\* Power loss or reboot: the members are gone, the horn stays where it was.
Restart ==
    /\ PowerLossAnytime \/ AtRest
    /\ curBrightness' = savedBrightness
    /\ hwBrightness' = 0
    /\ servo' = Booted
    /\ UNCHANGED <<savedBrightness, horn, limitUp, limitDown>>

LimitSwitchChange ==
    /\ limitUp' \in {FALSE, HasLimitUp} /\ limitDown' \in {FALSE, HasLimitDown}
    /\ <<limitUp, limitDown>>' # <<limitUp, limitDown>>
    /\ UNCHANGED <<curBrightness, hwBrightness, savedBrightness, servo, horn>>

Later(clock) ==
    IF clock + TimeStepMs > ClockCapMs THEN ClockCapMs ELSE clock + TimeStepMs

\* A clock nobody reads is left alone.
TimePasses ==
    /\ servo' = [servo EXCEPT
           !.sinceMoveStart = IF servo.isMoving THEN Later(@) ELSE @,
           !.sinceTargetReached = IF servo.isWaitingToDetach THEN Later(@) ELSE @,
           !.sinceIterate = Later(@)]
    /\ UNCHANGED <<curBrightness, hwBrightness, savedBrightness, horn,
                   limitUp, limitDown>>

Command == \E percent \in Percents : HandleNewValueFromServer(percent)

Next ==
    \/ Command
    \/ OnFastTimer
    \/ IterateAlways
    \/ StopAction
    \/ SaveState
    \/ Restart
    \/ LimitSwitchChange
    \/ TimePasses

Spec == Init /\ [][Next]_vars

\* The timer interrupt, the main loop and the clock keep running.
Fairness ==
    WF_vars(OnFastTimer) /\ WF_vars(IterateAlways) /\ WF_vars(TimePasses)

FairSpec == Spec /\ Fairness
-----------------------------------------------------------------------------

\* Every member has the type the code gives it.
TypeOK ==
    /\ curBrightness \in 0 .. 100 /\ savedBrightness \in 0 .. 100
    /\ hwBrightness \in 0 .. 1023
    /\ servo \in ServoState
    /\ horn \in Int
    /\ limitUp \in BOOLEAN /\ limitDown \in BOOLEAN

\* The motor never receives a pulse outside the configured mechanical range,
\* whatever interpolation, inversion, stop or restart went before.
MechanicalRange == servo.pulse = 0 \/ servo.pulse \in Pulse

GapMs == IF servo.sinceIterate < servo.sinceMoveStart
         THEN servo.sinceIterate ELSE servo.sinceMoveStart

\* A 180 degree horn never travels faster than the configured sweep: what one
\* step moves it by is what the time since the last pass, or since the start of
\* the move, allows at that speed (one millisecond and one microsecond of
\* rounding granted).  This covers a command arriving in mid-move, a stalled
\* loop, a stop, and the first move after a restart.
SmoothMotion ==
    [][Absolute(horn' - horn) * TransitionTimeMs
         <= (MaxUs - MinUs) * (GapMs + 1) + TransitionTimeMs]_vars

CloudPercent == MapRange(CalculateBrightnessFromMicroSec(horn), 0, 255, 0, 100)

\* With the move over, the number the channel of a roller keeps is the place
\* the horn stands at, in thousandths of a percent, within the two points the
\* conversions round away.  It is the int32 sendAckToCloud puts into the value's
\* first four bytes; a reader that takes value[0] alone, as the channel's own
\* getValueClosingPercentage does, gets its low byte and no percentage.
HornMatchesCloud ==
    Mode = "roller" /\ servo.isAttached /\ ~servo.isMoving =>
        Absolute(servo.channelValue - Thousandths(CloudPercent)) <= Thousandths(2)

Undisturbed == <>[][~Command /\ ~StopAction]_vars

\* Once nobody sends commands or stops any more, the pin is released for good.
PinReleased == Undisturbed => <>[](~servo.isAttached)

\* A continuous motor that turns is one the loop still watches: the limit
\* switches are compared with the direction it turns in, or the stop is due.
MotorIsWatched ==
    servo.pulse \notin {0, MidUs} =>
        /\ servo.isMoving
        /\ servo.targetMicroSec \in {servo.pulse, MidUs}

\* A full loop pass made with a limit switch closed never leaves the motor
\* driving into it.
LimitStopsMotor ==
    [][IterateAlways /\ servo.sinceIterate >= IterateIntervalMs =>
         /\ limitUp => servo'.pulse <= MidUs
         /\ limitDown => servo'.pulse = 0 \/ servo'.pulse >= MidUs]_vars

\* An OFF that stays in force stops the motor.
OffStopsMotor ==
    curBrightness = 0 ~> (servo.pulse \in {0, MidUs} \/ curBrightness # 0)
=============================================================================
