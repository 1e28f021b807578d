---------------------------- MODULE RollerShutter ----------------------------
(* A roller shutter driven by two relays and positioned by time                *)
(* (Supla::Control::RollerShutter, without tilt): the motor is stopped for a   *)
(* while before it turns the other way, the position is computed from the time *)
(* of the move, and a calibration runs the shutter into one of its ends.       *)
(* The 10 ms timer does all the work; commands and configurations only set     *)
(* members it reads.  A step of the clock is one period of the timer.          *)
(* Buttons and the server's other commands (step by step, up or stop, ...)     *)
(* come down to stop, up, down or a position, depending on the state; the      *)
(* model lets any of them come at any time.                                    *)
EXTENDS Integers

CONSTANTS
    Percents,          \* positions asked for
    Times,             \* closing times the server may send; 0: none
    OpeningExtra,      \* an opening takes so much longer
    RealTime,          \* the closing time of the shutter itself, in ms
    PeriodMs,          \* of the timer, 10 ms
    PauseMs,           \* 500 ms
    DefaultTimeoutMs,  \* RS_DEFAULT_OPERATION_TIMEOUT_MS
    MaxRequests, MaxRestarts

ASSUME ShutterAssumption ==
    /\ Percents \subseteq 0 .. 100 /\ Times \subseteq Nat
    /\ OpeningExtra \in Nat /\ RealTime \in Nat \ {0}
    /\ PeriodMs \in Nat \ {0} /\ PauseMs \in Nat \ {0} /\ DefaultTimeoutMs \in Nat \ {0}
    /\ MaxRequests \in Nat /\ MaxRestarts \in Nat
    \* the times fit their type
    /\ \E longest \in Times \cup {RealTime} : \A time \in Times : time <= longest /\ RealTime <= longest

Unknown == -1
FullTravel == 10000    \* the shutter's way, in hundredths of a percent
StopPosition == -2
MoveUp == -3
MoveDown == -4
StopRequest == -5
Targets == Percents \cup {MoveUp, MoveDown, StopRequest}

OpeningTime(closing) == IF closing = 0 THEN 0 ELSE closing + OpeningExtra

Greatest(a, b) == IF a > b THEN a ELSE b
Least(a, b) == IF a < b THEN a ELSE b

\* Times are compared up to here.
ClockCapMs ==
    LET longest == CHOOSE t \in Times \cup {RealTime} :
                       \A u \in Times \cup {RealTime} : t >= u
    IN  Greatest(DefaultTimeoutMs, 2 * OpeningTime(longest)) + 2 * PeriodMs

VARIABLES
    rs,         \* the members, and the two relays
    saved,      \* state storage
    shutter,    \* where the shutter is, 0 (open) to Way
    rest, drove,       \* history: time since a relay was on, and which one it was
    flipped,    \* history: motorUpsideDown changed in the present move
    trusted,    \* history: calibrated with the right settings
    skipped,    \* history: periods of the present move not yet in the position
    drift,      \* history: what earlier moves and restarts may have put the position off by
    asked,      \* history: the position asked for last, if nothing came between
    requests, restarts

history == <<rest, drove, flipped, trusted, skipped, drift, asked>>
counters == <<requests, restarts>>
vars == <<rs, saved, shutter, history, counters>>

----------------------------------------------------------------------------
(* The methods, from one record of members to the next. *)

Boot(s) ==
    [dir |-> "stop", pos |-> s.pos * 100, target |-> StopPosition, before |-> Unknown,
     newTarget |-> FALSE, closing |-> s.closing, opening |-> s.opening,
     calTime |-> 0, calibrate |-> FALSE, since |-> ClockCapMs, pause |-> PauseMs,
     timeout |-> 0, up |-> FALSE, down |-> FALSE, upsideDown |-> s.upsideDown]

GetCurrentPosition(r) == IF r.pos < 0 THEN Unknown ELSE (r.pos + 50) \div 100

IsCalibrationRequested(r) == r.calibrate /\ r.opening # 0 /\ r.closing # 0
IsCalibrated(r) == ~ r.calibrate /\ r.opening # 0 /\ r.closing # 0
InProgress(r) == r.calTime > 0

SetTargetPosition(r, p) == [r EXCEPT !.target = p, !.newTarget = TRUE]

SetCurrentPosition(r, p) ==
    [r EXCEPT !.calTime = 0, !.pos = p * 100, !.calibrate = FALSE]

SetCalibrationNeeded(r) == [SetCurrentPosition(r, Unknown) EXCEPT !.calibrate = TRUE]

SetOpenCloseTime(r, closing, opening) ==
    IF closing = r.closing /\ opening = r.opening
    THEN r
    ELSE SetCalibrationNeeded([r EXCEPT !.closing = closing, !.opening = opening])

\* Mutant of StopMovement: no pause follows.
StopWithoutPause(r) == [r EXCEPT !.up = FALSE, !.down = FALSE, !.dir = "stop"]

StopMovement(r) ==
    [r EXCEPT !.up = FALSE, !.down = FALSE, !.dir = "stop", !.pause = 0]

StartClosing(r) ==
    [r EXCEPT !.since = 0, !.dir = "down", !.up = r.upsideDown, !.down = ~ r.upsideDown]

\* Mutant of StartOpening: the other relay is left as it is.
StartOpeningOnly(r) == [r EXCEPT !.since = 0, !.dir = "up", !.up = ~ r.upsideDown]

StartOpening(r) ==
    [r EXCEPT !.since = 0, !.dir = "up", !.up = ~ r.upsideDown, !.down = r.upsideDown]

Start(r, dir) == IF dir = "down" THEN StartClosing(r) ELSE StartOpening(r)

\* getTimeMarginValue, for the device specific margin.
TimeMargin(time) == IF time = 0 THEN DefaultTimeoutMs ELSE (time * 3) \div 10

\* Mutant of StartCalibration: the run takes half the time.
StartShortCalibration(r, time) == [r EXCEPT !.calTime = time \div 2, !.pos = 0]

StartCalibration(r, time) == [r EXCEPT !.calTime = (time * 11) \div 10, !.pos = 0]

----------------------------------------------------------------------------
(* The position, computed from the time since the start of the move. *)

\* Hundredths of a percent.  The code subtracts a double on the way up and rounds the
\* difference down, here the distance is rounded: at most one hundredth apart.
MeasuredPosition(r) ==
    LET up == r.dir = "up"
        full == IF up THEN r.opening ELSE r.closing
        distance == IF up THEN r.before ELSE FullTravel - r.before
        required == (full * distance) \div FullTravel
        \* from an unknown position upwards the distance is negative and its
        \* conversion undefined; every outcome leads to no move
        moved == IF distance <= 0 \/ required = 0
                 THEN 0
                 ELSE (distance * Least(r.since, required)) \div required
        position == IF up THEN r.before - moved ELSE r.before + moved
    IN  IF position < Unknown THEN 0 ELSE Least(position, FullTravel)

CalculateCurrentPosition(r) ==
    IF GetCurrentPosition(r) = (IF r.dir = "up" THEN 0 ELSE 100)
    THEN r
    ELSE [r EXCEPT !.pos = MeasuredPosition(r)]

----------------------------------------------------------------------------
(* onTimer. *)

HandleStop(r) ==
    LET stopped == IF (r.target = StopPosition /\ r.dir # "stop") \/ r.target = StopRequest
                   THEN [StopMovement(r) EXCEPT !.target = StopPosition, !.calTime = 0]
                   ELSE r
    IN  [stopped EXCEPT !.newTarget = @ /\ stopped.target # StopPosition]

\* A calibration runs in the direction of the target.
BeginCalibration(r) ==
    LET dir == IF r.target > 50 \/ r.target = MoveDown THEN "down" ELSE "up"
        time == IF dir = "down" THEN r.closing ELSE r.opening
        begun == StartCalibration([r EXCEPT !.timeout = 0], time)
    IN  IF r.dir \notin {"stop", dir}
        THEN StopMovement([r EXCEPT !.timeout = 0])
        ELSE Start(IF InProgress(begun) THEN begun
                   ELSE [begun EXCEPT !.timeout = DefaultTimeoutMs], dir)

EndCalibration(r) ==
    IF ~ InProgress(r) \/ r.since <= r.calTime
    THEN r
    ELSE LET done == SetCurrentPosition(r, IF r.dir = "up" THEN 0 ELSE 100)
         IN  StopMovement(IF r.target < 0 THEN SetTargetPosition(done, StopRequest) ELSE done)

Calibrate(r) ==
    IF r.target = StopPosition
    THEN r
    ELSE EndCalibration(IF InProgress(r) THEN r ELSE BeginCalibration(r))

\* A move under way: at an end the motor runs on for the margin, elsewhere it stops.
ContinueMove(r) ==
    LET c == CalculateCurrentPosition(r)
        end == IF r.dir = "up" THEN 0 ELSE 100
        reached == IF r.dir = "up" THEN GetCurrentPosition(c) <= c.target
                                   ELSE GetCurrentPosition(c) >= c.target
    IN  IF c.target < 0 \/ ~ reached
        THEN c
        ELSE IF c.target = end
        THEN [c EXCEPT !.target = Unknown, !.since = 0,
                       !.timeout = TimeMargin(IF r.dir = "up" THEN r.opening ELSE r.closing)]
        ELSE StopMovement(c)

\* The direction of a new target, and how long the move may take.
Direction(r) ==
    LET distance == IF r.target = Unknown THEN 0 ELSE r.target - GetCurrentPosition(r)
    IN  IF r.target = MoveUp THEN "up"
        ELSE IF r.target = MoveDown \/ distance > 0 THEN "down"
        ELSE IF distance < 0 THEN "up"
        ELSE "stop"

Timeout(r) ==
    CASE r.target = MoveUp -> r.opening + TimeMargin(r.opening)
      [] r.target = MoveDown -> r.closing + TimeMargin(r.closing)
      [] OTHER -> 0

\* Mutant of BeginMove: the target is forgotten when the motor has to stop first.
BeginMoveForgetful(r, dir) ==
    IF dir = r.dir THEN [r EXCEPT !.newTarget = FALSE]
    ELSE IF r.dir = "stop" THEN Start([r EXCEPT !.newTarget = FALSE, !.before = r.pos], dir)
    ELSE [StopMovement(r) EXCEPT !.newTarget = FALSE]

\* A direction that is not the present one is only taken from a standstill.
BeginMove(r, dir) ==
    IF dir = r.dir THEN [r EXCEPT !.newTarget = FALSE]
    ELSE IF r.dir = "stop" THEN Start([r EXCEPT !.newTarget = FALSE, !.before = r.pos], dir)
    ELSE StopMovement(r)

\* Without a calibration only the ends can be reached.
MoveBlindly(r) ==
    LET b == [r EXCEPT !.pos = Unknown]
        dir == CASE r.target \in {MoveUp, 0} -> "up"
                 [] r.target \in {MoveDown, 100} -> "down"
                 [] OTHER -> "stop"
        moved == BeginMove([b EXCEPT !.timeout = DefaultTimeoutMs], dir)
    IN  IF ~ r.newTarget THEN b
        ELSE IF dir # r.dir /\ r.dir # "stop" THEN [moved EXCEPT !.timeout = 0]
        ELSE [moved EXCEPT !.before = r.before]

Move(r) ==
    IF r.newTarget /\ r.target # StopPosition
    THEN BeginMove([r EXCEPT !.timeout = Timeout(r)], Direction(r))
    ELSE IF ~ r.newTarget /\ r.dir # "stop" THEN ContinueMove(r) ELSE r

\* Mutant of TimedOut: a move may take any time.
NotTimedOut(r) == r

TimedOut(r) ==
    IF r.timeout # 0 /\ r.since > r.timeout
    THEN [SetTargetPosition(r, StopRequest) EXCEPT !.timeout = 0]
    ELSE r

----------------------------------------------------------------------------
(* Actions. *)

MotorOff == ~ rs.up /\ ~ rs.down

\* The start of a move that is over, and has no timeout left, was long ago.
Elapse(r) ==
    LET over == r.dir = "stop" /\ r.timeout = 0
    IN  [r EXCEPT !.since = IF over THEN ClockCapMs ELSE Least(@ + PeriodMs, ClockCapMs),
                  !.pause = Least(@ + PeriodMs, PauseMs)]

\* The way of the shutter, in a unit of which it goes a whole number in a
\* millisecond, opening and closing.
Way == RealTime * OpeningTime(RealTime)

Drive(at) ==
    IF rs.up THEN Greatest(at - PeriodMs * RealTime, 0)
    ELSE IF rs.down THEN Least(at + PeriodMs * OpeningTime(RealTime), Way)
    ELSE at

\* What the position may be off by, in hundredths of a percent: after a move a
\* millisecond of the way; for every period that was not measured, its way; and
\* half a percent where it is rounded.
MoveRounding == FullTravel \div RealTime + 1
PeriodTravel == (FullTravel * PeriodMs) \div RealTime + 1
HalfPercent == 50

\* The position and the shutter are at the same end.
Meet(r, at) ==
    \/ GetCurrentPosition(r) = 0 /\ at = 0
    \/ GetCurrentPosition(r) = 100 /\ at = Way

Calibrated(before, after) == InProgress(before) /\ before.calibrate /\ ~ after.calibrate

\* A pass works the position out unless a request is pending.
Measures(r) == IsCalibrated(r) /\ r.target # StopRequest /\ ~ r.newTarget /\ r.dir # "stop"

\* The pass ends with the check of the timeout.
EndPass(now, done) ==
    \E after \in {TimedOut(done)} :
        /\ rs' = after
        /\ trusted' = IF Calibrated(now, after)
                      THEN now.closing = RealTime /\ drove = now.dir
                      ELSE trusted /\ (MotorOff \/ drove = rs.dir)
        /\ skipped' = IF ~ trusted' \/ MotorOff \/ Measures(now) \/ after.dir = "stop"
                      THEN 0
                      ELSE skipped + 1
        /\ drift' = IF \/ Calibrated(now, after) \/ ~ trusted'
                       \/ after.dir = "stop" /\ Meet(after, Drive(shutter))
                    THEN 0
                    ELSE IF MotorOff \/ after.dir # "stop" THEN drift
                    ELSE drift + MoveRounding
                         + IF Measures(now) THEN 0 ELSE (skipped + 1) * PeriodTravel
        /\ flipped' = (flipped /\ (after.up \/ after.down))
        /\ drove' = IF after.up THEN "up" ELSE IF after.down THEN "down" ELSE drove
        /\ rest' = IF after.up \/ after.down THEN 0
                   ELSE IF MotorOff THEN Least(rest + PeriodMs, PauseMs) ELSE 0

Pausing(now) ==
    /\ now.pause < PauseMs
    /\ rs' = now
    /\ rest' = Least(rest + PeriodMs, PauseMs)
    /\ UNCHANGED <<trusted, skipped, drift, flipped, drove>>

Working(now) ==
    /\ now.pause >= PauseMs
    /\ \E r \in {HandleStop(now)} :
           \/ IsCalibrationRequested(r) /\ EndPass(now, Calibrate(r))
           \/ IsCalibrated(r) /\ EndPass(now, Move(r))
           \/ /\ ~ IsCalibrationRequested(r) /\ ~ IsCalibrated(r)
              /\ EndPass(now, MoveBlindly(r))

\* One period goes by, with the motor as it was, and the timer runs.
OnTimer ==
    /\ \E now \in {Elapse(rs)} : Pausing(now) \/ Working(now)
    /\ shutter' = Drive(shutter)
    /\ UNCHANGED <<saved, asked, counters>>

Request ==
    /\ requests < MaxRequests
    /\ requests' = requests + 1

\* handleAction: a button or an action asks for a move or a stop.
Command(target) ==
    /\ Request
    /\ rs' = SetTargetPosition(rs, target)
    /\ asked' = IF target >= 0 THEN target ELSE Unknown
    /\ UNCHANGED <<saved, shutter, rest, drove, flipped, trusted, skipped, drift, restarts>>

\* handleNewValueFromServer: a command of the server brings the times along.
HandleNewValueFromServer(closing, target) ==
    /\ Request
    /\ rs' = SetTargetPosition(SetOpenCloseTime(rs, closing, OpeningTime(closing)), target)
    /\ asked' = IF target >= 0 /\ ~ rs'.calibrate THEN target ELSE Unknown
    /\ trusted' = (trusted /\ ~ rs'.calibrate)
    /\ UNCHANGED <<saved, shutter, rest, drove, flipped, skipped, drift, restarts>>

\* triggerCalibration, asked for by the server.
Recalibrate ==
    /\ Request
    /\ rs' = SetTargetPosition(SetCalibrationNeeded(rs), 0)
    /\ asked' = Unknown
    /\ trusted' = FALSE
    /\ UNCHANGED <<saved, shutter, rest, drove, flipped, skipped, drift, restarts>>

\* applyChannelConfig.
ApplyChannelConfig(closing, upsideDown) ==
    /\ Request
    /\ LET timed == SetOpenCloseTime(rs, closing, OpeningTime(closing))
           set == IF timed.dir = "stop" THEN SetTargetPosition(timed, StopRequest) ELSE timed
       IN  rs' = [set EXCEPT !.upsideDown = upsideDown]
    /\ asked' = Unknown
    /\ flipped' = (flipped \/ (~ MotorOff /\ upsideDown # rs.upsideDown))
    /\ trusted' = (trusted /\ ~ rs'.calibrate)
    /\ UNCHANGED <<saved, shutter, rest, drove, skipped, drift, restarts>>

State(r) ==
    [closing |-> r.closing, opening |-> r.opening, pos |-> GetCurrentPosition(r),
     upsideDown |-> r.upsideDown]

\* onSaveState, called from the loop; the configuration is saved with it here.
SaveState ==
    /\ saved # State(rs) /\ restarts < MaxRestarts
    /\ saved' = State(rs)
    /\ UNCHANGED <<rs, shutter, history, counters>>

\* Power fails, the relays fall off, the device boots.
Restart ==
    /\ restarts < MaxRestarts
    /\ restarts' = restarts + 1
    /\ rs' = Boot(saved)
    /\ rest' = PauseMs
    /\ flipped' = FALSE
    /\ asked' = Unknown
    /\ trusted' = (trusted /\ MotorOff /\ saved = State(rs))
    /\ skipped' = 0 /\ drift' = IF trusted' THEN drift + HalfPercent ELSE 0
    /\ UNCHANGED <<saved, shutter, drove, requests>>

Init ==
    /\ saved = [closing |-> 0, opening |-> 0, pos |-> Unknown, upsideDown |-> FALSE]
    /\ rs = Boot(saved)
    /\ shutter = Way             \* an opening goes the whole way
    /\ rest = PauseMs /\ drove = "none" /\ flipped = FALSE
    /\ trusted = FALSE /\ skipped = 0 /\ drift = 0 /\ asked = Unknown
    /\ requests = 0 /\ restarts = 0

Next ==
    \/ OnTimer
    \/ \E target \in Targets : Command(target)
    \/ \E closing \in Times, target \in Targets : HandleNewValueFromServer(closing, target)
    \/ Recalibrate
    \/ \E closing \in Times, upsideDown \in BOOLEAN : ApplyChannelConfig(closing, upsideDown)
    \/ SaveState
    \/ Restart

Spec == Init /\ [][Next]_vars

\* The timer runs and time goes on.
FairSpec == Spec /\ WF_vars(OnTimer)

----------------------------------------------------------------------------
(* Properties. *)

\* Positions, in hundredths of a percent.
Travel == 0 .. FullTravel
Positions == {-100, Unknown} \cup Travel

\* Every member stays within its type; both relays are never on, and one is on
\* exactly while the direction says so.
TypeOK ==
    /\ rs.dir \in {"stop", "up", "down"}
    /\ rs.pos \in Positions
    /\ rs.target \in StopRequest .. 100
    /\ rs.since \in 0 .. ClockCapMs /\ rs.pause \in 0 .. PauseMs
    /\ ~ (rs.up /\ rs.down)
    /\ (rs.dir = "stop") = MotorOff
    /\ shutter \in 0 .. Way
    /\ saved.pos \in Unknown .. 100

\* A motor turns the other way only after a pause, whatever commands, stops and
\* configurations came in between.
ReversalPause ==
    [][/\ rs'.up /\ ~ rs.up /\ drove = "down" => rest + PeriodMs >= PauseMs \/ flipped'
       /\ rs'.down /\ ~ rs.down /\ drove = "up" => rest + PeriodMs >= PauseMs \/ flipped']_vars

\* Since a calibration with the right times the position of a shutter at rest is
\* where the shutter is, to half a percent and what has added up since both were
\* last at an end: the rounding of moves and of what is stored, and the periods
\* a stop or a new request cut off before they were measured.
PositionTracksShutter ==
    trusted /\ MotorOff =>
        LET difference == (drift + HalfPercent) * Way
        IN  rs.pos * Way - shutter * FullTravel \in - difference .. difference

\* When requests cease the motor is switched off for good: a stop, a target, a
\* calibration or a timeout ends every move, also without known times.
MotorStops == <>[]MotorOff

\* The last position asked for is reached in the end, up to the two periods a
\* request in mid-move costs; a reversal does not forget it.
ArrivesAtTarget ==
    <>[](asked # Unknown /\ trusted =>
            GetCurrentPosition(rs) - asked \in -(PeriodTravel \div 50) .. PeriodTravel \div 50)

\* With the position unknown a request to open never drives the shutter down: the
\* comment in onTimer has it move only to the end that was asked for.
OpenNeverCloses ==
    [][GetCurrentPosition(rs) = Unknown /\ rs.target = 0 /\ rs.dir = "stop"
       => rs'.dir # "down"]_vars
=============================================================================
