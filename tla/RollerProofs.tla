---------------------------- MODULE RollerProofs ----------------------------
(* Proofs about RollerShutter, for every value of the constants.              *)
EXTENDS RollerShutter, Arithmetic, TLAPS

Fields == {"dir", "pos", "target", "before", "newTarget", "closing", "opening", "calTime",
           "calibrate", "since", "pause", "timeout", "up", "down", "upsideDown"}

Record(r) == r = [f \in Fields |-> r[f]]

(* What a method may do to the motor. *)

Keeps(r, s) ==
    /\ Record(s)
    /\ s.upsideDown = r.upsideDown
    /\ s.dir = r.dir /\ s.up = r.up /\ s.down = r.down /\ s.pause = r.pause

Stops(r, s) ==
    /\ Record(s)
    /\ s.upsideDown = r.upsideDown
    /\ s.dir = "stop" /\ s.up = FALSE /\ s.down = FALSE /\ s.pause = 0

Closing(s) == s.dir = "down" /\ s.up = s.upsideDown /\ s.down = ~ s.upsideDown
Opening(s) == s.dir = "up" /\ s.up = ~ s.upsideDown /\ s.down = s.upsideDown

\* A start in a direction the motor was not driven against.
Starts(r, s) ==
    /\ Record(s)
    /\ s.upsideDown = r.upsideDown /\ s.pause = r.pause
    /\ r.dir = "stop" \/ r.dir = s.dir
    /\ Closing(s) \/ Opening(s)

Drives(r, s) == Keeps(r, s) \/ Stops(r, s) \/ Starts(r, s)

----------------------------------------------------------------------------
(* The methods. *)

\* setTargetPosition leaves the motor alone.
LEMMA SetTargetPositionKeeps ==
    ASSUME NEW r, NEW p, Record(r)
    PROVE  Keeps(r, SetTargetPosition(r, p))
BY DEF Record, Fields, Keeps, SetTargetPosition

\* So does setCalibrationNeeded.
LEMMA SetCalibrationNeededKeeps ==
    ASSUME NEW r, Record(r)
    PROVE  Keeps(r, SetCalibrationNeeded(r))
BY DEF Record, Fields, Keeps, SetCalibrationNeeded, SetCurrentPosition

\* stopMovement stops it.
LEMMA StopMovementStops ==
    ASSUME NEW r, Record(r)
    PROVE  Stops(r, StopMovement(r))
BY DEF Record, Fields, Stops, StopMovement

\* Starting from standstill or in the present direction.
LEMMA StartStarts ==
    ASSUME NEW r, NEW dir, Record(r), r.dir = "stop" \/ r.dir = dir, dir \in {"up", "down"}
    PROVE  Starts(r, Start(r, dir))
BY DEF Record, Fields, Starts, Start, StartClosing, StartOpening, Closing, Opening

\* A new position leaves the motor alone.
LEMMA PositionKeeps ==
    ASSUME NEW r, NEW p, Record(r)
    PROVE  Keeps(r, [r EXCEPT !.pos = p])
BY DEF Record, Fields, Keeps

\* Computing the position changes only the position.
LEMMA CalculateKeeps ==
    ASSUME NEW r, Record(r)
    PROVE  Keeps(r, CalculateCurrentPosition(r))
BY PositionKeeps DEF Keeps, CalculateCurrentPosition

\* The stop at the head of a pass; a pass that stops the motor leaves no request.
LEMMA HandleStopStops ==
    ASSUME NEW r, Record(r)
    PROVE  LET s == HandleStop(r)
           IN  \/ Keeps(r, s)
               \/ Stops(r, s) /\ s.target = StopPosition /\ s.newTarget = FALSE
<1>1. CASE (r.target = StopPosition /\ r.dir # "stop") \/ r.target = StopRequest
  BY <1>1 DEF Record, Fields, Stops, HandleStop, StopMovement
<1>2. CASE ~ ((r.target = StopPosition /\ r.dir # "stop") \/ r.target = StopRequest)
  BY <1>2 DEF Record, Fields, Keeps, HandleStop
<1>3. QED
  BY <1>1, <1>2

\* A calibration starts in the present direction or from standstill, or stops.
LEMMA BeginCalibrationDrives ==
    ASSUME NEW r, Record(r), r.dir \in {"stop", "up", "down"}
    PROVE  LET s == BeginCalibration(r) IN Stops(r, s) \/ Starts(r, s)
<1> DEFINE dir == IF r.target > 50 \/ r.target = MoveDown THEN "down" ELSE "up"
           time == IF dir = "down" THEN r.closing ELSE r.opening
           q == [r EXCEPT !.timeout = 0]
           begun == StartCalibration(q, time)
           set == IF InProgress(begun) THEN begun
                  ELSE [begun EXCEPT !.timeout = DefaultTimeoutMs]
<1>1. dir \in {"up", "down"}
  OBVIOUS
<1>2. Keeps(r, q)
  BY DEF Record, Fields, Keeps
<1>3. Keeps(q, begun)
  BY <1>2 DEF Record, Fields, Keeps, StartCalibration
<1>4. Keeps(begun, set)
  BY <1>3 DEF Record, Fields, Keeps
<1>5. Keeps(r, set)
  BY <1>2, <1>3, <1>4 DEF Keeps
<1>6. BeginCalibration(r) = IF r.dir \notin {"stop", dir}
                            THEN StopMovement(q) ELSE Start(set, dir)
  BY Zenon DEF BeginCalibration
<1> HIDE DEF dir, q, set
<1>7. CASE r.dir \notin {"stop", dir}
  <2>1. BeginCalibration(r) = StopMovement(q)
    BY <1>6, <1>7
  <2>2. Stops(q, StopMovement(q))
    BY <1>2, StopMovementStops DEF Keeps
  <2>3. QED
    BY <1>2, <2>1, <2>2 DEF Keeps, Stops
<1>8. CASE r.dir \in {"stop", dir}
  <2>1. Starts(set, Start(set, dir))
    BY <1>1, <1>5, <1>8, StartStarts DEF Keeps
  <2>2. QED
    BY <1>5, <1>6, <1>8, <2>1 DEF Keeps, Starts
<1>9. QED
  BY <1>7, <1>8

\* The end of a calibration stops the motor.
LEMMA EndCalibrationStops ==
    ASSUME NEW r, Record(r)
    PROVE  LET s == EndCalibration(r) IN Keeps(r, s) \/ Stops(r, s)
<1> DEFINE done == SetCurrentPosition(r, IF r.dir = "up" THEN 0 ELSE 100)
           set == IF r.target < 0 THEN SetTargetPosition(done, StopRequest) ELSE done
<1>1. Keeps(r, done)
  BY DEF Record, Fields, Keeps, SetCurrentPosition
<1>2. Keeps(r, set)
  BY <1>1, SetTargetPositionKeeps DEF Keeps
<1>3. Stops(r, StopMovement(set))
  BY <1>2, StopMovementStops, ZenonT(60) DEF Keeps, Stops
<1>4. EndCalibration(r) = IF ~ InProgress(r) \/ r.since <= r.calTime
                          THEN r ELSE StopMovement(set)
  BY Zenon DEF EndCalibration
<1>5. QED
  BY <1>3, <1>4 DEF Keeps

\* A pass of a calibration; without a target it does nothing.
LEMMA CalibrateDrives ==
    ASSUME NEW r, Record(r), r.dir \in {"stop", "up", "down"}
    PROVE  /\ Drives(r, Calibrate(r))
           /\ r.target = StopPosition => Keeps(r, Calibrate(r))
<1> DEFINE b == IF InProgress(r) THEN r ELSE BeginCalibration(r)
           e == EndCalibration(b)
<1>1. Drives(r, b)
  BY BeginCalibrationDrives DEF Drives, Keeps
<1>2. Record(b)
  BY <1>1 DEF Drives, Keeps, Stops, Starts
<1>3. Keeps(b, e) \/ Stops(b, e)
  BY <1>2, EndCalibrationStops
<1>4. Drives(r, e)
  BY <1>1, <1>3 DEF Drives, Keeps, Stops, Starts, Closing, Opening
<1>5. Calibrate(r) = IF r.target = StopPosition THEN r ELSE e
  BY Zenon DEF Calibrate
<1>6. QED
  BY <1>4, <1>5 DEF Drives, Keeps

\* A move under way goes on or stops.
LEMMA ContinueMoveStops ==
    ASSUME NEW r, Record(r)
    PROVE  LET s == ContinueMove(r) IN Keeps(r, s) \/ Stops(r, s)
<1> DEFINE c == CalculateCurrentPosition(r)
           margin == TimeMargin(IF r.dir = "up" THEN r.opening ELSE r.closing)
           on == [c EXCEPT !.target = Unknown, !.since = 0, !.timeout = margin]
<1>1. Keeps(r, c)
  BY CalculateKeeps
<1>2. Keeps(c, on)
  BY <1>1 DEF Record, Fields, Keeps
<1>3. Stops(r, StopMovement(c))
  BY <1>1, StopMovementStops DEF Keeps, Stops
<1>4. ContinueMove(r) \in {c, on, StopMovement(c)}
  BY Zenon DEF ContinueMove
<1>5. QED
  BY <1>1, <1>2, <1>3, <1>4 DEF Keeps

\* A new target: start from standstill, otherwise go on or stop.
LEMMA BeginMoveDrives ==
    ASSUME NEW r, NEW dir, Record(r)
    PROVE  Drives(r, BeginMove(r, dir))
<1> DEFINE s == [r EXCEPT !.newTarget = FALSE, !.before = r.pos]
           way == IF dir = "down" THEN "down" ELSE "up"
<1>1. Keeps(r, [r EXCEPT !.newTarget = FALSE]) /\ Keeps(r, s)
  BY DEF Record, Fields, Keeps
<1>2. Start(s, dir) = Start(s, way)
  BY DEF Start
<1>3. ASSUME r.dir = "stop" PROVE Starts(r, Start(s, dir))
  <2>1. Starts(s, Start(s, way))
    BY <1>1, <1>3, StartStarts DEF Keeps
  <2>2. QED
    BY <1>1, <1>2, <2>1 DEF Keeps, Starts
<1>4. BeginMove(r, dir) = IF dir = r.dir THEN [r EXCEPT !.newTarget = FALSE]
                          ELSE IF r.dir = "stop" THEN Start(s, dir) ELSE StopMovement(r)
  BY Zenon DEF BeginMove
<1>5. QED
  BY <1>1, <1>3, <1>4, StopMovementStops DEF Drives

\* A calibrated pass; without a request and at rest it does nothing.
LEMMA MoveDrives ==
    ASSUME NEW r, Record(r)
    PROVE  /\ Drives(r, Move(r))
           /\ r.newTarget = FALSE /\ r.dir = "stop" => Keeps(r, Move(r))
<1> DEFINE t == [r EXCEPT !.timeout = Timeout(r)]
           dir == Direction(r)
<1>1. Keeps(r, t)
  BY DEF Record, Fields, Keeps
<1>2. Drives(t, BeginMove(t, dir))
  BY <1>1, BeginMoveDrives DEF Keeps
<1>3. Drives(r, BeginMove(t, dir))
  BY <1>1, <1>2 DEF Drives, Keeps, Stops, Starts
<1>4. Move(r) = IF r.newTarget /\ r.target # StopPosition
                THEN BeginMove(t, dir)
                ELSE IF ~ r.newTarget /\ r.dir # "stop" THEN ContinueMove(r) ELSE r
  BY Zenon DEF Move
<1> HIDE DEF t, dir
<1>5. Keeps(r, r)
  BY DEF Keeps
<1>6. QED
  BY <1>3, <1>4, <1>5, ContinueMoveStops DEF Drives

\* An uncalibrated pass; without a request it does nothing.
LEMMA MoveBlindlyDrives ==
    ASSUME NEW r, Record(r)
    PROVE  /\ Drives(r, MoveBlindly(r))
           /\ r.newTarget = FALSE => Keeps(r, MoveBlindly(r))
<1> DEFINE b == [r EXCEPT !.pos = Unknown]
           dir == CASE r.target \in {MoveUp, 0} -> "up"
                    [] r.target \in {MoveDown, 100} -> "down"
                    [] OTHER -> "stop"
           t == [b EXCEPT !.timeout = DefaultTimeoutMs]
           moved == BeginMove(t, dir)
           reset == [moved EXCEPT !.timeout = 0]
           kept == [moved EXCEPT !.before = r.before]
<1>1. Keeps(r, b)
  BY PositionKeeps
<1>2. Keeps(b, t)
  BY <1>1 DEF Record, Fields, Keeps
<1>3. MoveBlindly(r) = IF ~ r.newTarget THEN b
                       ELSE IF dir # r.dir /\ r.dir # "stop" THEN reset ELSE kept
  BY Zenon DEF MoveBlindly
<1> HIDE DEF b, dir, t
<1>4. Drives(t, moved)
  BY <1>2, BeginMoveDrives DEF Keeps
<1>5. Drives(r, moved) /\ Record(moved)
  BY <1>1, <1>2, <1>4 DEF Drives, Keeps, Stops, Starts
<1> HIDE DEF moved
<1>6. Keeps(moved, reset) /\ Keeps(moved, kept)
  BY <1>5 DEF Record, Fields, Keeps
<1> HIDE DEF reset, kept
<1>7. Drives(r, reset) /\ Drives(r, kept)
  BY <1>5, <1>6 DEF Drives, Keeps, Stops, Starts, Closing, Opening
<1>8. QED
  BY <1>1, <1>3, <1>7 DEF Drives

\* The timeout only sets a request.
LEMMA TimedOutKeeps ==
    ASSUME NEW r, Record(r)
    PROVE  Keeps(r, TimedOut(r))
<1> DEFINE s == SetTargetPosition(r, StopRequest)
<1>1. Keeps(r, s)
  BY SetTargetPositionKeeps
<1>2. Keeps(s, [s EXCEPT !.timeout = 0])
  BY <1>1 DEF Record, Fields, Keeps
<1>3. QED
  BY <1>1, <1>2 DEF TimedOut, Keeps

----------------------------------------------------------------------------
(* The pass of the timer. *)

\* A pass that got past the pause drives the motor as one of its methods does.
LEMMA PassDrives ==
    ASSUME NEW now, Record(now), now.dir \in {"stop", "up", "down"}, Working(now)
    PROVE  Drives(now, rs')
<1> DEFINE r == HandleStop(now)
<1>1. \/ Keeps(now, r)
      \/ Stops(now, r) /\ r.target = StopPosition /\ r.newTarget = FALSE
  BY HandleStopStops
<1>2. Record(r) /\ r.dir \in {"stop", "up", "down"}
  BY <1>1 DEF Keeps, Stops
<1>3. PICK done \in {Calibrate(r), Move(r), MoveBlindly(r)} : rs' = TimedOut(done)
  BY DEF Working, EndPass
<1> HIDE DEF r
<1>4. /\ Drives(r, done)
      /\ r.target = StopPosition /\ r.newTarget = FALSE /\ r.dir = "stop" => Keeps(r, done)
  BY <1>2, <1>3, CalibrateDrives, MoveDrives, MoveBlindlyDrives
<1>5. Drives(now, done) /\ Record(done)
  BY <1>1, <1>4 DEF Drives, Keeps, Stops, Starts
<1>6. Keeps(done, rs')
  BY <1>3, <1>5, TimedOutKeeps
<1>7. QED
  BY <1>5, <1>6 DEF Drives, Keeps, Stops, Starts, Closing, Opening

----------------------------------------------------------------------------
(* The invariant: how the relays, the direction, the pause and the history go  *)
(* together.                                                                   *)

TypeInv ==
    /\ Record(rs)
    /\ rs.dir \in {"stop", "up", "down"}
    /\ rs.up \in BOOLEAN /\ rs.down \in BOOLEAN
    /\ rs.upsideDown \in BOOLEAN /\ saved.upsideDown \in BOOLEAN /\ flipped \in BOOLEAN
    /\ rs.pause \in Int /\ rs.pause <= PauseMs /\ rest \in Int

\* The relays follow the direction, by the wiring in force when the move began.
RelayInv ==
    /\ rs.dir = "stop" => ~ rs.up /\ ~ rs.down
    /\ rs.dir # "stop" => (rs.up /\ ~ rs.down) \/ (~ rs.up /\ rs.down)
    /\ rs.dir # "stop" /\ ~ flipped => Closing(rs) \/ Opening(rs)
    /\ rs.up => drove = "up"
    /\ rs.down => drove = "down"

\* The pause is never ahead of the rest of the motor, and over while it runs.
PauseInv ==
    /\ rs.dir = "stop" => rs.pause <= rest
    /\ rs.dir # "stop" => rs.pause = PauseMs

MotorInv == TypeInv /\ RelayInv /\ PauseInv

\* The time that goes by before a pass.
LEMMA ElapseKeeps ==
    ASSUME MotorInv
    PROVE  LET now == Elapse(rs)
           IN  /\ Record(now)
               /\ now.upsideDown = rs.upsideDown /\ now.dir = rs.dir
               /\ now.up = rs.up /\ now.down = rs.down
               /\ now.pause = Least(rs.pause + PeriodMs, PauseMs)
BY DEF MotorInv, TypeInv, Record, Fields, Elapse

\* The motor is off exactly without a direction.
LEMMA OffIsStop ==
    ASSUME MotorInv
    PROVE  /\ rs.dir = "stop" => MotorOff
           /\ MotorOff => rs.dir = "stop"
BY DEF MotorInv, TypeInv, RelayInv, MotorOff

\* A request leaves the motor alone, but for the wiring a configuration sets.
LEMMA RequestKeeps ==
    ASSUME Record(rs),
           \/ \E target \in Targets : Command(target)
           \/ \E closing \in Times, target \in Targets : HandleNewValueFromServer(closing, target)
           \/ Recalibrate
    PROVE  Keeps(rs, rs') /\ UNCHANGED <<saved, flipped, drove, rest>>
<1>1. ASSUME NEW r, Record(r), NEW c, NEW o
      PROVE  Keeps(r, SetOpenCloseTime(r, c, o))
  <2> DEFINE s == [r EXCEPT !.closing = c, !.opening = o]
  <2>1. Keeps(r, s)
    BY <1>1 DEF Record, Fields, Keeps
  <2>2. Keeps(r, SetCalibrationNeeded(s))
    BY <2>1, SetCalibrationNeededKeeps DEF Keeps
  <2>3. QED
    BY <1>1, <2>2, Zenon DEF SetOpenCloseTime, Keeps
<1>2. CASE \E target \in Targets : Command(target)
  BY <1>2, SetTargetPositionKeeps DEF Command
<1>3. CASE \E closing \in Times, target \in Targets : HandleNewValueFromServer(closing, target)
  <2>1. PICK closing \in Times, target \in Targets : HandleNewValueFromServer(closing, target)
    BY <1>3
  <2> DEFINE s == SetOpenCloseTime(rs, closing, OpeningTime(closing))
  <2>2. Keeps(rs, s)
    BY <1>1
  <2>3. Keeps(s, SetTargetPosition(s, target))
    BY <2>2, SetTargetPositionKeeps DEF Keeps
  <2>4. rs' = SetTargetPosition(s, target) /\ UNCHANGED <<saved, flipped, drove, rest>>
    BY <2>1 DEF HandleNewValueFromServer
  <2>5. QED
    BY <2>2, <2>3, <2>4 DEF Keeps
<1>4. CASE Recalibrate
  BY <1>4, SetTargetPositionKeeps, SetCalibrationNeededKeeps DEF Recalibrate, Keeps
<1>5. QED
  BY <1>2, <1>3, <1>4

\* What a pass writes to the history.
LEMMA PassHistory ==
    ASSUME NEW now, Working(now)
    PROVE  /\ flipped' = (flipped /\ (rs'.up \/ rs'.down))
           /\ drove' = IF rs'.up THEN "up" ELSE IF rs'.down THEN "down" ELSE drove
           /\ rest' = IF rs'.up \/ rs'.down THEN 0
                      ELSE IF MotorOff THEN Least(rest + PeriodMs, PauseMs) ELSE 0
BY DEF Working, EndPass

\* The device boots with the motor off and rested.
LEMMA BootRests ==
    ASSUME NEW s, s.upsideDown \in BOOLEAN, NEW r, r = Boot(s)
    PROVE  /\ Record(r)
           /\ r.dir = "stop" /\ ~ r.up /\ ~ r.down
           /\ r.up \in BOOLEAN /\ r.down \in BOOLEAN /\ r.upsideDown \in BOOLEAN
           /\ r.pause = PauseMs
<1>1. /\ r.dir = "stop" /\ ~ r.up /\ ~ r.down
      /\ r.up \in BOOLEAN /\ r.down \in BOOLEAN /\ r.upsideDown \in BOOLEAN
      /\ r.pause = PauseMs
  BY DEF Boot
<1>2. Record(r)
  BY DEF Record, Fields, Boot
<1>3. QED
  BY <1>1, <1>2

\* A motor at rest for the whole pause satisfies the invariant.
LEMMA RestedMotorInv ==
    ASSUME Record(rs), rs.dir = "stop", ~ rs.up, ~ rs.down,
           rs.up \in BOOLEAN, rs.down \in BOOLEAN, rs.upsideDown \in BOOLEAN,
           rs.pause = PauseMs, rest = PauseMs,
           saved.upsideDown \in BOOLEAN, flipped \in BOOLEAN
    PROVE  MotorInv
BY ShutterAssumption DEF MotorInv, TypeInv, RelayInv, PauseInv

\* So it starts.
LEMMA InitMotorInv == ASSUME Init PROVE MotorInv
<1>1. /\ saved.upsideDown \in BOOLEAN /\ rs = Boot(saved)
      /\ rest = PauseMs /\ flipped \in BOOLEAN
  <2>1. /\ saved = [closing |-> 0, opening |-> 0, pos |-> Unknown, upsideDown |-> FALSE]
        /\ rs = Boot(saved) /\ rest = PauseMs /\ flipped = FALSE
    BY DEF Init
  <2> QED
    BY <2>1
<1>2. /\ Record(rs)
      /\ rs.dir = "stop" /\ ~ rs.up /\ ~ rs.down
      /\ rs.up \in BOOLEAN /\ rs.down \in BOOLEAN /\ rs.upsideDown \in BOOLEAN
      /\ rs.pause = PauseMs
  BY <1>1, BootRests
<1>3. QED
  BY <1>1, <1>2, RestedMotorInv

\* During the pause nothing happens but time.
LEMMA PausingMotorInv ==
    ASSUME MotorInv, Pausing(Elapse(rs)), UNCHANGED saved
    PROVE  MotorInv' /\ rs'.up = rs.up /\ rs'.down = rs.down
<1> DEFINE now == Elapse(rs)
<1>1. /\ Record(now)
      /\ now.upsideDown = rs.upsideDown /\ now.dir = rs.dir
      /\ now.up = rs.up /\ now.down = rs.down
      /\ now.pause = Least(rs.pause + PeriodMs, PauseMs)
  BY ElapseKeeps
<1>2. /\ now.pause < PauseMs /\ rs' = now /\ rest' = Least(rest + PeriodMs, PauseMs)
      /\ UNCHANGED <<saved, flipped, drove>>
  BY DEF Pausing
<1> HIDE DEF now
<1>3. rs.dir = "stop"
  BY <1>1, <1>2, ShutterAssumption DEF MotorInv, PauseInv, TypeInv, Least
<1>4. TypeInv'
  BY <1>1, <1>2, ShutterAssumption DEF MotorInv, TypeInv, Least
<1>5. RelayInv'
  BY <1>1, <1>2, <1>3 DEF MotorInv, RelayInv
<1>6. PauseInv'
  BY <1>1, <1>2, <1>3, ShutterAssumption DEF MotorInv, TypeInv, PauseInv, Least
<1>7. QED
  BY <1>1, <1>2, <1>4, <1>5, <1>6 DEF MotorInv

\* A pass keeps the invariant, and turns a motor round only after the pause.
LEMMA WorkingMotorInv ==
    ASSUME MotorInv, Working(Elapse(rs)), UNCHANGED saved
    PROVE  /\ MotorInv'
           /\ rs'.up /\ ~ rs.up /\ drove = "down" => rest + PeriodMs >= PauseMs \/ flipped'
           /\ rs'.down /\ ~ rs.down /\ drove = "up" => rest + PeriodMs >= PauseMs \/ flipped'
<1> DEFINE now == Elapse(rs)
<1>1. /\ Record(now)
      /\ now.upsideDown = rs.upsideDown /\ now.dir = rs.dir
      /\ now.up = rs.up /\ now.down = rs.down
      /\ now.pause = Least(rs.pause + PeriodMs, PauseMs)
  BY ElapseKeeps
<1>2. now.dir \in {"stop", "up", "down"}
  BY <1>1 DEF MotorInv, TypeInv
<1>3. now.pause >= PauseMs
  BY DEF Working
<1>4. Drives(now, rs')
  BY <1>1, <1>2, PassDrives
<1>5. /\ flipped' = (flipped /\ (rs'.up \/ rs'.down))
      /\ drove' = IF rs'.up THEN "up" ELSE IF rs'.down THEN "down" ELSE drove
      /\ rest' = IF rs'.up \/ rs'.down THEN 0
                 ELSE IF MotorOff THEN Least(rest + PeriodMs, PauseMs) ELSE 0
  BY PassHistory
<1> HIDE DEF now
<1>6. now.pause = PauseMs /\ rs.pause + PeriodMs >= PauseMs
  BY <1>1, <1>3, ShutterAssumption DEF MotorInv, TypeInv, Least
<1>7. rs.dir = "stop" => rest + PeriodMs >= PauseMs
  BY <1>6, ShutterAssumption DEF MotorInv, TypeInv, PauseInv
<1>8. rest' \in Int /\ 0 <= PauseMs
  BY <1>5, ShutterAssumption DEF MotorInv, TypeInv, Least
<1>9. CASE Keeps(now, rs')
  <2>1. rs'.dir = rs.dir /\ rs'.up = rs.up /\ rs'.down = rs.down /\ rs'.pause = PauseMs
        /\ rs'.upsideDown = rs.upsideDown /\ Record(rs')
    BY <1>1, <1>6, <1>9 DEF Keeps
  <2>2. TypeInv'
    BY <1>5, <1>8, <2>1, ShutterAssumption DEF MotorInv, TypeInv
  <2>3. RelayInv'
    BY <1>5, <2>1 DEF MotorInv, TypeInv, RelayInv, Closing, Opening
  <2>4. PauseInv'
    BY <1>5, <1>7, <2>1, OffIsStop, ShutterAssumption
       DEF MotorInv, TypeInv, RelayInv, PauseInv, Least
  <2>5. QED
    BY <2>1, <2>2, <2>3, <2>4 DEF MotorInv
<1>10. CASE Stops(now, rs')
  <2>1. rs'.dir = "stop" /\ ~ rs'.up /\ ~ rs'.down /\ rs'.pause = 0
        /\ rs'.up \in BOOLEAN /\ rs'.down \in BOOLEAN
        /\ rs'.upsideDown = rs.upsideDown /\ Record(rs')
    BY <1>1, <1>10 DEF Stops
  <2>2. TypeInv'
    BY <1>5, <1>8, <2>1, ShutterAssumption DEF MotorInv, TypeInv
  <2>3. RelayInv'
    BY <2>1 DEF RelayInv
  <2>4. PauseInv'
    BY <1>5, <1>7, <2>1, OffIsStop, ShutterAssumption
       DEF MotorInv, TypeInv, RelayInv, PauseInv, Least
  <2>5. QED
    BY <2>1, <2>2, <2>3, <2>4 DEF MotorInv
<1>11. CASE Starts(now, rs')
  <2>1. /\ rs'.upsideDown = rs.upsideDown /\ rs'.pause = PauseMs /\ Record(rs')
        /\ rs.dir = "stop" \/ rs.dir = rs'.dir
        /\ Closing(rs') \/ Opening(rs')
    BY <1>1, <1>6, <1>11 DEF Starts
  <2>2. /\ rs'.dir \in {"up", "down"}
        /\ rs'.up \in BOOLEAN /\ rs'.down \in BOOLEAN
        /\ (rs'.up /\ ~ rs'.down) \/ (~ rs'.up /\ rs'.down)
    BY <2>1 DEF MotorInv, TypeInv, Closing, Opening
  <2>3. TypeInv'
    BY <1>5, <1>8, <2>1, <2>2, ShutterAssumption DEF MotorInv, TypeInv
  <2>4. RelayInv'
    BY <1>5, <2>1, <2>2 DEF RelayInv, Closing, Opening
  <2>5. PauseInv'
    BY <2>1, <2>2 DEF PauseInv
  <2>6. CASE rs.dir = "stop"
    BY <1>7, <2>3, <2>4, <2>5, <2>6 DEF MotorInv
  <2>7. CASE rs.dir # "stop"
    <3>1. flipped' = flipped /\ rs'.dir = rs.dir
      BY <1>5, <2>1, <2>2, <2>7 DEF MotorInv, TypeInv
    <3>2. CASE flipped
      BY <3>1, <3>2, <2>3, <2>4, <2>5 DEF MotorInv
    <3>3. CASE ~ flipped
      <4>1. rs'.up = rs.up /\ rs'.down = rs.down
        BY <2>1, <2>7, <3>1, <3>3 DEF MotorInv, RelayInv, Closing, Opening
      <4>2. QED
        BY <4>1, <2>3, <2>4, <2>5 DEF MotorInv
    <3>4. QED
      BY <3>2, <3>3
  <2>8. QED
    BY <2>6, <2>7
<1>12. QED
  BY <1>4, <1>9, <1>10, <1>11 DEF Drives

----------------------------------------------------------------------------
(* The steps. *)

\* A configuration sets the wiring; in mid-move that is noted as a flip.
LEMMA ConfigMotorInv ==
    ASSUME MotorInv, NEW closing, NEW upsideDown \in BOOLEAN,
           ApplyChannelConfig(closing, upsideDown)
    PROVE  MotorInv' /\ rs'.up = rs.up /\ rs'.down = rs.down
<1> DEFINE s == [rs EXCEPT !.closing = closing, !.opening = OpeningTime(closing)]
           timed == SetOpenCloseTime(rs, closing, OpeningTime(closing))
           set == IF timed.dir = "stop" THEN SetTargetPosition(timed, StopRequest) ELSE timed
<1>1. Record(rs)
  BY DEF MotorInv, TypeInv
<1>2. Keeps(rs, s)
  BY <1>1 DEF Record, Fields, Keeps
<1>3. Keeps(rs, SetCalibrationNeeded(s))
  BY <1>2, SetCalibrationNeededKeeps DEF Keeps
<1>4. Keeps(rs, timed)
  BY <1>1, <1>3, Zenon DEF SetOpenCloseTime, Keeps
<1>5. Keeps(rs, set)
  BY <1>4, SetTargetPositionKeeps DEF Keeps
<1>6. /\ rs' = [set EXCEPT !.upsideDown = upsideDown]
      /\ flipped' = (flipped \/ (~ MotorOff /\ upsideDown # rs.upsideDown))
      /\ UNCHANGED <<saved, drove, rest>>
  BY Zenon DEF ApplyChannelConfig
<1> HIDE DEF set
<1>7. /\ Record(rs') /\ rs'.upsideDown = upsideDown
      /\ rs'.dir = rs.dir /\ rs'.up = rs.up /\ rs'.down = rs.down /\ rs'.pause = rs.pause
  BY <1>5, <1>6 DEF Keeps, Record, Fields
<1>8. TypeInv'
  BY <1>6, <1>7 DEF MotorInv, TypeInv
<1>9. RelayInv'
  BY <1>6, <1>7, OffIsStop DEF MotorInv, TypeInv, RelayInv, MotorOff, Closing, Opening
<1>10. PauseInv'
  BY <1>6, <1>7 DEF MotorInv, PauseInv
<1>11. QED
  BY <1>7, <1>8, <1>9, <1>10 DEF MotorInv

\* No step breaks the invariant, and none turns a motor round without the pause.
LEMMA NextMotorInv ==
    ASSUME MotorInv, [Next]_vars
    PROVE  /\ MotorInv'
           /\ rs'.up /\ ~ rs.up /\ drove = "down" => rest + PeriodMs >= PauseMs \/ flipped'
           /\ rs'.down /\ ~ rs.down /\ drove = "up" => rest + PeriodMs >= PauseMs \/ flipped'
<1>1. CASE OnTimer
  BY <1>1, PausingMotorInv, WorkingMotorInv DEF OnTimer
<1>2. CASE \/ \E target \in Targets : Command(target)
           \/ \E closing \in Times, target \in Targets : HandleNewValueFromServer(closing, target)
           \/ Recalibrate
  <2>1. Keeps(rs, rs') /\ UNCHANGED <<saved, flipped, drove, rest>>
    BY <1>2, RequestKeeps DEF MotorInv, TypeInv
  <2>2. QED
    BY <2>1 DEF MotorInv, TypeInv, RelayInv, PauseInv, Keeps, Closing, Opening
<1>3. CASE \E closing \in Times, upsideDown \in BOOLEAN : ApplyChannelConfig(closing, upsideDown)
  BY <1>3, ConfigMotorInv
<1>4. CASE SaveState
  <2>1. saved'.upsideDown = rs.upsideDown /\ UNCHANGED <<rs, drove, rest, flipped>>
    BY <1>4 DEF SaveState, State, history
  <2>2. QED
    BY <2>1 DEF MotorInv, TypeInv, RelayInv, PauseInv, Record, Closing, Opening
<1>5. CASE Restart
  <2>1. /\ rs' = Boot(saved) /\ rest' = PauseMs /\ flipped' = FALSE
        /\ UNCHANGED <<saved, drove>>
    BY <1>5 DEF Restart
  <2>2. /\ Record(rs')
        /\ rs'.dir = "stop" /\ ~ rs'.up /\ ~ rs'.down
        /\ rs'.up \in BOOLEAN /\ rs'.down \in BOOLEAN /\ rs'.upsideDown \in BOOLEAN
        /\ rs'.pause = PauseMs
    BY <2>1, BootRests DEF MotorInv, TypeInv
  <2>3. saved'.upsideDown \in BOOLEAN /\ flipped' \in BOOLEAN /\ rest' = PauseMs
    BY <2>1 DEF MotorInv, TypeInv
  <2>4. TypeInv'
    BY <2>2, <2>3, ShutterAssumption DEF TypeInv
  <2>5. RelayInv' /\ PauseInv'
    BY <2>2, <2>3, ShutterAssumption DEF RelayInv, PauseInv
  <2>6. QED
    BY <2>2, <2>4, <2>5 DEF MotorInv
<1>6. CASE UNCHANGED vars
  BY <1>6 DEF vars, history, MotorInv, TypeInv, RelayInv, PauseInv, Record, Closing, Opening
<1>7. QED
  BY <1>1, <1>2, <1>3, <1>4, <1>5, <1>6 DEF Next

\* The relays, the direction and the pause go together in every state.
THEOREM MotorInvariant == Spec => []MotorInv
<1>1. Init => MotorInv
  BY InitMotorInv
<1>2. MotorInv /\ [Next]_vars => MotorInv'
  BY NextMotorInv
<1>3. QED
  BY <1>1, <1>2, PTL DEF Spec

\* The two relays are never on together, and one is on exactly while the shutter
\* counts as moving (startClosing, startOpening and stopMovement).
THEOREM RelaysExclusive ==
    Spec => [](~ (rs.up /\ rs.down) /\ (rs.dir = "stop" => MotorOff) /\ (MotorOff => rs.dir = "stop"))
<1>1. MotorInv => ~ (rs.up /\ rs.down) /\ (rs.dir = "stop" => MotorOff) /\ (MotorOff => rs.dir = "stop")
  BY DEF MotorInv, TypeInv, RelayInv, MotorOff
<1>2. QED
  BY <1>1, MotorInvariant, PTL

\* Whatever requests, configurations and restarts come in between, a motor turns
\* the other way only after the pause of onTimer, unless its wiring was changed in
\* mid-move.
THEOREM PauseBeforeReversal == Spec => ReversalPause
<1> DEFINE Pauses ==
        /\ rs'.up /\ ~ rs.up /\ drove = "down" => rest + PeriodMs >= PauseMs \/ flipped'
        /\ rs'.down /\ ~ rs.down /\ drove = "up" => rest + PeriodMs >= PauseMs \/ flipped'
<1>1. MotorInv /\ [Next]_vars => [Pauses]_vars
  BY NextMotorInv
<1>2. QED
  BY <1>1, MotorInvariant, PTL DEF Spec, ReversalPause
----------------------------------------------------------------------------
(* Types: the position, the target and the times, whatever is asked for.      *)

Typed(r) ==
    /\ Record(r)
    /\ r.pos \in Positions /\ r.before \in Positions
    /\ r.target \in StopRequest .. 100
    /\ r.since \in 0 .. ClockCapMs /\ r.pause \in 0 .. PauseMs
    /\ r.closing \in Nat /\ r.opening \in Nat

DataInv ==
    /\ Typed(rs)
    /\ saved.pos \in Unknown .. 100 /\ saved.closing \in Nat /\ saved.opening \in Nat
    /\ shutter \in 0 .. Way

\* Every closing time gives an opening time.
LEMMA OpeningTimeType == ASSUME NEW t \in Nat PROVE OpeningTime(t) \in Nat
  BY ShutterAssumption DEF OpeningTime

\* The bound of the clock is a number.
LEMMA ClockCapType == ClockCapMs \in Nat
<1> DEFINE longest == CHOOSE t \in Times \cup {RealTime} :
                         \A u \in Times \cup {RealTime} : t >= u
<1>1. \E t \in Times \cup {RealTime} : \A u \in Times \cup {RealTime} : t >= u
  <2>1. PICK m \in Times \cup {RealTime} :
           \A time \in Times : time <= m /\ RealTime <= m
    BY ShutterAssumption
  <2>2. m \in Nat /\ Times \subseteq Nat /\ RealTime \in Nat
    BY ShutterAssumption
  <2>3. RealTime <= m
    BY <2>1, <2>2
  <2> QED
    BY <2>1, <2>2, <2>3
<1>2. longest \in Times \cup {RealTime}
  BY <1>1
<1>3. OpeningTime(longest) \in Nat
  BY <1>2, OpeningTimeType, ShutterAssumption
<1>4. ClockCapMs = Greatest(DefaultTimeoutMs, 2 * OpeningTime(longest)) + 2 * PeriodMs
  BY Zenon DEF ClockCapMs
<1> HIDE DEF longest
<1> QED
  BY <1>3, <1>4, ShutterAssumption DEF Greatest

\* The whole way is a number of steps.
LEMMA FullTravelType == FullTravel \in Nat \ {0}
BY DEF FullTravel

\* The percentage of a position.
LEMMA CurrentPositionType ==
    ASSUME NEW r, Typed(r)
    PROVE  GetCurrentPosition(r) \in Unknown .. 100
<1>1. PICK p \in Positions : p = r.pos
  BY DEF Typed
<1>2. p = -100 \/ p = -1 \/ p \in 0 .. FullTravel
  BY DEF Positions, Travel, Unknown
<1>3. PICK q : q = IF p < 0 THEN -1 ELSE (p + 50) \div 100
  OBVIOUS
<1>4. q \in -1 .. 100
  <2>1. CASE p \in 0 .. FullTravel
    BY <2>1, <1>3 DEF FullTravel
  <2>2. CASE p = -1
    BY <2>2, <1>3
  <2>3. CASE p = -100
    BY <2>3, <1>3
  <2> QED
    BY <2>1, <2>2, <2>3, <1>2
<1>5. GetCurrentPosition(r) = q
  BY Zenon, <1>1, <1>3 DEF GetCurrentPosition, Unknown
<1> QED
  BY <1>4, <1>5 DEF Unknown

\* An integer quotient of numbers.
LEMMA QuotientType ==
    ASSUME NEW a \in Nat, NEW b \in Nat \ {0}
    PROVE  a \div b \in Nat
  OBVIOUS

\* The position computed from the time lies between open and closed, or is unknown.
LEMMA MeasuredType ==
    ASSUME NEW r, Typed(r)
    PROVE  MeasuredPosition(r) \in Positions
<1> DEFINE up == r.dir = "up"
           full == IF up THEN r.opening ELSE r.closing
           distance == IF up THEN r.before ELSE FullTravel - r.before
           required == (full * distance) \div FullTravel
           moved == IF distance <= 0 \/ required = 0
                    THEN 0
                    ELSE (distance * Least(r.since, required)) \div required
           position == IF up THEN r.before - moved ELSE r.before + moved
<1>1. /\ full \in Nat /\ distance \in Int /\ r.before \in Int /\ r.since \in Nat
  <2>1. r.before \in Int
    <3>1. Positions \subseteq Int
      BY DEF Positions, Travel, Unknown
    <3> QED
      BY <3>1 DEF Typed
  <2>2. r.opening \in Nat /\ r.closing \in Nat /\ r.since \in Nat
    BY ClockCapType DEF Typed
  <2> QED
    BY <2>1, <2>2, FullTravelType
<1>2. MeasuredPosition(r) = IF position < Unknown THEN 0 ELSE Least(position, FullTravel)
  BY DEF MeasuredPosition
<1>3. moved \in Int
  <2> HIDE DEF full, distance
  <2>1. CASE distance <= 0
    BY <2>1
  <2>2. CASE ~(distance <= 0)
    <3>1. distance \in Nat /\ full * distance \in Nat
      BY <2>2, <1>1
    <3>2. required \in Nat
      <4> HIDE DEF required
      <4>1. (full * distance) \div FullTravel \in Nat
        BY <3>1, QuotientType, FullTravelType
      <4> QED
        BY <4>1 DEF required
    <3> HIDE DEF required
    <3>3. CASE required = 0
      BY <3>3
    <3>4. CASE required # 0
      <4>1. Least(r.since, required) \in Nat
        BY <3>2, <1>1 DEF Least
      <4>2. distance * Least(r.since, required) \in Nat
        BY <4>1, <3>1
      <4>3. (distance * Least(r.since, required)) \div required \in Nat
        BY <4>2, <3>2, <3>4, QuotientType
      <4> QED
        BY <4>3
    <3> QED
      BY <3>3, <3>4
  <2> QED
    BY <2>1, <2>2
<1>4. position \in Int
  BY <1>1, <1>3
<1> HIDE DEF position
<1>5. PICK p \in Int : p = position
  BY <1>4
<1>6. PICK q : q = IF p < -1 THEN 0 ELSE IF p < FullTravel THEN p ELSE FullTravel
  OBVIOUS
<1>7. MeasuredPosition(r) = q
  <2>1. MeasuredPosition(r) = IF p < Unknown THEN 0 ELSE Least(p, FullTravel)
    BY <1>2, <1>5
  <2> QED
    BY <2>1, <1>6 DEF Least, Unknown
<1>8. q \in -1 .. FullTravel
  BY <1>6, FullTravelType
<1>9. q \in Positions
  BY <1>8 DEF Positions, Travel, Unknown
<1> QED
  BY <1>7, <1>9

\* Members that stay, but for the ones the methods assign one by one.
SameData(r, s) ==
    /\ Record(s)
    /\ s.pos = r.pos /\ s.before = r.before /\ s.target = r.target
    /\ s.since = r.since /\ s.pause = r.pause
    /\ s.closing = r.closing /\ s.opening = r.opening

\* Where they stay, so do the types.
LEMMA SameTyped == ASSUME NEW r, NEW s, Typed(r), SameData(r, s) PROVE Typed(s)
  BY DEF Typed, SameData

\* A new position.
LEMMA PositionTyped ==
    ASSUME NEW r, Typed(r), NEW p \in Positions
    PROVE  Typed([r EXCEPT !.pos = p])
<1> DEFINE s == [r EXCEPT !.pos = p]
<1>1. /\ Record(s) /\ s.pos = p
      /\ s.before = r.before /\ s.target = r.target
      /\ s.since = r.since /\ s.pause = r.pause
      /\ s.closing = r.closing /\ s.opening = r.opening
  BY DEF Typed, Record, Fields
<1> HIDE DEF s
<1>2. Typed(s)
  BY <1>1 DEF Typed
<1> QED
  BY <1>2 DEF s

\* A new target.
LEMMA TargetTyped ==
    ASSUME NEW r, Typed(r), NEW t \in StopRequest .. 100
    PROVE  Typed(SetTargetPosition(r, t))
<1> DEFINE s == SetTargetPosition(r, t)
<1>1. /\ Record(s) /\ s.target = t
      /\ s.pos = r.pos /\ s.before = r.before
      /\ s.since = r.since /\ s.pause = r.pause
      /\ s.closing = r.closing /\ s.opening = r.opening
  BY DEF Typed, Record, Fields, SetTargetPosition
<1> HIDE DEF s
<1>2. Typed(s)
  BY <1>1 DEF Typed
<1> QED
  BY <1>2 DEF s

\* Members of no type.
LEMMA OthersTyped ==
    ASSUME NEW r, Typed(r)
    PROVE  /\ \A t : Typed([r EXCEPT !.timeout = t])
           /\ \A b : Typed([r EXCEPT !.newTarget = b])
           /\ \A b : Typed([r EXCEPT !.calibrate = b])
           /\ \A b : Typed([r EXCEPT !.upsideDown = b])
           /\ \A t : Typed([r EXCEPT !.calTime = t])
<1>1. /\ \A t : SameData(r, [r EXCEPT !.timeout = t])
      /\ \A b : SameData(r, [r EXCEPT !.newTarget = b])
      /\ \A b : SameData(r, [r EXCEPT !.calibrate = b])
      /\ \A b : SameData(r, [r EXCEPT !.upsideDown = b])
      /\ \A t : SameData(r, [r EXCEPT !.calTime = t])
  BY DEF SameData, Typed, Record, Fields
<1> QED
  BY <1>1, SameTyped

\* The position at the start of a move.
LEMMA BeforeTyped ==
    ASSUME NEW r, Typed(r)
    PROVE  Typed([r EXCEPT !.newTarget = FALSE, !.before = r.pos])
<1> DEFINE s == [r EXCEPT !.newTarget = FALSE, !.before = r.pos]
<1>1. /\ Record(s) /\ s.pos = r.pos /\ s.before = r.pos /\ s.target = r.target
      /\ s.since = r.since /\ s.pause = r.pause
      /\ s.closing = r.closing /\ s.opening = r.opening
  BY DEF Typed, Record, Fields
<1> HIDE DEF s
<1>2. Typed(s)
  BY <1>1 DEF Typed
<1> QED
  BY <1>2 DEF s

\* The end of a calibration, or the request of one.
LEMMA SetPositionTyped ==
    ASSUME NEW r, Typed(r), NEW p \in {Unknown, 0, 100}
    PROVE  Typed(SetCurrentPosition(r, p))
<1>1. p * 100 \in Positions
  <2>1. p = -1 \/ p = 0 \/ p = 100
    BY DEF Unknown
  <2>2. PICK q : q = p * 100
    OBVIOUS
  <2>3. q = -100 \/ q = 0 \/ q = FullTravel
    BY <2>1, <2>2 DEF FullTravel
  <2>4. q \in Positions
    BY <2>3, FullTravelType DEF Positions, Travel
  <2> QED
    BY <2>2, <2>4
<1>2. PICK q \in Positions : q = p * 100
  BY <1>1
<1>3. SetCurrentPosition(r, p) = [r EXCEPT !.calTime = 0, !.pos = q, !.calibrate = FALSE]
  BY Zenon, <1>2 DEF SetCurrentPosition
<1> DEFINE s == [r EXCEPT !.calTime = 0, !.pos = q, !.calibrate = FALSE]
<1>4. /\ Record(s) /\ s.pos = q /\ s.before = r.before /\ s.target = r.target
      /\ s.since = r.since /\ s.pause = r.pause
      /\ s.closing = r.closing /\ s.opening = r.opening
  BY DEF Typed, Record, Fields
<1> HIDE DEF s
<1>5. Typed(s)
  BY <1>4 DEF Typed
<1> QED
  BY <1>3, <1>5 DEF s

\* The closing and opening times.
LEMMA TimesTyped ==
    ASSUME NEW r, Typed(r), NEW c \in Nat, NEW o \in Nat
    PROVE  Typed(SetOpenCloseTime(r, c, o))
<1> DEFINE s == [r EXCEPT !.closing = c, !.opening = o]
<1>1. /\ Record(s) /\ s.closing = c /\ s.opening = o
      /\ s.pos = r.pos /\ s.before = r.before /\ s.target = r.target
      /\ s.since = r.since /\ s.pause = r.pause
  BY DEF Typed, Record, Fields
<1>2. SetOpenCloseTime(r, c, o) = IF c = r.closing /\ o = r.opening
                                  THEN r ELSE SetCalibrationNeeded(s)
  BY Zenon DEF SetOpenCloseTime
<1> HIDE DEF s
<1>3. Typed(s)
  BY <1>1 DEF Typed
<1>4. Typed(SetCalibrationNeeded(s))
  BY <1>3, SetPositionTyped, OthersTyped DEF SetCalibrationNeeded
<1> QED
  BY <1>2, <1>4

\* stopMovement.
LEMMA StopTyped == ASSUME NEW r, Typed(r) PROVE Typed(StopMovement(r))
<1> DEFINE s == StopMovement(r)
<1>1. /\ Record(s) /\ s.pause = 0
      /\ s.pos = r.pos /\ s.before = r.before /\ s.target = r.target
      /\ s.since = r.since
      /\ s.closing = r.closing /\ s.opening = r.opening
  BY DEF Typed, Record, Fields, StopMovement
<1>2. 0 \in 0 .. PauseMs
  BY ShutterAssumption
<1> HIDE DEF s
<1>3. Typed(s)
  BY <1>1, <1>2 DEF Typed
<1> QED
  BY <1>3 DEF s

\* The start of a move.
LEMMA StartTyped == ASSUME NEW r, NEW dir, Typed(r) PROVE Typed(Start(r, dir))
<1> DEFINE s == Start(r, dir)
<1>1. /\ Record(s) /\ s.since = 0
      /\ s.pos = r.pos /\ s.before = r.before /\ s.target = r.target
      /\ s.pause = r.pause
      /\ s.closing = r.closing /\ s.opening = r.opening
  BY DEF Typed, Record, Fields, Start, StartClosing, StartOpening
<1>2. 0 \in 0 .. ClockCapMs
  BY ClockCapType
<1> HIDE DEF s
<1>3. Typed(s)
  BY <1>1, <1>2 DEF Typed
<1> QED
  BY <1>3 DEF s

\* The start of a calibration.
LEMMA StartCalibrationTyped ==
    ASSUME NEW r, NEW time, Typed(r)
    PROVE  Typed(StartCalibration(r, time))
<1> DEFINE s == StartCalibration(r, time)
<1>1. /\ Record(s) /\ s.pos = 0
      /\ s.before = r.before /\ s.target = r.target
      /\ s.since = r.since /\ s.pause = r.pause
      /\ s.closing = r.closing /\ s.opening = r.opening
  BY DEF Typed, Record, Fields, StartCalibration
<1>2. 0 \in Positions
  BY FullTravelType DEF Positions, Travel
<1> HIDE DEF s
<1>3. Typed(s)
  BY <1>1, <1>2 DEF Typed
<1> QED
  BY <1>3 DEF s
\* The special targets are targets.
LEMMA TargetNames ==
    /\ StopRequest \in StopRequest .. 100 /\ StopPosition \in StopRequest .. 100
    /\ Unknown \in StopRequest .. 100 /\ 0 \in StopRequest .. 100
    /\ Targets \subseteq StopRequest .. 100
  BY ShutterAssumption DEF StopRequest, StopPosition, Unknown, Targets, MoveUp, MoveDown

\* A target assigned on its own.
LEMMA PlainTargetTyped ==
    ASSUME NEW r, Typed(r), NEW t \in StopRequest .. 100
    PROVE  Typed([r EXCEPT !.target = t])
<1> DEFINE s == [r EXCEPT !.target = t]
<1>1. /\ Record(s) /\ s.target = t
      /\ s.pos = r.pos /\ s.before = r.before
      /\ s.since = r.since /\ s.pause = r.pause
      /\ s.closing = r.closing /\ s.opening = r.opening
  BY DEF Typed, Record, Fields
<1> HIDE DEF s
<1>2. Typed(s)
  BY <1>1 DEF Typed
<1> QED
  BY <1>2 DEF s

\* The head of a pass.
LEMMA HandleStopTyped == ASSUME NEW r, Typed(r) PROVE Typed(HandleStop(r))
<1> DEFINE off == [StopMovement(r) EXCEPT !.target = StopPosition, !.calTime = 0]
           stopped == IF (r.target = StopPosition /\ r.dir # "stop") \/ r.target = StopRequest
                      THEN off ELSE r
<1>1. Typed(off)
  <2> DEFINE s == StopMovement(r)
             t == [s EXCEPT !.target = StopPosition]
  <2>1. Typed(s)
    BY StopTyped
  <2> HIDE DEF s
  <2>2. Typed(t)
    BY <2>1, TargetNames, PlainTargetTyped
  <2>3. off = [t EXCEPT !.calTime = 0]
    BY <2>1 DEF s, Typed, Record, Fields
  <2> HIDE DEF t
  <2> QED
    BY <2>2, <2>3, OthersTyped
<1> HIDE DEF off
<1>2. Typed(stopped)
  BY <1>1
<1>3. HandleStop(r) =
         [stopped EXCEPT !.newTarget = stopped.newTarget /\ stopped.target # StopPosition]
  BY DEF HandleStop, off
<1> HIDE DEF stopped
<1> QED
  BY <1>2, <1>3, OthersTyped

\* The beginning of a calibration.
LEMMA BeginCalibrationTyped == ASSUME NEW r, Typed(r) PROVE Typed(BeginCalibration(r))
<1> DEFINE dir == IF r.target > 50 \/ r.target = MoveDown THEN "down" ELSE "up"
           time == IF dir = "down" THEN r.closing ELSE r.opening
           q == [r EXCEPT !.timeout = 0]
           begun == StartCalibration(q, time)
           set == IF InProgress(begun) THEN begun
                  ELSE [begun EXCEPT !.timeout = DefaultTimeoutMs]
<1>1. BeginCalibration(r) = IF r.dir \notin {"stop", dir}
                            THEN StopMovement(q) ELSE Start(set, dir)
  BY Zenon DEF BeginCalibration
<1>2. Typed(q)
  BY OthersTyped
<1> HIDE DEF q, dir, time
<1>3. Typed(begun)
  BY <1>2, StartCalibrationTyped
<1> HIDE DEF begun
<1>4. Typed(set)
  BY <1>3, OthersTyped
<1> HIDE DEF set
<1>5. Typed(StopMovement(q)) /\ Typed(Start(set, dir))
  BY <1>2, <1>4, StopTyped, StartTyped
<1> QED
  BY <1>1, <1>5

\* The end of a calibration.
LEMMA EndCalibrationTyped == ASSUME NEW r, Typed(r) PROVE Typed(EndCalibration(r))
<1> DEFINE end == IF r.dir = "up" THEN 0 ELSE 100
           done == SetCurrentPosition(r, end)
           set == IF r.target < 0 THEN SetTargetPosition(done, StopRequest) ELSE done
<1>1. EndCalibration(r) = IF ~ InProgress(r) \/ r.since <= r.calTime
                          THEN r ELSE StopMovement(set)
  BY Zenon DEF EndCalibration
<1>2. end \in {Unknown, 0, 100}
  OBVIOUS
<1> HIDE DEF end
<1>3. Typed(done)
  BY <1>2, SetPositionTyped
<1> HIDE DEF done
<1>4. Typed(set)
  BY <1>3, TargetNames, TargetTyped
<1> HIDE DEF set
<1>5. Typed(StopMovement(set))
  BY <1>4, StopTyped
<1> QED
  BY <1>1, <1>5

\* A pass of a calibration.
LEMMA CalibrateTyped == ASSUME NEW r, Typed(r) PROVE Typed(Calibrate(r))
<1>1. PICK b \in {r, BeginCalibration(r)} :
         Calibrate(r) = IF r.target = StopPosition THEN r ELSE EndCalibration(b)
  BY Zenon DEF Calibrate
<1>2. Typed(b)
  BY BeginCalibrationTyped
<1>3. Typed(EndCalibration(b))
  BY <1>2, EndCalibrationTyped
<1> QED
  BY <1>1, <1>3

\* A move under way.
LEMMA ContinueMoveTyped == ASSUME NEW r, Typed(r) PROVE Typed(ContinueMove(r))
<1> DEFINE c == CalculateCurrentPosition(r)
           margin == TimeMargin(IF r.dir = "up" THEN r.opening ELSE r.closing)
           on == [c EXCEPT !.target = Unknown, !.since = 0, !.timeout = margin]
<1>1. ContinueMove(r) \in {c, on, StopMovement(c)}
  BY Zenon DEF ContinueMove
<1>2. Typed(c)
  <2>1. Typed([r EXCEPT !.pos = MeasuredPosition(r)])
    BY MeasuredType, PositionTyped
  <2> QED
    BY Zenon, <2>1 DEF CalculateCurrentPosition
<1> HIDE DEF c, margin
<1>3. Typed(on)
  <2>1. /\ Record(on) /\ on.target = Unknown /\ on.since = 0
        /\ on.pos = c.pos /\ on.before = c.before /\ on.pause = c.pause
        /\ on.closing = c.closing /\ on.opening = c.opening
    BY <1>2 DEF Typed, Record, Fields
  <2>2. 0 \in 0 .. ClockCapMs
    BY ClockCapType
  <2> HIDE DEF on
  <2> QED
    BY <1>2, <2>1, <2>2, TargetNames DEF Typed
<1> HIDE DEF on
<1> QED
  BY <1>1, <1>2, <1>3, StopTyped

\* A new target.
LEMMA BeginMoveTyped == ASSUME NEW r, NEW dir, Typed(r) PROVE Typed(BeginMove(r, dir))
<1> DEFINE s == [r EXCEPT !.newTarget = FALSE, !.before = r.pos]
           k == [r EXCEPT !.newTarget = FALSE]
<1>1. Typed(s) /\ Typed(k)
  BY BeforeTyped, OthersTyped
<1>2. BeginMove(r, dir) \in {k, Start(s, dir), StopMovement(r)}
  BY Zenon DEF BeginMove
<1> HIDE DEF s, k
<1> QED
  BY <1>1, <1>2, StartTyped, StopTyped

\* A calibrated pass.
LEMMA MoveTyped == ASSUME NEW r, Typed(r) PROVE Typed(Move(r))
<1> DEFINE t == [r EXCEPT !.timeout = Timeout(r)]
           dir == Direction(r)
<1>1. Move(r) \in {BeginMove(t, dir), ContinueMove(r), r}
  BY Zenon DEF Move
<1>2. Typed(t)
  BY OthersTyped
<1> HIDE DEF t, dir
<1> QED
  BY <1>1, <1>2, BeginMoveTyped, ContinueMoveTyped

\* An uncalibrated pass.
LEMMA MoveBlindlyTyped == ASSUME NEW r, Typed(r) PROVE Typed(MoveBlindly(r))
<1> DEFINE b == [r EXCEPT !.pos = Unknown]
           dir == CASE r.target \in {MoveUp, 0} -> "up"
                    [] r.target \in {MoveDown, 100} -> "down"
                    [] OTHER -> "stop"
           t == [b EXCEPT !.timeout = DefaultTimeoutMs]
           moved == BeginMove(t, dir)
           reset == [moved EXCEPT !.timeout = 0]
           kept == [moved EXCEPT !.before = r.before]
<1>1. MoveBlindly(r) = IF ~ r.newTarget THEN b
                       ELSE IF dir # r.dir /\ r.dir # "stop" THEN reset ELSE kept
  BY Zenon DEF MoveBlindly
<1> HIDE DEF dir
<1>2. Unknown \in Positions
  BY DEF Positions, Travel
<1>3. Typed(b)
  BY <1>2, PositionTyped
<1> HIDE DEF b
<1>4. Typed(t)
  BY <1>3, OthersTyped
<1> HIDE DEF t
<1>5. Typed(moved)
  BY <1>4, BeginMoveTyped
<1> HIDE DEF moved
<1>6. Typed(reset)
  BY <1>5, OthersTyped
<1>7. Typed(kept)
  <2>1. /\ Record(kept) /\ kept.before = r.before
        /\ kept.pos = moved.pos /\ kept.target = moved.target
        /\ kept.since = moved.since /\ kept.pause = moved.pause
        /\ kept.closing = moved.closing /\ kept.opening = moved.opening
    BY <1>5 DEF Typed, Record, Fields
  <2> HIDE DEF kept
  <2> QED
    BY <1>5, <2>1 DEF Typed
<1> HIDE DEF kept, reset
<1> QED
  BY <1>1, <1>3, <1>6, <1>7

\* The end of a pass.
LEMMA TimedOutTyped == ASSUME NEW r, Typed(r) PROVE Typed(TimedOut(r))
<1> DEFINE s == SetTargetPosition(r, StopRequest)
<1>1. TimedOut(r) \in {r, [s EXCEPT !.timeout = 0]}
  BY Zenon DEF TimedOut
<1>2. Typed(s)
  BY TargetNames, TargetTyped
<1> HIDE DEF s
<1> QED
  BY <1>1, <1>2, OthersTyped

\* Time goes by.
LEMMA ElapseTyped == ASSUME NEW r, Typed(r) PROVE Typed(Elapse(r))
<1> DEFINE over == r.dir = "stop" /\ r.timeout = 0
           since == IF over THEN ClockCapMs ELSE Least(r.since + PeriodMs, ClockCapMs)
           pause == Least(r.pause + PeriodMs, PauseMs)
           s == [r EXCEPT !.since = since, !.pause = pause]
<1>1. Elapse(r) = s
  BY DEF Elapse
<1>2. since \in 0 .. ClockCapMs /\ pause \in 0 .. PauseMs
  BY ClockCapType, ShutterAssumption DEF Typed, Least
<1> HIDE DEF since, pause
<1>3. /\ Record(s) /\ s.since = since /\ s.pause = pause
      /\ s.pos = r.pos /\ s.before = r.before /\ s.target = r.target
      /\ s.closing = r.closing /\ s.opening = r.opening
  BY DEF Typed, Record, Fields
<1> HIDE DEF s
<1>4. Typed(s)
  BY <1>2, <1>3 DEF Typed
<1> QED
  BY <1>1, <1>4

\* Boot takes what was saved.
LEMMA BootTyped ==
    ASSUME NEW s, s.pos \in Unknown .. 100, s.closing \in Nat, s.opening \in Nat
    PROVE  Typed(Boot(s))
<1> DEFINE r == Boot(s)
<1>1. s.pos * 100 \in Positions
  <2>1. PICK p \in -1 .. 100 : p = s.pos
    BY DEF Unknown
  <2>2. PICK q : q = p * 100
    OBVIOUS
  <2>3. CASE p = -1
    BY <2>1, <2>2, <2>3 DEF Positions, Travel
  <2>4. CASE p # -1
    <3>1. q \in 0 .. FullTravel
      <4>1. PICK top \in Nat : top = 100 * 100
        OBVIOUS
      <4>2. q \in 0 .. top
        <5>1. p \in Int /\ 0 <= p /\ p <= 100
          BY <2>1, <2>4
        <5>2. q \in Int /\ 0 <= q /\ q <= top
          BY <5>1, <2>2, <4>1
        <5> QED
          BY <5>2
      <4>3. top = FullTravel
        BY <4>1 DEF FullTravel
      <4> QED
        BY <4>2, <4>3
    <3>2. q \in Positions
      BY <3>1 DEF Positions, Travel
    <3> QED
      BY <3>2, <2>1, <2>2
  <2> QED
    BY <2>3, <2>4
<1>2. PICK q \in Positions : q = s.pos * 100
  BY <1>1
<1>3. /\ r.pos = q /\ r.before = Unknown /\ r.target = StopPosition
      /\ r.since = ClockCapMs /\ r.pause = PauseMs
      /\ r.closing = s.closing /\ r.opening = s.opening
  BY <1>2 DEF Boot
<1>4. Record(r)
  BY DEF Record, Fields, Boot
<1>5. ClockCapMs \in 0 .. ClockCapMs /\ PauseMs \in 0 .. PauseMs /\ Unknown \in Positions
  BY ClockCapType, ShutterAssumption DEF Positions, Travel
<1> HIDE DEF r
<1>6. Typed(r)
  BY <1>3, <1>4, <1>5, TargetNames DEF Typed
<1> QED
  BY <1>6 DEF r

\* The speeds are whole numbers.
LEMMA WayType ==
    /\ RealTime \in Nat \ {0} /\ OpeningTime(RealTime) \in Nat \ {0}
    /\ OpeningTime(RealTime) >= RealTime
    /\ Way \in Nat \ {0} /\ Way = RealTime * OpeningTime(RealTime)
<1>1. /\ RealTime \in Nat \ {0} /\ OpeningTime(RealTime) \in Nat \ {0}
      /\ OpeningTime(RealTime) >= RealTime
  BY ShutterAssumption DEF OpeningTime
<1>2. PICK o \in Nat \ {0} : o = OpeningTime(RealTime)
  BY <1>1
<1>3. RealTime * o \in Nat \ {0}
  BY <1>1
<1> QED
  BY <1>1, <1>2, <1>3, Zenon DEF Way

\* The shutter stays between its ends.
LEMMA DriveType == ASSUME NEW at \in 0 .. Way PROVE Drive(at) \in 0 .. Way
<1>1. PICK o \in Nat : o = PeriodMs * OpeningTime(RealTime)
  BY WayType, ShutterAssumption
<1>2. PICK c \in Nat : c = PeriodMs * RealTime
  BY WayType, ShutterAssumption
<1>3. Drive(at) = IF rs.up THEN Greatest(at - c, 0)
                  ELSE IF rs.down THEN Least(at + o, Way) ELSE at
  BY <1>1, <1>2, Zenon DEF Drive
<1> QED
  BY <1>3, WayType DEF Greatest, Least

\* No step breaks the types.
LEMMA NextDataInv == DataInv /\ [Next]_vars => DataInv'
<1> SUFFICES ASSUME DataInv, [Next]_vars PROVE DataInv'
  OBVIOUS
<1>1. Typed(rs)
  BY DEF DataInv
<1>2. CASE OnTimer
  <2> DEFINE now == Elapse(rs)
  <2>1. Typed(now)
    BY <1>1, ElapseTyped
  <2>2. shutter' \in 0 .. Way /\ UNCHANGED saved
    <3>1. shutter' = Drive(shutter) /\ UNCHANGED saved
      BY <1>2 DEF OnTimer
    <3>2. shutter \in 0 .. Way
      BY DEF DataInv
    <3> QED
      BY Zenon, <3>1, <3>2, DriveType
  <2>3. Pausing(now) \/ Working(now)
    BY <1>2 DEF OnTimer
  <2> HIDE DEF now
  <2>4. CASE Pausing(now)
    BY <2>1, <2>2, <2>4 DEF Pausing, DataInv
  <2>5. CASE Working(now)
    <3> DEFINE r == HandleStop(now)
    <3>1. PICK done \in {Calibrate(r), Move(r), MoveBlindly(r)} : rs' = TimedOut(done)
      BY <2>5 DEF Working, EndPass
    <3>2. Typed(r)
      BY <2>1, HandleStopTyped
    <3> HIDE DEF r
    <3>3. Typed(done)
      BY <3>1, <3>2, CalibrateTyped, MoveTyped, MoveBlindlyTyped
    <3>4. Typed(rs')
      BY <3>1, <3>3, TimedOutTyped
    <3> QED
      BY <2>2, <3>4 DEF DataInv
  <2> QED
    BY <2>3, <2>4, <2>5
<1>3. ASSUME NEW target \in Targets, Command(target) PROVE DataInv'
  <2>1. Typed(SetTargetPosition(rs, target))
    BY <1>1, TargetNames, TargetTyped
  <2> QED
    BY <2>1, <1>3 DEF Command, DataInv
<1>4. ASSUME NEW closing \in Times, NEW target \in Targets,
             HandleNewValueFromServer(closing, target)
      PROVE  DataInv'
  <2> DEFINE s == SetOpenCloseTime(rs, closing, OpeningTime(closing))
  <2>1. closing \in Nat /\ OpeningTime(closing) \in Nat
    BY OpeningTimeType, ShutterAssumption
  <2>2. Typed(s)
    BY <1>1, <2>1, TimesTyped
  <2>3. rs' = SetTargetPosition(s, target) /\ UNCHANGED <<saved, shutter>>
    BY <1>4 DEF HandleNewValueFromServer
  <2> HIDE DEF s
  <2>4. Typed(rs')
    BY <2>2, <2>3, TargetNames, TargetTyped
  <2> QED
    BY <2>3, <2>4 DEF DataInv
<1>5. CASE Recalibrate
  <2> DEFINE s == SetCalibrationNeeded(rs)
  <2>1. Typed(s)
    BY <1>1, SetPositionTyped, OthersTyped DEF SetCalibrationNeeded
  <2>2. rs' = SetTargetPosition(s, 0) /\ UNCHANGED <<saved, shutter>>
    BY <1>5 DEF Recalibrate
  <2> HIDE DEF s
  <2>3. Typed(rs')
    BY <2>1, <2>2, TargetNames, TargetTyped
  <2> QED
    BY <2>2, <2>3 DEF DataInv
<1>6. ASSUME NEW closing \in Times, NEW upsideDown \in BOOLEAN,
             ApplyChannelConfig(closing, upsideDown)
      PROVE  DataInv'
  <2> DEFINE timed == SetOpenCloseTime(rs, closing, OpeningTime(closing))
             set == IF timed.dir = "stop" THEN SetTargetPosition(timed, StopRequest) ELSE timed
  <2>1. closing \in Nat /\ OpeningTime(closing) \in Nat
    BY OpeningTimeType, ShutterAssumption
  <2>2. Typed(timed)
    BY <1>1, <2>1, TimesTyped
  <2>3. rs' = [set EXCEPT !.upsideDown = upsideDown] /\ UNCHANGED <<saved, shutter>>
    BY <1>6, Zenon DEF ApplyChannelConfig
  <2> HIDE DEF timed
  <2>4. Typed(set)
    BY <2>2, TargetNames, TargetTyped
  <2> HIDE DEF set
  <2>5. Typed(rs')
    BY <2>3, <2>4, OthersTyped
  <2> QED
    BY <2>3, <2>5 DEF DataInv
<1>7. CASE SaveState
  <2>1. /\ saved'.pos = GetCurrentPosition(rs)
        /\ saved'.closing = rs.closing /\ saved'.opening = rs.opening
        /\ UNCHANGED <<rs, shutter>>
    BY <1>7 DEF SaveState, State
  <2>2. GetCurrentPosition(rs) \in Unknown .. 100 /\ rs.closing \in Nat /\ rs.opening \in Nat
    BY <1>1, CurrentPositionType DEF Typed
  <2> QED
    BY <2>1, <2>2 DEF DataInv
<1>8. CASE Restart
  <2>1. rs' = Boot(saved) /\ UNCHANGED <<saved, shutter>>
    BY <1>8 DEF Restart
  <2>2. Typed(Boot(saved))
    BY BootTyped DEF DataInv
  <2> QED
    BY <2>1, <2>2 DEF DataInv
<1>9. CASE UNCHANGED vars
  BY <1>9 DEF vars, DataInv
<1> QED
  BY <1>2, <1>3, <1>4, <1>5, <1>6, <1>7, <1>8, <1>9 DEF Next

\* So they start.
LEMMA InitDataInv == ASSUME Init PROVE DataInv
<1>1. /\ saved.pos = Unknown /\ saved.closing = 0 /\ saved.opening = 0
      /\ rs = Boot(saved) /\ shutter = Way
  BY DEF Init
<1>2. saved.pos \in Unknown .. 100
  BY <1>1 DEF Unknown
<1>3. Typed(Boot(saved))
  BY <1>1, <1>2, BootTyped
<1> QED
  BY <1>1, <1>2, <1>3, WayType DEF DataInv

\* Position, target, times and relays stay within their types in every state.
THEOREM ShutterTypes == Spec => []TypeOK
<1>1. Init => DataInv
  BY InitDataInv
<1>2. MotorInv /\ DataInv => TypeOK
  <2> SUFFICES ASSUME MotorInv, DataInv PROVE TypeOK
    OBVIOUS
  <2>1. rs.dir \in {"stop", "up", "down"} /\ ~ (rs.up /\ rs.down)
    BY DEF MotorInv, TypeInv, RelayInv
  <2>2. (rs.dir = "stop") = MotorOff
    BY DEF MotorInv, RelayInv, MotorOff
  <2>3. /\ rs.pos \in Positions /\ rs.target \in StopRequest .. 100
        /\ rs.since \in 0 .. ClockCapMs /\ rs.pause \in 0 .. PauseMs
        /\ shutter \in 0 .. Way /\ saved.pos \in Unknown .. 100
    BY Zenon DEF DataInv, Typed
  <2> QED
    BY <2>1, <2>2, <2>3, Zenon DEF TypeOK
<1> QED
  BY <1>1, <1>2, NextDataInv, MotorInvariant, PTL DEF Spec

----------------------------------------------------------------------------
(* How far the motor moves the position in a pass, and what a measured position *)
(* says of the way the shutter went.                                            *)

\* What the position is moved by in t milliseconds, of a way n that takes the
\* time full, when d of it are left: by the share of t, but for one and the way
\* of a millisecond.
LEMMA MovedIs ==
    ASSUME NEW n \in Nat \ {0}, NEW full \in Nat \ {0}, NEW d \in Nat, NEW t \in Nat
    PROVE  LET q == (full * d) \div n
               x == IF d <= 0 \/ q = 0 THEN 0 ELSE (d * Least(t, q)) \div q
           IN  /\ x \in 0 .. d
               /\ x * full <= t * n + n
               /\ (x + 1) * full >= t * n \/ (d - x) * full <= n
<1> DEFINE q == (full * d) \div n
           x == IF d <= 0 \/ q = 0 THEN 0 ELSE (d * Least(t, q)) \div q
<1>1. PICK p \in Nat : p = full * d /\ p = d * full
  OBVIOUS
<1>2. q \in Nat /\ q * n <= p /\ p < q * n + n
  BY <1>1, QuotientIs
<1>3. t * n \in Nat
  OBVIOUS
<1> HIDE DEF q
<1>8. x = IF d <= 0 \/ q = 0 THEN 0 ELSE (d * Least(t, q)) \div q
  OBVIOUS
<1> SUFFICES x \in 0 .. d /\ x * full <= t * n + n
             /\ ((x + 1) * full >= t * n \/ (d - x) * full <= n)
  BY DEF q
<1> HIDE DEF x
<1>4. CASE d = 0 \/ q = 0
  <2>1. x = 0
    BY <1>4, <1>8
  <2>2. (d - x) * full = p /\ x * full = 0
    BY <1>1, <2>1
  <2>3. p <= n
    <3>1. q * n = 0 \/ d = 0
      BY <1>4
    <3> QED
      BY <1>1, <1>2, <3>1
  <2> QED
    BY <1>3, <2>1, <2>2, <2>3
<1>5. CASE d > 0 /\ q > 0 /\ t >= q
  <2>1. Least(t, q) = q
    BY <1>2, <1>5 DEF Least
  <2>2. (d * q) \div q = d
    <3>1. PICK y \in Nat : y = d * q
      BY <1>2
    <3>2. y \div q \in d .. d
      <4>1. d * q <= y /\ y < (d + 1) * q
        BY <1>2, <1>5, <3>1
      <4> QED
        BY <1>2, <1>5, <4>1, QuotientBetween
    <3> QED
      BY <3>1, <3>2
  <2>3. x = d
    BY <1>5, <1>8, <2>1, <2>2
  <2>4. q * n <= t * n
    BY <1>2, <1>5, Monotone
  <2>5. (d - x) * full = 0 /\ x * full = p /\ q * n \in Nat
    BY <1>1, <1>2, <2>3
  <2> QED
    BY <1>2, <1>3, <2>3, <2>4, <2>5
<1>6. CASE d > 0 /\ q > 0 /\ t < q
  <2>1. Least(t, q) = t
    BY <1>2, <1>6 DEF Least
  <2>2. PICK y \in Nat : y = d * t
    OBVIOUS
  <2>3. x = y \div q
    BY <1>6, <1>8, <2>1, <2>2
  <2>4. x \in Nat /\ x * q <= y /\ y < x * q + q
    BY <1>2, <1>6, <2>2, <2>3, QuotientIs
  <2>5. x <= d
    <3>1. d * t <= d * q
      BY <1>2, <1>6, Monotone
    <3>2. x * q <= d * q
      BY <1>2, <2>2, <2>4, <3>1
    <3> QED
      BY <1>2, <1>6, <2>4, <3>2, Cancel
  <2>6. y * full = p * t /\ y * full \in Nat
    BY <1>1, <2>2
  <2>7. x * full <= t * n + n
    <3>1. (x * q) * full <= y * full
      BY <1>2, <2>4, Monotone
    <3>2. p * t <= (q * n + n) * t
      BY <1>2, Monotone
    <3>3. (q * n + n) * t <= (t * n + n) * q
      <4>1. (q * n + n) * t = (q * n) * t + n * t /\ (t * n + n) * q = (t * n) * q + n * q
        BY <1>2
      <4>2. n * t <= n * q
        BY <1>2, <1>6, Monotone
      <4>3. (q * n) * t = (t * n) * q /\ (q * n) * t \in Int /\ n * t \in Int /\ n * q \in Int
        BY <1>2
      <4> QED
        BY <4>1, <4>2, <4>3
    <3>4. (x * q) * full = (x * full) * q /\ (x * full) * q \in Int
          /\ (q * n + n) * t \in Int /\ (t * n + n) * q \in Int /\ x * full \in Int
      BY <1>2, <2>4
    <3>5. (x * full) * q <= (t * n + n) * q
      BY <2>6, <3>1, <3>2, <3>3, <3>4
    <3> QED
      BY <1>2, <1>3, <1>6, <3>4, <3>5, Cancel
  <2>8. (x + 1) * full >= t * n
    <3>1. y * full <= ((x + 1) * q) * full
      <4>1. y <= (x + 1) * q /\ (x + 1) * q \in Nat
        BY <1>2, <2>4
      <4> QED
        BY <4>1, Monotone
    <3>2. (q * n) * t <= p * t
      BY <1>2, Monotone
    <3>3. (q * n) * t = (t * n) * q /\ (t * n) * q \in Int
          /\ ((x + 1) * q) * full = ((x + 1) * full) * q /\ ((x + 1) * full) * q \in Int
          /\ (x + 1) * full \in Int
      BY <1>2, <2>4
    <3>4. (t * n) * q <= ((x + 1) * full) * q
      BY <2>6, <3>1, <3>2, <3>3
    <3> QED
      BY <1>2, <1>3, <1>6, <3>3, <3>4, Cancel
  <2> QED
    BY <2>4, <2>5, <2>7, <2>8
<1>7. d = 0 \/ q = 0 \/ (d > 0 /\ q > 0 /\ t >= q) \/ (d > 0 /\ q > 0 /\ t < q)
  BY <1>2
<1> QED
  BY <1>4, <1>5, <1>6, <1>7

\* After a measurement from b on, with x gone, the position is off by what the
\* beginning of the move was, and the way of a millisecond.
LEMMA MeasuredNear ==
    ASSUME NEW n \in Nat \ {0}, NEW full \in Nat \ {0}, NEW k \in Nat \ {0},
           NEW g \in Nat \ {0}, g * full >= n, NEW w \in Nat, w = full * k,
           NEW b \in 0 .. n, NEW x \in 0 .. (n - b), NEW t \in Nat, NEW at \in 0 .. w, NEW e \in Nat,
           x * full <= t * n + n,
           (x + 1) * full >= t * n \/ ((n - b) - x) * full <= n,
           at * n <= b * w + e + t * (n * k),
           at = w \/ at * n >= b * w - e + t * (n * k)
    PROVE  /\ (b + x) * w - at * n <= e + g * w
           /\ at * n - (b + x) * w <= e + g * w
<1>1. PICK z \in Nat : z = t * (n * k) /\ z = (t * n) * k
  OBVIOUS
<1>2. PICK m \in Nat : m = n * k
  OBVIOUS
<1>3. PICK gw \in Nat : gw = g * w /\ gw = (g * full) * k
  OBVIOUS
<1>4. PICK bw \in Nat : bw = b * w
  OBVIOUS
<1>5. PICK xw \in Nat : xw = x * w /\ xw = (x * full) * k
  OBVIOUS
<1>6. PICK atn \in Nat : atn = at * n
  OBVIOUS
<1>7. (b + x) * w = bw + xw
  BY <1>4, <1>5
<1>8. m <= gw
  <2>1. n * k <= (g * full) * k
    BY Monotone
  <2> QED
    BY <1>2, <1>3, <2>1
<1>9. w <= gw
  <2>1. 1 * w <= g * w
    BY Monotone
  <2> QED
    BY <1>3, <2>1
<1>10. xw <= z + m
  <2>1. (x * full) * k <= (t * n + n) * k
    BY Monotone
  <2>2. (t * n + n) * k = (t * n) * k + n * k
    OBVIOUS
  <2> QED
    BY <1>1, <1>2, <1>5, <2>1, <2>2
<1>11. PICK nw \in Nat : nw = n * w /\ nw = w * n
  OBVIOUS
<1>12. bw + xw <= nw /\ atn <= nw
  <2>1. (b + x) * w <= n * w
    BY Monotone
  <2>2. at * n <= w * n
    BY Monotone
  <2> QED
    BY <1>6, <1>7, <1>11, <2>1, <2>2
<1>13. (bw + xw) - atn <= e + gw
  <2>1. CASE at = w
    BY <1>6, <1>11, <1>12, <2>1
  <2>2. CASE atn >= bw - e + z
    BY <1>8, <1>10, <2>2
  <2> QED
    BY <1>1, <1>4, <1>6, <2>1, <2>2
<1>14. atn - (bw + xw) <= e + gw
  <2>1. CASE (x + 1) * full >= t * n
    <3>1. (t * n) * k <= ((x + 1) * full) * k
      BY <2>1, Monotone
    <3>2. ((x + 1) * full) * k = xw + w
      <4>1. ((x + 1) * full) * k = (x * full) * k + full * k
        OBVIOUS
      <4> QED
        BY <1>5, <4>1
    <3>3. z <= xw + w
      BY <1>1, <3>1, <3>2
    <3>4. atn <= bw + e + z
      BY <1>1, <1>4, <1>6
    <3> QED
      BY <1>9, <3>3, <3>4
  <2>2. CASE ((n - b) - x) * full <= n
    <3>1. (((n - b) - x) * full) * k <= n * k
      BY <2>2, Monotone
    <3>2. (((n - b) - x) * full) * k = nw - (bw + xw)
      <4>1. (((n - b) - x) * full) * k = n * (full * k) - b * (full * k) - (x * full) * k
        OBVIOUS
      <4> QED
        BY <1>4, <1>5, <1>11, <4>1
    <3>3. nw - (bw + xw) <= m
      BY <1>2, <3>1, <3>2
    <3> QED
      BY <1>8, <1>12, <3>3
  <2> QED
    BY <2>1, <2>2
<1> QED
  BY <1>3, <1>6, <1>7, <1>13, <1>14
\* So where the shutter is follows from where the move began, while time goes on.
LEMMA CourseInTime ==
    ASSUME NEW n \in Nat \ {0}, NEW full \in Nat \ {0}, NEW k \in Nat \ {0},
           NEW w \in Nat, w = full * k,
           NEW b \in 0 .. n, NEW at \in 0 .. w, NEW t \in Nat, NEW t2 \in Nat,
           NEW step \in Nat, t2 = t + step \/ (t >= full /\ t2 >= full), NEW e \in Nat,
           NEW at2 \in 0 .. w, at2 >= at, at2 - at <= step * k,
           at2 = w \/ (t2 = t + step /\ at2 = at + step * k),
           at * n <= b * w + e + t * (n * k),
           at = w \/ at * n >= b * w - e + t * (n * k)
    PROVE  /\ at2 * n <= b * w + e + t2 * (n * k)
           /\ at2 = w \/ at2 * n >= b * w - e + t2 * (n * k)
<1>1. PICK s \in Nat : s = step * k
  OBVIOUS
<1>2. PICK m \in Nat : m = n * k
  OBVIOUS
<1>3. PICK sn \in Nat : sn = s * n /\ sn = step * m
  BY <1>1, <1>2
<1>4. PICK bw \in Nat : bw = b * w
  OBVIOUS
<1>5. PICK atn \in Nat : atn = at * n
  OBVIOUS
<1>6. PICK tm \in Nat : tm = t * m
  BY <1>2
<1>7. /\ at2 >= at /\ at2 - at <= s
      /\ at2 = w \/ (t2 = t + step /\ at2 = at + s)
  BY <1>1
<1>8. t2 * m \in Nat /\ at2 * n \in Nat
  BY <1>2
<1>9. at2 * n <= bw + e + t2 * m
  <2>1. CASE t2 = t + step
    <3>1. at2 * n <= (at + s) * n
      BY <1>1, <1>7, Monotone
    <3>2. (at + s) * n = atn + sn
      BY <1>1, <1>3, <1>5
    <3>3. t2 * m = tm + sn
      BY <1>2, <1>3, <1>6, <2>1
    <3>4. atn <= bw + e + tm
      BY <1>2, <1>4, <1>5, <1>6
    <3> QED
      BY <1>8, <3>1, <3>2, <3>3, <3>4
  <2>2. CASE t2 >= full
    <3>1. full * m <= t2 * m
      BY <1>2, <2>2, Monotone
    <3>2. at2 * n <= w * n
      BY Monotone
    <3>3. w * n = full * m
      BY <1>2
    <3> QED
      BY <1>8, <3>1, <3>2, <3>3
  <2> QED
    BY <2>1, <2>2
<1>10. ASSUME at2 # w PROVE at2 * n >= bw - e + t2 * m
  <2>1. t2 = t + step /\ at2 = at + s /\ at # w
    BY <1>7, <1>10
  <2>2. at2 * n = atn + sn
    BY <1>1, <1>3, <1>5, <2>1
  <2>3. t2 * m = tm + sn
    BY <1>2, <1>3, <1>6, <2>1
  <2>4. atn >= bw - e + tm
    BY <1>2, <1>4, <1>5, <1>6, <2>1
  <2> QED
    BY <2>2, <2>3, <2>4
<1> QED
  BY <1>2, <1>4, <1>9, <1>10

----------------------------------------------------------------------------
(* What a method leaves of the move, of the calibration and of the settings.    *)

(* How the members of a calibration and the target go together.               *)
Orderly(r) ==
    /\ Typed(r) /\ r.dir \in {"stop", "up", "down"}
    /\ r.calTime \in Nat
    /\ r.calTime > 0 =>
           /\ IsCalibrationRequested(r) /\ r.dir # "stop"
           /\ r.calTime >= IF r.dir = "up" THEN r.opening ELSE r.closing
    /\ r.target = StopPosition => r.dir = "stop"

\* What a pass leaves of the move: its start, or nothing, or a new one.
Goes(r, s) ==
    \/ s.since = 0
    \/ s.since = r.since /\ (s.up => r.up) /\ (s.down => r.down)

SameSettings(r, s) ==
    s.opening = r.opening /\ s.closing = r.closing /\ s.calibrate = r.calibrate

\* The head of a pass stops the motor or clears a request.
LEMMA HandleStopIs ==
    ASSUME NEW r, Orderly(r)
    PROVE  LET s == HandleStop(r)
           IN  /\ Orderly(s) /\ Goes(r, s) /\ SameSettings(r, s)
               /\ s.pos = r.pos /\ s.since = r.since /\ s.before = r.before
               /\ s.timeout = r.timeout /\ s.upsideDown = r.upsideDown
               /\ IF r.target = StopRequest
                  THEN s.dir = "stop" /\ s.target = StopPosition /\ s.newTarget = FALSE
                       /\ s.calTime = 0
                  ELSE /\ s.dir = r.dir /\ s.target = r.target /\ s.calTime = r.calTime
                       /\ s.newTarget = (r.newTarget /\ r.target # StopPosition)
<1> DEFINE s == HandleStop(r)
<1>1. Record(r) /\ Typed(s)
  BY HandleStopTyped DEF Orderly, Typed
<1>2. CASE r.target = StopRequest
  <2>1. /\ s.dir = "stop" /\ s.up = FALSE /\ s.down = FALSE /\ s.target = StopPosition
        /\ s.newTarget = FALSE /\ s.calTime = 0 /\ SameSettings(r, s)
        /\ s.pos = r.pos /\ s.since = r.since /\ s.before = r.before
        /\ s.timeout = r.timeout /\ s.upsideDown = r.upsideDown
    BY <1>1, <1>2 DEF Record, Fields, HandleStop, StopMovement, SameSettings
  <2> HIDE DEF s
  <2>2. Orderly(s) /\ Goes(r, s)
    BY <1>1, <2>1 DEF Orderly, Goes
  <2> QED
    BY <1>2, <2>1, <2>2 DEF s
<1>3. CASE r.target # StopRequest
  <2>1. /\ s.dir = r.dir /\ s.up = r.up /\ s.down = r.down /\ s.target = r.target
        /\ s.newTarget = (r.newTarget /\ r.target # StopPosition)
        /\ s.calTime = r.calTime /\ SameSettings(r, s)
        /\ s.pos = r.pos /\ s.since = r.since /\ s.before = r.before
        /\ s.timeout = r.timeout /\ s.upsideDown = r.upsideDown
    <3>1. ~ ((r.target = StopPosition /\ r.dir # "stop") \/ r.target = StopRequest)
      BY <1>3 DEF Orderly
    <3>2. s = [r EXCEPT !.newTarget = r.newTarget /\ r.target # StopPosition]
      BY <3>1 DEF HandleStop
    <3> QED
      BY <1>1, <3>2 DEF Record, Fields, SameSettings
  <2> HIDE DEF s
  <2>2. Orderly(s) /\ Goes(r, s)
    BY <1>1, <2>1 DEF Orderly, Goes, IsCalibrationRequested, SameSettings
  <2> QED
    BY <1>3, <2>1, <2>2 DEF s
<1> QED
  BY <1>2, <1>3

\* The end of a pass asks for a stop at most.
LEMMA TimedOutIs ==
    ASSUME NEW r, Orderly(r)
    PROVE  LET s == TimedOut(r)
           IN  /\ Orderly(s) /\ SameSettings(r, s)
               /\ s.dir = r.dir /\ s.up = r.up /\ s.down = r.down /\ s.pos = r.pos
               /\ s.since = r.since /\ s.before = r.before /\ s.calTime = r.calTime
<1> DEFINE s == TimedOut(r)
<1>1. Record(r) /\ Typed(s)
  BY TimedOutTyped DEF Orderly, Typed
<1>2. /\ SameSettings(r, s)
      /\ s.dir = r.dir /\ s.up = r.up /\ s.down = r.down /\ s.pos = r.pos
      /\ s.since = r.since /\ s.before = r.before /\ s.calTime = r.calTime
      /\ s.target \in {r.target, StopRequest}
  BY <1>1 DEF Record, Fields, TimedOut, SetTargetPosition, SameSettings
<1> HIDE DEF s
<1>3. Orderly(s)
  BY <1>1, <1>2 DEF Orderly, IsCalibrationRequested, SameSettings, StopRequest, StopPosition
<1> QED
  BY <1>2, <1>3 DEF s

\* The run of a calibration takes at least the time of the way.
LEMMA CalibrationTime ==
    ASSUME NEW t \in Nat
    PROVE  (t * 11) \div 10 \in Nat /\ (t * 11) \div 10 >= t
<1>1. PICK a \in Nat : a = t * 11
  OBVIOUS
<1>2. t * 10 <= a /\ a < (a + 1) * 10
  BY <1>1
<1>3. a \div 10 \in t .. a
  BY <1>2, QuotientBetween
<1> QED
  BY <1>1, <1>3

\* A calibration that begins runs for the time of its direction.
LEMMA BeginCalibrationIs ==
    ASSUME NEW r, Orderly(r), IsCalibrationRequested(r), ~ InProgress(r),
           r.target # StopPosition
    PROVE  LET s == BeginCalibration(r)
           IN  /\ Orderly(s) /\ Goes(r, s) /\ SameSettings(r, s)
               /\ s.since = 0 \/ s.calTime = 0
<1> DEFINE dir == IF r.target > 50 \/ r.target = MoveDown THEN "down" ELSE "up"
           time == IF dir = "down" THEN r.closing ELSE r.opening
           run == (time * 11) \div 10
           q == [r EXCEPT !.timeout = 0]
           begun == StartCalibration(q, time)
           set == IF InProgress(begun) THEN begun
                  ELSE [begun EXCEPT !.timeout = DefaultTimeoutMs]
           s == BeginCalibration(r)
<1>1. dir \in {"up", "down"} /\ Record(r) /\ r.calTime = 0
  BY DEF Orderly, Typed, InProgress
<1>2. s = IF r.dir \notin {"stop", dir} THEN StopMovement(q) ELSE Start(set, dir)
  BY Zenon DEF BeginCalibration
<1>3. Typed(s)
  BY BeginCalibrationTyped DEF Orderly
<1>4. time = IF dir = "up" THEN r.opening ELSE r.closing
  BY <1>1
<1>5. time \in Nat
  BY <1>4 DEF Orderly, Typed
<1> HIDE DEF dir
<1>6. run \in Nat /\ run >= time
  BY <1>5, CalibrationTime
<1> HIDE DEF time, run
<1>7. /\ Record(set) /\ set.calTime = run /\ SameSettings(r, set) /\ set.target = r.target
  BY <1>1 DEF run, Record, Fields, StartCalibration, SameSettings
<1>8. Record(q) /\ q.calTime = 0 /\ SameSettings(r, q) /\ q.target = r.target /\ q.since = r.since
  BY <1>1 DEF Record, Fields, SameSettings
<1> HIDE DEF set, q
<1>9. CASE r.dir \notin {"stop", dir}
  <2>1. /\ s.dir = "stop" /\ s.up = FALSE /\ s.down = FALSE /\ s.calTime = 0
        /\ SameSettings(r, s) /\ s.since = r.since
    BY <1>2, <1>8, <1>9 DEF Record, Fields, StopMovement, SameSettings
  <2> HIDE DEF s
  <2> QED
    BY <1>3, <2>1 DEF Orderly, Goes, s
<1>10. CASE r.dir \in {"stop", dir}
  <2>1. /\ s.dir = dir /\ s.since = 0 /\ s.calTime = run /\ s.target = r.target
        /\ SameSettings(r, s)
    <3>1. s = Start(set, dir)
      BY <1>2, <1>10
    <3> HIDE DEF s
    <3> QED
      BY <1>1, <1>7, <3>1
         DEF Record, Fields, Start, StartClosing, StartOpening, SameSettings
  <2> HIDE DEF s
  <2>2. Orderly(s)
    BY <1>1, <1>3, <1>4, <1>6, <2>1 DEF Orderly, IsCalibrationRequested, SameSettings
  <2> QED
    BY <2>1, <2>2 DEF Goes, s
<1> QED
  BY <1>9, <1>10

\* A calibration under way ends when its time is over.
LEMMA EndCalibrationIs ==
    ASSUME NEW r, Orderly(r)
    PROVE  LET s == EndCalibration(r)
           IN  \/ s = r
               \/ /\ InProgress(r) /\ r.since > r.calTime
                  /\ Orderly(s) /\ Goes(r, s)
                  /\ s.dir = "stop" /\ s.calibrate = FALSE /\ s.calTime = 0
                  /\ s.opening = r.opening /\ s.closing = r.closing
                  /\ s.pos = IF r.dir = "up" THEN 0 ELSE FullTravel
<1> DEFINE p == IF r.dir = "up" THEN 0 ELSE 100
           done == SetCurrentPosition(r, p)
           set == IF r.target < 0 THEN SetTargetPosition(done, StopRequest) ELSE done
           s == EndCalibration(r)
<1>1. s = IF ~ InProgress(r) \/ r.since <= r.calTime THEN r ELSE StopMovement(set)
  BY Zenon DEF EndCalibration
<1>2. Typed(s) /\ Record(r) /\ r.since \in Int /\ r.calTime \in Nat
  BY EndCalibrationTyped, ClockCapType DEF Orderly, Typed
<1>3. PICK far : far = p * 100
  OBVIOUS
<1>4. far = IF r.dir = "up" THEN 0 ELSE FullTravel
  BY <1>3 DEF FullTravel
<1>5. done = [r EXCEPT !.calTime = 0, !.pos = far, !.calibrate = FALSE]
  BY <1>3, Zenon DEF SetCurrentPosition
<1> HIDE DEF done
<1>6. /\ Record(set) /\ set.calTime = 0 /\ set.calibrate = FALSE /\ set.pos = far
      /\ set.opening = r.opening /\ set.closing = r.closing /\ set.since = r.since
  BY <1>2, <1>5 DEF Record, Fields, SetTargetPosition
<1> HIDE DEF set
<1>7. ASSUME InProgress(r), r.since > r.calTime
      PROVE  /\ Orderly(s) /\ Goes(r, s)
             /\ s.dir = "stop" /\ s.calibrate = FALSE /\ s.calTime = 0
             /\ s.opening = r.opening /\ s.closing = r.closing /\ s.pos = far
  <2>1. s = StopMovement(set)
    BY <1>1, <1>2, <1>7
  <2> HIDE DEF s
  <2>2. /\ s.dir = "stop" /\ s.calibrate = FALSE /\ s.calTime = 0 /\ s.up = FALSE /\ s.down = FALSE
        /\ s.opening = r.opening /\ s.closing = r.closing /\ s.since = r.since
        /\ s.pos = far
    BY <1>6, <2>1 DEF Record, Fields, StopMovement
  <2> QED
    BY <1>2, <2>2 DEF Orderly, Goes
<1> HIDE DEF s
<1>8. CASE ~ InProgress(r) \/ r.since <= r.calTime
  BY <1>1, <1>8 DEF s
<1>9. CASE InProgress(r) /\ r.since > r.calTime
  <2>1. /\ Orderly(s) /\ Goes(r, s)
        /\ s.dir = "stop" /\ s.calibrate = FALSE /\ s.calTime = 0
        /\ s.opening = r.opening /\ s.closing = r.closing
        /\ s.pos = IF r.dir = "up" THEN 0 ELSE FullTravel
    BY <1>4, <1>7, <1>9
  <2> QED
    BY <1>9, <2>1, Zenon DEF s
<1>10. (~ InProgress(r) \/ r.since <= r.calTime) \/ (InProgress(r) /\ r.since > r.calTime)
  BY <1>2
<1> QED
  BY <1>8, <1>9, <1>10, Zenon

\* A pass of a calibration: it goes on, or ends with the shutter's time over.
LEMMA CalibrateIs ==
    ASSUME NEW r, Orderly(r), IsCalibrationRequested(r)
    PROVE  LET s == Calibrate(r)
           IN  /\ Orderly(s) /\ Goes(r, s)
               /\ s.opening = r.opening /\ s.closing = r.closing
               /\ \/ s.calibrate = r.calibrate
                  \/ /\ InProgress(r) /\ r.since > r.calTime
                     /\ s.dir = "stop" /\ s.calibrate = FALSE /\ s.calTime = 0
                     /\ s.pos = IF r.dir = "up" THEN 0 ELSE FullTravel
<1> DEFINE b == IF InProgress(r) THEN r ELSE BeginCalibration(r)
           s == Calibrate(r)
<1>1. s = IF r.target = StopPosition THEN r ELSE EndCalibration(b)
  BY Zenon DEF Calibrate
<1>2. CASE r.target = StopPosition
  <2>1. s = r
    BY <1>1, <1>2
  <2> HIDE DEF s
  <2> QED
    BY <2>1 DEF Goes, s
<1>3. CASE r.target # StopPosition /\ InProgress(r)
  <2> DEFINE e == EndCalibration(r)
  <2>1. s = e
    BY <1>1, <1>3
  <2>2. \/ e = r
        \/ /\ InProgress(r) /\ r.since > r.calTime
           /\ Orderly(e) /\ Goes(r, e)
           /\ e.dir = "stop" /\ e.calibrate = FALSE /\ e.calTime = 0
           /\ e.opening = r.opening /\ e.closing = r.closing
           /\ e.pos = IF r.dir = "up" THEN 0 ELSE FullTravel
    BY EndCalibrationIs
  <2> HIDE DEF s, e
  <2> QED
    BY <2>1, <2>2 DEF Goes, s
<1>4. CASE r.target # StopPosition /\ ~ InProgress(r)
  <2> DEFINE c == BeginCalibration(r)
  <2>1. /\ Orderly(c) /\ Goes(r, c) /\ SameSettings(r, c)
        /\ c.since = 0 \/ c.calTime = 0
    BY <1>4, BeginCalibrationIs
  <2>2. s = EndCalibration(c)
    BY <1>1, <1>4
  <2> HIDE DEF c, s
  <2>3. ~ (InProgress(c) /\ c.since > c.calTime)
    BY <2>1 DEF InProgress, Orderly
  <2>4. s = c
    BY <2>1, <2>2, <2>3, EndCalibrationIs
  <2> QED
    BY <2>1, <2>4 DEF SameSettings, s
<1> QED
  BY <1>2, <1>3, <1>4

\* Members a method leaves alone that the position depends on.
SameMove(r, s) ==
    s.dir = r.dir /\ s.up = r.up /\ s.down = r.down /\ s.since = r.since /\ s.before = r.before

\* A new target starts the motor from a standstill, from the position it is at;
\* a move under way goes on as it is, or stops.
LEMMA BeginMoveIs ==
    ASSUME NEW r, Orderly(r), r.calTime = 0, NEW dir \in {"stop", "up", "down"},
           dir = "stop" \/ r.target # StopPosition
    PROVE  LET s == BeginMove(r, dir)
           IN  /\ Orderly(s) /\ Goes(r, s) /\ SameSettings(r, s)
               /\ s.pos = r.pos /\ s.calTime = 0 /\ s.target = r.target
               /\ \/ s.dir = "stop" \/ SameMove(r, s)
                  \/ r.dir = "stop" /\ s.since = 0 /\ s.before = r.pos
<1> DEFINE b == [r EXCEPT !.newTarget = FALSE, !.before = r.pos]
           s == BeginMove(r, dir)
<1>1. s = IF dir = r.dir THEN [r EXCEPT !.newTarget = FALSE]
          ELSE IF r.dir = "stop" THEN Start(b, dir) ELSE StopMovement(r)
  BY Zenon DEF BeginMove
<1>2. Record(r) /\ Typed(s)
  BY BeginMoveTyped DEF Orderly, Typed
<1>3. CASE dir = r.dir
  <2>1. SameMove(r, s) /\ SameSettings(r, s)
        /\ s.pos = r.pos /\ s.calTime = 0 /\ s.target = r.target
    BY <1>1, <1>2, <1>3 DEF Record, Fields, SameMove, SameSettings
  <2> HIDE DEF s
  <2>2. Orderly(s) /\ Goes(r, s)
    BY <1>2, <2>1 DEF Orderly, Goes, SameMove
  <2> QED
    BY <2>1, <2>2 DEF s
<1>4. CASE dir # r.dir /\ r.dir = "stop"
  <2>1. /\ s.dir = dir /\ s.since = 0 /\ s.before = r.pos /\ SameSettings(r, s)
        /\ s.pos = r.pos /\ s.calTime = 0 /\ s.target = r.target
    <3>1. s = Start(b, dir) /\ dir \in {"up", "down"}
      BY <1>1, <1>4
    <3> HIDE DEF s
    <3>2. /\ Record(b) /\ b.before = r.pos /\ SameSettings(r, b)
          /\ b.pos = r.pos /\ b.calTime = 0 /\ b.target = r.target
      BY <1>2 DEF Record, Fields, SameSettings
    <3> HIDE DEF b
    <3> QED
      BY <3>1, <3>2
         DEF Record, Fields, Start, StartClosing, StartOpening, SameSettings
  <2> HIDE DEF s
  <2>2. Orderly(s) /\ Goes(r, s)
    BY <1>2, <1>4, <2>1 DEF Orderly, Goes
  <2> QED
    BY <1>4, <2>1, <2>2 DEF s
<1>5. CASE dir # r.dir /\ r.dir # "stop"
  <2>1. /\ s.dir = "stop" /\ s.up = FALSE /\ s.down = FALSE /\ s.since = r.since
        /\ SameSettings(r, s) /\ s.pos = r.pos /\ s.calTime = 0 /\ s.target = r.target
    <3>1. s = StopMovement(r)
      BY <1>1, <1>5
    <3> HIDE DEF s
    <3> QED
      BY <1>2, <3>1 DEF Record, Fields, StopMovement, SameSettings
  <2> HIDE DEF s
  <2>2. Orderly(s) /\ Goes(r, s)
    BY <1>2, <2>1 DEF Orderly, Goes
  <2> QED
    BY <2>1, <2>2 DEF s
<1> QED
  BY <1>3, <1>4, <1>5

\* The pass without a calibration.
LEMMA MoveBlindlyIs ==
    ASSUME NEW r, Orderly(r), ~ IsCalibrationRequested(r)
    PROVE  LET s == MoveBlindly(r)
           IN  Orderly(s) /\ Goes(r, s) /\ SameSettings(r, s)
<1> DEFINE b == [r EXCEPT !.pos = Unknown]
           dir == CASE r.target \in {MoveUp, 0} -> "up"
                    [] r.target \in {MoveDown, 100} -> "down"
                    [] OTHER -> "stop"
           t == [b EXCEPT !.timeout = DefaultTimeoutMs]
           moved == BeginMove(t, dir)
           reset == [moved EXCEPT !.timeout = 0]
           kept == [moved EXCEPT !.before = r.before]
           s == MoveBlindly(r)
<1>1. s \in {b, reset, kept}
  BY Zenon DEF MoveBlindly
<1>2. Record(r) /\ r.calTime = 0 /\ Typed(s)
  BY MoveBlindlyTyped DEF Orderly, Typed
<1>3. dir \in {"stop", "up", "down"} /\ (dir = "stop" \/ r.target # StopPosition)
  BY DEF MoveUp, MoveDown, StopPosition
<1> HIDE DEF dir, s
<1>4. /\ Record(b) /\ Record(t)
      /\ SameMove(r, b) /\ SameSettings(r, b) /\ b.calTime = 0 /\ b.target = r.target
      /\ SameMove(r, t) /\ SameSettings(r, t) /\ t.calTime = 0 /\ t.target = r.target
  BY <1>2 DEF Record, Fields, SameMove, SameSettings
<1>5. Typed(b)
  BY PositionTyped DEF Orderly, Positions
<1>6. Typed(t)
  BY <1>5, OthersTyped
<1> HIDE DEF b, t
<1>7. Orderly(t) /\ Orderly(b)
  BY <1>4, <1>5, <1>6 DEF Orderly, SameMove
<1>8. /\ Orderly(moved) /\ Goes(t, moved) /\ SameSettings(t, moved)
      /\ moved.calTime = 0 /\ moved.target = t.target
  BY <1>3, <1>4, <1>7, BeginMoveIs
<1> HIDE DEF moved
<1>9. Goes(r, moved) /\ SameSettings(r, moved) /\ Record(moved)
  BY <1>4, <1>8 DEF Goes, SameMove, SameSettings, Orderly, Typed
<1>10. s = b => Orderly(s) /\ Goes(r, s) /\ SameSettings(r, s)
  BY <1>4, <1>7 DEF Goes, SameMove
<1>11. ASSUME s = reset \/ s = kept PROVE Orderly(s) /\ Goes(r, s) /\ SameSettings(r, s)
  <2>1. /\ s.dir = moved.dir /\ s.up = moved.up /\ s.down = moved.down /\ s.since = moved.since
        /\ s.calTime = 0 /\ s.target = moved.target /\ SameSettings(moved, s)
    BY <1>8, <1>9, <1>11 DEF Record, Fields, SameSettings
  <2> HIDE DEF reset, kept
  <2> QED
    BY <1>2, <1>8, <1>9, <2>1 DEF Orderly, Goes, SameSettings
<1> HIDE DEF reset, kept
<1> QED
  BY <1>1, <1>10, <1>11 DEF s

\* A move under way: the motor stops, goes on, or has its clock set back where the
\* end was asked for and is reached.
LEMMA ContinueMoveIs ==
    ASSUME NEW r, Orderly(r), r.calTime = 0, r.dir # "stop"
    PROVE  LET s == ContinueMove(r)
           IN  /\ Orderly(s) /\ Goes(r, s) /\ SameSettings(r, s)
               /\ s.pos = CalculateCurrentPosition(r).pos /\ s.calTime = 0
               /\ \/ s.dir = "stop" \/ SameMove(r, s)
                  \/ /\ s.dir = r.dir /\ s.before = r.before /\ s.since = 0
                     /\ IF r.dir = "up" THEN GetCurrentPosition(s) <= 0
                                        ELSE GetCurrentPosition(s) >= 100
<1> DEFINE c == CalculateCurrentPosition(r)
           margin == TimeMargin(IF r.dir = "up" THEN r.opening ELSE r.closing)
           on == [c EXCEPT !.target = Unknown, !.since = 0, !.timeout = margin]
           end == IF r.dir = "up" THEN 0 ELSE 100
           reached == IF r.dir = "up" THEN GetCurrentPosition(c) <= c.target
                                      ELSE GetCurrentPosition(c) >= c.target
           s == ContinueMove(r)
<1>1. s = IF c.target < 0 \/ ~ reached THEN c
          ELSE IF c.target = end THEN on ELSE StopMovement(c)
  BY Zenon DEF ContinueMove
<1>2. Record(r) /\ Typed(s)
  BY ContinueMoveTyped DEF Orderly, Typed
<1>3. /\ Record(c) /\ SameMove(r, c) /\ SameSettings(r, c) /\ c.calTime = 0 /\ c.target = r.target
  <2>1. c = r \/ \E p : c = [r EXCEPT !.pos = p]
    BY DEF CalculateCurrentPosition
  <2> HIDE DEF c
  <2> QED
    BY <1>2, <2>1 DEF Record, Fields, SameMove, SameSettings
<1> HIDE DEF c, s
<1>4. CASE s = c
  <2>1. Orderly(s) /\ Goes(r, s)
    BY <1>2, <1>3, <1>4 DEF Orderly, Goes, SameMove
  <2> QED
    BY <1>3, <1>4, <2>1 DEF s, c
<1>5. CASE s = on /\ reached /\ c.target = end
  <2>1. /\ s.dir = r.dir /\ s.since = 0 /\ s.before = r.before /\ s.pos = c.pos
        /\ s.calTime = 0 /\ s.target = Unknown /\ SameSettings(r, s)
    BY <1>3, <1>5 DEF Record, Fields, SameMove, SameSettings
  <2>2. GetCurrentPosition(s) = GetCurrentPosition(c)
    BY <2>1 DEF GetCurrentPosition
  <2>3. IF r.dir = "up" THEN GetCurrentPosition(s) <= 0 ELSE GetCurrentPosition(s) >= 100
    BY <1>5, <2>2
  <2>4. Orderly(s) /\ Goes(r, s)
    BY <1>2, <2>1 DEF Orderly, Goes, Unknown, StopPosition
  <2> QED
    BY <2>1, <2>3, <2>4 DEF s, c
<1>6. CASE s = StopMovement(c)
  <2>1. /\ s.dir = "stop" /\ s.up = FALSE /\ s.down = FALSE /\ s.since = r.since
        /\ s.pos = c.pos /\ s.calTime = 0 /\ SameSettings(r, s)
    BY <1>3, <1>6 DEF Record, Fields, StopMovement, SameMove, SameSettings
  <2>2. Orderly(s) /\ Goes(r, s)
    BY <1>2, <2>1 DEF Orderly, Goes
  <2> QED
    BY <2>1, <2>2 DEF s, c
<1> HIDE DEF on, end, reached
<1> QED
  BY <1>1, <1>4, <1>5, <1>6, Zenon DEF s, c

\* A calibrated pass.
LEMMA MoveIs ==
    ASSUME NEW r, Orderly(r), IsCalibrated(r)
    PROVE  LET s == Move(r)
           IN  /\ Orderly(s) /\ Goes(r, s) /\ SameSettings(r, s) /\ s.calTime = 0
               /\ r.dir = "stop" => /\ s.pos = r.pos
                                    /\ s.dir = "stop" \/ (s.since = 0 /\ s.before = r.pos)
               /\ r.dir # "stop" /\ r.newTarget =>
                      s.pos = r.pos /\ (s.dir = "stop" \/ SameMove(r, s))
               /\ r.dir # "stop" /\ ~ r.newTarget =>
                      /\ s.pos = CalculateCurrentPosition(r).pos
                      /\ \/ s.dir = "stop" \/ SameMove(r, s)
                         \/ /\ s.dir = r.dir /\ s.before = r.before /\ s.since = 0
                            /\ IF r.dir = "up" THEN GetCurrentPosition(s) <= 0
                                               ELSE GetCurrentPosition(s) >= 100
<1> DEFINE t == [r EXCEPT !.timeout = Timeout(r)]
           dir == Direction(r)
           m == BeginMove(t, dir)
           s == Move(r)
<1>1. s = IF r.newTarget /\ r.target # StopPosition THEN m
          ELSE IF ~ r.newTarget /\ r.dir # "stop" THEN ContinueMove(r) ELSE r
  BY Zenon DEF Move
<1>2. Record(r) /\ r.calTime = 0
  BY DEF Orderly, Typed, IsCalibrated, IsCalibrationRequested
<1>3. dir \in {"stop", "up", "down"}
  BY DEF Direction
<1> HIDE DEF dir, s
<1>4. /\ Record(t) /\ SameMove(r, t) /\ SameSettings(r, t) /\ t.pos = r.pos
      /\ t.calTime = 0 /\ t.target = r.target
  BY <1>2 DEF Record, Fields, SameMove, SameSettings
<1>5. Typed(t)
  BY OthersTyped DEF Orderly
<1> HIDE DEF t
<1>6. Orderly(t)
  BY <1>4, <1>5 DEF Orderly, SameMove
<1>7. CASE r.newTarget /\ r.target # StopPosition
  <2>1. /\ Orderly(m) /\ Goes(t, m) /\ SameSettings(t, m)
        /\ m.pos = t.pos /\ m.calTime = 0
        /\ \/ m.dir = "stop" \/ SameMove(t, m)
           \/ t.dir = "stop" /\ m.since = 0 /\ m.before = t.pos
    BY <1>3, <1>4, <1>6, <1>7, BeginMoveIs
  <2>2. s = m
    BY <1>1, <1>7
  <2> HIDE DEF m
  <2> QED
    BY <1>4, <1>7, <2>1, <2>2 DEF Goes, SameMove, SameSettings, s
<1>8. CASE ~ r.newTarget /\ r.dir # "stop"
  <2>1. s = ContinueMove(r)
    BY <1>1, <1>8
  <2> DEFINE c == ContinueMove(r)
  <2>2. /\ Orderly(c) /\ Goes(r, c) /\ SameSettings(r, c)
        /\ c.pos = CalculateCurrentPosition(r).pos /\ c.calTime = 0
        /\ \/ c.dir = "stop" \/ SameMove(r, c)
           \/ /\ c.dir = r.dir /\ c.before = r.before /\ c.since = 0
              /\ IF r.dir = "up" THEN GetCurrentPosition(c) <= 0
                                 ELSE GetCurrentPosition(c) >= 100
    BY <1>2, <1>8, ContinueMoveIs
  <2> HIDE DEF c
  <2> QED
    BY <1>8, <2>1, <2>2 DEF s, c
<1>9. CASE ~ r.newTarget /\ r.dir = "stop"
  <2>1. s = r
    BY <1>1, <1>9
  <2> QED
    BY <1>2, <1>9, <2>1 DEF Goes, SameMove, SameSettings, s
<1>10. CASE r.newTarget /\ r.target = StopPosition
  <2>1. s = r /\ r.dir = "stop"
    BY <1>1, <1>10 DEF Orderly
  <2> QED
    BY <1>2, <2>1 DEF Goes, SameMove, SameSettings, s
<1> QED
  BY <1>7, <1>8, <1>9, <1>10

\* The computed position depends on the move and its times only.
LEMMA CalculatedSame ==
    ASSUME NEW r, NEW s, Record(r), Record(s), s.dir = r.dir, s.pos = r.pos,
           s.before = r.before, s.since = r.since, s.opening = r.opening, s.closing = r.closing
    PROVE  CalculateCurrentPosition(s).pos = CalculateCurrentPosition(r).pos
<1>1. GetCurrentPosition(s) = GetCurrentPosition(r)
  BY DEF GetCurrentPosition
<1>2. MeasuredPosition(s) = MeasuredPosition(r)
  BY DEF MeasuredPosition
<1> DEFINE m == MeasuredPosition(r)
<1>3. /\ CalculateCurrentPosition(r).pos =
             IF GetCurrentPosition(r) = (IF r.dir = "up" THEN 0 ELSE 100)
             THEN r.pos ELSE [r EXCEPT !.pos = m].pos
      /\ CalculateCurrentPosition(s).pos =
             IF GetCurrentPosition(r) = (IF r.dir = "up" THEN 0 ELSE 100)
             THEN s.pos ELSE [s EXCEPT !.pos = m].pos
  BY <1>1, <1>2 DEF CalculateCurrentPosition
<1> HIDE DEF m
<1>4. [r EXCEPT !.pos = m].pos = m /\ [s EXCEPT !.pos = m].pos = m
  BY DEF Record, Fields
<1> QED
  BY <1>3, <1>4

\* What a pass that got past the pause makes of the move.
LEMMA PassIs ==
    ASSUME NEW now, Orderly(now), Working(now)
    PROVE  /\ Orderly(rs') /\ Goes(now, rs')
           /\ rs'.opening = now.opening /\ rs'.closing = now.closing
           /\ \/ rs'.calibrate = now.calibrate
              \/ /\ InProgress(now) /\ now.since > now.calTime
                 /\ rs'.dir = "stop" /\ rs'.calibrate = FALSE /\ rs'.calTime = 0
                 /\ rs'.pos = IF now.dir = "up" THEN 0 ELSE FullTravel
           /\ IsCalibrated(now) =>
                  /\ rs'.calibrate = now.calibrate /\ rs'.calTime = 0
                  /\ now.dir = "stop" =>
                         /\ rs'.pos = now.pos
                         /\ rs'.dir = "stop" \/ (rs'.since = 0 /\ rs'.before = now.pos)
                  /\ now.dir # "stop" /\ ~ Measures(now) =>
                         rs'.pos = now.pos /\ (rs'.dir = "stop" \/ SameMove(now, rs'))
                  /\ now.dir # "stop" /\ Measures(now) =>
                         /\ rs'.pos = CalculateCurrentPosition(now).pos
                         /\ \/ rs'.dir = "stop" \/ SameMove(now, rs')
                            \/ /\ rs'.dir = now.dir /\ rs'.before = now.before /\ rs'.since = 0
                               /\ IF now.dir = "up" THEN GetCurrentPosition(rs') <= 0
                                                    ELSE GetCurrentPosition(rs') >= 100
<1> DEFINE r == HandleStop(now)
           s == rs'
<1>1. /\ Orderly(r) /\ Goes(now, r) /\ SameSettings(now, r)
      /\ r.pos = now.pos /\ r.since = now.since /\ r.before = now.before
      /\ IF now.target = StopRequest
         THEN r.dir = "stop" /\ r.target = StopPosition /\ r.newTarget = FALSE
              /\ r.calTime = 0
         ELSE /\ r.dir = now.dir /\ r.target = now.target /\ r.calTime = now.calTime
              /\ r.newTarget = (now.newTarget /\ now.target # StopPosition)
  BY HandleStopIs
<1>2. PICK done : /\ s = TimedOut(done)
                  /\ \/ IsCalibrationRequested(r) /\ done = Calibrate(r)
                     \/ IsCalibrated(r) /\ done = Move(r)
                     \/ /\ ~ IsCalibrationRequested(r) /\ ~ IsCalibrated(r)
                        /\ done = MoveBlindly(r)
  BY DEF Working, EndPass
<1>3. SameMove(now, r) \/ (now.target = StopRequest /\ r.dir = "stop")
  <2>1. CASE now.target # StopRequest
    <3>1. ~ ((now.target = StopPosition /\ now.dir # "stop") \/ now.target = StopRequest)
      BY <2>1 DEF Orderly
    <3>2. r = [now EXCEPT !.newTarget = now.newTarget /\ now.target # StopPosition]
      BY <3>1 DEF HandleStop
    <3> QED
      BY <3>2 DEF SameMove, Orderly, Typed, Record, Fields
  <2> QED
    BY <1>1, <2>1
<1> HIDE DEF r, s
<1>4. CASE IsCalibrationRequested(r) /\ done = Calibrate(r)
  <2>1. /\ Orderly(done) /\ Goes(r, done)
        /\ done.opening = r.opening /\ done.closing = r.closing
        /\ \/ done.calibrate = r.calibrate
           \/ /\ InProgress(r) /\ r.since > r.calTime
              /\ done.dir = "stop" /\ done.calibrate = FALSE /\ done.calTime = 0
              /\ done.pos = IF r.dir = "up" THEN 0 ELSE FullTravel
    BY <1>1, <1>4, CalibrateIs
  <2>2. /\ Orderly(s) /\ SameSettings(done, s)
        /\ s.dir = done.dir /\ s.up = done.up /\ s.down = done.down /\ s.pos = done.pos
        /\ s.since = done.since /\ s.before = done.before /\ s.calTime = done.calTime
    BY <1>2, <2>1, TimedOutIs
  <2>3. ~ IsCalibrated(now)
    BY <1>1, <1>4 DEF IsCalibrated, IsCalibrationRequested, SameSettings
  <2>4. Goes(now, s)
    BY <1>1, <2>1, <2>2 DEF Goes
  <2>5. InProgress(r) => InProgress(now) /\ now.calTime = r.calTime /\ now.dir = r.dir
    BY <1>1 DEF InProgress, Orderly
  <2> QED
    BY <1>1, <2>1, <2>2, <2>3, <2>4, <2>5 DEF SameSettings, s
<1>5. CASE ~ IsCalibrationRequested(r) /\ ~ IsCalibrated(r) /\ done = MoveBlindly(r)
  <2>1. Orderly(done) /\ Goes(r, done) /\ SameSettings(r, done)
    BY <1>1, <1>5, MoveBlindlyIs
  <2>2. /\ Orderly(s) /\ SameSettings(done, s)
        /\ s.up = done.up /\ s.down = done.down /\ s.since = done.since
    BY <1>2, <2>1, TimedOutIs
  <2>3. ~ IsCalibrated(now)
    BY <1>1, <1>5 DEF IsCalibrated, SameSettings
  <2>4. Goes(now, s)
    BY <1>1, <2>1, <2>2 DEF Goes
  <2> QED
    BY <1>1, <2>1, <2>2, <2>3, <2>4 DEF SameSettings, s
<1>6. CASE IsCalibrated(r) /\ done = Move(r)
  <2>1. /\ Orderly(done) /\ Goes(r, done) /\ SameSettings(r, done) /\ done.calTime = 0
        /\ r.dir = "stop" => /\ done.pos = r.pos
                             /\ done.dir = "stop" \/ (done.since = 0 /\ done.before = r.pos)
        /\ r.dir # "stop" /\ r.newTarget =>
               done.pos = r.pos /\ (done.dir = "stop" \/ SameMove(r, done))
        /\ r.dir # "stop" /\ ~ r.newTarget =>
               /\ done.pos = CalculateCurrentPosition(r).pos
               /\ \/ done.dir = "stop" \/ SameMove(r, done)
                  \/ /\ done.dir = r.dir /\ done.before = r.before /\ done.since = 0
                     /\ IF r.dir = "up" THEN GetCurrentPosition(done) <= 0
                                        ELSE GetCurrentPosition(done) >= 100
    BY <1>1, <1>6, MoveIs
  <2>2. /\ Orderly(s) /\ SameSettings(done, s)
        /\ s.dir = done.dir /\ s.up = done.up /\ s.down = done.down /\ s.pos = done.pos
        /\ s.since = done.since /\ s.before = done.before /\ s.calTime = done.calTime
    BY <1>2, <2>1, TimedOutIs
  <2>3. GetCurrentPosition(s) = GetCurrentPosition(done)
    BY <2>2 DEF GetCurrentPosition
  <2>4. Goes(now, s)
    BY <1>1, <2>1, <2>2 DEF Goes
  <2>5. ASSUME now.dir # "stop", now.target # StopRequest
        PROVE  CalculateCurrentPosition(r).pos = CalculateCurrentPosition(now).pos
    BY <1>1, <2>5, CalculatedSame DEF Orderly, Typed, SameSettings
  <2>6. Measures(now) => ~ r.newTarget /\ now.target # StopRequest
    BY <1>1 DEF Measures
  <2>7. now.dir # "stop" /\ ~ Measures(now) =>
            s.pos = now.pos /\ (s.dir = "stop" \/ SameMove(now, s))
    <3> SUFFICES ASSUME now.dir # "stop", ~ Measures(now)
                 PROVE  s.pos = now.pos /\ (s.dir = "stop" \/ SameMove(now, s))
      OBVIOUS
    <3>1. CASE now.target = StopRequest
      <4>1. s = TimedOut(r)
        BY <1>1, <1>2, <1>6, <3>1 DEF Move
      <4>2. s.dir = r.dir /\ s.pos = r.pos
        BY <1>1, <4>1, TimedOutIs
      <4> QED
        BY <1>1, <3>1, <4>2
    <3>2. CASE now.target # StopRequest
      <4>1. IsCalibrated(now)
        BY <1>1, <1>6 DEF IsCalibrated, SameSettings
      <4>2. now.newTarget
        BY <3>2, <4>1 DEF Measures
      <4>3. now.target # StopPosition
        BY DEF Orderly
      <4>4. r.newTarget /\ r.dir # "stop"
        BY <1>1, <3>2, <4>2, <4>3
      <4> QED
        BY <1>1, <1>3, <2>1, <2>2, <3>2, <4>4 DEF SameMove
    <3> QED
      BY <3>1, <3>2
  <2>8. now.dir = "stop" => /\ s.pos = now.pos
                            /\ s.dir = "stop" \/ (s.since = 0 /\ s.before = now.pos)
    BY <1>1, <2>1, <2>2
  <2>9. now.dir # "stop" /\ Measures(now) =>
            /\ s.pos = CalculateCurrentPosition(now).pos
            /\ \/ s.dir = "stop" \/ SameMove(now, s)
               \/ /\ s.dir = now.dir /\ s.before = now.before /\ s.since = 0
                  /\ IF now.dir = "up" THEN GetCurrentPosition(s) <= 0
                                       ELSE GetCurrentPosition(s) >= 100
    <3> SUFFICES ASSUME now.dir # "stop", Measures(now)
                 PROVE  /\ s.pos = CalculateCurrentPosition(now).pos
                        /\ \/ s.dir = "stop" \/ SameMove(now, s)
                           \/ /\ s.dir = now.dir /\ s.before = now.before /\ s.since = 0
                              /\ IF now.dir = "up" THEN GetCurrentPosition(s) <= 0
                                                   ELSE GetCurrentPosition(s) >= 100
      OBVIOUS
    <3>1. r.dir = now.dir /\ ~ r.newTarget /\ SameMove(now, r)
          /\ CalculateCurrentPosition(r).pos = CalculateCurrentPosition(now).pos
      BY <1>1, <1>3, <2>5, <2>6
    <3> QED
      BY <2>1, <2>2, <2>3, <3>1 DEF SameMove
  <2>10. s.calibrate = now.calibrate /\ s.calTime = 0
         /\ s.opening = now.opening /\ s.closing = now.closing
    BY <1>1, <2>1, <2>2 DEF SameSettings
  <2> QED
    BY <2>2, <2>4, <2>7, <2>8, <2>9, <2>10 DEF s
<1> QED
  BY <1>2, <1>4, <1>5, <1>6

----------------------------------------------------------------------------
(* The way in the direction of a move.                                        *)

\* How far a position is along the direction, how far the shutter has been
\* driven, how far it goes in a millisecond and what the whole way takes.
Along(dir, pos) == IF dir = "down" THEN pos ELSE FullTravel - pos
Driven(dir, at) == IF dir = "down" THEN at ELSE Way - at
Speed(dir) == IF dir = "down" THEN OpeningTime(RealTime) ELSE RealTime
FullTime(dir) == IF dir = "down" THEN RealTime ELSE OpeningTime(RealTime)

\* The whole way is the speed for the full time, in both directions.
LEMMA DirectionIs ==
    ASSUME NEW dir \in {"up", "down"}
    PROVE  /\ Speed(dir) \in Nat \ {0} /\ FullTime(dir) \in Nat \ {0}
           /\ Way = FullTime(dir) * Speed(dir) /\ FullTime(dir) >= RealTime
           /\ \A at \in 0 .. Way : Driven(dir, at) \in 0 .. Way
           /\ \A pos \in Travel : Along(dir, pos) \in 0 .. FullTravel
<1>1. PICK o \in Nat \ {0} : o = OpeningTime(RealTime)
  BY WayType
<1>2. /\ RealTime \in Nat \ {0} /\ o >= RealTime
      /\ Way \in Nat \ {0} /\ Way = RealTime * o
  BY <1>1, WayType
<1>3. Speed(dir) \in {RealTime, o} /\ FullTime(dir) \in {RealTime, o}
  BY <1>1 DEF Speed, FullTime
<1>4. Way = FullTime(dir) * Speed(dir)
  <2>1. dir = "down" => Speed(dir) = o /\ FullTime(dir) = RealTime
    BY <1>1 DEF Speed, FullTime
  <2>2. dir # "down" => Speed(dir) = RealTime /\ FullTime(dir) = o
    BY <1>1 DEF Speed, FullTime
  <2>3. RealTime * o = o * RealTime
    BY <1>1, <1>2
  <2> QED
    BY <1>2, <2>1, <2>2, <2>3
<1>5. \A at \in 0 .. Way : Driven(dir, at) \in 0 .. Way
  BY <1>2 DEF Driven
<1>6. \A pos \in Travel : Along(dir, pos) \in 0 .. FullTravel
  BY FullTravelType DEF Along, Travel
<1> QED
  BY <1>1, <1>2, <1>3, <1>4, <1>5, <1>6

\* The clock of a move tells times up to the full time apart.
LEMMA ClockSuffices ==
    ASSUME NEW dir \in {"up", "down"}
    PROVE  FullTime(dir) + PeriodMs <= ClockCapMs
<1> DEFINE longest == CHOOSE t \in Times \cup {RealTime} :
                         \A u \in Times \cup {RealTime} : t >= u
<1>1. longest \in Times \cup {RealTime} /\ \A u \in Times \cup {RealTime} : longest >= u
  <2>1. PICK m \in Times \cup {RealTime} :
           \A time \in Times : time <= m /\ RealTime <= m
    BY ShutterAssumption
  <2>2. m \in Nat /\ Times \subseteq Nat /\ RealTime \in Nat
    BY ShutterAssumption
  <2>3. RealTime <= m
    BY <2>1, <2>2
  <2>4. \E t \in Times \cup {RealTime} : \A u \in Times \cup {RealTime} : t >= u
    BY <2>1, <2>2, <2>3
  <2> QED
    BY <2>4
<1>2. ClockCapMs = Greatest(DefaultTimeoutMs, 2 * OpeningTime(longest)) + 2 * PeriodMs
  BY Zenon DEF ClockCapMs
<1> HIDE DEF longest
<1>3. longest \in Nat /\ longest >= RealTime /\ RealTime \in Nat \ {0}
  BY <1>1, ShutterAssumption
<1>4. OpeningTime(longest) \in Nat /\ OpeningTime(longest) >= OpeningTime(RealTime)
  BY <1>3, ShutterAssumption DEF OpeningTime
<1>5. FullTime(dir) \in Nat /\ FullTime(dir) <= OpeningTime(RealTime)
      /\ OpeningTime(RealTime) \in Nat
  BY WayType DEF FullTime
<1> QED
  BY <1>2, <1>4, <1>5, ShutterAssumption DEF Greatest

\* The motor is on in the direction.
MotorOn(dir) == IF dir = "up" THEN rs.up ELSE rs.down

\* The way a move has gone is at least what its time gives, or the whole.
Running(dir, time, at) == Driven(dir, at) = Way \/ Driven(dir, at) >= time * Speed(dir)

\* A period with the motor on.
LEMMA PeriodDrives ==
    ASSUME MotorInv, DataInv, NEW dir \in {"up", "down"}, MotorOn(dir)
    PROVE  Driven(dir, Drive(shutter)) = Least(Driven(dir, shutter) + PeriodMs * Speed(dir), Way)
<1>1. PICK o \in Nat : o = PeriodMs * OpeningTime(RealTime)
  BY WayType, ShutterAssumption
<1>2. PICK c \in Nat : c = PeriodMs * RealTime
  BY WayType, ShutterAssumption
<1>3. Drive(shutter) = IF rs.up THEN Greatest(shutter - c, 0)
                       ELSE IF rs.down THEN Least(shutter + o, Way) ELSE shutter
  BY <1>1, <1>2, Zenon DEF Drive
<1>4. shutter \in 0 .. Way /\ Way \in Nat /\ ~ (rs.up /\ rs.down)
  BY WayType DEF DataInv, MotorInv, TypeInv, RelayInv
<1>5. CASE dir = "up"
  <2>1. PeriodMs * Speed(dir) = c
    BY <1>2, <1>5 DEF Speed
  <2>2. Drive(shutter) = Greatest(shutter - c, 0)
    BY <1>3, <1>5 DEF MotorOn
  <2> QED
    BY <1>4, <1>5, <2>1, <2>2 DEF Driven, Greatest, Least
<1>6. CASE dir = "down"
  <2>1. PeriodMs * Speed(dir) = o
    BY <1>1, <1>6 DEF Speed
  <2>2. Drive(shutter) = Least(shutter + o, Way)
    BY <1>3, <1>4, <1>6 DEF MotorOn
  <2> QED
    BY <1>4, <1>6, <2>1, <2>2 DEF Driven, Greatest, Least
<1> QED
  BY <1>5, <1>6

\* The clock of a move in that period.
LEMMA PeriodPasses ==
    ASSUME MotorInv, DataInv, NEW dir \in {"up", "down"}, rs.dir # "stop"
    PROVE  LET time == Elapse(rs).since
           IN  /\ time \in Nat /\ rs.since \in Nat
               /\ \/ time = rs.since + PeriodMs
                  \/ rs.since >= FullTime(dir) /\ time >= FullTime(dir)
<1>1. Elapse(rs).since = Least(rs.since + PeriodMs, ClockCapMs)
  BY DEF Elapse, MotorInv, TypeInv, Record, Fields
<1>2. rs.since \in 0 .. ClockCapMs /\ ClockCapMs \in Nat
  BY ClockCapType DEF DataInv, Typed
<1>3. FullTime(dir) + PeriodMs <= ClockCapMs /\ FullTime(dir) \in Nat
  BY ClockSuffices, DirectionIs
<1> QED
  BY <1>1, <1>2, <1>3, ShutterAssumption DEF Least

\* So the shutter runs with its clock, and is at the end when the time is over.
LEMMA RunningGoes ==
    ASSUME MotorInv, DataInv, NEW dir \in {"up", "down"}, MotorOn(dir), rs.dir # "stop",
           Running(dir, rs.since, shutter)
    PROVE  LET at == Driven(dir, shutter)
               next == Driven(dir, Drive(shutter))
               time == Elapse(rs).since
           IN  /\ at \in 0 .. Way /\ next \in 0 .. Way
               /\ next >= at /\ next - at <= PeriodMs * Speed(dir)
               /\ next = Way \/ (time = rs.since + PeriodMs /\ next = at + PeriodMs * Speed(dir))
               /\ Running(dir, time, Drive(shutter))
               /\ time >= FullTime(dir) => next = Way
<1> DEFINE at == Driven(dir, shutter)
           next == Driven(dir, Drive(shutter))
           time == Elapse(rs).since
<1>1. PICK k \in Nat \ {0} : k = Speed(dir)
  BY DirectionIs
<1>2. PICK full \in Nat \ {0} : full = FullTime(dir)
  BY DirectionIs
<1>3. Way \in Nat /\ Way = full * k
  BY <1>1, <1>2, DirectionIs, WayType
<1>4. at \in 0 .. Way /\ next \in 0 .. Way
  <2>1. shutter \in 0 .. Way /\ Drive(shutter) \in 0 .. Way
    BY DriveType DEF DataInv
  <2> QED
    BY <2>1, DirectionIs
<1>5. next = Least(at + PeriodMs * k, Way)
  BY <1>1, PeriodDrives
<1>6. /\ time \in Nat /\ rs.since \in Nat
      /\ time = rs.since + PeriodMs \/ (rs.since >= full /\ time >= full)
  BY <1>2, PeriodPasses
<1>7. at = Way \/ at >= rs.since * k
  BY <1>1 DEF Running
<1>8. PICK t \in Nat : t = rs.since
  BY <1>6
<1> HIDE DEF at, next, time
<1>9. /\ next >= at /\ next - at <= PeriodMs * k
      /\ next = Way \/ (next >= time * k /\ time = t + PeriodMs /\ next = at + PeriodMs * k)
  <2>1. PICK step \in Nat : step = PeriodMs * k
    BY ShutterAssumption
  <2>2. next = IF at + step > Way THEN Way ELSE at + step
    <3>1. next = Least(at + step, Way)
      BY <1>5, <2>1
    <3> QED
      BY <1>3, <1>4, <2>1, <3>1 DEF Least
  <2>3. next >= at /\ next - at <= step
    BY <1>3, <1>4, <2>2
  <2>4. ASSUME next # Way PROVE next >= time * k /\ time = t + PeriodMs /\ next = at + step
    <3>1. next = at + step /\ at # Way
      BY <1>3, <1>4, <2>1, <2>2, <2>4
    <3>2. t < full
      <4> SUFFICES ASSUME t >= full PROVE FALSE
        OBVIOUS
      <4>1. full * k <= t * k
        BY Monotone
      <4>2. at >= t * k /\ t * k \in Nat
        BY <1>7, <1>8, <3>1
      <4> QED
        BY <1>3, <1>4, <3>1, <4>1, <4>2
    <3>3. time = t + PeriodMs
      BY <1>6, <1>8, <3>2
    <3>4. time * k = t * k + step /\ t * k \in Nat
      BY <2>1, <3>3, ShutterAssumption
    <3> QED
      BY <1>4, <1>7, <1>8, <2>1, <3>1, <3>3, <3>4
  <2> QED
    BY <2>1, <2>3, <2>4
<1>10. time >= full => next = Way
  <2> SUFFICES ASSUME time >= full, next # Way PROVE FALSE
    OBVIOUS
  <2>1. full * k <= time * k
    BY <1>6, Monotone
  <2>2. next >= time * k
    BY <1>9
  <2> QED
    BY <1>3, <1>4, <1>6, <2>1, <2>2
<1>11. next = Way \/ next >= time * Speed(dir)
  BY <1>1, <1>9
<1> QED
  BY <1>1, <1>2, <1>4, <1>8, <1>9, <1>10, <1>11 DEF Running, at, next, time

----------------------------------------------------------------------------
(* How far the position may be off.                                           *)

\* The position is where the shutter is, but for e.
Near(pos, at, e) == pos * Way - at * FullTravel \in - e .. e

AtEnd(r) == GetCurrentPosition(r) = IF r.dir = "up" THEN 0 ELSE 100

\* A position of a move is ahead of the shutter by e at most, and behind it by
\* what was not measured as well.
Follows(r, at, e, unmeasured) ==
    LET a == Along(r.dir, r.pos) * Way
        d == Driven(r.dir, at) * FullTravel
    IN  a - d <= e /\ d - a <= e + unmeasured

\* The shutter is where the time of the move puts it, but for e, or at the end.
Course(r, at, e) ==
    LET b == Along(r.dir, r.before) * Way
        d == Driven(r.dir, at) * FullTravel
        gone == r.since * (FullTravel * Speed(r.dir))
    IN  /\ r.before \in Travel
        /\ \/ AtEnd(r)
           \/ /\ d <= b + e + gone
              /\ Driven(r.dir, at) = Way \/ d >= b - e + gone

\* Near is the same along the way.
LEMMA NearAlong ==
    ASSUME NEW dir \in {"up", "down"}, NEW pos \in Travel, NEW at \in 0 .. Way, NEW e \in Nat
    PROVE  Near(pos, at, e) <=>
               /\ Along(dir, pos) * Way - Driven(dir, at) * FullTravel <= e
               /\ Driven(dir, at) * FullTravel - Along(dir, pos) * Way <= e
<1>1. PICK n \in Nat : n = FullTravel
  BY FullTravelType
<1>2. PICK w \in Nat : w = Way
  BY WayType
<1>3. pos \in 0 .. n /\ at \in 0 .. w
  BY <1>1, <1>2 DEF Travel
<1>4. PICK p \in Nat : p = pos * w
  BY <1>3
<1>5. PICK d \in Nat : d = at * n
  BY <1>3
<1>6. Near(pos, at, e) <=> p - d \in - e .. e
  BY <1>1, <1>2, <1>4, <1>5, Zenon DEF Near
<1>7. CASE dir = "down"
  <2>1. Along(dir, pos) * Way = p /\ Driven(dir, at) * FullTravel = d
    BY <1>1, <1>2, <1>4, <1>5, <1>7 DEF Along, Driven
  <2> QED
    BY <1>6, <2>1
<1>8. CASE dir = "up"
  <2>1. PICK top \in Nat : top = n * w
    OBVIOUS
  <2>2. (n - pos) * w = top - p
    BY <1>3, <1>4, <2>1
  <2>3. (w - at) * n = top - d
    BY <1>3, <1>5, <2>1
  <2>4. Along(dir, pos) * Way = top - p /\ Driven(dir, at) * FullTravel = top - d
    BY <1>1, <1>2, <1>8, <2>2, <2>3 DEF Along, Driven
  <2> QED
    BY <1>6, <2>1, <2>4
<1> QED
  BY <1>7, <1>8

\* At the end both are at the end, but for half a percent.
LEMMA EndAlong ==
    ASSUME NEW r, r.pos \in Travel, r.dir \in {"up", "down"}, AtEnd(r)
    PROVE  FullTravel - Along(r.dir, r.pos) \in 0 .. HalfPercent
<1>1. PICK p \in 0 .. FullTravel : p = r.pos
  BY DEF Travel
<1>2. PICK q : q = (p + 50) \div 100
  OBVIOUS
<1>3. GetCurrentPosition(r) = q
  BY <1>1, <1>2, FullTravelType DEF GetCurrentPosition
<1>4. q \in Nat /\ q * 100 <= p + 50 /\ p + 50 < q * 100 + 100
  <2>1. p + 50 \in Nat
    BY <1>1, FullTravelType
  <2> QED
    BY <1>2, <2>1, QuotientIs
<1>5. CASE r.dir = "up"
  <2>1. q = 0
    BY <1>3, <1>5 DEF AtEnd
  <2>2. p \in 0 .. 50
    BY <1>1, <2>1, <1>4, FullTravelType
  <2> QED
    BY <1>1, <1>5, <2>2, FullTravelType DEF Along, HalfPercent
<1>6. CASE r.dir = "down"
  <2>1. q = 100
    BY <1>3, <1>6 DEF AtEnd
  <2>2. p + 50 >= FullTravel
    BY <2>1, <1>4 DEF FullTravel
  <2> QED
    BY <1>1, <1>6, <2>2, FullTravelType DEF Along, HalfPercent
<1> QED
  BY <1>5, <1>6

\* A move that starts where the position was known.
LEMMA StartCourse ==
    ASSUME NEW r, r.dir \in {"up", "down"}, r.since = 0, r.before = r.pos, r.pos \in Travel,
           NEW at \in 0 .. Way, NEW e \in Nat, Near(r.pos, at, e)
    PROVE  Course(r, at, e) /\ Follows(r, at, e, 0)
<1>1. PICK a : a = Along(r.dir, r.pos) * Way
  OBVIOUS
<1>2. PICK d : d = Driven(r.dir, at) * FullTravel
  OBVIOUS
<1>3. a \in Nat /\ d \in Nat
  <2>1. Along(r.dir, r.pos) \in Nat /\ Driven(r.dir, at) \in Nat
    BY DirectionIs
  <2> QED
    BY <1>1, <1>2, <2>1, WayType, FullTravelType
<1>4. a - d <= e /\ d - a <= e
  BY <1>1, <1>2, NearAlong
<1>5. PICK gone : gone = r.since * (FullTravel * Speed(r.dir))
  OBVIOUS
<1>6. gone = 0
  <2>1. FullTravel * Speed(r.dir) \in Nat
    BY FullTravelType, DirectionIs
  <2> QED
    BY <1>5, <2>1
<1>7. d <= a + e + gone /\ d >= a - e + gone
  BY <1>3, <1>4, <1>6
<1>8. Course(r, at, e)
  BY <1>1, <1>2, <1>5, <1>7, Zenon DEF Course
<1>9. a - d <= e /\ d - a <= e + 0
  BY <1>3, <1>4
<1> QED
  BY <1>1, <1>2, <1>8, <1>9, Zenon DEF Follows

\* A period later the shutter is still on its course.
LEMMA CourseGoes ==
    ASSUME MotorInv, DataInv, rs.dir \in {"up", "down"}, MotorOn(rs.dir),
           Running(rs.dir, rs.since, shutter),
           NEW e \in Nat, Course(rs, shutter, e)
    PROVE  Course(Elapse(rs), Drive(shutter), e)
<1> DEFINE dir == rs.dir
           at == Driven(dir, shutter)
           next == Driven(dir, Drive(shutter))
           now == Elapse(rs)
<1>1. /\ now.dir = dir /\ now.before = rs.before /\ now.pos = rs.pos
  BY DEF Elapse, MotorInv, TypeInv, Record, Fields
<1>2. AtEnd(rs) => AtEnd(now)
  BY <1>1 DEF AtEnd, GetCurrentPosition
<1>3. rs.before \in Travel
  BY DEF Course
<1>4. CASE AtEnd(rs)
  BY <1>1, <1>2, <1>3, <1>4 DEF Course
<1>5. CASE ~ AtEnd(rs)
  <2>1. PICK k \in Nat \ {0} : k = Speed(dir)
    BY DirectionIs
  <2>2. PICK full \in Nat \ {0} : full = FullTime(dir)
    BY DirectionIs
  <2>3. Way \in Nat /\ Way = full * k
    BY <2>1, <2>2, DirectionIs, WayType
  <2>4. PICK n \in Nat \ {0} : n = FullTravel
    BY FullTravelType
  <2>5. PICK b \in 0 .. n : b = Along(dir, rs.before)
    BY <1>3, <2>4, DirectionIs
  <2>6. PICK t \in Nat : t = rs.since
    BY PeriodPasses
  <2>7. PICK t2 \in Nat : t2 = now.since
    BY PeriodPasses
  <2>8. t2 = t + PeriodMs \/ (t >= full /\ t2 >= full)
    BY <2>2, <2>6, <2>7, PeriodPasses
  <2>9. PICK x \in 0 .. Way : x = at
    BY RunningGoes
  <2>10. PICK x2 \in 0 .. Way : x2 = next
    BY RunningGoes
  <2>11. /\ x2 >= x /\ x2 - x <= PeriodMs * k
         /\ x2 = Way \/ (t2 = t + PeriodMs /\ x2 = x + PeriodMs * k)
    <3>1. /\ next >= at /\ next - at <= PeriodMs * Speed(dir)
          /\ next = Way \/ (now.since = rs.since + PeriodMs /\ next = at + PeriodMs * Speed(dir))
      BY RunningGoes
    <3> HIDE DEF at, next, now, dir
    <3> QED
      BY <3>1, <2>1, <2>6, <2>7, <2>9, <2>10
  <2>12. x * n <= b * Way + e + t * (n * k) /\ (x = Way \/ x * n >= b * Way - e + t * (n * k))
    <3>1. /\ at * FullTravel <= Along(dir, rs.before) * Way + e
                                + rs.since * (FullTravel * Speed(dir))
          /\ \/ at = Way
             \/ at * FullTravel >= Along(dir, rs.before) * Way - e
                                   + rs.since * (FullTravel * Speed(dir))
      BY <1>5, Zenon DEF Course
    <3> HIDE DEF at, next, now, dir
    <3> QED
      BY <3>1, <2>1, <2>4, <2>5, <2>6, <2>9
  <2>13. /\ x2 * n <= b * Way + e + t2 * (n * k)
         /\ x2 = Way \/ x2 * n >= b * Way - e + t2 * (n * k)
    <3> HIDE DEF at, next, now, dir
    <3> QED
      BY <2>3, <2>8, <2>11, <2>12, ShutterAssumption, CourseInTime
  <2>14. /\ next * FullTravel <= Along(dir, rs.before) * Way + e
                                 + now.since * (FullTravel * Speed(dir))
         /\ \/ next = Way
            \/ next * FullTravel >= Along(dir, rs.before) * Way - e
                                    + now.since * (FullTravel * Speed(dir))
    <3> HIDE DEF at, next, now, dir
    <3> QED
      BY <2>1, <2>4, <2>5, <2>7, <2>10, <2>13
  <2> HIDE DEF now
  <2>15. Course(now, Drive(shutter), e)
    BY <1>1, <1>3, <2>14, Zenon DEF Course
  <2> QED
    BY <2>15 DEF now
<1> QED
  BY <1>4, <1>5

\* The way of a period, in the unit of the products.
PeriodWay(dir) == FullTravel * (Speed(dir) * PeriodMs)

\* A period later the position, if not measured, is behind by its way.
LEMMA FollowsGoes ==
    ASSUME MotorInv, DataInv, rs.dir \in {"up", "down"}, MotorOn(rs.dir), rs.pos \in Travel,
           Running(rs.dir, rs.since, shutter),
           NEW e \in Nat, NEW n \in Nat, Follows(rs, shutter, e, n * PeriodWay(rs.dir))
    PROVE  Follows(Elapse(rs), Drive(shutter), e, (n + 1) * PeriodWay(rs.dir))
<1> DEFINE dir == rs.dir
           at == Driven(dir, shutter)
           next == Driven(dir, Drive(shutter))
           now == Elapse(rs)
<1>1. now.dir = dir /\ now.pos = rs.pos
  BY DEF Elapse, MotorInv, TypeInv, Record, Fields
<1>2. PICK p \in Nat : p = PeriodMs * Speed(dir) /\ p = Speed(dir) * PeriodMs
  BY DirectionIs, ShutterAssumption
<1>3. PICK x \in 0 .. Way : x = at
  BY RunningGoes
<1>4. PICK x2 \in 0 .. Way : x2 = next
  BY RunningGoes
<1>5. x2 >= x /\ x2 - x <= p
  <2>1. next >= at /\ next - at <= PeriodMs * Speed(dir)
    BY RunningGoes
  <2> HIDE DEF at, next
  <2> QED
    BY <2>1, <1>2, <1>3, <1>4
<1>6. PICK f \in Nat : f = FullTravel
  BY FullTravelType
<1>7. PICK a \in Nat : a = Along(dir, rs.pos) * Way
  BY DirectionIs, WayType
<1>8. PICK q \in Nat : q = PeriodWay(dir) /\ q = p * f
  <2>1. FullTravel * p = p * f
    BY <1>6
  <2>2. p * f \in Nat
    BY <1>6
  <2> QED
    BY <1>2, <2>1, <2>2, Zenon DEF PeriodWay
<1>9. a - x * f <= e /\ x * f - a <= e + n * q
  <2>1. a - at * FullTravel <= e /\ at * FullTravel - a <= e + n * PeriodWay(dir)
    BY <1>7, Zenon DEF Follows
  <2> HIDE DEF at, dir
  <2> QED
    BY <2>1, <1>3, <1>6, <1>8
<1>10. /\ x * f <= x2 * f /\ x2 * f <= (x + p) * f
       /\ (x + p) * f = x * f + q /\ x * f \in Nat /\ x2 * f \in Nat
  <2>2. x \in Nat /\ x2 \in Nat
    BY WayType
  <2>3. x * f <= x2 * f /\ x2 * f <= (x + p) * f
    BY <1>5, <2>2, Monotone
  <2>4. (x + p) * f = x * f + p * f /\ x * f \in Nat /\ x2 * f \in Nat
    BY <2>2
  <2> QED
    BY <1>8, <2>3, <2>4
<1>11. (n + 1) * q = n * q + q /\ n * q \in Nat
  OBVIOUS
<1>12. a - x2 * f <= e /\ x2 * f - a <= e + (n + 1) * q
  BY <1>9, <1>10, <1>11
<1>13. a - next * FullTravel <= e /\ next * FullTravel - a <= e + (n + 1) * PeriodWay(dir)
  <2> HIDE DEF next, dir
  <2> QED
    BY <1>4, <1>6, <1>8, <1>12
<1> HIDE DEF now
<1>14. Follows(now, Drive(shutter), e, (n + 1) * PeriodWay(dir))
  BY <1>1, <1>7, <1>13, Zenon DEF Follows
<1> QED
  BY <1>14 DEF now

\* The part of the position that is lost in a move, and in a period.
LEMMA Roundings ==
    ASSUME NEW dir \in {"up", "down"}
    PROVE  /\ MoveRounding \in Nat \ {0} /\ MoveRounding * FullTime(dir) >= FullTravel
           /\ PeriodTravel \in Nat \ {0} /\ PeriodTravel * Way >= PeriodWay(dir)
<1>1. PICK n \in Nat \ {0} : n = FullTravel
  BY FullTravelType
<1>2. PICK full \in Nat \ {0} : full = FullTime(dir) /\ full >= RealTime
  BY DirectionIs
<1>3. PICK k \in Nat \ {0} : k = Speed(dir)
  BY DirectionIs
<1>4. PICK c \in Nat \ {0} : c = RealTime
  BY ShutterAssumption
<1>5. ASSUME NEW a \in Nat, NEW g, g = a \div c + 1
      PROVE  g \in Nat \ {0} /\ g * full >= a
  <2>1. a \div c \in Nat /\ a < (a \div c) * c + c
    BY <1>4, QuotientIs
  <2>2. PICK q \in Nat : q = a \div c
    BY <2>1
  <2>3. g \in Nat \ {0} /\ (q + 1) * c = q * c + c
    BY <1>4, <1>5, <2>2
  <2>4. c * g <= full * g
    BY <1>2, <1>4, <2>3, Monotone
  <2>5. g * c >= a
    BY <1>5, <2>1, <2>2, <2>3
  <2>6. g * c = c * g /\ g * full = full * g /\ g * c \in Nat /\ g * full \in Nat
    BY <1>4, <2>3
  <2> QED
    BY <2>3, <2>4, <2>5, <2>6
<1>6. MoveRounding = n \div c + 1
  BY <1>1, <1>4, Zenon DEF MoveRounding
<1>7. PICK m \in Nat : m = FullTravel * PeriodMs
  BY FullTravelType, ShutterAssumption
<1>8. PeriodTravel = m \div c + 1
  BY <1>4, <1>7, Zenon DEF PeriodTravel
<1>9. PICK g \in Nat \ {0} : g = PeriodTravel /\ g * full >= m
  BY <1>5, <1>8
<1>10. m * k <= (g * full) * k
  BY <1>9, Monotone
<1>11. PeriodWay(dir) = m * k
  <2>1. PeriodWay(dir) = n * (k * PeriodMs)
    BY <1>1, <1>3, Zenon DEF PeriodWay
  <2>2. m = n * PeriodMs
    BY <1>1, <1>7
  <2> QED
    BY <2>1, <2>2, ShutterAssumption
<1>12. g * Way = (g * full) * k
  <2>1. Way = full * k
    BY <1>2, <1>3, DirectionIs
  <2> QED
    BY <2>1
<1> QED
  BY <1>1, <1>2, <1>5, <1>6, <1>9, <1>10, <1>11, <1>12

\* What is measured is where the shutter is, but for the rounding.
LEMMA MeasuredTracks ==
    ASSUME NEW r, Typed(r), r.dir \in {"up", "down"},
           r.closing = RealTime, r.opening = OpeningTime(RealTime), ~ AtEnd(r),
           NEW at \in 0 .. Way, NEW e \in Nat, Course(r, at, e)
    PROVE  /\ MeasuredPosition(r) \in Travel
           /\ Near(MeasuredPosition(r), at, e + MoveRounding * Way)
<1> DEFINE dir == r.dir
           q == (FullTime(dir) * (FullTravel - Along(dir, r.before))) \div FullTravel
           moved == IF FullTravel - Along(dir, r.before) <= 0 \/ q = 0 THEN 0
                    ELSE ((FullTravel - Along(dir, r.before)) * Least(r.since, q)) \div q
           position == IF dir = "up" THEN r.before - moved ELSE r.before + moved
<1>1. PICK n \in Nat \ {0} : n = FullTravel
  BY FullTravelType
<1>2. PICK full \in Nat \ {0} : full = FullTime(dir)
  BY DirectionIs
<1>3. PICK k \in Nat \ {0} : k = Speed(dir)
  BY DirectionIs
<1>4. Way \in Nat /\ Way = full * k
  BY <1>2, <1>3, DirectionIs, WayType
<1>5. r.before \in Travel /\ r.before \in 0 .. n
  BY <1>1 DEF Course, Travel
<1>6. PICK b \in 0 .. n : b = Along(dir, r.before)
  BY <1>1, <1>5, DirectionIs
<1>7. PICK t \in Nat : t = r.since
  BY ClockCapType DEF Typed
<1>8. (IF dir = "up" THEN r.before ELSE FullTravel - r.before) = FullTravel - Along(dir, r.before)
      /\ (IF dir = "up" THEN r.opening ELSE r.closing) = FullTime(dir)
  BY <1>1, <1>5 DEF Along, FullTime
<1>9. MeasuredPosition(r) = IF position < Unknown THEN 0 ELSE Least(position, FullTravel)
  BY <1>8, Zenon DEF MeasuredPosition
<1>10. PICK d \in Nat : d = n - b
  BY <1>6
<1>11. LET z == (full * d) \div n
           y == IF d <= 0 \/ z = 0 THEN 0 ELSE (d * Least(t, z)) \div z
       IN  /\ y \in 0 .. d
           /\ y * full <= t * n + n
           /\ (y + 1) * full >= t * n \/ (d - y) * full <= n
  BY MovedIs
<1>12. moved = LET z == (full * d) \div n
               IN  IF d <= 0 \/ z = 0 THEN 0 ELSE (d * Least(t, z)) \div z
  BY <1>1, <1>2, <1>6, <1>7, <1>10, Zenon
<1>13. PICK x \in 0 .. d : /\ x = moved
                           /\ x * full <= t * n + n
                           /\ (x + 1) * full >= t * n \/ (d - x) * full <= n
  BY <1>11, <1>12, Zenon
<1> HIDE DEF moved
<1>14. position \in 0 .. n /\ Along(dir, position) = b + x
  <2>1. CASE dir = "up"
    <3>1. b = n - r.before
      BY <1>1, <1>6, <2>1 DEF Along
    <3> QED
      BY <1>1, <1>5, <1>10, <1>13, <2>1, <3>1 DEF Along
  <2>2. CASE dir = "down"
    <3>1. b = r.before
      BY <1>6, <2>2 DEF Along
    <3> QED
      BY <1>1, <1>5, <1>10, <1>13, <2>2, <3>1 DEF Along
  <2> QED
    BY <2>1, <2>2
<1>15. PICK p \in 0 .. n : p = position
  BY <1>14
<1> HIDE DEF position
<1>16. MeasuredPosition(r) = p
  BY <1>1, <1>9, <1>15 DEF Unknown, Least
<1>17. p \in Travel
  BY <1>1, <1>15 DEF Travel
<1>18. PICK g \in Nat \ {0} : g = MoveRounding /\ g * full >= n
  BY <1>1, <1>2, Roundings
<1>19. PICK v \in 0 .. Way : v = Driven(dir, at)
  BY DirectionIs
<1>20. v * n <= b * Way + e + t * (n * k) /\ (v = Way \/ v * n >= b * Way - e + t * (n * k))
  <2>1. /\ Driven(dir, at) * FullTravel <= Along(dir, r.before) * Way + e
                                           + r.since * (FullTravel * Speed(dir))
        /\ \/ Driven(dir, at) = Way
           \/ Driven(dir, at) * FullTravel >= Along(dir, r.before) * Way - e
                                              + r.since * (FullTravel * Speed(dir))
    BY Zenon DEF Course
  <2> QED
    BY <1>1, <1>3, <1>6, <1>7, <1>19, <2>1
<1>21. x \in 0 .. (n - b) /\ ((x + 1) * full >= t * n \/ ((n - b) - x) * full <= n)
  BY <1>10, <1>13
<1>22. (b + x) * Way - v * n <= e + g * Way /\ v * n - (b + x) * Way <= e + g * Way
  BY <1>4, <1>13, <1>18, <1>20, <1>21, MeasuredNear
<1>23. PICK m \in Nat : m = e + g * Way
  BY <1>4
<1>24. Along(dir, p) = b + x
  BY <1>14, <1>15
<1>25. Along(dir, p) * Way - Driven(dir, at) * FullTravel <= m
       /\ Driven(dir, at) * FullTravel - Along(dir, p) * Way <= m
  BY <1>1, <1>19, <1>22, <1>23, <1>24
<1>26. Near(p, at, m)
  BY <1>17, <1>25, NearAlong
<1> QED
  BY <1>16, <1>17, <1>18, <1>23, <1>26

\* A smaller difference is a difference.
LEMMA NearWithin ==
    ASSUME NEW pos \in Travel, NEW at \in 0 .. Way, NEW e \in Nat, NEW f \in Nat, e <= f,
           Near(pos, at, e)
    PROVE  Near(pos, at, f)
<1>1. PICK a \in Int : a = pos * Way - at * FullTravel
  BY WayType, FullTravelType DEF Travel
<1> QED
  BY <1>1 DEF Near

\* Where it is near it follows.
LEMMA NearFollows ==
    ASSUME NEW r, r.dir \in {"up", "down"}, r.pos \in Travel, NEW at \in 0 .. Way,
           NEW e \in Nat, NEW f \in Nat, e <= f, Near(r.pos, at, e)
    PROVE  Follows(r, at, f, 0)
<1>1. Near(r.pos, at, f)
  BY NearWithin
<1>2. PICK a \in Nat : a = Along(r.dir, r.pos) * Way
  BY DirectionIs, WayType
<1>3. PICK d \in Nat : d = Driven(r.dir, at) * FullTravel
  BY DirectionIs, FullTravelType
<1>4. a - d <= f /\ d - a <= f + 0
  BY <1>1, <1>2, <1>3, NearAlong
<1> QED
  BY <1>2, <1>3, <1>4, Zenon DEF Follows

\* A position that follows a shutter on its way to the end is near it at the end.
LEMMA EndNear ==
    ASSUME NEW r, r.dir \in {"up", "down"}, r.pos \in Travel, AtEnd(r),
           NEW at \in 0 .. Way, NEW f \in Nat, HalfPercent * Way <= f,
           NEW unmeasured, Follows(r, at, f, unmeasured)
    PROVE  Near(r.pos, at, f)
<1>1. PICK n \in Nat : n = FullTravel
  BY FullTravelType
<1>2. PICK p \in 0 .. n : p = Along(r.dir, r.pos)
  BY <1>1, DirectionIs
<1>3. PICK x \in 0 .. Way : x = Driven(r.dir, at)
  BY DirectionIs
<1>4. n - p <= HalfPercent /\ HalfPercent \in Nat
  BY <1>1, <1>2, EndAlong DEF HalfPercent
<1>5. Way \in Nat
  BY WayType
<1>6. p * Way - x * n <= f
  BY <1>1, <1>2, <1>3, Zenon DEF Follows
<1>7. x * n - p * Way <= f
  <2>1. x * n <= Way * n
    BY <1>5, Monotone
  <2>2. (n - p) * Way <= HalfPercent * Way
    BY <1>4, <1>5, Monotone
  <2>3. Way * n = n * Way /\ (n - p) * Way = n * Way - p * Way
        /\ x * n \in Int /\ p * Way \in Int /\ n * Way \in Int /\ HalfPercent * Way \in Int
    BY <1>4, <1>5
  <2> QED
    BY <2>1, <2>2, <2>3
<1> QED
  BY <1>1, <1>2, <1>3, <1>6, <1>7, NearAlong

\* A move that is cut off is off by the periods that were not measured as well.
LEMMA CutOffNear ==
    ASSUME NEW r, r.dir \in {"up", "down"}, r.pos \in Travel, NEW at \in 0 .. Way,
           NEW e \in Nat, NEW n \in Nat, Follows(r, at, e, n * PeriodWay(r.dir))
    PROVE  Near(r.pos, at, e + (n * PeriodTravel) * Way)
<1>1. PICK a \in Nat : a = Along(r.dir, r.pos) * Way
  BY DirectionIs, WayType
<1>2. PICK d \in Nat : d = Driven(r.dir, at) * FullTravel
  BY DirectionIs, FullTravelType
<1>3. PICK q \in Int : q = PeriodWay(r.dir)
  BY DirectionIs, FullTravelType, ShutterAssumption DEF PeriodWay
<1>4. PICK w \in Nat : w = PeriodTravel * Way
  BY Roundings, WayType
<1>5. a - d <= e /\ d - a <= e + n * q
  BY <1>1, <1>2, <1>3, Zenon DEF Follows
<1>6. q <= w
  BY <1>3, <1>4, Roundings
<1>7. q * n <= w * n
  BY <1>6, Monotone
<1>8. PICK m \in Nat : m = (n * PeriodTravel) * Way /\ m = w * n
  BY <1>4, Roundings, WayType
<1>9. a - d <= e + m /\ d - a <= e + m
  BY <1>3, <1>5, <1>7, <1>8
<1>10. e + m \in Nat
  OBVIOUS
<1>11. Near(r.pos, at, e + m)
  BY <1>1, <1>2, <1>9, <1>10, NearAlong
<1> QED
  BY <1>8, <1>11

\* At the same end both are, but for half a percent.
LEMMA MeetNear ==
    ASSUME NEW r, r.pos \in Travel, NEW at \in 0 .. Way, Meet(r, at)
    PROVE  Near(r.pos, at, HalfPercent * Way)
<1>1. PICK dir \in {"up", "down"} :
         /\ GetCurrentPosition(r) = IF dir = "up" THEN 0 ELSE 100
         /\ at = IF dir = "up" THEN 0 ELSE Way
  BY DEF Meet
<1> DEFINE s == [dir |-> dir, pos |-> r.pos]
<1>2. s.dir = dir /\ s.pos = r.pos
  OBVIOUS
<1>3. GetCurrentPosition(s) = GetCurrentPosition(r)
  BY <1>2 DEF GetCurrentPosition
<1>4. AtEnd(s)
  BY <1>1, <1>2, <1>3 DEF AtEnd
<1> HIDE DEF s
<1>5. FullTravel - Along(dir, r.pos) \in 0 .. HalfPercent
  BY <1>2, <1>4, EndAlong
<1>6. Driven(dir, at) = Way
  BY <1>1, WayType DEF Driven
<1>7. PICK n \in Nat : n = FullTravel
  BY FullTravelType
<1>8. PICK p \in 0 .. n : p = Along(dir, r.pos)
  BY <1>7, DirectionIs
<1>9. PICK f \in Nat : f = HalfPercent * Way
  BY WayType DEF HalfPercent
<1>10. HalfPercent \in Nat /\ Way \in Nat
  BY WayType DEF HalfPercent
<1>11. (n - p) * Way <= f /\ 0 * Way <= (n - p) * Way
  BY <1>5, <1>7, <1>8, <1>9, <1>10, Monotone
<1>12. (n - p) * Way = Way * n - p * Way /\ p * Way \in Int /\ Way * n \in Int
  BY <1>10
<1>13. p * Way - Way * n <= f /\ Way * n - p * Way <= f
  BY <1>10, <1>11, <1>12
<1>14. Along(dir, r.pos) * Way - Driven(dir, at) * FullTravel <= f
       /\ Driven(dir, at) * FullTravel - Along(dir, r.pos) * Way <= f
  BY <1>6, <1>7, <1>8, <1>13
<1> QED
  BY <1>9, <1>14, NearAlong

----------------------------------------------------------------------------
(* The invariant of the position: the settings and the calibration go         *)
(* together, the shutter runs with the clock of the move, and while the       *)
(* settings are right the position follows it.                                *)

SettingsInv ==
    /\ Orderly(rs)
    /\ rs.opening = OpeningTime(rs.closing) /\ saved.opening = OpeningTime(saved.closing)

RunInv == \A dir \in {"up", "down"} : MotorOn(dir) => Running(dir, rs.since, shutter)

\* What a position at rest and one in a move may be off by.
Allowed == (drift + HalfPercent) * Way
AllowedMoving == (drift + HalfPercent + MoveRounding) * Way

TrustInv ==
    /\ drift \in Nat /\ skipped \in Nat
    /\ trusted =>
           /\ rs.closing = RealTime /\ ~ rs.calibrate /\ rs.calTime = 0 /\ rs.pos \in Travel
           /\ MotorOff => Near(rs.pos, shutter, Allowed)
           /\ ~ MotorOff /\ drove = rs.dir =>
                  /\ Course(rs, shutter, Allowed)
                  /\ Follows(rs, shutter, AllowedMoving, skipped * PeriodWay(rs.dir))

PositionInv == SettingsInv /\ RunInv /\ TrustInv

\* The bounds are numbers.
LEMMA AllowedType ==
    ASSUME drift \in Nat
    PROVE  /\ Allowed \in Nat /\ AllowedMoving \in Nat /\ HalfPercent \in Nat
           /\ MoveRounding \in Nat /\ PeriodTravel \in Nat
           /\ HalfPercent * Way <= Allowed /\ Allowed <= AllowedMoving
           /\ AllowedMoving = Allowed + MoveRounding * Way
<1>1. HalfPercent \in Nat /\ MoveRounding \in Nat /\ PeriodTravel \in Nat /\ Way \in Nat
  BY Roundings, WayType DEF HalfPercent
<1>2. PICK h \in Nat : h = HalfPercent
  BY <1>1
<1>3. PICK m \in Nat : m = MoveRounding
  BY <1>1
<1>4. Allowed = (drift + h) * Way /\ AllowedMoving = (drift + h + m) * Way
  BY <1>2, <1>3, Zenon DEF Allowed, AllowedMoving
<1>5. (drift + h) * Way = drift * Way + h * Way
      /\ (drift + h + m) * Way = drift * Way + h * Way + m * Way
      /\ drift * Way \in Nat /\ h * Way \in Nat /\ m * Way \in Nat
  BY <1>1
<1> QED
  BY <1>1, <1>2, <1>3, <1>4, <1>5

\* What a pass makes of the history.
LEMMA PassTrust ==
    ASSUME NEW now, Working(now)
    PROVE  /\ trusted' = IF Calibrated(now, rs')
                         THEN now.closing = RealTime /\ drove = now.dir
                         ELSE trusted /\ (MotorOff \/ drove = rs.dir)
           /\ skipped' = IF ~ trusted' \/ MotorOff \/ Measures(now) \/ rs'.dir = "stop"
                         THEN 0 ELSE skipped + 1
           /\ drift' = IF \/ Calibrated(now, rs') \/ ~ trusted'
                          \/ rs'.dir = "stop" /\ Meet(rs', Drive(shutter))
                       THEN 0
                       ELSE IF MotorOff \/ rs'.dir # "stop" THEN drift
                       ELSE drift + MoveRounding
                            + IF Measures(now) THEN 0 ELSE (skipped + 1) * PeriodTravel
BY Zenon DEF Working, EndPass

\* The time that goes by before a pass leaves the settings alone.
LEMMA ElapseOrderly ==
    ASSUME Orderly(rs)
    PROVE  LET now == Elapse(rs)
           IN  /\ Orderly(now) /\ SameSettings(rs, now)
               /\ now.dir = rs.dir /\ now.up = rs.up /\ now.down = rs.down
               /\ now.pos = rs.pos /\ now.before = rs.before /\ now.calTime = rs.calTime
               /\ now.target = rs.target
<1> DEFINE now == Elapse(rs)
<1>1. /\ SameSettings(rs, now)
      /\ now.dir = rs.dir /\ now.up = rs.up /\ now.down = rs.down
      /\ now.pos = rs.pos /\ now.before = rs.before /\ now.calTime = rs.calTime
      /\ now.target = rs.target
  BY DEF Orderly, Typed, Record, Fields, Elapse, SameSettings
<1>2. Typed(now)
  BY ElapseTyped DEF Orderly
<1> HIDE DEF now
<1>3. Orderly(now)
  BY <1>1, <1>2 DEF Orderly, IsCalibrationRequested, SameSettings
<1> QED
  BY <1>1, <1>3 DEF now

\* The motor is on in the direction its move counts as, where the wiring is right.
LEMMA DroveOn ==
    ASSUME MotorInv, rs.dir # "stop", drove = rs.dir
    PROVE  rs.dir \in {"up", "down"} /\ MotorOn(rs.dir) /\ ~ MotorOff
BY DEF MotorInv, TypeInv, RelayInv, MotorOn, MotorOff

\* With the motor off the shutter stays.
LEMMA DriveOff == ASSUME MotorOff PROVE Drive(shutter) = shutter
BY DEF MotorOff, Drive

\* A pass leaves the shutter on the clock of its move, or starts the clock.
LEMMA WorkingRun ==
    ASSUME MotorInv, DataInv, SettingsInv, RunInv, Working(Elapse(rs)), shutter' = Drive(shutter)
    PROVE  RunInv'
<1> DEFINE now == Elapse(rs)
<1>1. Orderly(now) /\ now.up = rs.up /\ now.down = rs.down /\ now.dir = rs.dir
  BY ElapseOrderly DEF SettingsInv
<1>2. Goes(now, rs')
  BY <1>1, PassIs
<1> SUFFICES ASSUME NEW dir \in {"up", "down"}, MotorOn(dir)'
             PROVE  Running(dir, rs'.since, Drive(shutter))
  BY DEF RunInv
<1>3. CASE rs'.since = 0
  <2>1. Drive(shutter) \in 0 .. Way
    BY DriveType DEF DataInv
  <2>2. PICK v \in 0 .. Way : v = Driven(dir, Drive(shutter))
    BY <2>1, DirectionIs
  <2>3. PICK k \in Nat : k = Speed(dir)
    BY DirectionIs
  <2>4. 0 * k = 0 /\ v >= 0
    BY <2>2, WayType
  <2> QED
    BY <1>3, <2>2, <2>3, <2>4 DEF Running
<1>4. CASE rs'.since # 0
  <2>1. rs'.since = now.since /\ MotorOn(dir)
    BY <1>1, <1>2, <1>4 DEF Goes, MotorOn
  <2>2. rs.dir # "stop"
    BY <2>1 DEF MotorInv, RelayInv, MotorOn
  <2>3. Running(dir, rs.since, shutter)
    BY <2>1 DEF RunInv
  <2>4. Running(dir, now.since, Drive(shutter))
    BY <2>1, <2>2, <2>3, RunningGoes
  <2> QED
    BY <2>1, <2>4
<1> QED
  BY <1>3, <1>4

\* A calibration that ends leaves position and shutter at the same end.
LEMMA CalibratedNear ==
    ASSUME MotorInv, DataInv, SettingsInv, RunInv, Working(Elapse(rs)),
           Calibrated(Elapse(rs), rs'), rs.closing = RealTime, drove = rs.dir
    PROVE  /\ rs'.dir = "stop" /\ rs'.calTime = 0 /\ ~ rs'.calibrate /\ rs'.closing = RealTime
           /\ rs'.pos \in Travel /\ Near(rs'.pos, Drive(shutter), HalfPercent * Way)
<1> DEFINE now == Elapse(rs)
           dir == rs.dir
<1>1. /\ Orderly(now) /\ SameSettings(rs, now) /\ now.dir = dir /\ now.calTime = rs.calTime
  BY ElapseOrderly DEF SettingsInv
<1>2. InProgress(now) /\ now.calibrate /\ ~ rs'.calibrate
  BY DEF Calibrated
<1>3. /\ now.since > now.calTime
      /\ rs'.dir = "stop" /\ rs'.calTime = 0 /\ rs'.closing = now.closing
      /\ rs'.pos = IF dir = "up" THEN 0 ELSE FullTravel
  BY <1>1, <1>2, PassIs
<1>4. /\ dir # "stop" /\ now.calTime \in Nat
      /\ now.calTime >= IF dir = "up" THEN now.opening ELSE now.closing
  BY <1>1, <1>2 DEF Orderly, InProgress
<1>5. dir \in {"up", "down"} /\ MotorOn(dir)
  BY <1>4, DroveOn
<1>6. (IF dir = "up" THEN now.opening ELSE now.closing) = FullTime(dir)
  BY <1>1, <1>5 DEF SettingsInv, SameSettings, FullTime
<1>7. now.since \in Nat /\ FullTime(dir) \in Nat
  BY <1>5, PeriodPasses, DirectionIs
<1>8. now.since >= FullTime(dir)
  <2> HIDE DEF now, dir
  <2> QED
    BY <1>3, <1>4, <1>6, <1>7
<1>9. Driven(dir, Drive(shutter)) = Way
  BY <1>4, <1>5, <1>8, RunningGoes DEF RunInv
<1>10. Drive(shutter) = IF dir = "up" THEN 0 ELSE Way
  <2>1. Drive(shutter) \in 0 .. Way /\ Way \in Nat
    BY DriveType, WayType DEF DataInv
  <2> QED
    BY <1>5, <1>9, <2>1 DEF Driven
<1>11. rs'.pos \in Travel /\ GetCurrentPosition(rs') = IF dir = "up" THEN 0 ELSE 100
  <2>1. CASE dir = "up"
    <3>1. rs'.pos = 0
      BY <1>3, <2>1
    <3>2. GetCurrentPosition(rs') = 0
      BY <3>1 DEF GetCurrentPosition
    <3> QED
      BY <2>1, <3>1, <3>2, FullTravelType DEF Travel
  <2>2. CASE dir # "up"
    <3>1. rs'.pos = FullTravel
      BY <1>3, <2>2
    <3>2. PICK p \in Nat : p = rs'.pos /\ p = 100 * 100
      BY <3>1 DEF FullTravel
    <3>3. p >= 0 /\ (p + 50) \div 100 = 100
      BY <3>2
    <3>4. GetCurrentPosition(rs') = IF p < 0 THEN Unknown ELSE (p + 50) \div 100
      BY <3>2, Zenon DEF GetCurrentPosition
    <3>5. GetCurrentPosition(rs') = 100
      <4>1. ~ (p < 0)
        BY <3>3
      <4> QED
        BY <3>3, <3>4, <4>1, Zenon
    <3>6. rs'.pos \in Travel
      BY <3>1, FullTravelType DEF Travel
    <3> QED
      BY <2>2, <3>5, <3>6
  <2> QED
    BY <2>1, <2>2
<1>12. Meet(rs', Drive(shutter))
  BY <1>10, <1>11 DEF Meet
<1>13. Drive(shutter) \in 0 .. Way
  BY DriveType DEF DataInv
<1>14. Near(rs'.pos, Drive(shutter), HalfPercent * Way)
  BY <1>11, <1>12, <1>13, MeetNear
<1>15. now.closing = RealTime
  BY <1>1 DEF SameSettings
<1> QED
  BY <1>2, <1>3, <1>11, <1>14, <1>15

\* A trusted shutter is calibrated, with the times of the shutter.
LEMMA TrustedTimes ==
    ASSUME MotorInv, SettingsInv, TrustInv, trusted
    PROVE  LET now == Elapse(rs)
           IN  /\ IsCalibrated(now) /\ rs.opening = OpeningTime(RealTime)
               /\ now.closing = RealTime /\ now.opening = OpeningTime(RealTime)
               /\ ~ now.calibrate /\ now.calTime = 0 /\ now.pos = rs.pos /\ now.dir = rs.dir
               /\ now.before = rs.before /\ rs.pos \in Travel
               /\ Orderly(now) /\ Typed(now)
<1> DEFINE now == Elapse(rs)
<1>1. /\ Orderly(now) /\ SameSettings(rs, now) /\ now.dir = rs.dir /\ now.pos = rs.pos
      /\ now.before = rs.before /\ now.calTime = rs.calTime
  BY ElapseOrderly DEF SettingsInv
<1>2. /\ rs.closing = RealTime /\ ~ rs.calibrate /\ rs.calTime = 0 /\ rs.pos \in Travel
      /\ rs.opening = OpeningTime(RealTime)
  BY DEF TrustInv, SettingsInv
<1> HIDE DEF now
<1>3. IsCalibrated(now)
  BY <1>1, <1>2, WayType DEF IsCalibrated, SameSettings
<1> QED
  BY <1>1, <1>2, <1>3 DEF SameSettings, Orderly, now

\* A pass of a trusted shutter at rest: it stays, or starts on its course.
LEMMA RestingTrust ==
    ASSUME MotorInv, MotorInv', DataInv, SettingsInv, TrustInv, Working(Elapse(rs)),
           shutter' = Drive(shutter), trusted, MotorOff, ~ Calibrated(Elapse(rs), rs'), trusted'
    PROVE  /\ rs'.pos \in Travel
           /\ rs'.dir = "stop" => Near(rs'.pos, shutter', Allowed')
           /\ rs'.dir # "stop" =>
                  /\ Course(rs', shutter', Allowed')
                  /\ Follows(rs', shutter', AllowedMoving', skipped' * PeriodWay(rs'.dir))
<1> DEFINE now == Elapse(rs)
<1>1. /\ IsCalibrated(now) /\ now.pos = rs.pos /\ now.dir = rs.dir /\ rs.pos \in Travel
      /\ Orderly(now)
  BY TrustedTimes
<1>2. rs.dir = "stop"
  BY DEF MotorInv, TypeInv, RelayInv, MotorOff
<1>3. rs'.pos = rs.pos /\ (rs'.dir = "stop" \/ (rs'.since = 0 /\ rs'.before = rs.pos))
  BY <1>1, <1>2, PassIs
<1>4. shutter' = shutter /\ shutter \in 0 .. Way
  BY DriveOff DEF DataInv
<1>5. /\ skipped' = 0
      /\ drift' = IF rs'.dir = "stop" /\ Meet(rs', Drive(shutter)) THEN 0 ELSE drift
  BY PassTrust
<1>6. drift \in Nat /\ Near(rs.pos, shutter, Allowed)
  BY DEF TrustInv
<1>7. CASE rs'.dir = "stop" /\ Meet(rs', Drive(shutter))
  <2>1. Near(rs'.pos, shutter', HalfPercent * Way)
    BY <1>1, <1>3, <1>4, <1>7, MeetNear
  <2>2. Allowed' = HalfPercent * Way
    BY <1>5, <1>7 DEF Allowed, HalfPercent, Way
  <2> QED
    BY <1>1, <1>3, <1>7, <2>1, <2>2
<1>8. CASE ~ (rs'.dir = "stop" /\ Meet(rs', Drive(shutter)))
  <2>1. drift' = drift
    BY <1>5, <1>8
  <2>2. Allowed' = Allowed /\ AllowedMoving' = AllowedMoving
    BY <2>1 DEF Allowed, AllowedMoving
  <2>3. Near(rs'.pos, shutter', Allowed')
    BY <1>3, <1>4, <1>6, <2>2
  <2>4. ASSUME rs'.dir # "stop"
        PROVE  /\ Course(rs', shutter', Allowed')
               /\ Follows(rs', shutter', AllowedMoving', skipped' * PeriodWay(rs'.dir))
    <3>1. rs'.dir \in {"up", "down"}
      BY <2>4 DEF MotorInv, TypeInv
    <3>2. Allowed \in Nat /\ AllowedMoving \in Nat /\ Allowed <= AllowedMoving
      BY <1>6, AllowedType
    <3>3. rs'.since = 0 /\ rs'.before = rs'.pos /\ rs'.pos \in Travel
          /\ Near(rs'.pos, shutter, Allowed)
      BY <1>1, <1>3, <1>6, <2>4
    <3>4. Course(rs', shutter, Allowed) /\ Follows(rs', shutter, AllowedMoving, 0)
      BY <1>4, <3>1, <3>2, <3>3, StartCourse, NearFollows
    <3>5. skipped' * PeriodWay(rs'.dir) = 0
      <4>1. PeriodWay(rs'.dir) \in Int
        BY <3>1, DirectionIs, FullTravelType, ShutterAssumption DEF PeriodWay
      <4> QED
        BY <1>5, <4>1
    <3> QED
      BY <1>4, <2>2, <3>4, <3>5
  <2> QED
    BY <1>1, <1>3, <2>3, <2>4
<1> QED
  BY <1>7, <1>8

\* Where the course of a move is left as it is, or its end is reached, it is kept.
LEMMA SameCourse ==
    ASSUME NEW r, NEW s, NEW at, NEW e, Course(r, at, e),
           s.dir = r.dir, s.before = r.before, AtEnd(s) \/ (s.since = r.since /\ ~ AtEnd(r))
    PROVE  Course(s, at, e)
<1>1. CASE AtEnd(s)
  BY <1>1 DEF Course
<1>2. CASE s.since = r.since /\ ~ AtEnd(r)
  BY <1>2, Zenon DEF Course
<1> QED
  BY <1>1, <1>2

\* A pass that measures leaves the position near the shutter.
LEMMA MeasuringTrust ==
    ASSUME MotorInv, DataInv, SettingsInv, RunInv, TrustInv, Working(Elapse(rs)),
           trusted, rs.dir # "stop", drove = rs.dir, Measures(Elapse(rs))
    PROVE  /\ rs'.pos \in Travel /\ Near(rs'.pos, Drive(shutter), AllowedMoving)
           /\ rs'.dir # "stop" => rs'.dir = rs.dir /\ Course(rs', Drive(shutter), Allowed)
<1> DEFINE now == Elapse(rs)
           at == Drive(shutter)
<1>1. /\ IsCalibrated(now) /\ now.pos = rs.pos /\ now.dir = rs.dir /\ rs.pos \in Travel
      /\ now.before = rs.before
      /\ now.closing = RealTime /\ now.opening = OpeningTime(RealTime)
      /\ Orderly(now) /\ Typed(now)
  BY TrustedTimes
<1>2. rs.dir \in {"up", "down"} /\ MotorOn(rs.dir) /\ ~ MotorOff
  BY DroveOn
<1>3. /\ rs'.pos = CalculateCurrentPosition(now).pos
      /\ \/ rs'.dir = "stop" \/ SameMove(now, rs')
         \/ /\ rs'.dir = now.dir /\ rs'.before = now.before /\ rs'.since = 0
            /\ IF now.dir = "up" THEN GetCurrentPosition(rs') <= 0
                                 ELSE GetCurrentPosition(rs') >= 100
  BY <1>1, PassIs
<1>4. drift \in Nat /\ skipped \in Nat /\ Course(rs, shutter, Allowed)
      /\ Follows(rs, shutter, AllowedMoving, skipped * PeriodWay(rs.dir))
  BY <1>2 DEF TrustInv
<1>5. /\ Allowed \in Nat /\ AllowedMoving \in Nat /\ HalfPercent * Way <= AllowedMoving
      /\ AllowedMoving = Allowed + MoveRounding * Way
  <2>1. HalfPercent * Way \in Int
    BY WayType DEF HalfPercent
  <2> QED
    BY <1>4, <2>1, AllowedType
<1>6. Running(rs.dir, rs.since, shutter)
  BY <1>2 DEF RunInv
<1>7. at \in 0 .. Way
  BY DriveType DEF DataInv
<1>8. Course(now, at, Allowed)
  BY <1>2, <1>4, <1>5, <1>6, CourseGoes
<1>9. Follows(now, at, AllowedMoving, (skipped + 1) * PeriodWay(rs.dir))
  BY <1>1, <1>2, <1>4, <1>5, <1>6, FollowsGoes
<1> HIDE DEF now, at
<1>10. now.dir \in {"up", "down"} /\ now.pos \in Travel
  BY <1>1, <1>2
<1>11. rs'.pos \in Travel /\ Near(rs'.pos, at, AllowedMoving) /\ (AtEnd(now) => rs'.pos = now.pos)
  <2>1. CASE AtEnd(now)
    <3>1. rs'.pos = now.pos
      BY <1>3, <2>1 DEF CalculateCurrentPosition, AtEnd
    <3>2. Near(now.pos, at, AllowedMoving)
      BY <1>5, <1>7, <1>9, <1>10, <2>1, EndNear
    <3> QED
      BY <1>10, <3>1, <3>2
  <2>2. CASE ~ AtEnd(now)
    <3> DEFINE m == MeasuredPosition(now)
    <3>1. CalculateCurrentPosition(now) = [now EXCEPT !.pos = m]
      BY <2>2 DEF CalculateCurrentPosition, AtEnd
    <3>2. m \in Travel /\ Near(m, at, Allowed + MoveRounding * Way)
      BY <1>1, <1>5, <1>7, <1>8, <1>10, <2>2, MeasuredTracks
    <3> HIDE DEF m
    <3>3. rs'.pos = m
      BY <1>1, <1>3, <3>1 DEF Typed, Record, Fields
    <3> QED
      BY <1>5, <2>2, <3>2, <3>3
  <2> QED
    BY <2>1, <2>2
<1>12. ASSUME rs'.dir # "stop" PROVE rs'.dir = rs.dir /\ Course(rs', at, Allowed)
  <2>1. rs'.dir = now.dir /\ rs'.before = now.before
    BY <1>3, <1>12 DEF SameMove
  <2>2. CASE AtEnd(now)
    <3>1. AtEnd(rs')
      BY <1>11, <2>1, <2>2 DEF AtEnd, GetCurrentPosition
    <3> QED
      BY <1>1, <1>8, <2>1, <3>1, SameCourse
  <2>3. CASE ~ AtEnd(now) /\ SameMove(now, rs')
    <3>1. rs'.since = now.since
      BY <2>3 DEF SameMove
    <3> QED
      BY <1>1, <1>8, <2>1, <2>3, <3>1, SameCourse
  <2>4. CASE rs'.since = 0 /\ IF now.dir = "up" THEN GetCurrentPosition(rs') <= 0
                                                 ELSE GetCurrentPosition(rs') >= 100
    <3>1. AtEnd(rs')
      <4>1. PICK p \in 0 .. FullTravel : p = rs'.pos
        BY <1>11 DEF Travel
      <4>2. PICK q : q = (p + 50) \div 100
        OBVIOUS
      <4>3. q \in 0 .. 100
        <5>1. 0 * 100 <= p + 50 /\ p + 50 < (100 + 1) * 100 /\ p + 50 \in Nat
          BY DEF FullTravel
        <5> QED
          BY <4>2, <5>1, QuotientBetween
      <4>4. GetCurrentPosition(rs') = q
        <5>1. ~ (p < 0)
          BY FullTravelType
        <5> QED
          BY <4>1, <4>2, <5>1, Zenon DEF GetCurrentPosition
      <4> QED
        BY <1>10, <2>1, <2>4, <4>3, <4>4 DEF AtEnd
    <3> QED
      BY <1>1, <1>8, <2>1, <3>1, SameCourse
  <2> QED
    BY <1>3, <1>12, <2>2, <2>3, <2>4
<1> QED
  BY <1>11, <1>12 DEF at

\* A pass that does not measure lets the move go on, or cuts it off.
LEMMA UnmeasuredTrust ==
    ASSUME MotorInv, DataInv, SettingsInv, RunInv, TrustInv, Working(Elapse(rs)),
           trusted, rs.dir # "stop", drove = rs.dir, ~ Measures(Elapse(rs))
    PROVE  /\ rs'.pos \in Travel
           /\ Near(rs'.pos, Drive(shutter),
                   AllowedMoving + ((skipped + 1) * PeriodTravel) * Way)
           /\ rs'.dir # "stop" =>
                  /\ rs'.dir = rs.dir
                  /\ Course(rs', Drive(shutter), Allowed)
                  /\ Follows(rs', Drive(shutter), AllowedMoving,
                             (skipped + 1) * PeriodWay(rs.dir))
<1> DEFINE now == Elapse(rs)
           at == Drive(shutter)
<1>1. /\ IsCalibrated(now) /\ now.pos = rs.pos /\ now.dir = rs.dir /\ rs.pos \in Travel
      /\ now.before = rs.before
      /\ Orderly(now) /\ Typed(now)
  BY TrustedTimes
<1>2. rs.dir \in {"up", "down"} /\ MotorOn(rs.dir) /\ ~ MotorOff
  BY DroveOn
<1>3. rs'.pos = now.pos /\ (rs'.dir = "stop" \/ SameMove(now, rs'))
  BY <1>1, PassIs
<1>4. drift \in Nat /\ skipped \in Nat /\ Course(rs, shutter, Allowed)
      /\ Follows(rs, shutter, AllowedMoving, skipped * PeriodWay(rs.dir))
  BY <1>2 DEF TrustInv
<1>5. Allowed \in Nat /\ AllowedMoving \in Nat
  BY <1>4, AllowedType
<1>6. Running(rs.dir, rs.since, shutter)
  BY <1>2 DEF RunInv
<1>7. at \in 0 .. Way
  BY DriveType DEF DataInv
<1>8. Course(now, at, Allowed)
  BY <1>2, <1>4, <1>5, <1>6, CourseGoes
<1>9. Follows(now, at, AllowedMoving, (skipped + 1) * PeriodWay(rs.dir))
  BY <1>1, <1>2, <1>4, <1>5, <1>6, FollowsGoes
<1> HIDE DEF now, at
<1>10. Near(now.pos, at, AllowedMoving + ((skipped + 1) * PeriodTravel) * Way)
  <2>1. PICK n \in Nat : n = skipped + 1
    BY <1>4
  <2> QED
    BY <1>1, <1>2, <1>5, <1>7, <1>9, <2>1, CutOffNear
<1>11. ASSUME rs'.dir # "stop"
       PROVE  /\ rs'.dir = rs.dir /\ Course(rs', at, Allowed)
              /\ Follows(rs', at, AllowedMoving, (skipped + 1) * PeriodWay(rs.dir))
  <2>1. rs'.dir = now.dir /\ rs'.before = now.before /\ rs'.since = now.since /\ rs'.pos = now.pos
    BY <1>3, <1>11 DEF SameMove
  <2>2. AtEnd(now) => AtEnd(rs')
    BY <2>1 DEF AtEnd, GetCurrentPosition
  <2>3. Course(rs', at, Allowed)
    BY <1>8, <2>1, <2>2, SameCourse
  <2>4. Follows(rs', at, AllowedMoving, (skipped + 1) * PeriodWay(rs.dir))
    BY <1>9, <2>1, Zenon DEF Follows
  <2> QED
    BY <1>1, <2>1, <2>3, <2>4
<1> QED
  BY <1>1, <1>3, <1>10, <1>11 DEF at

\* A pass of a trusted shutter in a move: the move goes on, or stops near.
LEMMA MovingTrust ==
    ASSUME MotorInv, MotorInv', DataInv, SettingsInv, RunInv, TrustInv, Working(Elapse(rs)),
           shutter' = Drive(shutter), trusted, ~ MotorOff, ~ Calibrated(Elapse(rs), rs'), trusted'
    PROVE  /\ rs'.pos \in Travel
           /\ rs'.dir = "stop" => Near(rs'.pos, shutter', Allowed')
           /\ rs'.dir # "stop" =>
                  /\ Course(rs', shutter', Allowed')
                  /\ Follows(rs', shutter', AllowedMoving', skipped' * PeriodWay(rs'.dir))
<1> DEFINE measured == Measures(Elapse(rs))
           lost == (skipped + 1) * PeriodTravel
<1>1. rs.dir # "stop" /\ drove = rs.dir
  BY PassTrust DEF MotorInv, RelayInv, MotorOff
<1>2. /\ skipped' = IF measured \/ rs'.dir = "stop" THEN 0 ELSE skipped + 1
      /\ drift' = IF rs'.dir = "stop" /\ Meet(rs', Drive(shutter)) THEN 0
                  ELSE IF rs'.dir # "stop" THEN drift
                  ELSE drift + MoveRounding + IF measured THEN 0 ELSE lost
  BY PassTrust
<1>3. measured => /\ rs'.pos \in Travel /\ Near(rs'.pos, Drive(shutter), AllowedMoving)
                  /\ rs'.dir # "stop" => rs'.dir = rs.dir /\ Course(rs', Drive(shutter), Allowed)
  BY <1>1, MeasuringTrust
<1>4. ~ measured => /\ rs'.pos \in Travel
                    /\ Near(rs'.pos, Drive(shutter), AllowedMoving + lost * Way)
                    /\ rs'.dir # "stop" =>
                           /\ rs'.dir = rs.dir /\ Course(rs', Drive(shutter), Allowed)
                           /\ Follows(rs', Drive(shutter), AllowedMoving,
                                      (skipped + 1) * PeriodWay(rs.dir))
  BY <1>1, UnmeasuredTrust
<1>5. drift \in Nat /\ skipped \in Nat
  BY DEF TrustInv
<1>6. /\ Allowed \in Nat /\ AllowedMoving \in Nat /\ MoveRounding \in Nat /\ PeriodTravel \in Nat
      /\ HalfPercent \in Nat
  BY <1>5, AllowedType
<1>7. lost \in Nat
  BY <1>5, <1>6
<1> HIDE DEF measured, lost
<1>8. Drive(shutter) \in 0 .. Way
  BY DriveType DEF DataInv
<1>9. CASE rs'.dir = "stop" /\ Meet(rs', Drive(shutter))
  <2>1. Near(rs'.pos, shutter', HalfPercent * Way)
    BY <1>3, <1>4, <1>8, <1>9, MeetNear
  <2>2. Allowed' = HalfPercent * Way
    BY <1>2, <1>9 DEF Allowed, HalfPercent, Way
  <2> QED
    BY <1>3, <1>4, <1>9, <2>1, <2>2
<1>10. CASE rs'.dir = "stop" /\ ~ Meet(rs', Drive(shutter))
  <2>1. drift' = drift + MoveRounding + IF measured THEN 0 ELSE lost
    BY <1>2, <1>10
  <2>2. Allowed' = (drift' + HalfPercent) * Way
    BY DEF Allowed, HalfPercent, Way
  <2>3. Near(rs'.pos, shutter', Allowed')
    <3>1. PICK h \in Nat : h = HalfPercent
      BY <1>6
    <3>2. PICK m \in Nat : m = MoveRounding
      BY <1>6
    <3>3. AllowedMoving = (drift + h + m) * Way
      BY <3>1, <3>2, Zenon DEF AllowedMoving
    <3>4. CASE measured
      <4>1. Allowed' = (drift + m + h) * Way
        BY <1>5, <2>1, <2>2, <3>1, <3>2, <3>4
      <4>2. (drift + m + h) * Way = (drift + h + m) * Way
        BY <1>5
      <4> QED
        BY <1>3, <3>3, <3>4, <4>1, <4>2
    <3>5. CASE ~ measured
      <4>1. Allowed' = (drift + m + lost + h) * Way
        BY <1>5, <1>7, <2>1, <2>2, <3>1, <3>2, <3>5
      <4>2. (drift + m + lost + h) * Way = (drift + h + m) * Way + lost * Way
        BY <1>5, <1>7, WayType
      <4>3. Near(rs'.pos, Drive(shutter), AllowedMoving + lost * Way)
        BY <1>4, <3>5
      <4> QED
        BY <3>3, <4>1, <4>2, <4>3
    <3> QED
      BY <3>4, <3>5
  <2> QED
    BY <1>3, <1>4, <1>10, <2>3
<1>11. CASE rs'.dir # "stop"
  <2>1. drift' = drift /\ rs'.dir = rs.dir /\ rs.dir \in {"up", "down"}
    BY <1>1, <1>2, <1>3, <1>4, <1>11, DroveOn
  <2>2. Allowed' = Allowed /\ AllowedMoving' = AllowedMoving
    BY <2>1 DEF Allowed, AllowedMoving
  <2>3. CASE measured
    <3>1. skipped' = 0
      BY <1>2, <2>3
    <3>2. 0 * PeriodWay(rs'.dir) = 0
      BY <2>1, DirectionIs, FullTravelType, ShutterAssumption DEF PeriodWay
    <3>3. Follows(rs', Drive(shutter), AllowedMoving, 0)
      <4>1. rs'.dir \in {"up", "down"} /\ rs'.pos \in Travel
            /\ Near(rs'.pos, Drive(shutter), AllowedMoving) /\ AllowedMoving <= AllowedMoving
        BY <1>3, <1>6, <2>1, <2>3
      <4> QED
        BY <1>6, <1>8, <4>1, NearFollows
    <3> QED
      BY <1>3, <1>11, <2>2, <2>3, <3>1, <3>2, <3>3
  <2>4. CASE ~ measured
    <3>1. skipped' = skipped + 1
      BY <1>2, <1>11, <2>4
    <3> QED
      BY <1>4, <1>11, <2>1, <2>2, <2>4, <3>1
  <2> QED
    BY <2>3, <2>4
<1> QED
  BY <1>9, <1>10, <1>11

----------------------------------------------------------------------------
(* The steps.                                                                 *)

\* A pass keeps the invariant of the position.
LEMMA WorkingPosition ==
    ASSUME MotorInv, MotorInv', DataInv, PositionInv, Working(Elapse(rs)),
           shutter' = Drive(shutter), UNCHANGED saved
    PROVE  PositionInv'
<1> DEFINE now == Elapse(rs)
<1>1. /\ Orderly(now) /\ SameSettings(rs, now) /\ now.dir = rs.dir
  BY ElapseOrderly DEF PositionInv, SettingsInv
<1>2. /\ Orderly(rs') /\ rs'.opening = now.opening /\ rs'.closing = now.closing
      /\ IsCalibrated(now) => rs'.calibrate = now.calibrate /\ rs'.calTime = 0
  BY <1>1, PassIs
<1>3. SettingsInv'
  BY <1>1, <1>2 DEF PositionInv, SettingsInv, SameSettings
<1>4. RunInv'
  BY WorkingRun DEF PositionInv
<1>5. /\ trusted' = IF Calibrated(now, rs')
                    THEN now.closing = RealTime /\ drove = now.dir
                    ELSE trusted /\ (MotorOff \/ drove = rs.dir)
      /\ skipped' = IF ~ trusted' \/ MotorOff \/ Measures(now) \/ rs'.dir = "stop"
                    THEN 0 ELSE skipped + 1
      /\ drift' = IF \/ Calibrated(now, rs') \/ ~ trusted'
                     \/ rs'.dir = "stop" /\ Meet(rs', Drive(shutter))
                  THEN 0
                  ELSE IF MotorOff \/ rs'.dir # "stop" THEN drift
                  ELSE drift + MoveRounding
                       + IF Measures(now) THEN 0 ELSE (skipped + 1) * PeriodTravel
  BY PassTrust
<1>6. drift' \in Nat /\ skipped' \in Nat
  <2>1. drift \in Nat /\ skipped \in Nat
    BY DEF PositionInv, TrustInv
  <2>2. MoveRounding \in Nat /\ PeriodTravel \in Nat
    BY <2>1, AllowedType
  <2>3. (skipped + 1) * PeriodTravel \in Nat
    BY <2>1, <2>2
  <2> HIDE DEF now
  <2> QED
    BY <1>5, <2>1, <2>2, <2>3
<1>7. ASSUME trusted'
      PROVE  /\ rs'.closing = RealTime /\ ~ rs'.calibrate /\ rs'.calTime = 0 /\ rs'.pos \in Travel
             /\ rs'.dir = "stop" => Near(rs'.pos, shutter', Allowed')
             /\ rs'.dir # "stop" =>
                    /\ Course(rs', shutter', Allowed')
                    /\ Follows(rs', shutter', AllowedMoving', skipped' * PeriodWay(rs'.dir))
  <2>1. CASE Calibrated(now, rs')
    <3>1. rs.closing = RealTime /\ drove = rs.dir
      BY <1>1, <1>5, <1>7, <2>1 DEF SameSettings
    <3>2. /\ rs'.dir = "stop" /\ rs'.calTime = 0 /\ ~ rs'.calibrate /\ rs'.closing = RealTime
          /\ rs'.pos \in Travel /\ Near(rs'.pos, Drive(shutter), HalfPercent * Way)
      BY <2>1, <3>1, CalibratedNear DEF PositionInv
    <3>3. drift' = 0
      BY <1>5, <2>1
    <3>4. Allowed' = HalfPercent * Way
      BY <3>3 DEF Allowed, HalfPercent, Way
    <3> QED
      BY <3>2, <3>4
  <2>2. CASE ~ Calibrated(now, rs')
    <3>1. trusted /\ (MotorOff \/ drove = rs.dir)
      BY <1>5, <1>7, <2>2
    <3>2. /\ rs'.closing = RealTime /\ ~ rs'.calibrate /\ rs'.calTime = 0
      BY <1>2, <3>1, TrustedTimes DEF PositionInv
    <3>3. CASE MotorOff
      BY <1>7, <2>2, <3>1, <3>2, <3>3, RestingTrust DEF PositionInv
    <3>4. CASE ~ MotorOff
      BY <1>7, <2>2, <3>1, <3>2, <3>4, MovingTrust DEF PositionInv
    <3> QED
      BY <3>3, <3>4
  <2> QED
    BY <2>1, <2>2
<1>8. (rs'.dir = "stop") <=> MotorOff'
  BY DEF MotorInv, TypeInv, RelayInv, MotorOff
<1>9. TrustInv'
  BY <1>6, <1>7, <1>8 DEF TrustInv
<1> QED
  BY <1>3, <1>4, <1>9 DEF PositionInv

\* So does the pause.
LEMMA PausingPosition ==
    ASSUME MotorInv, MotorInv', DataInv, PositionInv, Pausing(Elapse(rs)),
           shutter' = Drive(shutter), UNCHANGED saved
    PROVE  PositionInv'
<1> DEFINE now == Elapse(rs)
<1>1. /\ Orderly(now) /\ SameSettings(rs, now)
      /\ now.dir = rs.dir /\ now.up = rs.up /\ now.down = rs.down
      /\ now.pos = rs.pos /\ now.calTime = rs.calTime
  BY ElapseOrderly DEF PositionInv, SettingsInv
<1>2. now.pause = Least(rs.pause + PeriodMs, PauseMs)
  BY ElapseKeeps
<1>3. /\ now.pause < PauseMs /\ rs' = now
      /\ UNCHANGED <<trusted, skipped, drift, drove>>
  BY DEF Pausing
<1> HIDE DEF now
<1>4. rs.dir = "stop"
  BY <1>2, <1>3, ShutterAssumption DEF MotorInv, PauseInv, TypeInv, Least
<1>5. MotorOff /\ MotorOff' /\ ~ rs.up /\ ~ rs.down
  BY <1>1, <1>3, <1>4 DEF MotorInv, RelayInv, MotorOff
<1>6. shutter' = shutter
  BY <1>5, DriveOff
<1>7. SettingsInv'
  BY <1>1, <1>3 DEF PositionInv, SettingsInv, SameSettings
<1>8. RunInv'
  BY <1>1, <1>3, <1>5 DEF RunInv, MotorOn
<1>9. TrustInv'
  BY <1>1, <1>3, <1>5, <1>6 DEF PositionInv, TrustInv, SameSettings, Allowed
<1> QED
  BY <1>7, <1>8, <1>9 DEF PositionInv

\* A request that leaves the move alone, and the settings as they are or untrusted.
LEMMA RequestPosition ==
    ASSUME PositionInv, Orderly(rs'), rs'.opening = OpeningTime(rs'.closing), SameMove(rs, rs'),
           UNCHANGED <<saved, shutter, drove, skipped, drift>>,
           trusted' => /\ trusted /\ SameSettings(rs, rs')
                       /\ rs'.pos = rs.pos /\ rs'.calTime = rs.calTime
    PROVE  PositionInv'
<1>1. SettingsInv'
  BY DEF PositionInv, SettingsInv
<1>2. RunInv'
  BY DEF PositionInv, RunInv, MotorOn, SameMove
<1>3. drift' \in Nat /\ skipped' \in Nat
  BY DEF PositionInv, TrustInv
<1>4. Allowed' = Allowed /\ AllowedMoving' = AllowedMoving
  BY DEF Allowed, AllowedMoving
<1>5. MotorOff' <=> MotorOff
  BY DEF MotorOff, SameMove
<1>6. ASSUME trusted'
      PROVE  /\ rs'.closing = RealTime /\ ~ rs'.calibrate /\ rs'.calTime = 0 /\ rs'.pos \in Travel
             /\ MotorOff' => Near(rs'.pos, shutter', Allowed')
             /\ ~ MotorOff' /\ drove' = rs'.dir =>
                    /\ Course(rs', shutter', Allowed')
                    /\ Follows(rs', shutter', AllowedMoving', skipped' * PeriodWay(rs'.dir))
  <2>1. /\ rs'.pos = rs.pos /\ rs'.dir = rs.dir /\ rs'.since = rs.since /\ rs'.before = rs.before
        /\ shutter' = shutter /\ skipped' = skipped /\ drove' = drove
    BY <1>6 DEF SameMove
  <2>2. /\ rs.closing = RealTime /\ ~ rs.calibrate /\ rs.calTime = 0 /\ rs.pos \in Travel
        /\ MotorOff => Near(rs.pos, shutter, Allowed)
        /\ ~ MotorOff /\ drove = rs.dir =>
               /\ Course(rs, shutter, Allowed)
               /\ Follows(rs, shutter, AllowedMoving, skipped * PeriodWay(rs.dir))
    BY <1>6 DEF PositionInv, TrustInv
  <2>3. Course(rs, shutter, Allowed) => Course(rs', shutter, Allowed)
    <3>1. AtEnd(rs) <=> AtEnd(rs')
      BY <2>1 DEF AtEnd, GetCurrentPosition
    <3> QED
      BY <2>1, <3>1, SameCourse
  <2>4. Follows(rs, shutter, AllowedMoving, skipped * PeriodWay(rs.dir))
        => Follows(rs', shutter, AllowedMoving, skipped * PeriodWay(rs.dir))
    BY <2>1, Zenon DEF Follows
  <2>5. rs'.closing = RealTime /\ ~ rs'.calibrate /\ rs'.calTime = 0
    BY <1>6, <2>2 DEF SameSettings
  <2>6. rs'.pos \in Travel /\ (MotorOff' => Near(rs'.pos, shutter', Allowed'))
    BY <1>4, <1>5, <2>1, <2>2
  <2>7. ~ MotorOff' /\ drove' = rs'.dir =>
            /\ Course(rs', shutter', Allowed')
            /\ Follows(rs', shutter', AllowedMoving', skipped' * PeriodWay(rs'.dir))
    BY <1>4, <1>5, <2>1, <2>2, <2>3, <2>4
  <2> QED
    BY <2>5, <2>6, <2>7
<1>7. TrustInv'
  BY <1>3, <1>6 DEF TrustInv
<1> QED
  BY <1>1, <1>2, <1>7 DEF PositionInv

\* A target leaves the move and the settings alone.
LEMMA TargetOrderly ==
    ASSUME NEW r, Orderly(r), NEW t \in StopRequest .. 100, t # StopPosition
    PROVE  LET s == SetTargetPosition(r, t)
           IN  /\ Orderly(s) /\ SameMove(r, s) /\ SameSettings(r, s)
               /\ s.pos = r.pos /\ s.calTime = r.calTime
<1> DEFINE s == SetTargetPosition(r, t)
<1>1. Typed(s)
  BY TargetTyped DEF Orderly
<1>2. /\ SameMove(r, s) /\ SameSettings(r, s) /\ s.pos = r.pos /\ s.calTime = r.calTime
      /\ s.target = t
  BY DEF Orderly, Typed, Record, Fields, SetTargetPosition, SameMove, SameSettings
<1> HIDE DEF s
<1>3. Orderly(s)
  BY <1>1, <1>2 DEF Orderly, IsCalibrationRequested, SameMove, SameSettings
<1> QED
  BY <1>2, <1>3 DEF s

\* No target asked for is the one of a stop that was handled.
LEMMA TargetsMove ==
    /\ Targets \subseteq StopRequest .. 100 /\ StopPosition \notin Targets
    /\ 0 \in StopRequest .. 100 /\ 0 # StopPosition
    /\ StopRequest \in StopRequest .. 100 /\ StopRequest # StopPosition
<1>1. \A p \in Percents : p >= 0
  BY ShutterAssumption
<1>2. StopPosition \notin Targets
  BY <1>1 DEF Targets, StopPosition, MoveUp, MoveDown, StopRequest
<1> QED
  BY <1>2, TargetNames DEF StopPosition, StopRequest

\* A calibration that is asked for makes the settings untrusted.
LEMMA NeededOrderly ==
    ASSUME NEW r, Typed(r), r.dir \in {"stop", "up", "down"},
           r.target = StopPosition => r.dir = "stop"
    PROVE  LET s == SetCalibrationNeeded(r)
           IN  /\ Orderly(s) /\ SameMove(r, s) /\ s.calibrate = TRUE
               /\ s.closing = r.closing /\ s.opening = r.opening
<1> DEFINE s == SetCalibrationNeeded(r)
<1>1. Typed(s)
  BY SetPositionTyped, OthersTyped DEF SetCalibrationNeeded
<1>2. /\ SameMove(r, s) /\ s.calibrate = TRUE /\ s.calTime = 0 /\ s.target = r.target
      /\ s.closing = r.closing /\ s.opening = r.opening
  BY DEF Typed, Record, Fields, SetCalibrationNeeded, SetCurrentPosition, SameMove
<1> HIDE DEF s
<1>3. Orderly(s)
  BY <1>1, <1>2 DEF Orderly, SameMove
<1> QED
  BY <1>2, <1>3 DEF s

\* New times ask for a calibration; times that are the same change nothing.
LEMMA TimesOrderly ==
    ASSUME NEW r, Orderly(r), NEW c \in Nat, NEW o \in Nat
    PROVE  LET s == SetOpenCloseTime(r, c, o)
           IN  /\ Orderly(s) /\ SameMove(r, s) /\ s.closing = c /\ s.opening = o
               /\ s = r \/ s.calibrate = TRUE
<1> DEFINE q == [r EXCEPT !.closing = c, !.opening = o]
           s == SetOpenCloseTime(r, c, o)
<1>1. s = IF c = r.closing /\ o = r.opening THEN r ELSE SetCalibrationNeeded(q)
  BY Zenon DEF SetOpenCloseTime
<1>2. CASE c = r.closing /\ o = r.opening
  <2>1. s = r
    BY <1>1, <1>2
  <2> HIDE DEF s
  <2> QED
    BY <1>2, <2>1 DEF SameMove, s
<1>3. CASE ~ (c = r.closing /\ o = r.opening)
  <2>1. s = SetCalibrationNeeded(q)
    BY <1>1, <1>3
  <2>2. /\ Record(q) /\ SameMove(r, q) /\ q.closing = c /\ q.opening = o
        /\ q.pos = r.pos /\ q.target = r.target /\ q.pause = r.pause
    BY DEF Orderly, Typed, Record, Fields, SameMove
  <2> HIDE DEF q, s
  <2>3. Typed(q) /\ q.dir \in {"stop", "up", "down"} /\ (q.target = StopPosition => q.dir = "stop")
    BY <2>2 DEF Orderly, Typed, SameMove
  <2> DEFINE d == SetCalibrationNeeded(q)
  <2>4. Orderly(d) /\ SameMove(q, d) /\ d.calibrate = TRUE /\ d.closing = c /\ d.opening = o
    BY <2>2, <2>3, NeededOrderly
  <2> HIDE DEF d
  <2>5. SameMove(r, d)
    BY <2>2, <2>4 DEF SameMove
  <2> QED
    BY <2>1, <2>4, <2>5 DEF s, d
<1> QED
  BY <1>2, <1>3

\* A position that is stored is rounded to a percent.
LEMMA StoredPosition ==
    ASSUME NEW r, r.pos \in Travel
    PROVE  /\ GetCurrentPosition(r) * 100 \in Travel
           /\ GetCurrentPosition(r) * 100 - r.pos \in - HalfPercent .. HalfPercent
<1>1. PICK p \in 0 .. FullTravel : p = r.pos
  BY DEF Travel
<1>2. PICK q : q = (p + 50) \div 100
  OBVIOUS
<1>3. p \in Nat /\ p <= FullTravel /\ FullTravel \in Nat
  BY FullTravelType
<1>4. GetCurrentPosition(r) = q
  <2>1. ~ (p < 0)
    BY <1>3
  <2> QED
    BY <1>1, <1>2, <2>1, Zenon DEF GetCurrentPosition
<1>5. PICK s \in Nat : s = q * 100 /\ s - p \in -50 .. 50
  BY <1>2, <1>3
<1>6. s <= FullTravel
  <2>1. q <= 100
    BY <1>2, <1>3 DEF FullTravel
  <2>2. s <= 100 * 100
    BY <1>5, <2>1, <1>2, <1>3
  <2>3. 100 * 100 = FullTravel
    BY DEF FullTravel
  <2> QED
    BY <2>2, <2>3
<1>7. s \in Travel
  BY <1>3, <1>5, <1>6 DEF Travel
<1>8. s - r.pos \in - HalfPercent .. HalfPercent
  BY <1>1, <1>5 DEF HalfPercent
<1> QED
  BY <1>4, <1>5, <1>7, <1>8

\* So a restart may put the position off by half a percent.
LEMMA StoredNear ==
    ASSUME NEW r, r.pos \in Travel, NEW at \in 0 .. Way, NEW n \in Nat,
           Near(r.pos, at, (n + HalfPercent) * Way)
    PROVE  Near(GetCurrentPosition(r) * 100, at, ((n + HalfPercent) + HalfPercent) * Way)
<1>1. PICK h \in Nat : h = HalfPercent
  BY DEF HalfPercent
<1>2. PICK p \in Nat : p = r.pos
  BY FullTravelType DEF Travel
<1>3. PICK s \in Travel : s = GetCurrentPosition(r) * 100 /\ s - p \in - h .. h
  BY <1>1, <1>2, StoredPosition
<1>4. Way \in Nat /\ s \in Nat
  BY <1>3, WayType, FullTravelType DEF Travel
<1>5. PICK a \in Nat : a = at * FullTravel
  BY <1>4, FullTravelType
<1>6. PICK e \in Nat : e = (n + h) * Way
  BY <1>4
<1>7. PICK m \in Nat : m = h * Way
  BY <1>4
<1>8. p * Way - a \in - e .. e
  BY <1>1, <1>2, <1>5, <1>6, Zenon DEF Near
<1>9. s * Way - p * Way \in - m .. m
  <2>1. s <= p + h /\ p <= s + h
    BY <1>3, <1>4
  <2>2. s * Way <= (p + h) * Way /\ p * Way <= (s + h) * Way
    BY <1>4, <2>1, Monotone
  <2>3. (p + h) * Way = p * Way + m /\ (s + h) * Way = s * Way + m
    BY <1>4, <1>7
  <2>4. s * Way \in Nat /\ p * Way \in Nat
    BY <1>4
  <2> QED
    BY <2>2, <2>3, <2>4
<1>10. PICK f \in Nat : f = ((n + h) + h) * Way /\ f = e + m
  BY <1>4, <1>6, <1>7
<1>11. s * Way - a \in - f .. f
  <2>1. s * Way \in Nat /\ p * Way \in Nat
    BY <1>4
  <2> QED
    BY <1>8, <1>9, <1>10, <2>1
<1>12. Near(s, at, f)
  BY <1>5, <1>11, Zenon DEF Near
<1> QED
  BY <1>1, <1>3, <1>10, <1>12

\* A restart keeps the invariant.
LEMMA RestartPosition ==
    ASSUME MotorInv, DataInv, PositionInv, Restart
    PROVE  PositionInv'
<1>1. /\ rs' = Boot(saved) /\ skipped' = 0 /\ UNCHANGED <<saved, shutter>>
      /\ trusted' = (trusted /\ MotorOff /\ saved = State(rs))
      /\ drift' = IF trusted' THEN drift + HalfPercent ELSE 0
  BY DEF Restart
<1>2. PICK far : far = saved.pos * 100
  OBVIOUS
<1>3. /\ rs'.dir = "stop" /\ rs'.pos = far /\ rs'.closing = saved.closing
      /\ rs'.opening = saved.opening /\ rs'.calTime = 0 /\ rs'.calibrate = FALSE
      /\ rs'.up = FALSE /\ rs'.down = FALSE
  BY <1>1, <1>2 DEF Boot
<1>4. Typed(rs')
  BY <1>1, BootTyped DEF DataInv
<1>5. SettingsInv'
  BY <1>1, <1>3, <1>4 DEF PositionInv, SettingsInv, Orderly
<1>6. RunInv'
  BY <1>3 DEF RunInv, MotorOn
<1>7. drift \in Nat /\ HalfPercent \in Nat
  BY DEF PositionInv, TrustInv, HalfPercent
<1>8. ASSUME trusted'
      PROVE  /\ rs'.closing = RealTime /\ rs'.pos \in Travel
             /\ Near(rs'.pos, shutter', Allowed')
  <2>1. /\ trusted /\ MotorOff /\ saved = State(rs) /\ drift' = drift + HalfPercent
    BY <1>1, <1>8
  <2>2. rs.closing = RealTime /\ rs.pos \in Travel /\ Near(rs.pos, shutter, (drift + HalfPercent) * Way)
    BY <2>1 DEF PositionInv, TrustInv, Allowed
  <2>3. saved.closing = rs.closing /\ saved.pos = GetCurrentPosition(rs)
    BY <2>1 DEF State
  <2>4. rs'.pos = GetCurrentPosition(rs) * 100 /\ rs'.closing = RealTime
    BY <1>2, <1>3, <2>2, <2>3
  <2>5. shutter \in 0 .. Way
    BY DEF DataInv
  <2>6. Near(rs'.pos, shutter, ((drift + HalfPercent) + HalfPercent) * Way)
    BY <1>7, <2>2, <2>4, <2>5, StoredNear
  <2>7. Allowed' = ((drift + HalfPercent) + HalfPercent) * Way
    BY <2>1 DEF Allowed, HalfPercent, Way
  <2>8. rs'.pos \in Travel
    BY <2>2, <2>4, StoredPosition
  <2> QED
    BY <1>1, <2>4, <2>6, <2>7, <2>8
<1>9. TrustInv'
  BY <1>1, <1>3, <1>7, <1>8 DEF TrustInv, MotorOff
<1> QED
  BY <1>5, <1>6, <1>9 DEF PositionInv

\* Every step keeps the invariant of the position.
LEMMA NextPosition ==
    ASSUME MotorInv, MotorInv', DataInv, PositionInv, [Next]_vars
    PROVE  PositionInv'
<1>1. Orderly(rs) /\ rs.opening = OpeningTime(rs.closing)
  BY DEF PositionInv, SettingsInv
<1>2. CASE OnTimer
  <2>1. shutter' = Drive(shutter) /\ UNCHANGED saved
        /\ (Pausing(Elapse(rs)) \/ Working(Elapse(rs)))
    BY <1>2 DEF OnTimer
  <2> QED
    BY <2>1, PausingPosition, WorkingPosition
<1>3. ASSUME NEW target \in Targets, Command(target) PROVE PositionInv'
  <2> DEFINE s == SetTargetPosition(rs, target)
  <2>1. rs' = s /\ UNCHANGED <<saved, shutter, drove, trusted, skipped, drift>>
    BY <1>3 DEF Command
  <2>2. /\ Orderly(s) /\ SameMove(rs, s) /\ SameSettings(rs, s)
        /\ s.pos = rs.pos /\ s.calTime = rs.calTime
    BY <1>1, TargetsMove, TargetOrderly
  <2> HIDE DEF s
  <2>3. rs'.opening = OpeningTime(rs'.closing)
    BY <1>1, <2>1, <2>2 DEF SameSettings
  <2> QED
    BY <2>1, <2>2, <2>3, RequestPosition
<1>4. ASSUME NEW closing \in Times, NEW target \in Targets,
             HandleNewValueFromServer(closing, target)
      PROVE  PositionInv'
  <2> DEFINE q == SetOpenCloseTime(rs, closing, OpeningTime(closing))
             s == SetTargetPosition(q, target)
  <2>1. /\ rs' = s /\ trusted' = (trusted /\ ~ rs'.calibrate)
        /\ UNCHANGED <<saved, shutter, drove, skipped, drift>>
    BY <1>4 DEF HandleNewValueFromServer
  <2>2. closing \in Nat /\ OpeningTime(closing) \in Nat
    BY OpeningTimeType, ShutterAssumption
  <2>3. /\ Orderly(q) /\ SameMove(rs, q) /\ q.closing = closing /\ q.opening = OpeningTime(closing)
        /\ q = rs \/ q.calibrate = TRUE
    BY <1>1, <2>2, TimesOrderly
  <2> HIDE DEF q
  <2>4. /\ Orderly(s) /\ SameMove(q, s) /\ SameSettings(q, s)
        /\ s.pos = q.pos /\ s.calTime = q.calTime
    BY <2>3, TargetsMove, TargetOrderly
  <2> HIDE DEF s
  <2>5. SameMove(rs, rs') /\ rs'.opening = OpeningTime(rs'.closing) /\ Orderly(rs')
    BY <2>1, <2>3, <2>4 DEF SameMove, SameSettings
  <2>6. trusted' => /\ trusted /\ SameSettings(rs, rs')
                    /\ rs'.pos = rs.pos /\ rs'.calTime = rs.calTime
    BY <2>1, <2>3, <2>4 DEF SameSettings
  <2> QED
    BY <2>1, <2>5, <2>6, RequestPosition
<1>5. CASE Recalibrate
  <2> DEFINE q == SetCalibrationNeeded(rs)
             s == SetTargetPosition(q, 0)
  <2>1. rs' = s /\ trusted' = FALSE /\ UNCHANGED <<saved, shutter, drove, skipped, drift>>
    BY <1>5 DEF Recalibrate
  <2>2. Orderly(q) /\ SameMove(rs, q) /\ q.closing = rs.closing /\ q.opening = rs.opening
    BY <1>1, NeededOrderly DEF Orderly
  <2> HIDE DEF q
  <2>3. Orderly(s) /\ SameMove(q, s) /\ SameSettings(q, s)
    BY <2>2, TargetsMove, TargetOrderly
  <2> HIDE DEF s
  <2>4. SameMove(rs, rs') /\ rs'.opening = OpeningTime(rs'.closing) /\ Orderly(rs')
    BY <1>1, <2>1, <2>2, <2>3 DEF SameMove, SameSettings
  <2> QED
    BY <2>1, <2>4, RequestPosition
<1>6. ASSUME NEW closing \in Times, NEW upsideDown \in BOOLEAN,
             ApplyChannelConfig(closing, upsideDown)
      PROVE  PositionInv'
  <2> DEFINE timed == SetOpenCloseTime(rs, closing, OpeningTime(closing))
  <2>2. closing \in Nat /\ OpeningTime(closing) \in Nat
    BY OpeningTimeType, ShutterAssumption
  <2>3. /\ Orderly(timed) /\ SameMove(rs, timed)
           /\ timed.closing = closing /\ timed.opening = OpeningTime(closing)
        /\ timed = rs \/ timed.calibrate = TRUE
    BY <1>1, <2>2, TimesOrderly
  <2> DEFINE set == IF timed.dir = "stop" THEN SetTargetPosition(timed, StopRequest) ELSE timed
             s == [set EXCEPT !.upsideDown = upsideDown]
  <2>1. /\ rs' = s /\ trusted' = (trusted /\ ~ rs'.calibrate)
        /\ UNCHANGED <<saved, shutter, drove, skipped, drift>>
    BY <1>6, Zenon DEF ApplyChannelConfig
  <2> HIDE DEF timed
  <2>4. /\ Orderly(set) /\ SameMove(timed, set) /\ SameSettings(timed, set)
        /\ set.pos = timed.pos /\ set.calTime = timed.calTime
    <3> DEFINE d == SetTargetPosition(timed, StopRequest)
    <3>1. /\ Orderly(d) /\ SameMove(timed, d) /\ SameSettings(timed, d)
          /\ d.pos = timed.pos /\ d.calTime = timed.calTime
      BY <2>3, TargetsMove, TargetOrderly
    <3> HIDE DEF d
    <3>2. set = timed \/ set = d
      BY DEF d
    <3> HIDE DEF set
    <3> QED
      BY <2>3, <3>1, <3>2 DEF SameMove, SameSettings
  <2> HIDE DEF set
  <2>5. /\ Typed(s) /\ SameMove(set, s) /\ SameSettings(set, s)
        /\ s.pos = set.pos /\ s.calTime = set.calTime /\ s.target = set.target
    <3>1. Typed(s)
      BY <2>4, OthersTyped DEF Orderly
    <3>2. /\ SameMove(set, s) /\ SameSettings(set, s)
          /\ s.pos = set.pos /\ s.calTime = set.calTime /\ s.target = set.target
      BY <2>4 DEF Orderly, Typed, Record, Fields, SameMove, SameSettings
    <3> QED
      BY <3>1, <3>2
  <2> HIDE DEF s
  <2>6. Orderly(s)
    BY <2>4, <2>5 DEF Orderly, IsCalibrationRequested, SameMove, SameSettings
  <2>7. SameMove(rs, rs') /\ rs'.opening = OpeningTime(rs'.closing) /\ Orderly(rs')
    BY <2>1, <2>3, <2>4, <2>5, <2>6 DEF SameMove, SameSettings
  <2>8. trusted' => /\ trusted /\ SameSettings(rs, rs')
                    /\ rs'.pos = rs.pos /\ rs'.calTime = rs.calTime
    BY <2>1, <2>3, <2>4, <2>5 DEF SameSettings
  <2> QED
    BY <2>1, <2>7, <2>8, RequestPosition
<1>7. CASE SaveState
  <2>1. saved' = State(rs) /\ UNCHANGED <<rs, shutter, history>>
    BY <1>7 DEF SaveState
  <2>2. saved'.opening = OpeningTime(saved'.closing)
    BY <1>1, <2>1 DEF State
  <2>3. UNCHANGED <<rs, shutter, drove, trusted, skipped, drift>>
    BY <2>1 DEF history
  <2>4. SettingsInv'
    BY <1>1, <2>2, <2>3 DEF SettingsInv
  <2>5. RunInv'
    BY <2>3 DEF PositionInv, RunInv, MotorOn
  <2>6. TrustInv'
    BY <2>3 DEF PositionInv, TrustInv, Allowed, AllowedMoving, MotorOff
  <2> QED
    BY <2>4, <2>5, <2>6 DEF PositionInv
<1>8. CASE Restart
  BY <1>8, RestartPosition
<1>9. CASE UNCHANGED vars
  <2>1. UNCHANGED <<rs, saved, shutter, drove, trusted, skipped, drift>>
    BY <1>9 DEF vars, history
  <2>2. SettingsInv'
    BY <2>1 DEF PositionInv, SettingsInv
  <2>3. RunInv'
    BY <2>1 DEF PositionInv, RunInv, MotorOn
  <2>4. TrustInv'
    BY <2>1 DEF PositionInv, TrustInv, Allowed, AllowedMoving, MotorOff
  <2> QED
    BY <2>2, <2>3, <2>4 DEF PositionInv
<1> QED
  BY <1>2, <1>3, <1>4, <1>5, <1>6, <1>7, <1>8, <1>9 DEF Next

\* The shutter starts at an end, with nothing trusted.
LEMMA InitPosition == ASSUME Init, DataInv PROVE PositionInv
<1>1. /\ rs = Boot(saved) /\ saved.closing = 0 /\ saved.opening = 0
      /\ trusted = FALSE /\ skipped = 0 /\ drift = 0
  BY DEF Init
<1>2. /\ rs.dir = "stop" /\ rs.calTime = 0 /\ rs.closing = 0 /\ rs.opening = 0
      /\ rs.up = FALSE /\ rs.down = FALSE
  BY <1>1 DEF Boot
<1>3. OpeningTime(0) = 0
  BY DEF OpeningTime
<1>4. Orderly(rs)
  BY <1>2 DEF Orderly, DataInv
<1>5. SettingsInv
  BY <1>1, <1>2, <1>3, <1>4 DEF SettingsInv
<1>6. RunInv
  BY <1>2 DEF RunInv, MotorOn
<1>7. TrustInv
  BY <1>1 DEF TrustInv
<1> QED
  BY <1>5, <1>6, <1>7 DEF PositionInv

\* Whatever requests, calibrations, stops and restarts came, the position of a
\* trusted shutter at rest is where the shutter is, to the bound that has added up.
THEOREM PositionIsKept == Spec => []PositionTracksShutter
<1>1. Init => DataInv /\ PositionInv
  BY InitDataInv, InitPosition
<1>2. MotorInv /\ MotorInv' /\ DataInv /\ PositionInv /\ [Next]_vars
      => (DataInv /\ PositionInv)'
  BY NextDataInv, NextPosition
<1>3. PositionInv => PositionTracksShutter
  BY Zenon DEF PositionInv, TrustInv, PositionTracksShutter, Near, Allowed
<1> QED
  BY <1>1, <1>2, <1>3, MotorInvariant, PTL DEF Spec
=============================================================================
