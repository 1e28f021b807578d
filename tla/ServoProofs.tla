----------------------------- MODULE ServoProofs -----------------------------
(* Theorems about ServoDimmer, for every configuration the assumptions allow:  *)
(* the members keep their types, the motor never gets a pulse outside the      *)
(* mechanical range, and a continuous servo used as a switch never turns       *)
(* unwatched.                                                                  *)
EXTENDS ServoDimmer, TLAPS

-----------------------------------------------------------------------------
(* Integer arithmetic.                                                         *)

\* Multiplication by a natural number is monotone.
LEMMA MultMonotone ==
    ASSUME NEW a \in Nat, NEW b \in Nat, NEW c \in Nat, a <= b
    PROVE  a * c <= b * c
  BY SMT

\* A quotient of natural numbers is a natural number below the factor that
\* bounds the dividend.
LEMMA DivBound ==
    ASSUME NEW a \in Nat, NEW b \in Nat, b > 0, NEW c \in Nat, a <= b * c
    PROVE  a \div b \in 0 .. c
<1> DEFINE q == a \div b
<1>1. q \in Nat
  BY SMT
<1>2. b * q <= a
  BY SMT
<1>3. b * q <= b * c
  BY <1>1, <1>2
<1> HIDE DEF q
<1>4. ASSUME q > c PROVE FALSE
  <2>1. b * q >= b * (c + 1)
    BY <1>1, <1>4, MultMonotone
  <2>2. b * (c + 1) = b * c + b
    BY SMT
  <2> QED
    BY <2>1, <2>2, <1>3, <1>1
<1>5. q <= c
  BY <1>4, <1>1
<1> QED
  BY <1>1, <1>5 DEF q

\* The rounding division of a product stays between 0 and the bound, on either
\* side of 0.
LEMMA CDivBound ==
    ASSUME NEW a \in Nat, NEW b \in Nat, b > 0, NEW c \in Nat, a <= b * c
    PROVE  CDiv(a, b) \in 0 .. c /\ CDiv(-a, b) \in -c .. 0
<1>1. a \div b \in 0 .. c
  BY DivBound
<1>2. Absolute(a) = a /\ Absolute(-a) = a /\ Absolute(b) = b
  BY DEF Absolute
<1>3. CDiv(a, b) = a \div b
  BY <1>2 DEF CDiv
<1>4. CDiv(-a, b) \in {a \div b, -(a \div b)} /\ (a > 0 => CDiv(-a, b) = -(a \div b))
  BY <1>1, <1>2 DEF CDiv
<1>5. a = 0 => a \div b = 0
  BY SMT
<1> QED
  BY <1>1, <1>3, <1>4, <1>5

\* A division by a number other than 0 has an integer result.
LEMMA CDivInt ==
    ASSUME NEW a \in Int, NEW b \in Int, b # 0
    PROVE  CDiv(a, b) \in Int
<1>1. Absolute(a) \in Nat /\ Absolute(b) \in Nat /\ Absolute(b) > 0
  BY DEF Absolute
<1>2. Absolute(a) \div Absolute(b) \in Int
  BY <1>1
<1> QED
  BY <1>2 DEF CDiv

\* map() leads the input range into an output range that runs upwards.
LEMMA MapUp ==
    ASSUME NEW inMin \in Int, NEW inMax \in Int, NEW x \in Int,
           NEW outMin \in Int, NEW outMax \in Int,
           inMin < inMax, inMin <= x, x <= inMax, outMin <= outMax
    PROVE  MapRange(x, inMin, inMax, outMin, outMax) \in outMin .. outMax
<1> DEFINE a == x - inMin
           b == inMax - inMin
           c == outMax - outMin
<1>1. a \in Nat /\ b \in Nat /\ b > 0 /\ a <= b /\ c \in Nat
  OBVIOUS
<1>2. MapRange(x, inMin, inMax, outMin, outMax) = CDiv(a * c, b) + outMin
  BY DEF MapRange
<1>3. outMax = outMin + c
  OBVIOUS
<1> HIDE DEF a, b, c
<1>4. a * c <= b * c /\ a * c \in Nat
  BY <1>1, MultMonotone
<1>5. CDiv(a * c, b) \in 0 .. c
  BY <1>1, <1>4, CDivBound
<1> QED
  BY <1>1, <1>2, <1>3, <1>5

\* The same for an output range that runs downwards.
LEMMA MapDown ==
    ASSUME NEW inMin \in Int, NEW inMax \in Int, NEW x \in Int,
           NEW outMin \in Int, NEW outMax \in Int,
           inMin < inMax, inMin <= x, x <= inMax, outMax <= outMin
    PROVE  MapRange(x, inMin, inMax, outMin, outMax) \in outMax .. outMin
<1> DEFINE a == x - inMin
           b == inMax - inMin
           c == outMin - outMax
<1>1. a \in Nat /\ b \in Nat /\ b > 0 /\ a <= b /\ c \in Nat
  OBVIOUS
<1>2. a * (outMax - outMin) = -(a * c)
  BY <1>1
<1>3. MapRange(x, inMin, inMax, outMin, outMax) = CDiv(-(a * c), b) + outMin
  BY <1>2 DEF MapRange
<1>4. outMax = outMin - c
  OBVIOUS
<1> HIDE DEF a, b, c
<1>5. a * c <= b * c /\ a * c \in Nat
  BY <1>1, MultMonotone
<1>6. CDiv(-(a * c), b) \in -c .. 0
  BY <1>1, <1>5, CDivBound
<1> QED
  BY <1>1, <1>3, <1>4, <1>6

-----------------------------------------------------------------------------
(* The conversions.                                                            *)

\* A request is converted into the 8-bit range.
LEMMA BrightnessInRange ==
    ASSUME NEW percent \in 0 .. 100
    PROVE  /\ HwValue(percent) \in 0 .. 1023
           /\ Brightness255(HwValue(percent)) \in 0 .. 255
<1>1. HwValue(percent) \in 0 .. 1023
  BY DEF HwValue
<1>2. Constrain(HwValue(percent), 0, 1023) \in 0 .. 1023
  BY <1>1 DEF Constrain
<1> DEFINE hw == Constrain(HwValue(percent), 0, 1023)
           lo == 0
           hi == 1023
           top == 255
<1>3. /\ lo \in Int /\ hi \in Int /\ top \in Int /\ hw \in Int
      /\ lo < hi /\ lo <= hw /\ hw <= hi /\ lo <= top
  BY <1>2
<1> HIDE DEF hw, lo, hi, top
<1>4. MapRange(hw, lo, hi, lo, top) \in lo .. top
  BY <1>3, MapUp
<1> QED
  BY <1>1, <1>4 DEF Brightness255, hw, lo, hi, top

\* The curve of a continuous servo, deadband included, stays in the range.
LEMMA ContinuousPulseInRange ==
    ASSUME NEW b \in 0 .. 255
    PROVE  ContinuousPulse(b) \in Pulse
<1> DEFINE offset == (DeadbandPercent * 255) \div 200
           inDeadband == Absolute(200 * b - 25500) <= 255 * DeadbandPercent
<1> USE ServoAssumption
<1>1. CASE inDeadband
  BY <1>1 DEF ContinuousPulse, Pulse
<1>2. CASE ~inDeadband /\ 2 * b > 255
  <2>1. DeadbandPercent < 100 /\ 200 * b - 25500 > 255 * DeadbandPercent
    BY <1>2 DEF Absolute
  <2>2. offset \in Nat /\ offset <= 126 /\ 128 + offset <= b
    BY <2>1
  <2> DEFINE lo == 128 + offset
             hi == 255
             from == MidUs + 40
  <2>3. ContinuousPulse(b) = MapRange(b, lo, hi, from, MaxUs)
    BY <1>2 DEF ContinuousPulse
  <2>4. /\ lo \in Int /\ hi \in Int /\ b \in Int /\ from \in Int /\ MaxUs \in Int
        /\ lo < hi /\ lo <= b /\ b <= hi /\ from <= MaxUs
    BY <2>2
  <2> HIDE DEF lo, hi, from
  <2>5. ContinuousPulse(b) \in from .. MaxUs
    BY <2>3, <2>4, MapUp
  <2> QED
    BY <2>5 DEF Pulse, from
<1>3. CASE ~inDeadband /\ ~(2 * b > 255)
  <2>1. DeadbandPercent < 100 /\ 25500 - 200 * b > 255 * DeadbandPercent
    BY <1>3 DEF Absolute
  <2>2. offset \in Nat /\ offset <= 126 /\ b <= 127 - offset
    BY <2>1
  <2> DEFINE lo == 0
             hi == 127 - offset
             to == MidUs - 40
  <2>3. ContinuousPulse(b) = MapRange(b, lo, hi, MinUs, to)
    BY <1>3 DEF ContinuousPulse
  <2>4. /\ lo \in Int /\ hi \in Int /\ b \in Int /\ MinUs \in Int /\ to \in Int
        /\ lo < hi /\ lo <= b /\ b <= hi /\ MinUs <= to
    BY <2>2
  <2> HIDE DEF lo, hi, to
  <2>5. ContinuousPulse(b) \in MinUs .. to
    BY <2>3, <2>4, MapUp
  <2> QED
    BY <2>5 DEF Pulse, to
<1> QED
  BY <1>1, <1>2, <1>3

\* Every brightness is converted to a pulse inside the mechanical range.
LEMMA PulseInRange ==
    ASSUME NEW brightness255 \in 0 .. 255
    PROVE  /\ CalculateMicroSec(brightness255) \in Pulse
           /\ TargetPulse(brightness255) \in Pulse
<1> USE ServoAssumption
<1> DEFINE b == IF Inverted THEN 255 - brightness255 ELSE brightness255
<1>1. Constrain(brightness255, 0, 255) = brightness255
  BY DEF Constrain
<1>2. b \in 0 .. 255
  OBVIOUS
<1>3. (b * (MaxUs - MinUs)) \div 255 + MinUs \in Pulse
  <2> DEFINE r == MaxUs - MinUs
  <2>1. r \in Nat /\ MaxUs = MinUs + r
    OBVIOUS
  <2> HIDE DEF r, b
  <2>2. b * r <= 255 * r /\ b * r \in Nat
    BY <1>2, <2>1, MultMonotone
  <2>3. (b * r) \div 255 \in 0 .. r
    BY <2>1, <2>2, DivBound
  <2> QED
    BY <2>1, <2>3 DEF Pulse, r
<1>4. ContinuousPulse(b) \in Pulse
  BY <1>2, ContinuousPulseInRange
<1>5. CalculateMicroSec(brightness255) \in Pulse
  <2>1. {MidUs, MinUs, MaxUs} \subseteq Pulse
    BY DEF Pulse
  <2> QED
    BY <1>1, <1>3, <1>4, <2>1 DEF CalculateMicroSec
<1> QED
  BY <1>5 DEF TargetPulse, Pulse

\* What the channel reports is a byte, or at most a hundred percent in thousandths.
LEMMA ChannelValueInRange ==
    ASSUME NEW brightness255 \in 0 .. 255
    PROVE  ChannelValue(brightness255) \in 0 .. Thousandths(100)
<1>1. Constrain(brightness255, 0, 255) = brightness255
  BY DEF Constrain
<1> DEFINE lo == 0
           hi == 255
           top == 100
<1>2. /\ lo \in Int /\ hi \in Int /\ top \in Int /\ brightness255 \in Int
      /\ lo < hi /\ lo <= brightness255 /\ brightness255 <= hi /\ lo <= top
  OBVIOUS
<1> HIDE DEF lo, hi, top
<1>3. MapRange(brightness255, lo, hi, lo, top) \in lo .. top
  BY <1>2, MapUp
<1>4. PICK p \in Int : p = MapRange(brightness255, 0, 255, 0, 100) /\ 0 <= p /\ p <= 100
  BY <1>3 DEF lo, hi, top
<1>5. Thousandths(100) = 100000 /\ Thousandths(p) = 1000 * p
  BY DEF Thousandths
<1>6. 0 <= 1000 * p /\ 1000 * p <= 100000 /\ 1000 * p \in Int
  BY <1>4
<1>7. Thousandths(p) \in 0 .. Thousandths(100)
  BY <1>5, <1>6
<1>8. CASE Mode = "relay"
  <2>1. ChannelValue(brightness255) = 255 \/ ChannelValue(brightness255) = 0
    BY <1>8, Zenon DEF ChannelValue
  <2> QED
    BY <1>5, <2>1
<1>9. CASE Mode = "roller"
  <2>1. ChannelValue(brightness255) = Thousandths(p)
    BY <1>1, <1>4, <1>9 DEF ChannelValue
  <2> QED
    BY <1>7, <2>1
<1>10. CASE Mode # "relay" /\ Mode # "roller"
  <2>1. ChannelValue(brightness255) = brightness255
    BY <1>1, <1>10, Zenon DEF ChannelValue
  <2> QED
    BY <1>5, <2>1
<1> QED
  BY <1>8, <1>9, <1>10

\* The brightness read back from a pulse fits into its byte.
LEMMA BrightnessFromPulse ==
    ASSUME NEW us \in Pulse
    PROVE  CalculateBrightnessFromMicroSec(us) \in 0 .. 255
<1> DEFINE low  == IF Inverted THEN MaxUs ELSE MinUs
           high == IF Inverted THEN MinUs ELSE MaxUs
<1>1. /\ low \in Int /\ high \in Int /\ high - low # 0 /\ us \in Int
  BY ServoAssumption DEF Pulse
<1>2. CDiv((us - low) * (255 - 0), high - low) \in Int
  <2> DEFINE a == (us - low) * (255 - 0)
             b == high - low
  <2>1. a \in Int /\ b \in Int /\ b # 0
    BY <1>1
  <2> HIDE DEF a, b
  <2>2. CDiv(a, b) \in Int
    BY <2>1, CDivInt
  <2> QED
    BY <2>2 DEF a, b
<1>3. MapRange(us, low, high, 0, 255) \in Int
  BY <1>2 DEF MapRange
<1> QED
  BY <1>3 DEF CalculateBrightnessFromMicroSec, Constrain

\* The time given to a move is a natural number.
LEMMA DurationIsNat ==
    ASSUME NEW from \in Pulse, NEW to \in Pulse,
           NEW fromBrightness \in 0 .. 255, NEW toBrightness \in 0 .. 255
    PROVE  MoveDuration(from, to, fromBrightness, toBrightness) \in Nat
<1> USE ServoAssumption
<1>1. Absolute(to - from) \in Nat /\ Absolute(toBrightness - fromBrightness) \in Nat
  BY DEF Absolute, Pulse
<1>2. MaxUs - MinUs \in Nat /\ MaxUs - MinUs > 0
  OBVIOUS
<1>3. Absolute(to - from) * TransitionTimeMs \in Nat
  BY <1>1
<1>4. (Absolute(to - from) * TransitionTimeMs) \div (MaxUs - MinUs) \in Nat
  <2> DEFINE a == Absolute(to - from) * TransitionTimeMs
             b == MaxUs - MinUs
  <2>1. a \in Nat /\ b \in Nat /\ b > 0
    BY <1>2, <1>3
  <2> HIDE DEF a, b
  <2>2. a \div b \in Nat
    BY <2>1
  <2> QED
    BY <2>2 DEF a, b
<1>5. (TransitionTimeMs * Absolute(toBrightness - fromBrightness)) \div 255 \in Nat
  <2> DEFINE a == TransitionTimeMs * Absolute(toBrightness - fromBrightness)
  <2>1. a \in Nat
    BY <1>1
  <2> HIDE DEF a
  <2>2. a \div 255 \in Nat
    BY <2>1
  <2> QED
    BY <2>2 DEF a
<1> QED
  BY <1>4, <1>5 DEF MoveDuration

-----------------------------------------------------------------------------
(* The members of the driver, with every pulse in the mechanical range.  Each  *)
(* step of the driver leads from one such record to another.                   *)

\* A pulse, or the absence of one.
Signal == Pulse \cup {0}

SafeState ==
    [firstCloudSync : BOOLEAN, isMoving : BOOLEAN, isAttached : BOOLEAN,
     isWaitingToDetach : BOOLEAN,
     currentBrightness : 0 .. 255,
     startMicroSec : Pulse, currentMicroSec : Pulse, targetMicroSec : Pulse,
     lastWrittenMicroSec : Signal,
     pulse : Signal,
     moveDurationMs : Nat,
     sinceMoveStart : Clock, sinceTargetReached : Clock, sinceIterate : Clock,
     channelValue : 0 .. Thousandths(100)]

\* The safe records are well-typed.
LEMMA SafeIsTyped ==
    ASSUME NEW s \in SafeState
    PROVE  s \in ServoState /\ (s.pulse = 0 \/ s.pulse \in Pulse)
<1>1. Pulse \subseteq Int /\ Signal \subseteq Int
  BY ServoAssumption DEF Pulse, Signal
<1>2. s \in ServoState
  BY <1>1, ZenonT(60) DEF SafeState, ServoState
<1>3. s.pulse \in Signal
  BY DEF SafeState
<1> QED
  BY <1>2, <1>3 DEF Signal

\* Every pulse is a signal, and so is silence.
LEMMA SignalRange == Pulse \subseteq Signal /\ 0 \in Signal
  BY DEF Signal

\* The clocks start inside their range.
LEMMA ClockRange == 0 \in Clock /\ ClockCapMs \in Clock
  BY SpecAssumption DEF Clock

\* The stop pulse is a pulse.
LEMMA MidUsIsPulse == MidUs \in Pulse
  BY ServoAssumption DEF Pulse

\* A boot leaves safe members.
LEMMA BootedSafe == Booted \in SafeState
<1>1. CalculateMicroSec(0) \in Pulse
  BY PulseInRange
<1>2. 0 \in 0 .. Thousandths(100)
  BY DEF Thousandths
<1> QED
  BY <1>1, <1>2, ClockRange, SignalRange DEF Booted, SafeState

\* Applying a new value keeps the members safe.
LEMMA SetValueSafe ==
    ASSUME NEW s \in SafeState, NEW percent \in 0 .. 100
    PROVE  SetRGBWValueOnDevice(s, HwValue(percent)) \in SafeState
<1> DEFINE b == Brightness255(HwValue(percent))
<1>1. b \in 0 .. 255
  BY BrightnessInRange, ZenonT(60)
<1> HIDE DEF b
<1>2. /\ CalculateMicroSec(b) \in Pulse /\ TargetPulse(b) \in Pulse
      /\ ChannelValue(b) \in 0 .. Thousandths(100)
  BY <1>1, PulseInRange, ChannelValueInRange
<1>3. FirstSync(s, b) \in SafeState
  BY <1>1, <1>2 DEF FirstSync, SafeState
<1>4. StartMove(s, b) \in SafeState
  <2>1. MoveDuration(s.currentMicroSec, TargetPulse(b), s.currentBrightness, b) \in Nat
    BY <1>1, <1>2, DurationIsNat DEF SafeState
  <2> QED
    BY <1>2, <2>1, ClockRange DEF StartMove, SafeState
<1> QED
  BY <1>3, <1>4 DEF SetRGBWValueOnDevice, b

\* Another signal on the wire.
LEMMA SignalSafe ==
    ASSUME NEW s \in SafeState, NEW signal \in Signal
    PROVE  [s EXCEPT !.pulse = signal] \in SafeState
  BY DEF SafeState

\* So does writing a pulse of the range,
LEMMA WritePulseSafe ==
    ASSUME NEW s \in SafeState, NEW us \in Pulse
    PROVE  WritePulse(s, us) \in SafeState
<1> DEFINE signal == IF us # s.lastWrittenMicroSec THEN us ELSE s.pulse
           wired  == [s EXCEPT !.pulse = signal]
<1>1. signal \in Signal /\ us \in Signal
  BY SignalRange DEF SafeState
<1>2. wired \in SafeState
  <2> HIDE DEF signal
  <2> QED
    BY <1>1, SignalSafe
<1>3. WritePulse(s, us)
        = [wired EXCEPT !.currentMicroSec = us, !.lastWrittenMicroSec = us]
  BY DEF WritePulse, SafeState
<1> HIDE DEF wired
<1> QED
  BY <1>1, <1>2, <1>3, ZenonT(60) DEF SafeState

\* a forced stop,
LEMMA ForceStopSafe ==
    ASSUME NEW s \in SafeState, NEW b \in 0 .. 255
    PROVE  ForceStopAndSync(s, b) \in SafeState
<1> DEFINE stop    == IF Type = 1 THEN MidUs ELSE s.currentMicroSec
           pulse   == IF s.isAttached THEN stop ELSE s.pulse
           channel == ChannelValue(b)
<1>1. channel \in 0 .. Thousandths(100)
  BY ChannelValueInRange
<1>2. stop \in Pulse /\ pulse \in Signal
  BY MidUsIsPulse, SignalRange DEF SafeState
<1> DEFINE wired == [s EXCEPT !.pulse = pulse]
<1>3. wired \in SafeState
  <2> HIDE DEF pulse
  <2> QED
    BY <1>2, SignalSafe
<1>4. ForceStopAndSync(s, b) =
        [wired EXCEPT !.targetMicroSec = stop, !.currentBrightness = b,
                      !.isMoving = FALSE, !.isWaitingToDetach = TRUE,
                      !.sinceTargetReached = 0, !.channelValue = channel]
  BY DEF ForceStopAndSync, SafeState
<1> HIDE DEF stop, channel, wired
<1> QED
  BY <1>1, <1>2, <1>3, <1>4, ClockRange, ZenonT(60) DEF SafeState

\* the limit switch check,
LEMMA LimitSwitchSafe ==
    ASSUME NEW s \in SafeState
    PROVE  LimitSwitchCheck360(s) \in SafeState
<1>1. ForceStopAndSync(s, 255) \in SafeState /\ ForceStopAndSync(s, 0) \in SafeState
  BY ForceStopSafe
<1> QED
  BY <1>1 DEF LimitSwitchCheck360

\* The interpolated pulse lies between the start and the target of the move.
LEMMA InterpolatedInRange ==
    ASSUME NEW s \in SafeState
    PROVE  Interpolated(s) \in Pulse
<1> DEFINE zero     == 0
           elapsed  == s.sinceMoveStart
           duration == s.moveDurationMs
           start    == s.startMicroSec
           target   == s.targetMicroSec
<1>1. elapsed \in Clock /\ duration \in Nat /\ start \in Pulse /\ target \in Pulse
  BY DEF SafeState
<1>2. CASE elapsed < duration
  <2>1. /\ zero \in Int /\ duration \in Int /\ elapsed \in Int
        /\ start \in Int /\ target \in Int
        /\ zero < duration /\ zero <= elapsed /\ elapsed <= duration
    BY <1>1, <1>2, ServoAssumption, SpecAssumption DEF Clock, Pulse
  <2>2. Interpolated(s) = MapRange(elapsed, zero, duration, start, target)
    BY <1>2 DEF Interpolated
  <2> HIDE DEF zero, elapsed, duration, start, target
  <2>3. CASE start <= target
    <3>1. Interpolated(s) \in start .. target
      BY <2>1, <2>2, <2>3, MapUp
    <3> QED
      BY <1>1, <3>1, ServoAssumption DEF Pulse
  <2>4. CASE target <= start
    <3>1. Interpolated(s) \in target .. start
      BY <2>1, <2>2, <2>4, MapDown
    <3> QED
      BY <1>1, <3>1, ServoAssumption DEF Pulse
  <2> QED
    BY <2>1, <2>3, <2>4
<1>3. CASE ~(elapsed < duration)
  BY <1>1, <1>3 DEF Interpolated
<1> QED
  BY <1>2, <1>3

\* a step of the motion,
LEMMA MoveStepSafe ==
    ASSUME NEW s \in SafeState
    PROVE  MoveStep(s) \in SafeState
<1> DEFINE us      == IF Type = 0 THEN Interpolated(s) ELSE s.targetMicroSec
           stopped == IF Type = 1 /\ TimedRollerMove(s) /\ Reached(s)
                      THEN ForceStopAndSync(s, 127) ELSE s
           written == WritePulse(stopped, us)
<1>1. us \in Pulse
  BY InterpolatedInRange DEF SafeState
<1>2. stopped \in SafeState
  BY ForceStopSafe
<1>3. written \in SafeState
  <2> HIDE DEF us, stopped
  <2> QED
    BY <1>1, <1>2, WritePulseSafe
<1>4. [written EXCEPT !.isMoving = FALSE, !.isWaitingToDetach = TRUE,
         !.sinceTargetReached = IF written.isWaitingToDetach THEN @ ELSE 0]
        \in SafeState
  <2> DEFINE since == IF written.isWaitingToDetach
                      THEN written.sinceTargetReached ELSE 0
  <2> HIDE DEF written
  <2>1. since \in Clock
    BY <1>3, ClockRange DEF SafeState
  <2> HIDE DEF since
  <2>2. [written EXCEPT !.isMoving = FALSE, !.isWaitingToDetach = TRUE,
                        !.sinceTargetReached = since] \in SafeState
    BY <1>3, <2>1 DEF SafeState
  <2> QED
    BY <1>3, <2>2 DEF since, SafeState
<1> QED
  BY <1>3, <1>4 DEF MoveStep

\* the release of the pin,
LEMMA DetachStepSafe ==
    ASSUME NEW s \in SafeState
    PROVE  DetachStep(s) \in SafeState
<1> DEFINE released == IF Type = 0 \/ s.currentMicroSec = MidUs
                       THEN DetachServoSafe(s) ELSE s
<1>1. DetachServoSafe(s) \in SafeState
  BY SignalRange DEF DetachServoSafe, SafeState
<1>2. released \in SafeState
  BY <1>1
<1>3. [released EXCEPT !.isWaitingToDetach = FALSE] \in SafeState
  <2> HIDE DEF released
  <2> QED
    BY <1>2 DEF SafeState
<1> QED
  BY <1>3 DEF DetachStep

\* and so a whole loop pass.
LEMMA IteratePassSafe ==
    ASSUME NEW s \in SafeState
    PROVE  IteratePass(s) \in SafeState
<1> DEFINE checked == LimitSwitchCheck360(s)
           ticked  == [checked EXCEPT !.sinceIterate = 0]
<1>1. checked \in SafeState
  BY LimitSwitchSafe
<1>2. ticked \in SafeState
  <2> HIDE DEF checked
  <2> QED
    BY <1>1, ClockRange DEF SafeState
<1>3. DetachStep(MoveStep(ticked)) \in SafeState
  <2> HIDE DEF ticked
  <2> QED
    BY <1>2, MoveStepSafe, DetachStepSafe
<1> QED
  BY <1>1, <1>3 DEF IteratePass

\* The clocks that run move on.
LEMMA ClocksSafe ==
    ASSUME NEW s \in SafeState
    PROVE  [s EXCEPT
              !.sinceMoveStart = IF s.isMoving THEN Later(@) ELSE @,
              !.sinceTargetReached = IF s.isWaitingToDetach THEN Later(@) ELSE @,
              !.sinceIterate = Later(@)] \in SafeState
<1> DEFINE start   == IF s.isMoving THEN Later(s.sinceMoveStart)
                                    ELSE s.sinceMoveStart
           reached == IF s.isWaitingToDetach THEN Later(s.sinceTargetReached)
                                             ELSE s.sinceTargetReached
           iterate == Later(s.sinceIterate)
<1>1. ASSUME NEW clock \in Clock PROVE Later(clock) \in Clock
  BY SpecAssumption DEF Later, Clock
<1>2. start \in Clock /\ reached \in Clock /\ iterate \in Clock
  BY <1>1 DEF SafeState
<1> HIDE DEF start, reached, iterate
<1>3. [s EXCEPT !.sinceMoveStart = start, !.sinceTargetReached = reached,
                !.sinceIterate = iterate] \in SafeState
  BY <1>2 DEF SafeState
<1> QED
  BY <1>3 DEF start, reached, iterate, SafeState

-----------------------------------------------------------------------------
(* The inductive invariant behind TypeOK and MechanicalRange.                  *)

RangeInv ==
    /\ curBrightness \in 0 .. 100 /\ savedBrightness \in 0 .. 100
    /\ hwBrightness \in 0 .. 1023
    /\ servo \in SafeState
    /\ horn \in Pulse
    /\ limitUp \in BOOLEAN /\ limitDown \in BOOLEAN

\* The invariant holds at the start,
LEMMA RangeInit == Init => RangeInv
<1> SUFFICES ASSUME Init PROVE RangeInv
  OBVIOUS
<1>1. curBrightness \in 0 .. 100
  BY SpecAssumption DEF Init
<1>2. TargetPulse(Brightness255(HwValue(curBrightness))) \in Pulse
  BY <1>1, BrightnessInRange, PulseInRange, ZenonT(60)
<1> QED
  <2>1. hwBrightness \in 0 .. 1023
    BY DEF Init
  <2>2. savedBrightness \in 0 .. 100
    BY <1>1 DEF Init
  <2>3. servo \in SafeState
    BY BootedSafe DEF Init
  <2>4. horn \in Pulse
    BY <1>2 DEF Init
  <2>5. limitUp \in BOOLEAN /\ limitDown \in BOOLEAN
    BY DEF Init
  <2> QED
    BY <1>1, <2>1, <2>2, <2>3, <2>4, <2>5 DEF RangeInv

\* and every step of every context keeps it.
LEMMA RangeStep == RangeInv /\ [Next]_vars => RangeInv'
<1> SUFFICES ASSUME RangeInv, [Next]_vars PROVE RangeInv'
  OBVIOUS
<1> USE DEF RangeInv
<1>1. ASSUME servo' \in SafeState, HornFollows PROVE horn' \in Pulse
  <2>1. servo'.pulse \in Signal
    BY <1>1 DEF SafeState
  <2> QED
    BY <1>1, <2>1 DEF HornFollows, Signal
<1>2. CASE Command
  BY <1>2, SpecAssumption DEF Command, HandleNewValueFromServer
<1>3. CASE OnFastTimer
  <2>1. servo' \in SafeState
    BY <1>3, SetValueSafe DEF OnFastTimer
  <2>2. hwBrightness' \in 0 .. 1023
    BY <1>3, BrightnessInRange, ZenonT(60) DEF OnFastTimer
  <2> QED
    BY <1>1, <1>3, <2>1, <2>2 DEF OnFastTimer
<1>4. CASE IterateAlways
  <2>1. servo' \in SafeState
    BY <1>4, IteratePassSafe DEF IterateAlways
  <2> QED
    BY <1>1, <1>4, <2>1 DEF IterateAlways
<1>5. CASE StopAction
  <2>1. CalculateBrightnessFromMicroSec(servo.currentMicroSec) \in 0 .. 255
    BY BrightnessFromPulse DEF SafeState
  <2>2. servo' \in SafeState
    BY <1>5, <2>1, ForceStopSafe DEF StopAction
  <2> QED
    BY <1>1, <1>5, <2>2 DEF StopAction
<1>6. CASE SaveState
  BY <1>6 DEF SaveState
<1>7. CASE Restart
  BY <1>7, BootedSafe DEF Restart
<1>8. CASE LimitSwitchChange
  BY <1>8, SpecAssumption DEF LimitSwitchChange
<1>9. CASE TimePasses
  <2>1. servo' \in SafeState
    BY <1>9, ClocksSafe DEF TimePasses
  <2> QED
    BY <1>9, <2>1 DEF TimePasses
<1>10. CASE UNCHANGED vars
  BY <1>10 DEF vars
<1> QED
  BY <1>2, <1>3, <1>4, <1>5, <1>6, <1>7, <1>8, <1>9, <1>10 DEF Next

\* Every member keeps the type the code gives it, whatever the configuration.
THEOREM ServoTypes == Spec => []TypeOK
<1>1. RangeInv => TypeOK
  <2>1. Pulse \subseteq Int
    BY ServoAssumption DEF Pulse
  <2> QED
    BY <2>1, SafeIsTyped DEF RangeInv, TypeOK
<1> QED
  BY RangeInit, RangeStep, <1>1, PTL DEF Spec

\* The motor never receives a pulse outside the configured range, in any mode,
\* for any timing of commands, stops, limit switches and restarts.
THEOREM ServoStaysInRange == Spec => []MechanicalRange
<1>1. RangeInv => MechanicalRange
  BY SafeIsTyped DEF RangeInv, MechanicalRange
<1> QED
  BY RangeInit, RangeStep, <1>1, PTL DEF Spec

-----------------------------------------------------------------------------
(* A continuous servo used as a switch.  Here MotorIsWatched is not inductive: *)
(* a command may set a new target while an old pulse is still on the wire, and *)
(* the loop writes a pulse only when it differs from the last one written.  So *)
(* the invariant ties the wire to the last written pulse and both to the two   *)
(* pulses such a servo can be told to give.                                    *)

OnPulse == IF Inverted THEN MinUs ELSE MaxUs

Watched(s) ==
    /\ s.firstCloudSync => ~s.isAttached
    /\ ~s.isAttached => s.pulse = 0
    /\ s.isAttached => s.targetMicroSec \in {MidUs, OnPulse}
    /\ s.lastWrittenMicroSec \in {0, MidUs, OnPulse}
    /\ s.pulse \in {0, MidUs, s.lastWrittenMicroSec}
    /\ s.pulse \notin {0, MidUs} =>
          s.isMoving /\ s.targetMicroSec \in {s.pulse, MidUs}

ContinuousSwitch == Type = 1 /\ ChType = 0

\* A continuous switch is in relay mode.
LEMMA SwitchMode == ContinuousSwitch => Mode = "relay"
  BY DEF ContinuousSwitch, Mode

\* After a boot there is nothing to watch.
LEMMA BootedWatched == Watched(Booted)
  BY DEF Booted, Watched

\* A command only sets a target, one of the two pulses of a switch.
LEMMA SetValueWatched ==
    ASSUME ContinuousSwitch, NEW s \in SafeState, Watched(s), NEW hw
    PROVE  Watched(SetRGBWValueOnDevice(s, hw))
<1> DEFINE b == Brightness255(hw)
<1>1. TargetPulse(b) \in {MidUs, OnPulse}
  BY SwitchMode DEF ContinuousSwitch, TargetPulse, OnPulse
<1>2. CASE s.firstCloudSync
  <2>1. SetRGBWValueOnDevice(s, hw) = FirstSync(s, b)
    BY <1>2 DEF SetRGBWValueOnDevice
  <2> HIDE DEF b
  <2> QED
    BY <1>2, <2>1 DEF FirstSync, Watched, SafeState
<1>3. CASE ~s.firstCloudSync
  <2>1. SetRGBWValueOnDevice(s, hw) = StartMove(s, b)
    BY <1>3 DEF SetRGBWValueOnDevice
  <2> HIDE DEF b
  <2>2. s.pulse \notin {0, MidUs} => s.pulse = OnPulse
    BY DEF Watched
  <2> QED
    BY <1>1, <1>3, <2>1, <2>2 DEF StartMove, Watched, SafeState
<1> QED
  BY <1>2, <1>3

\* A stop puts the stop pulse on the wire of an attached servo.
LEMMA ForceStopWatched ==
    ASSUME ContinuousSwitch, NEW s \in SafeState, Watched(s), NEW b
    PROVE  LET stopped == ForceStopAndSync(s, b)
           IN  /\ Watched(stopped) /\ stopped.targetMicroSec = MidUs
               /\ ~stopped.isMoving /\ stopped.pulse \in {0, MidUs}
  BY DEF ContinuousSwitch, ForceStopAndSync, Watched, SafeState

\* After the limit switch check the target leads away from a closed switch.
LEMMA LimitSwitchWatched ==
    ASSUME ContinuousSwitch, NEW s \in SafeState, Watched(s)
    PROVE  LET checked == LimitSwitchCheck360(s)
           IN  /\ Watched(checked)
               /\ s.isAttached => checked.isAttached
               /\ checked.sinceIterate = s.sinceIterate
               /\ limitUp => checked.targetMicroSec <= MidUs
               /\ limitDown => checked.targetMicroSec >= MidUs
<1>1. ASSUME NEW b
      PROVE  LET stopped == ForceStopAndSync(s, b)
             IN  /\ Watched(stopped) /\ stopped.targetMicroSec = MidUs
                 /\ stopped.isAttached = s.isAttached
                 /\ stopped.sinceIterate = s.sinceIterate
  <2>1. Watched(ForceStopAndSync(s, b)) /\ ForceStopAndSync(s, b).targetMicroSec = MidUs
    BY ForceStopWatched
  <2> QED
    BY <2>1 DEF ForceStopAndSync, SafeState
<1>2. s.targetMicroSec \in Int /\ MidUs \in Int
  BY ServoAssumption DEF SafeState, Pulse
<1>3. Type = 1
  BY DEF ContinuousSwitch
<1> QED
  BY <1>1, <1>2, <1>3 DEF LimitSwitchCheck360

\* One step of the motion leaves the wire silent, at the stop pulse, or at the
\* pulse the loop goes on watching.
LEMMA MoveStepWatched ==
    ASSUME ContinuousSwitch, NEW s \in SafeState, Watched(s), s.isAttached
    PROVE  /\ Watched(MoveStep(s))
           /\ MoveStep(s).pulse \in {0, MidUs, s.targetMicroSec}
<1> DEFINE us      == s.targetMicroSec
           written == WritePulse(s, us)
<1>1. ~TimedRollerMove(s) /\ Type = 1
  BY SwitchMode DEF ContinuousSwitch, TimedRollerMove
<1>2. Reached(s) <=> us = MidUs
  BY <1>1 DEF Reached
<1>3. MoveStep(s) =
        IF ~s.isMoving THEN s
        ELSE IF us # MidUs THEN written
        ELSE [written EXCEPT !.isMoving = FALSE, !.isWaitingToDetach = TRUE,
                !.sinceTargetReached = IF written.isWaitingToDetach THEN @ ELSE 0]
  BY <1>1, <1>2 DEF MoveStep
<1>4. us \in {MidUs, OnPulse}
  BY DEF Watched
<1>5. /\ written.pulse = IF us # s.lastWrittenMicroSec THEN us ELSE s.pulse
      /\ written.lastWrittenMicroSec = us
      /\ written.targetMicroSec = us
      /\ written.isMoving = s.isMoving
      /\ written.isAttached = s.isAttached
      /\ written.firstCloudSync = s.firstCloudSync
  BY DEF WritePulse, SafeState
<1>6. us \in Pulse /\ written \in SafeState
  <2>1. us \in Pulse
    BY DEF SafeState
  <2> QED
    BY <2>1, WritePulseSafe
<1> HIDE DEF written
<1>7. CASE ~s.isMoving
  BY <1>3, <1>7 DEF Watched
<1>8. CASE s.isMoving /\ us # MidUs
  <2>1. MoveStep(s) = written
    BY <1>3, <1>8
  <2>2. written.pulse \in {us, s.pulse} /\ s.pulse \in {0, MidUs, us}
    BY <1>4, <1>5, <1>8 DEF Watched
  <2> QED
    BY <1>4, <1>5, <1>8, <2>1, <2>2 DEF Watched
<1>9. CASE s.isMoving /\ us = MidUs
  <2>1. written.pulse \in {0, MidUs}
    BY <1>5, <1>9 DEF Watched
  <2>2. MoveStep(s) =
          [written EXCEPT !.isMoving = FALSE, !.isWaitingToDetach = TRUE,
             !.sinceTargetReached = IF written.isWaitingToDetach THEN @ ELSE 0]
    BY <1>3, <1>9
  <2>3. /\ MoveStep(s).pulse = written.pulse
        /\ MoveStep(s).lastWrittenMicroSec = written.lastWrittenMicroSec
        /\ MoveStep(s).targetMicroSec = written.targetMicroSec
        /\ MoveStep(s).isAttached = written.isAttached
        /\ MoveStep(s).firstCloudSync = written.firstCloudSync
    BY <1>6, <2>2 DEF SafeState
  <2> QED
    BY <1>5, <1>9, <2>1, <2>3 DEF Watched
<1> QED
  BY <1>7, <1>8, <1>9

\* Releasing the pin silences the wire.
LEMMA DetachWatched ==
    ASSUME NEW s \in SafeState, Watched(s)
    PROVE  Watched(DetachStep(s)) /\ DetachStep(s).pulse \in {0, s.pulse}
<1>1. /\ Watched(DetachServoSafe(s)) /\ DetachServoSafe(s) \in SafeState
      /\ DetachServoSafe(s).pulse = 0
  BY SignalRange DEF DetachServoSafe, Watched, SafeState
<1>2. ASSUME NEW r \in SafeState, Watched(r)
      PROVE  LET waited == [r EXCEPT !.isWaitingToDetach = FALSE]
             IN  Watched(waited) /\ waited.pulse = r.pulse
  BY <1>2 DEF Watched, SafeState
<1> QED
  BY <1>1, <1>2 DEF DetachStep

\* A whole loop pass leaves the motor watched, and not driving into a closed switch.
LEMMA IteratePassWatched ==
    ASSUME ContinuousSwitch, NEW s \in SafeState, Watched(s), s.isAttached
    PROVE  /\ Watched(IteratePass(s))
           /\ s.sinceIterate >= IterateIntervalMs =>
                /\ limitUp => IteratePass(s).pulse <= MidUs
                /\ limitDown => \/ IteratePass(s).pulse = 0
                                \/ IteratePass(s).pulse >= MidUs
<1> DEFINE checked == LimitSwitchCheck360(s)
           ticked  == [checked EXCEPT !.sinceIterate = 0]
           moved   == MoveStep(ticked)
           last    == DetachStep(moved)
<1>1. /\ checked \in SafeState /\ Watched(checked) /\ checked.isAttached
      /\ checked.sinceIterate = s.sinceIterate
      /\ limitUp => checked.targetMicroSec <= MidUs
      /\ limitDown => checked.targetMicroSec >= MidUs
  BY LimitSwitchSafe, LimitSwitchWatched
<1>2. /\ ticked \in SafeState /\ Watched(ticked) /\ ticked.isAttached
      /\ ticked.targetMicroSec = checked.targetMicroSec
  <2> HIDE DEF checked
  <2> QED
    BY <1>1, ClockRange DEF SafeState, Watched
<1>3. /\ moved \in SafeState /\ Watched(moved)
      /\ moved.pulse \in {0, MidUs, checked.targetMicroSec}
  <2> HIDE DEF checked, ticked
  <2> QED
    BY <1>2, MoveStepSafe, MoveStepWatched
<1>4. Watched(last) /\ last.pulse \in {0, MidUs, checked.targetMicroSec}
  <2> HIDE DEF checked, moved
  <2> QED
    BY <1>3, DetachWatched
<1>5. IteratePass(s) = IF s.sinceIterate < IterateIntervalMs THEN checked ELSE last
  BY <1>1 DEF IteratePass
<1>6. s.sinceIterate \in Int /\ IterateIntervalMs \in Int
  BY SpecAssumption DEF SafeState, Clock, IterateIntervalMs
<1> HIDE DEF checked, last
<1>7. ASSUME s.sinceIterate >= IterateIntervalMs
      PROVE  /\ limitUp => last.pulse <= MidUs
             /\ limitDown => last.pulse = 0 \/ last.pulse >= MidUs
  BY <1>1, <1>4, ServoAssumption
<1> QED
  BY <1>1, <1>4, <1>5, <1>6, <1>7

\* Every step of every context keeps the motor watched.
LEMMA WatchStep ==
    ASSUME ContinuousSwitch
    PROVE  RangeInv /\ Watched(servo) /\ [Next]_vars => Watched(servo')
<1> SUFFICES ASSUME RangeInv, Watched(servo), [Next]_vars PROVE Watched(servo')
  OBVIOUS
<1>1. servo \in SafeState
  BY DEF RangeInv
<1>2. CASE OnFastTimer
  BY <1>1, <1>2, SetValueWatched DEF OnFastTimer
<1>3. CASE IterateAlways
  BY <1>1, <1>3, IteratePassWatched DEF IterateAlways
<1>4. CASE StopAction
  BY <1>4, SwitchMode DEF StopAction
<1>5. CASE Restart
  BY <1>5, BootedWatched DEF Restart
<1>6. CASE TimePasses
  BY <1>1, <1>6 DEF TimePasses, Watched, SafeState
<1>7. CASE Command \/ SaveState \/ LimitSwitchChange \/ UNCHANGED vars
  BY <1>7 DEF Command, HandleNewValueFromServer, SaveState, LimitSwitchChange, vars
<1> QED
  BY <1>2, <1>3, <1>4, <1>5, <1>6, <1>7 DEF Next

\* A continuous servo used as a switch never turns while nobody watches it: the
\* members a loop pass looks at always say that it turns, and which way.
THEOREM SwitchIsWatched ==
    ASSUME ContinuousSwitch
    PROVE  Spec => []MotorIsWatched
<1>1. Init => RangeInv /\ Watched(servo)
  BY RangeInit, BootedWatched DEF Init
<1>2. RangeInv /\ Watched(servo) /\ [Next]_vars => (RangeInv /\ Watched(servo))'
  BY RangeStep, WatchStep
<1>3. RangeInv /\ Watched(servo) => MotorIsWatched
  BY DEF Watched, MotorIsWatched
<1> QED
  BY <1>1, <1>2, <1>3, PTL DEF Spec

\* In a full loop pass a closed limit switch stops such a servo, or finds it
\* driving the other way.
THEOREM SwitchStopsAtLimit ==
    ASSUME ContinuousSwitch
    PROVE  Spec => LimitStopsMotor
<1>1. Init => RangeInv /\ Watched(servo)
  BY RangeInit, BootedWatched DEF Init
<1>2. RangeInv /\ Watched(servo) /\ [Next]_vars => (RangeInv /\ Watched(servo))'
  BY RangeStep, WatchStep
<1>3. RangeInv /\ Watched(servo) /\ [Next]_vars =>
        [IterateAlways /\ servo.sinceIterate >= IterateIntervalMs =>
           /\ limitUp => servo'.pulse <= MidUs
           /\ limitDown => servo'.pulse = 0 \/ servo'.pulse >= MidUs]_vars
  BY IteratePassWatched DEF RangeInv, IterateAlways
<1> QED
  BY <1>1, <1>2, <1>3, PTL DEF Spec, LimitStopsMotor
=============================================================================
