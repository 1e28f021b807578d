------------------------------ MODULE ServoPulse ------------------------------
(* The conversions of SuplaServoDimmer: from the percentage the server sends   *)
(* to the 10-bit value of the dimmer base class, to the 8-bit brightness the   *)
(* servo works with, to the width of the control pulse in microseconds, and    *)
(* back.  Pure operators, no state.                                            *)
EXTENDS Integers

CONSTANTS
    Type,             \* KEY_SERVO_TYPE: 0 is a 180 degree servo, 1 a continuous one
    ChType,           \* KEY_SERVO_CH_TYPE: the mode chosen for that type
    Inverted,         \* KEY_SERVO_INVERTED
    MinUs,            \* KEY_SERVO_ZERO
    MidUs,            \* KEY_SERVO_STOP_US, the stop pulse of a continuous servo
    MaxUs,            \* KEY_SERVO_MAX_ANGLE
    TransitionTimeMs, \* KEY_SERVO_SPEED: time of a full sweep
    DeadbandPercent   \* KEY_SERVO_SOFT_START

ASSUME ServoAssumption ==
    /\ Type \in {0, 1} /\ ChType \in {0, 1, 2} /\ Inverted \in BOOLEAN
    /\ MinUs \in Nat /\ MidUs \in Nat /\ MaxUs \in Nat
    /\ 0 < MinUs /\ MinUs + 40 < MidUs /\ MidUs + 40 < MaxUs
    /\ TransitionTimeMs \in Nat /\ TransitionTimeMs > 0
    /\ DeadbandPercent \in 0 .. 100

-----------------------------------------------------------------------------
(* Integer arithmetic of the C++ code.                                         *)

Absolute(x) == IF x < 0 THEN -x ELSE x

\* Division of int and long: towards zero.
CDiv(a, b) ==
    LET q == Absolute(a) \div Absolute(b)
    IN  IF (a < 0) = (b < 0) THEN q ELSE -q

\* Arduino's map().
MapRange(x, inMin, inMax, outMin, outMax) ==
    CDiv((x - inMin) * (outMax - outMin), inMax - inMin) + outMin

\* Arduino's constrain().
Constrain(x, low, high) == IF x < low THEN low ELSE IF x > high THEN high ELSE x

-----------------------------------------------------------------------------
Mode ==
    IF Type = 0
    THEN IF ChType = 2 THEN "relay" ELSE IF ChType = 0 THEN "roller" ELSE "dimmer"
    ELSE IF ChType = 0 THEN "relay" ELSE "roller"

\* RGBWBase::adjustBrightness: percent to the 10-bit range of the base class.
HwValue(percent) == (percent * 1023) \div 100

\* Mutant of Brightness255: the 10-bit value is kept as it is.
BrightnessUnscaled(hw) == Constrain(hw, 0, 1023)

\* The first line of setRGBWValueOnDevice: 10 bits to 8.
Brightness255(hw) == MapRange(Constrain(hw, 0, 1023), 0, 1023, 0, 255)

\* A continuous servo: the stop pulse inside the deadband around one half, and
\* beyond it a pulse at least 40 us off the stop pulse.
ContinuousPulse(b) ==
    LET offset == (DeadbandPercent * 255) \div 200
        inDeadband == Absolute(200 * b - 25500) <= 255 * DeadbandPercent
    IN  IF inDeadband THEN MidUs
        ELSE IF 2 * b > 255
             THEN MapRange(b, 128 + offset, 255, MidUs + 40, MaxUs)
             ELSE MapRange(b, 0, 127 - offset, MinUs, MidUs - 40)

CalculateMicroSec(brightness255) ==
    LET kept == Constrain(brightness255, 0, 255)
        b    == IF Inverted THEN 255 - kept ELSE kept
    IN  IF Mode = "relay"
        THEN IF brightness255 = 0
             THEN IF Type = 1 THEN MidUs ELSE MinUs
             ELSE MaxUs
        ELSE IF Type = 1 THEN ContinuousPulse(b)
             ELSE (b * (MaxUs - MinUs)) \div 255 + MinUs

CalculateBrightnessFromMicroSec(us) ==
    LET low  == IF Inverted THEN MaxUs ELSE MinUs
        high == IF Inverted THEN MinUs ELSE MaxUs
    IN  Constrain(MapRange(us, low, high, 0, 255), 0, 255)

\* The pulse setRGBWValueOnDevice aims at.  In relay mode it does not use
\* CalculateMicroSec, and unlike it honours Inverted.
TargetPulse(brightness255) ==
    IF Mode # "relay" THEN CalculateMicroSec(brightness255)
    ELSE IF brightness255 > 0 THEN IF Inverted THEN MinUs ELSE MaxUs
    ELSE IF Type = 1 THEN MidUs
    ELSE IF Inverted THEN MaxUs ELSE MinUs

\* How long the move may take: a share of the full sweep for a 180 degree servo
\* or a timed roller; 0 where no timer ends the move.
MoveDuration(startPulse, targetPulse, fromBrightness, toBrightness) ==
    IF Type = 0
    THEN (Absolute(targetPulse - startPulse) * TransitionTimeMs) \div (MaxUs - MinUs)
    ELSE IF Mode = "roller" /\ toBrightness # 127
         THEN (TransitionTimeMs * Absolute(toBrightness - fromBrightness)) \div 255
         ELSE 0

\* Channel::setNewValue(double, double), the overload a percentage declared
\* double selects: the channel keeps the thousandths, an int32.
Thousandths(value) == 1000 * value

\* sendAckToCloud: what the channel keeps of a brightness, the byte value[0] in
\* relay mode and in dimmer mode, the int32 in value[0..3] in roller mode.
ChannelValue(brightness255) ==
    LET b == Constrain(brightness255, 0, 255)
    IN  IF Mode = "relay" THEN IF b > 0 THEN 255 ELSE 0
        ELSE IF Mode = "roller" THEN Thousandths(MapRange(b, 0, 255, 0, 100))
        ELSE b
=============================================================================
