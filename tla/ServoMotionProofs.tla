-------------------------- MODULE ServoMotionProofs --------------------------
(* Theorems about the motion of a 180 degree servo, for every configuration    *)
(* the assumptions allow: its horn keeps to the configured sweep, and with the *)
(* move over the channel reports where it stands.                              *)
EXTENDS ServoProofs, Arithmetic

-----------------------------------------------------------------------------
(* From a brightness to a pulse and back.                                      *)

Sweep == MaxUs - MinUs

\* The sweep is wide enough for the conversions.
LEMMA SweepType == Sweep \in Nat /\ Sweep >= 82 /\ MaxUs = MinUs + Sweep
  BY ServoAssumption DEF Sweep

\* What comes back of a brightness lies at most four below it,
LEMMA BackFromPulse ==
    ASSUME NEW b \in 0 .. 255, NEW r \in Nat, r >= 82
    PROVE  LET q == (b * r) \div 255
           IN  q \in 0 .. r /\ (q * 255) \div r \in b - 4 .. b
<1> DEFINE q == (b * r) \div 255
<1>1. b * r \in Nat /\ b * r <= 255 * r
  BY Monotone
<1>2. q \in Nat /\ q * 255 <= b * r /\ b * r < q * 255 + 255
  BY <1>1, QuotientIs
<1> HIDE DEF q
<1>3. q <= r
  BY <1>1, <1>2
<1>4. (b - 4) * r = b * r - 4 * r /\ (b + 1) * r = b * r + r
  OBVIOUS
<1>5. (b - 4) * r <= q * 255 /\ q * 255 < (b + 1) * r
  BY <1>1, <1>2, <1>4
<1>6. (q * 255) \div r \in b - 4 .. b
  BY <1>2, <1>5, QuotientBetween
<1> QED
  BY <1>2, <1>3, <1>6 DEF q

\* or above it where the servo is inverted.
LEMMA BackFromInverted ==
    ASSUME NEW b \in 0 .. 255, NEW r \in Nat, r >= 82
    PROVE  LET q == ((255 - b) * r) \div 255
           IN  q \in 0 .. r /\ ((r - q) * 255) \div r \in b .. b + 4
<1> DEFINE q == ((255 - b) * r) \div 255
<1>1. /\ (255 - b) * r \in Nat /\ (255 - b) * r <= 255 * r
      /\ (255 - b) * r = 255 * r - b * r
  BY Monotone
<1>2. q \in Nat /\ q * 255 <= (255 - b) * r /\ (255 - b) * r < q * 255 + 255
  BY <1>1, QuotientIs
<1> HIDE DEF q
<1>3. q <= r
  BY <1>1, <1>2
<1>4. b * r \in Nat /\ (b + 4 + 1) * r = b * r + 5 * r
  OBVIOUS
<1>5. b * r <= (r - q) * 255 /\ (r - q) * 255 < (b + 4 + 1) * r /\ (r - q) * 255 \in Nat
  BY <1>1, <1>2, <1>3, <1>4
<1>6. ((r - q) * 255) \div r \in b .. b + 4
  BY <1>5, QuotientBetween
<1> QED
  BY <1>2, <1>3, <1>6 DEF q

Percent(b) == MapRange(b, 0, 255, 0, 100)

\* A division of natural numbers rounds down.
LEMMA CDivIs ==
    ASSUME NEW a \in Nat, NEW b \in Nat, b > 0
    PROVE  /\ CDiv(a, b) = a \div b
           /\ CDiv(-a, -b) = a \div b
           /\ CDiv(-a, b) = -(a \div b)
<1>1. Absolute(a) = a /\ Absolute(-a) = a /\ Absolute(b) = b /\ Absolute(-b) = b
  BY DEF Absolute
<1>2. a = 0 => a \div b = 0 /\ -(a \div b) = 0
  BY SMT
<1>3. a \div b \in Int
  BY SMT
<1>4. a < 0 <=> FALSE
  OBVIOUS
<1> QED
  BY <1>1, <1>2, <1>3 DEF CDiv

\* Brightness values at most four apart are percentages at most two apart, in
\* the thousandths the channel keeps.
LEMMA PercentsClose ==
    ASSUME NEW b \in 0 .. 255, NEW c \in 0 .. 255, b - 4 <= c, c <= b + 4
    PROVE  Absolute(Thousandths(Percent(b)) - Thousandths(Percent(c))) <= Thousandths(2)
<1>1. ASSUME NEW x \in 0 .. 255 PROVE Percent(x) = (x * 100) \div 255
  <2>1. x * 100 \in Nat /\ (x - 0) * (100 - 0) = x * 100 /\ 255 - 0 = 255
    OBVIOUS
  <2>2. CDiv(x * 100, 255) = (x * 100) \div 255 /\ (x * 100) \div 255 \in Int
    BY <2>1, CDivIs
  <2> QED
    BY <2>1, <2>2 DEF Percent, MapRange
<1>2. PICK p \in Nat : p = (b * 100) \div 255
  OBVIOUS
<1>3. PICK q \in Nat : q = (c * 100) \div 255
  OBVIOUS
<1>4. /\ p * 255 <= b * 100 /\ b * 100 < p * 255 + 255
      /\ q * 255 <= c * 100 /\ c * 100 < q * 255 + 255
  BY <1>2, <1>3
<1>5. p - q <= 2 /\ q - p <= 2
  BY <1>4
<1>6. Percent(b) = p /\ Percent(c) = q
  BY <1>1, <1>2, <1>3
<1>7. Absolute(1000 * p - 1000 * q) <= 2000
  BY <1>5 DEF Absolute
<1> QED
  BY <1>6, <1>7 DEF Thousandths


\* Whatever the servo is told comes back from its pulse at most four off.
LEMMA BackFromTarget ==
    ASSUME Type = 0, Mode # "relay", NEW b \in 0 .. 255
    PROVE  LET c == CalculateBrightnessFromMicroSec(TargetPulse(b))
           IN  c \in 0 .. 255 /\ b - 4 <= c /\ c <= b + 4
<1> DEFINE r == Sweep
           kept == IF Inverted THEN 255 - b ELSE b
           q == (kept * r) \div 255
           us == TargetPulse(b)
<1>1. r \in Nat /\ r >= 82 /\ MaxUs = MinUs + r /\ MaxUs - MinUs = r /\ MinUs - MaxUs = -r
      /\ MinUs \in Nat
  BY SweepType, ServoAssumption
<1>2. us = q + MinUs
  <2>1. Constrain(b, 0, 255) = b
    BY DEF Constrain
  <2> QED
    BY <2>1 DEF TargetPulse, CalculateMicroSec, Sweep
<1>3. \A x \in 0 .. 255 : Constrain(x, 0, 255) = x
  BY DEF Constrain
<1>4. CASE ~ Inverted
  <2> DEFINE c == (q * 255) \div r
  <2>1. q \in 0 .. r /\ c \in b - 4 .. b
    BY <1>1, <1>4, BackFromPulse, ZenonT(60)
  <2> HIDE DEF r, q, us
  <2>2. q * 255 \in Nat /\ (us - MinUs) * (255 - 0) = q * 255
    BY <1>1, <1>2, <2>1
  <2>3. CDiv(q * 255, r) = c /\ c \in Nat
    <3>1. PICK n \in Nat : n = q * 255
      BY <2>2
    <3>0. r \in Nat /\ r > 0
      BY <1>1
    <3>2. CDiv(n, r) = n \div r /\ n \div r \in Nat
      BY <3>0, CDivIs, QuotientIs, Zenon
    <3> QED
      BY <3>1, <3>2, Zenon
  <2> HIDE DEF c
  <2>4. MapRange(us, MinUs, MaxUs, 0, 255) = c
    BY <1>1, <2>2, <2>3 DEF MapRange
  <2>5. CalculateBrightnessFromMicroSec(us) = c
    BY <1>3, <1>4, <2>1, <2>3, <2>4 DEF CalculateBrightnessFromMicroSec
  <2> QED
    BY <2>1, <2>3, <2>5 DEF us
<1>5. CASE Inverted
  <2> DEFINE c == ((r - q) * 255) \div r
  <2>1. q \in 0 .. r /\ c \in b .. b + 4
    BY <1>1, <1>5, BackFromInverted, ZenonT(60)
  <2> HIDE DEF r, q, us
  <2>2. (r - q) * 255 \in Nat /\ (us - MaxUs) * (255 - 0) = -((r - q) * 255)
        /\ (r - q) * 255 <= r * 255
    BY <1>1, <1>2, <2>1
  <2>3. CDiv(-((r - q) * 255), -r) = c /\ c \in 0 .. 255
    <3>1. PICK n \in Nat : n = (r - q) * 255
      BY <2>2
    <3>0. r \in Nat /\ r > 0
      BY <1>1
    <3>2. CDiv(-n, -r) = n \div r
      BY <3>0, CDivIs, Zenon
    <3>3. n <= r * 255
      BY <2>2, <3>1
    <3>4. n \div r \in 0 .. 255
      BY <1>1, <3>3, DivBound
    <3> QED
      BY <3>1, <3>2, <3>4, Zenon
  <2> HIDE DEF c
  <2>4. MapRange(us, MaxUs, MinUs, 0, 255) = c
    BY <1>1, <2>2, <2>3 DEF MapRange
  <2>5. CalculateBrightnessFromMicroSec(us) = c
    BY <1>3, <1>5, <2>3, <2>4 DEF CalculateBrightnessFromMicroSec
  <2> QED
    BY <2>1, <2>3, <2>5 DEF us
<1> QED
  BY <1>4, <1>5

\* A pulse and what the channel reports of it.
Matches(us, value) ==
    Absolute(value - Thousandths(Percent(CalculateBrightnessFromMicroSec(us))))
        <= Thousandths(2)

\* A roller that is told a brightness reports the pulse it aims at,
LEMMA TargetMatches ==
    ASSUME Type = 0, Mode = "roller", NEW b \in 0 .. 255
    PROVE  Matches(TargetPulse(b), ChannelValue(b))
<1>1. ChannelValue(b) = Thousandths(Percent(b))
  <2>1. Constrain(b, 0, 255) = b
    BY DEF Constrain
  <2> QED
    BY <2>1, Zenon DEF ChannelValue, Percent
<1> DEFINE c == CalculateBrightnessFromMicroSec(TargetPulse(b))
<1>2. c \in 0 .. 255 /\ b - 4 <= c /\ c <= b + 4
  BY BackFromTarget
<1> HIDE DEF c
<1>3. Absolute(Thousandths(Percent(b)) - Thousandths(Percent(c))) <= Thousandths(2)
  BY <1>2, PercentsClose
<1> QED
  BY <1>1, <1>3 DEF Matches, c

\* and one that is stopped the pulse it has.
LEMMA StopMatches ==
    ASSUME Mode = "roller", NEW us \in Pulse
    PROVE  Matches(us, ChannelValue(CalculateBrightnessFromMicroSec(us)))
<1> DEFINE c == CalculateBrightnessFromMicroSec(us)
<1>1. c \in 0 .. 255
  BY BrightnessFromPulse
<1> HIDE DEF c
<1>2. Constrain(c, 0, 255) = c
  BY <1>1 DEF Constrain
<1>3. ChannelValue(c) = Thousandths(Percent(c))
  BY <1>2, Zenon DEF ChannelValue, Percent
<1>4. Absolute(Thousandths(Percent(c)) - Thousandths(Percent(c))) <= Thousandths(2)
  BY <1>1, PercentsClose
<1> QED
  BY <1>3, <1>4 DEF Matches, c


-----------------------------------------------------------------------------
(* A loop pass of a 180 degree servo, member by member.                        *)

\* One step of the motion: the interpolated pulse is written if it is a new one,
\* and the move ends with its time.
LEMMA MoveStepIs ==
    ASSUME Type = 0, NEW s \in SafeState, s.isMoving
    PROVE  LET m == MoveStep(s)
               us == Interpolated(s)
               over == s.sinceMoveStart >= s.moveDurationMs
           IN  /\ m \in SafeState /\ us \in Pulse
               /\ m.currentMicroSec = us /\ m.lastWrittenMicroSec = us
               /\ m.pulse = (IF us # s.lastWrittenMicroSec THEN us ELSE s.pulse)
               /\ m.isMoving <=> ~ over
               /\ m.isWaitingToDetach <=> s.isWaitingToDetach \/ over
               /\ m.firstCloudSync = s.firstCloudSync /\ m.isAttached = s.isAttached
               /\ m.startMicroSec = s.startMicroSec /\ m.targetMicroSec = s.targetMicroSec
               /\ m.moveDurationMs = s.moveDurationMs
               /\ m.sinceMoveStart = s.sinceMoveStart /\ m.sinceIterate = s.sinceIterate
               /\ m.channelValue = s.channelValue
<1> DEFINE us == Interpolated(s)
           over == s.sinceMoveStart >= s.moveDurationMs
           w == WritePulse(s, us)
           reached == IF w.isWaitingToDetach THEN w.sinceTargetReached ELSE 0
           ended == [w EXCEPT !.isMoving = FALSE, !.isWaitingToDetach = TRUE,
                              !.sinceTargetReached = reached]
<1>1. us \in Pulse
  BY InterpolatedInRange
<1>2. w \in SafeState
  BY <1>1, WritePulseSafe
<1>3. MoveStep(s) = IF over THEN ended ELSE w
  BY DEF MoveStep, Reached
<1>4. MoveStep(s) \in SafeState
  BY MoveStepSafe
<1> HIDE DEF us
<1>5. /\ w.currentMicroSec = us /\ w.lastWrittenMicroSec = us
      /\ w.pulse = (IF us # s.lastWrittenMicroSec THEN us ELSE s.pulse)
      /\ w.isMoving = s.isMoving /\ w.isWaitingToDetach = s.isWaitingToDetach
      /\ w.firstCloudSync = s.firstCloudSync /\ w.isAttached = s.isAttached
      /\ w.startMicroSec = s.startMicroSec /\ w.targetMicroSec = s.targetMicroSec
      /\ w.moveDurationMs = s.moveDurationMs
      /\ w.sinceMoveStart = s.sinceMoveStart /\ w.sinceIterate = s.sinceIterate
      /\ w.channelValue = s.channelValue
  BY DEF WritePulse, SafeState
<1> HIDE DEF w, reached
<1>6. /\ ended.currentMicroSec = w.currentMicroSec
      /\ ended.lastWrittenMicroSec = w.lastWrittenMicroSec
      /\ ended.pulse = w.pulse /\ ~ ended.isMoving /\ ended.isWaitingToDetach
      /\ ended.firstCloudSync = w.firstCloudSync /\ ended.isAttached = w.isAttached
      /\ ended.startMicroSec = w.startMicroSec /\ ended.targetMicroSec = w.targetMicroSec
      /\ ended.moveDurationMs = w.moveDurationMs
      /\ ended.sinceMoveStart = w.sinceMoveStart /\ ended.sinceIterate = w.sinceIterate
      /\ ended.channelValue = w.channelValue
  BY <1>2 DEF SafeState
<1>7. w.isMoving /\ (w.isWaitingToDetach <=> s.isWaitingToDetach)
  BY <1>5
<1> HIDE DEF ended
<1>8. CASE over
  <2>1. MoveStep(s) = ended
    BY <1>3, <1>8
  <2> HIDE DEF over
  <2> QED
    BY <1>1, <1>4, <1>5, <1>6, <1>8, <2>1 DEF us, over
<1>9. CASE ~ over
  <2>1. MoveStep(s) = w
    BY <1>3, <1>9
  <2> QED
    BY <1>1, <1>4, <1>5, <1>7, <1>9, <2>1 DEF us
<1> QED
  BY <1>8, <1>9

\* The end of a pass may release the pin.
LEMMA DetachStepIs ==
    ASSUME Type = 0, NEW s \in SafeState
    PROVE  LET d == DetachStep(s)
           IN  /\ \/ d = s
                  \/ /\ s.isWaitingToDetach /\ ~ d.isWaitingToDetach
                     /\ ~ d.isAttached /\ d.pulse = 0 /\ d.lastWrittenMicroSec = 0
               /\ d.firstCloudSync = s.firstCloudSync /\ d.isMoving = s.isMoving
               /\ d.startMicroSec = s.startMicroSec /\ d.targetMicroSec = s.targetMicroSec
               /\ d.currentMicroSec = s.currentMicroSec
               /\ d.moveDurationMs = s.moveDurationMs
               /\ d.sinceMoveStart = s.sinceMoveStart /\ d.sinceIterate = s.sinceIterate
               /\ d.channelValue = s.channelValue
  BY DEF DetachStep, DetachServoSafe, SafeState

\* A pass that comes too early does nothing.
LEMMA IteratePassIs ==
    ASSUME Type = 0, NEW s \in SafeState
    PROVE  LET ticked == [s EXCEPT !.sinceIterate = 0]
           IN  /\ ticked \in SafeState /\ MoveStep(ticked) \in SafeState
               /\ IteratePass(s) = (IF s.sinceIterate < IterateIntervalMs THEN s
                                    ELSE DetachStep(MoveStep(ticked)))
<1> DEFINE ticked == [s EXCEPT !.sinceIterate = 0]
<1>1. ticked \in SafeState
  BY ClockRange DEF SafeState
<1>2. LimitSwitchCheck360(s) = s
  BY DEF LimitSwitchCheck360
<1>3. MoveStep(ticked) \in SafeState
  BY <1>1, MoveStepSafe
<1> QED
  BY <1>1, <1>2, <1>3 DEF IteratePass


-----------------------------------------------------------------------------
(* The wire.  A servo without a pin is silent and at rest; what is on the wire *)
(* is the pulse the members call the current one, and so is the last one       *)
(* written, if any: a later pass may leave out an equal pulse.                 *)

Tied(s) ==
    /\ s.firstCloudSync => ~ s.isAttached
    /\ ~ s.isAttached => s.pulse = 0 /\ s.lastWrittenMicroSec = 0 /\ ~ s.isMoving
    /\ s.isWaitingToDetach => ~ s.isMoving
    /\ s.pulse # 0 => s.pulse = s.currentMicroSec
    /\ s.lastWrittenMicroSec # 0 =>
          s.lastWrittenMicroSec = s.currentMicroSec /\ s.pulse # 0

\* No pulse is 0.
LEMMA PulsesSound == \A us \in Pulse : us # 0
  BY ServoAssumption DEF Pulse

\* A boot leaves the wire silent.
LEMMA BootedTied == Tied(Booted)
  BY DEF Booted, Tied

\* A new value sets members while the wire is silent, or starts a move.
LEMMA SetValueTied ==
    ASSUME NEW s \in SafeState, Tied(s), NEW hw
    PROVE  Tied(SetRGBWValueOnDevice(s, hw))
<1> DEFINE b == Brightness255(hw)
           first == FirstSync(s, b)
           start == StartMove(s, b)
<1>1. /\ first.firstCloudSync = FALSE /\ first.isAttached = s.isAttached
      /\ first.pulse = s.pulse /\ first.lastWrittenMicroSec = s.lastWrittenMicroSec
      /\ first.isMoving = s.isMoving /\ first.isWaitingToDetach = s.isWaitingToDetach
  BY DEF FirstSync, SafeState
<1>2. /\ start.firstCloudSync = s.firstCloudSync /\ start.isAttached = TRUE
      /\ start.pulse = s.pulse /\ start.lastWrittenMicroSec = s.lastWrittenMicroSec
      /\ start.isMoving = TRUE /\ start.isWaitingToDetach = FALSE
      /\ start.currentMicroSec = s.currentMicroSec
  BY DEF StartMove, SafeState
<1>3. SetRGBWValueOnDevice(s, hw) = IF s.firstCloudSync THEN first ELSE start
  BY DEF SetRGBWValueOnDevice
<1> HIDE DEF first, start
<1> QED
  BY <1>1, <1>2, <1>3 DEF Tied

\* A stop repeats the current pulse.
LEMMA ForceStopTied ==
    ASSUME Type = 0, NEW s \in SafeState, Tied(s), NEW b
    PROVE  LET stopped == ForceStopAndSync(s, b)
           IN  /\ Tied(stopped) /\ ~ stopped.isMoving
               /\ stopped.pulse = (IF s.isAttached THEN s.currentMicroSec ELSE 0)
               /\ stopped.currentMicroSec = s.currentMicroSec
               /\ stopped.isAttached = s.isAttached
               /\ stopped.firstCloudSync = s.firstCloudSync
               /\ stopped.channelValue = ChannelValue(b)
<1> DEFINE stopped == ForceStopAndSync(s, b)
<1>1. /\ ~ stopped.isMoving
      /\ stopped.pulse = (IF s.isAttached THEN s.currentMicroSec ELSE s.pulse)
      /\ stopped.currentMicroSec = s.currentMicroSec
      /\ stopped.isAttached = s.isAttached
      /\ stopped.firstCloudSync = s.firstCloudSync
      /\ stopped.lastWrittenMicroSec = s.lastWrittenMicroSec
      /\ stopped.channelValue = ChannelValue(b)
  BY DEF ForceStopAndSync, SafeState
<1>2. s.currentMicroSec # 0
  BY PulsesSound DEF SafeState
<1> HIDE DEF stopped
<1>3. Tied(stopped)
  BY <1>1, <1>2 DEF Tied
<1>4. ~ s.isAttached => s.pulse = 0
  BY DEF Tied
<1> QED
  BY <1>1, <1>3, <1>4 DEF stopped

\* One step of the motion puts the pulse it computes on the wire.
LEMMA MoveStepTied ==
    ASSUME Type = 0, NEW s \in SafeState, Tied(s)
    PROVE  /\ Tied(MoveStep(s))
           /\ s.isMoving => MoveStep(s).pulse = Interpolated(s)
<1> DEFINE m == MoveStep(s)
           us == Interpolated(s)
           over == s.sinceMoveStart >= s.moveDurationMs
<1>1. CASE ~ s.isMoving
  <2>1. m = s
    BY <1>1 DEF MoveStep
  <2> QED
    BY <1>1, <2>1
<1>2. CASE s.isMoving
  <2>1. /\ us \in Pulse
        /\ m.currentMicroSec = us /\ m.lastWrittenMicroSec = us
        /\ m.pulse = (IF us # s.lastWrittenMicroSec THEN us ELSE s.pulse)
        /\ m.isMoving <=> ~ over
        /\ m.isWaitingToDetach <=> s.isWaitingToDetach \/ over
        /\ m.firstCloudSync = s.firstCloudSync /\ m.isAttached = s.isAttached
    BY <1>2, MoveStepIs
  <2> HIDE DEF m, us
  <2>2. us # 0 /\ m.pulse = us
    BY <2>1, PulsesSound DEF Tied
  <2>3. m.isWaitingToDetach => ~ m.isMoving
    BY <1>2, <2>1 DEF Tied
  <2>4. s.isAttached
    BY <1>2 DEF Tied
  <2>5. s.firstCloudSync => ~ s.isAttached
    BY DEF Tied
  <2>6. Tied(m)
    BY <2>1, <2>2, <2>3, <2>4, <2>5 DEF Tied
  <2> QED
    BY <2>2, <2>6 DEF m, us
<1> QED
  BY <1>1, <1>2

\* The release of the pin silences the wire.
LEMMA DetachTied ==
    ASSUME Type = 0, NEW s \in SafeState, Tied(s)
    PROVE  Tied(DetachStep(s)) /\ DetachStep(s).pulse \in {0, s.pulse}
<1> DEFINE d == DetachStep(s)
<1>1. /\ \/ d = s
         \/ /\ s.isWaitingToDetach /\ ~ d.isWaitingToDetach
            /\ ~ d.isAttached /\ d.pulse = 0 /\ d.lastWrittenMicroSec = 0
      /\ d.firstCloudSync = s.firstCloudSync /\ d.isMoving = s.isMoving
  BY DetachStepIs
<1> HIDE DEF d
<1>2. Tied(d) /\ d.pulse \in {0, s.pulse}
  BY <1>1 DEF Tied
<1> QED
  BY <1>2 DEF d

\* A whole pass changes what is on the wire to the interpolated pulse only.
LEMMA IteratePassTied ==
    ASSUME Type = 0, NEW s \in SafeState, Tied(s)
    PROVE  /\ Tied(IteratePass(s))
           /\ IteratePass(s).pulse \in
                 {0, IF s.isMoving /\ ~ s.sinceIterate < IterateIntervalMs
                     THEN Interpolated(s) ELSE s.pulse}
<1> DEFINE ticked == [s EXCEPT !.sinceIterate = 0]
           moved == MoveStep(ticked)
<1>1. /\ ticked \in SafeState /\ moved \in SafeState
      /\ IteratePass(s) = (IF s.sinceIterate < IterateIntervalMs THEN s
                           ELSE DetachStep(moved))
  BY IteratePassIs
<1>2. Tied(ticked) /\ ticked.isMoving = s.isMoving /\ ticked.pulse = s.pulse
  BY DEF Tied, SafeState
<1>3. Interpolated(ticked) = Interpolated(s)
  BY DEF Interpolated, SafeState
<1> HIDE DEF ticked
<1>4. /\ Tied(moved)
      /\ moved.pulse = (IF s.isMoving THEN Interpolated(s) ELSE s.pulse)
  <2>1. Tied(moved) /\ (ticked.isMoving => moved.pulse = Interpolated(ticked))
    BY <1>1, <1>2, MoveStepTied
  <2>2. ~ ticked.isMoving => moved = ticked
    BY DEF MoveStep
  <2> QED
    BY <1>2, <1>3, <2>1, <2>2
<1> HIDE DEF moved
<1>5. Tied(DetachStep(moved)) /\ DetachStep(moved).pulse \in {0, moved.pulse}
  BY <1>1, <1>4, DetachTied
<1> QED
  BY <1>1, <1>4, <1>5


-----------------------------------------------------------------------------
(* The channel.  HornMatchesCloud is not inductive: while a move is on, the    *)
(* channel already reports its target.                                         *)

Told(s) ==
    /\ s.isMoving => Matches(s.targetMicroSec, s.channelValue)
    /\ s.isAttached /\ ~ s.isMoving => s.pulse # 0 /\ Matches(s.pulse, s.channelValue)

\* A new value is reported at once, and is the target.
LEMMA SetValueTold ==
    ASSUME Type = 0, Mode = "roller", NEW s \in SafeState, Tied(s), Told(s),
           NEW percent \in 0 .. 100
    PROVE  Told(SetRGBWValueOnDevice(s, HwValue(percent)))
<1> DEFINE b == Brightness255(HwValue(percent))
           first == FirstSync(s, b)
           start == StartMove(s, b)
<1>1. b \in 0 .. 255
  BY BrightnessInRange, ZenonT(60)
<1>2. SetRGBWValueOnDevice(s, HwValue(percent)) = IF s.firstCloudSync THEN first ELSE start
  BY Zenon DEF SetRGBWValueOnDevice
<1> HIDE DEF b
<1>3. Matches(TargetPulse(b), ChannelValue(b))
  BY <1>1, TargetMatches
<1>4. first.isAttached = s.isAttached /\ first.isMoving = s.isMoving
  BY DEF FirstSync, SafeState
<1>5. /\ start.isMoving = TRUE /\ start.targetMicroSec = TargetPulse(b)
      /\ start.channelValue = ChannelValue(b)
  BY DEF StartMove, SafeState
<1> HIDE DEF first, start
<1>6. s.firstCloudSync => Told(first)
  BY <1>4 DEF Tied, Told
<1>7. Told(start)
  BY <1>3, <1>5 DEF Told
<1> QED
  BY <1>2, <1>6, <1>7

\* A stop reports the pulse it leaves.
LEMMA ForceStopTold ==
    ASSUME Type = 0, Mode = "roller", NEW s \in SafeState, Tied(s)
    PROVE  Told(ForceStopAndSync(s, CalculateBrightnessFromMicroSec(s.currentMicroSec)))
<1> DEFINE b == CalculateBrightnessFromMicroSec(s.currentMicroSec)
           stopped == ForceStopAndSync(s, b)
<1>1. s.currentMicroSec \in Pulse
  BY DEF SafeState
<1>2. s.currentMicroSec # 0 /\ Matches(s.currentMicroSec, ChannelValue(b))
  BY <1>1, PulsesSound, StopMatches
<1> HIDE DEF b
<1>3. /\ ~ stopped.isMoving
      /\ stopped.pulse = (IF s.isAttached THEN s.currentMicroSec ELSE 0)
      /\ stopped.isAttached = s.isAttached
      /\ stopped.channelValue = ChannelValue(b)
  BY ForceStopTied
<1> HIDE DEF stopped
<1>4. Told(stopped)
  BY <1>2, <1>3 DEF Told
<1> QED
  BY <1>4 DEF stopped, b

\* The step that ends a move writes its target.
LEMMA MoveStepTold ==
    ASSUME Type = 0, NEW s \in SafeState, Tied(s), Told(s)
    PROVE  Told(MoveStep(s))
<1> DEFINE m == MoveStep(s)
           us == Interpolated(s)
           over == s.sinceMoveStart >= s.moveDurationMs
<1>1. CASE ~ s.isMoving
  BY <1>1 DEF MoveStep
<1>2. CASE s.isMoving
  <2>1. /\ us \in Pulse /\ (m.isMoving <=> ~ over)
        /\ m.targetMicroSec = s.targetMicroSec /\ m.channelValue = s.channelValue
    BY <1>2, MoveStepIs
  <2>2. m.pulse = us
    BY <1>2, MoveStepTied
  <2>3. over => us = s.targetMicroSec
    <3>1. s.sinceMoveStart \in Int /\ s.moveDurationMs \in Int
      BY SpecAssumption DEF SafeState, Clock
    <3> QED
      BY <3>1 DEF Interpolated
  <2>4. us # 0
    BY <2>1, PulsesSound
  <2> HIDE DEF m, us
  <2>5. Told(m)
    BY <1>2, <2>1, <2>2, <2>3, <2>4 DEF Told
  <2> QED
    BY <2>5 DEF m
<1> QED
  BY <1>1, <1>2

\* A whole pass keeps the channel true.
LEMMA IteratePassTold ==
    ASSUME Type = 0, NEW s \in SafeState, Tied(s), Told(s)
    PROVE  Told(IteratePass(s))
<1> DEFINE ticked == [s EXCEPT !.sinceIterate = 0]
           moved == MoveStep(ticked)
           d == DetachStep(moved)
<1>1. /\ ticked \in SafeState /\ moved \in SafeState
      /\ IteratePass(s) = (IF s.sinceIterate < IterateIntervalMs THEN s ELSE d)
  BY IteratePassIs
<1>2. Tied(ticked) /\ Told(ticked)
  BY DEF Tied, Told, SafeState
<1> HIDE DEF ticked
<1>3. Tied(moved) /\ Told(moved)
  BY <1>1, <1>2, MoveStepTied, MoveStepTold
<1> HIDE DEF moved
<1>4. /\ \/ d = moved
         \/ moved.isWaitingToDetach /\ ~ d.isAttached
      /\ d.isMoving = moved.isMoving
  BY <1>1, DetachStepIs, Zenon
<1> HIDE DEF d
<1>5. Told(d)
  BY <1>3, <1>4 DEF Tied, Told
<1> QED
  BY <1>1, <1>5

\* The wire, in the state: the horn stands where the last pulse put it.
WireInv ==
    /\ RangeInv /\ Tied(servo)
    /\ servo.pulse # 0 => horn = servo.pulse

\* At the start the wire is silent.
LEMMA WireInit == Init => WireInv
<1> SUFFICES ASSUME Init PROVE WireInv
  OBVIOUS
<1>1. servo = Booted /\ RangeInv
  BY RangeInit DEF Init
<1>2. Booted.pulse = 0
  BY DEF Booted
<1> QED
  BY <1>1, <1>2, BootedTied DEF WireInv

\* A time step leaves the wire alone.
LEMMA TimeIs ==
    ASSUME servo \in SafeState, TimePasses
    PROVE  /\ servo'.firstCloudSync = servo.firstCloudSync
           /\ servo'.isAttached = servo.isAttached /\ servo'.isMoving = servo.isMoving
           /\ servo'.isWaitingToDetach = servo.isWaitingToDetach
           /\ servo'.pulse = servo.pulse
           /\ servo'.lastWrittenMicroSec = servo.lastWrittenMicroSec
           /\ servo'.startMicroSec = servo.startMicroSec
           /\ servo'.currentMicroSec = servo.currentMicroSec
           /\ servo'.targetMicroSec = servo.targetMicroSec
           /\ servo'.moveDurationMs = servo.moveDurationMs
           /\ servo'.channelValue = servo.channelValue
           /\ servo'.sinceMoveStart = (IF servo.isMoving THEN Later(servo.sinceMoveStart)
                                       ELSE servo.sinceMoveStart)
           /\ servo'.sinceIterate = Later(servo.sinceIterate)
           /\ horn' = horn
  BY DEF TimePasses, SafeState

\* Every step keeps the wire tied, whatever the mode.
LEMMA WireStep ==
    ASSUME Type = 0
    PROVE  WireInv /\ [Next]_vars => WireInv'
<1> SUFFICES ASSUME WireInv, [Next]_vars PROVE WireInv'
  OBVIOUS
<1>1. servo \in SafeState /\ Tied(servo) /\ curBrightness \in 0 .. 100
  BY DEF WireInv, RangeInv
<1>2. RangeInv'
  BY RangeStep DEF WireInv
<1>3. HornFollows => (servo'.pulse # 0 => horn' = servo'.pulse)
  BY DEF HornFollows
<1>4. CASE OnFastTimer
  BY <1>1, <1>2, <1>3, <1>4, SetValueTied DEF OnFastTimer, WireInv
<1>5. CASE IterateAlways
  BY <1>1, <1>2, <1>3, <1>5, IteratePassTied DEF IterateAlways, WireInv
<1>6. CASE StopAction
  <2>1. PICK b : servo' = ForceStopAndSync(servo, b)
    BY <1>6, Zenon DEF StopAction
  <2>2. Tied(ForceStopAndSync(servo, b))
    BY <1>1, ForceStopTied
  <2> QED
    BY <1>2, <1>3, <1>6, <2>1, <2>2 DEF StopAction, WireInv
<1>7. CASE Restart
  <2>1. Booted.pulse = 0
    BY DEF Booted
  <2> QED
    BY <1>2, <1>7, <2>1, BootedTied DEF Restart, WireInv
<1>8. CASE TimePasses
  BY <1>1, <1>2, <1>8, TimeIs DEF WireInv, Tied
<1>9. CASE Command \/ SaveState \/ LimitSwitchChange \/ UNCHANGED vars
  <2>1. UNCHANGED <<servo, horn>>
    BY <1>9 DEF Command, HandleNewValueFromServer, SaveState, LimitSwitchChange, vars
  <2> QED
    BY <1>2, <2>1 DEF WireInv
<1> QED
  BY <1>4, <1>5, <1>6, <1>7, <1>8, <1>9 DEF Next

\* Every step keeps the channel of a roller true.
LEMMA TellStep ==
    ASSUME Type = 0, Mode = "roller"
    PROVE  WireInv /\ Told(servo) /\ [Next]_vars => Told(servo')
<1> SUFFICES ASSUME WireInv, Told(servo), [Next]_vars PROVE Told(servo')
  OBVIOUS
<1>1. servo \in SafeState /\ Tied(servo) /\ curBrightness \in 0 .. 100
  BY DEF WireInv, RangeInv
<1>2. CASE OnFastTimer
  BY <1>1, <1>2, SetValueTold DEF OnFastTimer
<1>3. CASE IterateAlways
  BY <1>1, <1>3, IteratePassTold DEF IterateAlways
<1>4. CASE StopAction
  <2>1. servo' = ForceStopAndSync(servo, CalculateBrightnessFromMicroSec(servo.currentMicroSec))
    BY <1>4 DEF StopAction
  <2> QED
    BY <1>1, <2>1, ForceStopTold
<1>5. CASE Restart
  <2>1. Told(Booted)
    BY DEF Told, Booted
  <2> QED
    BY <1>5, <2>1 DEF Restart
<1>6. CASE TimePasses
  BY <1>1, <1>6, TimeIs DEF Told
<1>7. CASE Command \/ SaveState \/ LimitSwitchChange \/ UNCHANGED vars
  BY <1>7 DEF Command, HandleNewValueFromServer, SaveState, LimitSwitchChange, vars
<1> QED
  BY <1>2, <1>3, <1>4, <1>5, <1>6, <1>7 DEF Next

\* With the move over, the int32 a 180 degree roller's channel keeps is where its horn
\* stands, in thousandths of a percent, within the two points the conversions round
\* away: for any pulse range, inverted or not, and whatever stops, commands and
\* restarts came in between.  Nothing is said of value[0] alone, its low byte.
THEOREM RollerReportsItsHorn ==
    ASSUME Type = 0
    PROVE  Spec => []HornMatchesCloud
<1>1. CASE Mode # "roller"
  <2>1. HornMatchesCloud
    BY <1>1 DEF HornMatchesCloud
  <2> QED
    BY <2>1, PTL
<1>2. CASE Mode = "roller"
  <2>1. Init => WireInv /\ Told(servo)
    <3>1. Told(Booted)
      BY DEF Told, Booted
    <3> QED
      BY <3>1, WireInit DEF Init
  <2>2. WireInv /\ Told(servo) /\ [Next]_vars => (WireInv /\ Told(servo))'
    BY <1>2, WireStep, TellStep
  <2>3. WireInv /\ Told(servo) => HornMatchesCloud
    BY DEF WireInv, Told, Matches, Percent, HornMatchesCloud, CloudPercent
  <2> QED
    BY <2>1, <2>2, <2>3, PTL DEF Spec
<1> QED
  BY <1>1, <1>2


-----------------------------------------------------------------------------
(* The speed.  A move goes m microseconds in d milliseconds; q of them are     *)
(* gone, as the last pass computed at most si ago, and a pass that comes a     *)
(* after the start goes on to the x of now.                                    *)

\* Where a pass finds the move, after a milliseconds.
Gone(m, d, a) == IF a < d THEN (a * m) \div d ELSE m

\* The move stays on its way,
LEMMA GoneIs ==
    ASSUME NEW m \in Nat, NEW d \in Nat, NEW a \in Nat
    PROVE  /\ Gone(m, d, a) \in 0 .. m
           /\ a < d => /\ Gone(m, d, a) * d <= a * m
                       /\ a * m < (Gone(m, d, a) + 1) * d
           /\ a >= d => Gone(m, d, a) = m
<1>1. CASE a < d
  <2> DEFINE x == (a * m) \div d
  <2>1. Gone(m, d, a) = x
    BY <1>1 DEF Gone
  <2>2. a * m \in Nat /\ a * m <= d * m /\ d > 0
    BY <1>1, Monotone
  <2>3. x \in 0 .. m
    BY <2>2, DivBound
  <2>4. x * d <= a * m /\ a * m < x * d + d
    BY <2>2, QuotientIs
  <2> HIDE DEF x
  <2>5. (x + 1) * d = x * d + d
    BY <2>3
  <2> QED
    BY <1>1, <2>1, <2>3, <2>4, <2>5
<1>2. CASE ~ a < d
  BY <1>2 DEF Gone
<1> QED
  BY <1>1, <1>2

\* never turns back,
LEMMA GoneGrows ==
    ASSUME NEW m \in Nat, NEW d \in Nat, NEW a \in Nat, NEW q \in 0 .. m,
           d > 0 => q * d <= a * m
    PROVE  q <= Gone(m, d, a)
<1> DEFINE x == Gone(m, d, a)
<1>1. /\ x \in 0 .. m /\ (a >= d => x = m)
      /\ a < d => a * m < (x + 1) * d
  BY GoneIs
<1> HIDE DEF x
<1>2. CASE a < d
  <2>1. q * d < (x + 1) * d
    BY <1>1, <1>2
  <2>2. q < x + 1
    BY <1>1, <1>2, <2>1, Cancel
  <2> QED
    BY <1>1, <2>2 DEF x
<1>3. CASE a >= d
  BY <1>1, <1>3 DEF x
<1> QED
  BY <1>2, <1>3

\* and in the time g since the last pass, or since the start, goes about its share.
LEMMA GoneShare ==
    ASSUME NEW m \in Nat, NEW d \in Nat, NEW a \in Nat, NEW q \in 0 .. m, NEW si \in Nat,
           d > 0, q * d <= a * m, (a - si) * m < (q + 1) * d,
           NEW g \in Nat, g = IF si < a THEN si ELSE a, a < d \/ g < d
    PROVE  (Gone(m, d, a) - q - 1) * d <= g * m
<1> DEFINE x == Gone(m, d, a)
<1>1. /\ x \in 0 .. m /\ (a >= d => x = m)
      /\ a < d => x * d <= a * m
  BY GoneIs
<1> HIDE DEF x
<1>2. (x - q - 1) * d = x * d - (q + 1) * d /\ (x - q - 1) * d = x * d - q * d - d
  BY <1>1
<1>3. (a - si) * m = a * m - si * m
  OBVIOUS
<1>4. x * d \in Nat /\ q * d \in Nat /\ (q + 1) * d \in Nat /\ a * m \in Nat /\ si * m \in Nat
  BY <1>1
<1>5. CASE a < d /\ si < a
  BY <1>1, <1>2, <1>3, <1>4, <1>5 DEF x
<1>6. CASE a < d /\ ~ si < a
  BY <1>1, <1>2, <1>4, <1>6 DEF x
<1>7. CASE ~ a < d
  <2>1. x = m /\ g = si /\ si < d /\ d <= a
    BY <1>1, <1>7
  <2>2. d * m <= a * m
    BY <2>1, Monotone
  <2>3. x * d = d * m
    BY <2>1
  <2> QED
    BY <1>2, <1>3, <1>4, <2>1, <2>2, <2>3 DEF x
<1> QED
  BY <1>5, <1>6, <1>7

\* So no pass goes faster than the full sweep r in the time t.
LEMMA Speed ==
    ASSUME NEW m \in Nat, NEW t \in Nat, t > 0, NEW r \in Nat, r > 0,
           NEW d \in Nat, d = (m * t) \div r,
           NEW a \in Nat, NEW si \in Nat, NEW q \in 0 .. m,
           d = 0 => q = 0,
           d > 0 => q * d <= a * m /\ (a - si) * m < (q + 1) * d,
           NEW g \in Nat, g = IF si < a THEN si ELSE a
    PROVE  /\ q <= Gone(m, d, a)
           /\ (Gone(m, d, a) - q) * t <= r * (g + 1) + t
<1> DEFINE x == Gone(m, d, a)
<1>1. x \in 0 .. m /\ (a >= d => x = m)
  BY GoneIs
<1>2. q <= x
  BY GoneGrows
<1>3. PICK p \in Nat : p = m * t
  OBVIOUS
<1>4. p < d * r + r
  BY <1>3, QuotientIs
<1>5. (d + 1) * r = d * r + r
  OBVIOUS
<1>6. (g + 1) * r = r * (g + 1) /\ (g + 1) * r \in Nat
  OBVIOUS
<1>7. CASE g >= d
  <2>1. (x - q) * t <= m * t
    BY <1>1, <1>2, Monotone
  <2>2. (d + 1) * r <= (g + 1) * r
    BY <1>7, Monotone
  <2>3. (x - q) * t \in Int /\ (d + 1) * r \in Int
    BY <1>1
  <2>4. (x - q) * t <= (g + 1) * r
    BY <1>3, <1>4, <1>5, <1>6, <2>1, <2>2, <2>3
  <2> QED
    BY <1>2, <1>6, <2>3, <2>4 DEF x
<1>8. CASE g < d
  <2>1. d > 0 /\ (x - q - 1) * d <= g * m
    <3>1. d > 0
      BY <1>8
    <3>2. q * d <= a * m /\ (a - si) * m < (q + 1) * d
      BY <3>1
    <3>3. a < d \/ g < d
      BY <1>8
    <3> HIDE DEF x
    <3>4. (Gone(m, d, a) - q - 1) * d <= g * m
      BY <3>1, <3>2, <3>3, GoneShare, Zenon
    <3> QED
      BY <3>1, <3>4, Zenon DEF x
  <2> HIDE DEF x
  <2>2. ((x - q - 1) * d) * t <= (g * m) * t
    <3>1. (x - q - 1) * d \in Int /\ g * m \in Int
      BY <1>1
    <3> QED
      BY <2>1, <3>1, Monotone
  <2>3. (g * m) * t = g * p
    BY <1>3
  <2>4. p * g <= ((d + 1) * r) * g
    <3>1. p <= (d + 1) * r /\ (d + 1) * r \in Nat
      BY <1>4, <1>5
    <3> QED
      BY <3>1, Monotone
  <2>5. ((d + 1) * r) * g <= ((g + 1) * r) * d
    <3>1. (d + 1) * g <= (g + 1) * d
      <4>1. (d + 1) * g = d * g + g /\ (g + 1) * d = d * g + d
        OBVIOUS
      <4> QED
        BY <1>8, <4>1
    <3>2. ((d + 1) * g) * r <= ((g + 1) * d) * r
      BY <3>1, Monotone
    <3>3. ((d + 1) * g) * r = ((d + 1) * r) * g /\ ((g + 1) * d) * r = ((g + 1) * r) * d
      OBVIOUS
    <3> QED
      BY <3>2, <3>3
  <2>6. ((x - q - 1) * d) * t = ((x - q - 1) * t) * d
    BY <1>1
  <2>7. ((x - q - 1) * t) * d <= ((g + 1) * r) * d
    <3>1. /\ ((x - q - 1) * t) * d \in Int /\ g * p \in Int /\ g * p = p * g
          /\ ((d + 1) * r) * g \in Int /\ ((g + 1) * r) * d \in Int
      BY <1>1
    <3> QED
      BY <2>2, <2>3, <2>4, <2>5, <2>6, <3>1
  <2>8. (x - q - 1) * t <= (g + 1) * r
    <3>1. (x - q - 1) * t \in Int
      BY <1>1
    <3> QED
      BY <1>6, <2>1, <2>7, <3>1, Cancel
  <2>9. (x - q - 1) * t = (x - q) * t - t /\ (x - q) * t \in Int
    BY <1>1
  <2> QED
    BY <1>2, <1>6, <2>8, <2>9 DEF x
<1> QED
  BY <1>7, <1>8


\* A move from one pulse to another, of which the servo has come to the pulse at:
\* the members of the move agree with the time since it began.
OnWay(from, to, at, d, a, si) ==
    LET m == Absolute(to - from)
        q == Absolute(at - from)
    IN  /\ d = (m * TransitionTimeMs) \div Sweep
        /\ at = IF to >= from THEN from + q ELSE from - q
        /\ q <= m
        /\ d = 0 => q = 0
        /\ d > 0 => q * d <= a * m /\ (a - si) * m < (q + 1) * d

\* Where a pass finds it.
At(from, to, d, a) ==
    LET x == Gone(Absolute(to - from), d, a)
    IN  IF to >= from THEN from + x ELSE from - x

\* A move begins on its way.
LEMMA StartOnWay ==
    ASSUME NEW from \in Pulse, NEW to \in Pulse, NEW si \in Nat
    PROVE  OnWay(from, to, from, (Absolute(to - from) * TransitionTimeMs) \div Sweep, 0, si)
<1> DEFINE m == Absolute(to - from)
           d == (m * TransitionTimeMs) \div Sweep
<1>1. m \in Nat /\ from \in Int /\ to \in Int
  BY ServoAssumption DEF Absolute, Pulse
<1>2. m * TransitionTimeMs \in Nat /\ Sweep \in Nat /\ Sweep > 0
  BY <1>1, SweepType, ServoAssumption
<1>3. d \in Nat
  <2> HIDE DEF m
  <2> QED
    BY <1>2, QuotientIs
<1>4. PICK q \in Nat : q = Absolute(from - from) /\ q = 0
  BY <1>1 DEF Absolute
<1>5. d = (m * TransitionTimeMs) \div Sweep
  OBVIOUS
<1> HIDE DEF m, d
<1>6. d > 0 => q * d <= 0 * m /\ (0 - si) * m < (q + 1) * d
  <2>1. si * m \in Nat /\ (0 - si) * m = -(si * m) /\ q * d = 0 /\ (q + 1) * d = d
    BY <1>1, <1>3, <1>4
  <2> QED
    BY <1>1, <1>3, <2>1
<1>7. from = IF to >= from THEN from + q ELSE from - q
  BY <1>1, <1>4
<1>8. q <= m /\ (d = 0 => q = 0)
  BY <1>1, <1>4
<1> QED
  BY <1>4, <1>5, <1>6, <1>7, <1>8, Zenon DEF OnWay, m, d

\* Time that passes keeps it there.
LEMMA TimeOnWay ==
    ASSUME NEW from \in Pulse, NEW to \in Pulse, NEW at \in Pulse, NEW d \in Nat,
           NEW a \in Nat, NEW si \in Nat, NEW a2 \in Nat, NEW si2 \in Nat,
           OnWay(from, to, at, d, a, si),
           a <= a2, a2 - si2 <= a - si \/ a2 <= si2
    PROVE  OnWay(from, to, at, d, a2, si2)
<1> DEFINE m == Absolute(to - from)
           q == Absolute(at - from)
<1>1. m \in Nat /\ q \in Nat
  BY ServoAssumption DEF Absolute, Pulse
<1>2. /\ d = (m * TransitionTimeMs) \div Sweep
      /\ at = IF to >= from THEN from + q ELSE from - q
      /\ q <= m /\ (d = 0 => q = 0)
      /\ d > 0 => q * d <= a * m /\ (a - si) * m < (q + 1) * d
  BY Zenon DEF OnWay
<1> HIDE DEF m, q
<1>3. ASSUME d > 0 PROVE q * d <= a2 * m /\ (a2 - si2) * m < (q + 1) * d
  <2>1. a * m <= a2 * m
    BY <1>1, Monotone
  <2>2. q * d <= a2 * m
    BY <1>1, <1>2, <1>3, <2>1
  <2>3. CASE a2 - si2 <= a - si
    <3>1. (a2 - si2) * m <= (a - si) * m
      BY <1>1, <2>3, Monotone
    <3>2. (a2 - si2) * m \in Int /\ (a - si) * m \in Int /\ (q + 1) * d \in Int
      BY <1>1
    <3> QED
      BY <1>2, <1>3, <2>2, <3>1, <3>2
  <2>4. CASE a2 <= si2
    <3>1. (a2 - si2) * m <= 0 * m
      BY <1>1, <2>4, Monotone
    <3>2. (q + 1) * d = q * d + d /\ q * d \in Nat /\ (a2 - si2) * m \in Int /\ 0 * m = 0
      BY <1>1
    <3> QED
      BY <1>3, <2>2, <3>1, <3>2
  <2> QED
    BY <2>3, <2>4
<1> QED
  BY <1>2, <1>3, Zenon DEF OnWay, m, q

\* A pass keeps it there, and goes no faster than the sweep.
LEMMA PassOnWay ==
    ASSUME NEW from \in Pulse, NEW to \in Pulse, NEW at \in Pulse, NEW d \in Nat,
           NEW a \in Nat, NEW si \in Nat, OnWay(from, to, at, d, a, si),
           NEW g \in Nat, g = IF si < a THEN si ELSE a
    PROVE  /\ Absolute(At(from, to, d, a) - at) * TransitionTimeMs
                 <= Sweep * (g + 1) + TransitionTimeMs
           /\ a < d => OnWay(from, to, At(from, to, d, a), d, a, 0)
           /\ a >= d => At(from, to, d, a) = to
<1> DEFINE m == Absolute(to - from)
           q == Absolute(at - from)
           x == Gone(m, d, a)
           now == At(from, to, d, a)
<1>1. m \in Nat /\ q \in Nat /\ from \in Int /\ to \in Int /\ at \in Int
      /\ to = IF to >= from THEN from + m ELSE from - m
  BY ServoAssumption DEF Absolute, Pulse
<1>2. /\ d = (m * TransitionTimeMs) \div Sweep
      /\ at = IF to >= from THEN from + q ELSE from - q
      /\ q <= m /\ (d = 0 => q = 0)
      /\ d > 0 => q * d <= a * m /\ (a - si) * m < (q + 1) * d
  BY Zenon DEF OnWay
<1>3. now = IF to >= from THEN from + x ELSE from - x
  BY Zenon DEF At
<1> HIDE DEF m, q
<1>4. /\ x \in 0 .. m /\ (a >= d => x = m)
      /\ a < d => x * d <= a * m /\ a * m < (x + 1) * d
  BY <1>1, GoneIs
<1>5. TransitionTimeMs \in Nat /\ TransitionTimeMs > 0 /\ Sweep \in Nat /\ Sweep > 0
  BY ServoAssumption, SweepType
<1>6. q <= x /\ (x - q) * TransitionTimeMs <= Sweep * (g + 1) + TransitionTimeMs
  <2>1. q \in 0 .. m
    BY <1>1, <1>2
  <2> HIDE DEF x, now
  <2>2. /\ q <= Gone(m, d, a)
        /\ (Gone(m, d, a) - q) * TransitionTimeMs <= Sweep * (g + 1) + TransitionTimeMs
    BY <1>1, <1>2, <1>5, <2>1, Speed, Zenon
  <2> QED
    BY <2>2, Zenon DEF x
<1> HIDE DEF x, now
<1>7. Absolute(now - at) = x - q
  BY <1>1, <1>2, <1>3, <1>4, <1>6 DEF Absolute
<1>8. Absolute(now - from) = x
  BY <1>1, <1>3, <1>4 DEF Absolute
<1>9. a >= d => now = to
  BY <1>1, <1>3, <1>4
<1>10. ASSUME a < d PROVE OnWay(from, to, now, d, a, 0)
  <2>1. /\ d > 0 => x * d <= a * m /\ (a - 0) * m < (x + 1) * d
        /\ d = 0 => x = 0
        /\ x <= m
    BY <1>1, <1>4, <1>10
  <2> QED
    BY <1>2, <1>3, <1>8, <2>1, Zenon DEF OnWay, m
<1> QED
  BY <1>6, <1>7, <1>9, <1>10, Zenon DEF now


-----------------------------------------------------------------------------
(* The motion of the servo.                                                    *)

\* The interpolated pulse is the place where a pass finds the move.
LEMMA InterpolatedIs ==
    ASSUME NEW s \in SafeState
    PROVE  Interpolated(s)
             = At(s.startMicroSec, s.targetMicroSec, s.moveDurationMs, s.sinceMoveStart)
<1>1. PICK from \in Pulse : from = s.startMicroSec
  BY DEF SafeState
<1>2. PICK to \in Pulse : to = s.targetMicroSec
  BY DEF SafeState
<1>3. PICK d \in Nat : d = s.moveDurationMs
  BY DEF SafeState
<1>4. PICK a \in Nat : a = s.sinceMoveStart
  BY SpecAssumption DEF SafeState, Clock
<1> DEFINE m == Absolute(to - from)
<1>5. /\ from \in Int /\ to \in Int /\ m \in Nat
      /\ to = IF to >= from THEN from + m ELSE from - m
      /\ to >= from => to - from = m
      /\ ~ to >= from => to - from = -m
  BY ServoAssumption DEF Pulse, Absolute
<1>6. Interpolated(s) = IF a < d THEN MapRange(a, 0, d, from, to) ELSE to
  BY <1>1, <1>2, <1>3, <1>4 DEF Interpolated
<1> HIDE DEF m
<1>7. At(from, to, d, a) = IF to >= from THEN from + Gone(m, d, a) ELSE from - Gone(m, d, a)
  BY Zenon DEF At, m
<1>8. CASE a < d
  <2> DEFINE x == (a * m) \div d
  <2>1. Gone(m, d, a) = x
    BY <1>8 DEF Gone
  <2>2. MapRange(a, 0, d, from, to) = CDiv(a * (to - from), d) + from
    BY <1>8 DEF MapRange
  <2>3. PICK n \in Nat : n = a * m
    BY <1>5
  <2>4. d > 0
    BY <1>8
  <2>5. CDiv(n, d) = n \div d /\ CDiv(-n, d) = -(n \div d) /\ n \div d \in Nat
    BY <2>4, CDivIs, QuotientIs, Zenon
  <2>6. ASSUME to >= from PROVE Interpolated(s) = At(from, to, d, a)
    <3>1. a * (to - from) = n
      BY <1>5, <2>3, <2>6
    <3>2. x \in Nat /\ CDiv(n, d) = x
      BY <2>3, <2>5, Zenon
    <3> HIDE DEF x
    <3> QED
      BY <1>5, <1>6, <1>7, <1>8, <2>1, <2>2, <2>6, <3>1, <3>2
  <2>7. ASSUME ~ to >= from PROVE Interpolated(s) = At(from, to, d, a)
    <3>1. a * (to - from) = -n
      BY <1>5, <2>3, <2>7
    <3>2. x \in Nat /\ CDiv(-n, d) = -x
      BY <2>3, <2>5, Zenon
    <3> HIDE DEF x
    <3> QED
      BY <1>5, <1>6, <1>7, <1>8, <2>1, <2>2, <2>7, <3>1, <3>2
  <2>8. Interpolated(s) = At(from, to, d, a)
    BY <2>6, <2>7
  <2> QED
    BY <1>1, <1>2, <1>3, <1>4, <2>8
<1>9. CASE ~ a < d
  <2>1. Gone(m, d, a) = m
    BY <1>9 DEF Gone
  <2>2. Interpolated(s) = At(from, to, d, a)
    BY <1>5, <1>6, <1>7, <1>9, <2>1
  <2> QED
    BY <1>1, <1>2, <1>3, <1>4, <2>2
<1> QED
  BY <1>8, <1>9

\* The pass that ends a move does not release the pin yet.
LEMMA MovingPassIs ==
    ASSUME Type = 0, NEW s \in SafeState, Tied(s), s.isMoving,
           ~ s.sinceIterate < IterateIntervalMs
    PROVE  LET p == IteratePass(s)
               us == Interpolated(s)
           IN  /\ p.pulse = us /\ p.currentMicroSec = us /\ us \in Pulse
               /\ p.isMoving <=> ~ s.sinceMoveStart >= s.moveDurationMs
               /\ p.firstCloudSync = s.firstCloudSync
               /\ p.startMicroSec = s.startMicroSec /\ p.targetMicroSec = s.targetMicroSec
               /\ p.moveDurationMs = s.moveDurationMs
               /\ p.sinceMoveStart = s.sinceMoveStart /\ p.sinceIterate = 0
<1> DEFINE ticked == [s EXCEPT !.sinceIterate = 0]
           moved == MoveStep(ticked)
           us == Interpolated(s)
<1>1. ticked \in SafeState /\ moved \in SafeState /\ IteratePass(s) = DetachStep(moved)
  BY IteratePassIs
<1>2. /\ Tied(ticked) /\ ticked.isMoving /\ ~ ticked.isWaitingToDetach
      /\ ticked.firstCloudSync = s.firstCloudSync
      /\ ticked.startMicroSec = s.startMicroSec /\ ticked.targetMicroSec = s.targetMicroSec
      /\ ticked.moveDurationMs = s.moveDurationMs
      /\ ticked.sinceMoveStart = s.sinceMoveStart /\ ticked.sinceIterate = 0
      /\ ticked.isMoving = s.isMoving
  BY DEF Tied, SafeState
<1>3. Interpolated(ticked) = us
  BY DEF Interpolated, SafeState
<1> HIDE DEF ticked, us
<1>4. /\ moved.currentMicroSec = us /\ us \in Pulse
      /\ moved.isMoving <=> ~ s.sinceMoveStart >= s.moveDurationMs
      /\ moved.firstCloudSync = s.firstCloudSync
      /\ moved.startMicroSec = s.startMicroSec /\ moved.targetMicroSec = s.targetMicroSec
      /\ moved.moveDurationMs = s.moveDurationMs
      /\ moved.sinceMoveStart = s.sinceMoveStart /\ moved.sinceIterate = 0
  BY <1>1, <1>2, <1>3, MoveStepIs
<1>5. moved.pulse = us
  BY <1>1, <1>2, <1>3, MoveStepTied
<1>6. moved.isWaitingToDetach => moved.sinceTargetReached = 0
  <2> DEFINE w == WritePulse(ticked, Interpolated(ticked))
  <2>1. w \in SafeState
    BY <1>1, InterpolatedInRange, WritePulseSafe
  <2>2. ~ w.isWaitingToDetach
    BY <1>1, <1>2 DEF WritePulse, SafeState
  <2>3. moved = IF ~ Reached(ticked) THEN w
                ELSE [w EXCEPT !.isMoving = FALSE, !.isWaitingToDetach = TRUE,
                               !.sinceTargetReached = IF w.isWaitingToDetach THEN @ ELSE 0]
    BY <1>2 DEF MoveStep
  <2> HIDE DEF w
  <2>4. [w EXCEPT !.isMoving = FALSE, !.isWaitingToDetach = TRUE,
                  !.sinceTargetReached = IF w.isWaitingToDetach THEN @ ELSE 0]
          .sinceTargetReached = 0
    BY <2>1, <2>2 DEF SafeState
  <2> QED
    BY <2>2, <2>3, <2>4
<1> HIDE DEF moved
<1>7. DetachStep(moved) = moved
  BY <1>6, SpecAssumption DEF DetachStep
<1> QED
  BY <1>1, <1>4, <1>5, <1>7 DEF us

\* A pass without a move changes nothing but the pin and its clock.
LEMMA RestingPassIs ==
    ASSUME Type = 0, NEW s \in SafeState, ~ s.isMoving
    PROVE  LET p == IteratePass(s)
           IN  /\ ~ p.isMoving /\ p.currentMicroSec = s.currentMicroSec
               /\ p.firstCloudSync = s.firstCloudSync
<1> DEFINE ticked == [s EXCEPT !.sinceIterate = 0]
           moved == MoveStep(ticked)
<1>1. /\ ticked \in SafeState /\ moved \in SafeState
      /\ IteratePass(s) = (IF s.sinceIterate < IterateIntervalMs THEN s ELSE DetachStep(moved))
  BY IteratePassIs
<1>2. /\ ~ ticked.isMoving /\ ticked.currentMicroSec = s.currentMicroSec
      /\ ticked.firstCloudSync = s.firstCloudSync
  BY DEF SafeState
<1> HIDE DEF ticked
<1>3. moved = ticked
  BY <1>2 DEF MoveStep
<1> HIDE DEF moved
<1>4. /\ DetachStep(moved).isMoving = moved.isMoving
      /\ DetachStep(moved).currentMicroSec = moved.currentMicroSec
      /\ DetachStep(moved).firstCloudSync = moved.firstCloudSync
  BY <1>1, DetachStepIs
<1> QED
  BY <1>1, <1>2, <1>3, <1>4



-----------------------------------------------------------------------------
(* The horn.  SmoothMotion compares two states; what makes it true is where    *)
(* the members say the horn is, and how far along its move.  After a boot the  *)
(* first value to come is the one the horn stands at.                          *)

Placed ==
    /\ servo.firstCloudSync =>
          /\ horn = TargetPulse(Brightness255(HwValue(curBrightness)))
          /\ savedBrightness = curBrightness
    /\ ~ servo.firstCloudSync => horn = servo.currentMicroSec

Going(s) ==
    s.isMoving => OnWay(s.startMicroSec, s.targetMicroSec, s.currentMicroSec,
                        s.moveDurationMs, s.sinceMoveStart, s.sinceIterate)

MotionInv == WireInv /\ Placed /\ Going(servo)

\* What SmoothMotion says of a step.
Slow ==
    Absolute(horn' - horn) * TransitionTimeMs
      <= (MaxUs - MinUs) * (GapMs + 1) + TransitionTimeMs

\* A horn that stays is slow enough.
LEMMA StillIsSlow ==
    ASSUME RangeInv, horn' = horn
    PROVE  Slow
<1>1. servo.sinceIterate \in Nat /\ servo.sinceMoveStart \in Nat
  BY SpecAssumption DEF RangeInv, SafeState, Clock
<1>2. GapMs \in Nat
  BY <1>1 DEF GapMs
<1>3. Absolute(horn' - horn) = 0
  BY ServoAssumption DEF RangeInv, Pulse, Absolute
<1>4. (MaxUs - MinUs) * (GapMs + 1) \in Nat
  <2>1. PICK g \in Nat : g = GapMs + 1
    BY <1>2
  <2>2. MaxUs - MinUs \in Nat
    BY ServoAssumption
  <2> QED
    BY <2>1, <2>2
<1>5. TransitionTimeMs \in Nat /\ 0 * TransitionTimeMs = 0
  BY ServoAssumption
<1> HIDE DEF GapMs
<1> QED
  BY <1>3, <1>4, <1>5 DEF Slow

\* The timer takes the first value as the place of the horn, and starts a move
\* from that place for every later one.
LEMMA NewValueGoes ==
    ASSUME Type = 0, Mode # "relay", MotionInv, OnFastTimer
    PROVE  horn' = horn /\ Placed' /\ Going(servo')
<1> DEFINE b == Brightness255(HwValue(curBrightness))
           to == TargetPulse(b)
           first == FirstSync(servo, b)
           start == StartMove(servo, b)
<1>1. servo \in SafeState /\ Tied(servo) /\ curBrightness \in 0 .. 100
  BY DEF MotionInv, WireInv, RangeInv
<1>2. /\ b \in 0 .. 255 /\ to \in Pulse /\ CalculateMicroSec(b) = to
      /\ horn \in Pulse /\ (servo.pulse # 0 => horn = servo.pulse)
  <2>1. b \in 0 .. 255
    BY <1>1, BrightnessInRange, ZenonT(60)
  <2>2. to \in Pulse
    BY <2>1, PulseInRange, Zenon
  <2>3. CalculateMicroSec(b) = to
    BY Zenon DEF TargetPulse
  <2> QED
    BY <2>1, <2>2, <2>3 DEF MotionInv, WireInv, RangeInv
<1>3. servo' = IF servo.firstCloudSync THEN first ELSE start
  BY Zenon DEF OnFastTimer, SetRGBWValueOnDevice
<1>4. /\ UNCHANGED <<curBrightness, savedBrightness>>
      /\ horn' = IF servo'.pulse = 0 THEN horn ELSE servo'.pulse
  BY Zenon DEF OnFastTimer, HornFollows
<1>5. servo.firstCloudSync => horn = to
  BY Zenon DEF MotionInv, Placed
<1>6. ~ servo.firstCloudSync => horn = servo.currentMicroSec
  BY Zenon DEF MotionInv, Placed
<1>7. /\ ~ first.firstCloudSync /\ first.currentMicroSec = CalculateMicroSec(b)
      /\ first.isMoving = servo.isMoving /\ first.pulse = servo.pulse
  <2> HIDE DEF b
  <2> QED
    BY <1>1 DEF FirstSync, SafeState
<1>8. /\ start.firstCloudSync = servo.firstCloudSync /\ start.pulse = servo.pulse
      /\ start.startMicroSec = servo.currentMicroSec
      /\ start.currentMicroSec = servo.currentMicroSec
      /\ start.targetMicroSec = to /\ start.sinceMoveStart = 0
      /\ start.sinceIterate = servo.sinceIterate
      /\ start.moveDurationMs = MoveDuration(servo.currentMicroSec, to,
                                             servo.currentBrightness, b)
  <2> HIDE DEF b
  <2> QED
    BY <1>1 DEF StartMove, SafeState
<1>9. MoveDuration(servo.currentMicroSec, to, servo.currentBrightness, b)
        = (Absolute(to - servo.currentMicroSec) * TransitionTimeMs) \div Sweep
  BY Zenon DEF MoveDuration, Sweep
<1> HIDE DEF b, to, first, start
<1>10. CASE servo.firstCloudSync
  <2>1. servo' = first
    BY <1>3, <1>10
  <2>2. servo.pulse = 0 /\ ~ servo.isMoving
    BY <1>1, <1>10 DEF Tied
  <2>3. horn' = horn
    BY <1>4, <1>7, <2>1, <2>2
  <2>4. Placed'
    BY <1>2, <1>5, <1>7, <1>10, <2>1, <2>3 DEF Placed
  <2>5. Going(servo')
    BY <1>7, <2>1, <2>2 DEF Going
  <2> QED
    BY <2>3, <2>4, <2>5
<1>11. CASE ~ servo.firstCloudSync
  <2>1. servo' = start
    BY <1>3, <1>11
  <2>2. horn' = horn
    BY <1>2, <1>4, <1>8, <2>1
  <2>3. Placed'
    BY <1>6, <1>8, <1>11, <2>1, <2>2 DEF Placed
  <2>4. servo.currentMicroSec \in Pulse /\ servo.sinceIterate \in Nat
    BY <1>1, SpecAssumption DEF SafeState, Clock
  <2>5. OnWay(servo.currentMicroSec, to, servo.currentMicroSec,
              (Absolute(to - servo.currentMicroSec) * TransitionTimeMs) \div Sweep,
              0, servo.sinceIterate)
    BY <1>2, <2>4, StartOnWay
  <2>6. Going(servo')
    BY <1>8, <1>9, <2>1, <2>5, Zenon DEF Going
  <2> QED
    BY <2>2, <2>3, <2>6
<1> QED
  BY <1>10, <1>11

\* A pass of the loop leads the horn along its move, or leaves it alone.
LEMMA PassGoes ==
    ASSUME Type = 0, MotionInv, IterateAlways
    PROVE  Slow /\ Placed' /\ Going(servo')
<1> DEFINE us == Interpolated(servo)
<1>1. /\ servo \in SafeState /\ Tied(servo) /\ RangeInv
      /\ servo.pulse # 0 => horn = servo.pulse
  BY DEF MotionInv, WireInv, RangeInv
<1>2. ~ servo.firstCloudSync /\ horn = servo.currentMicroSec
  BY <1>1 DEF IterateAlways, Tied, MotionInv, Placed
<1>3. /\ servo' = IteratePass(servo)
      /\ horn' = IF servo'.pulse = 0 THEN horn ELSE servo'.pulse
  BY Zenon DEF IterateAlways, HornFollows
<1>4. /\ servo.startMicroSec \in Pulse /\ servo.targetMicroSec \in Pulse
      /\ servo.currentMicroSec \in Pulse /\ servo.moveDurationMs \in Nat
      /\ servo.sinceMoveStart \in Nat /\ servo.sinceIterate \in Nat
  BY <1>1, SpecAssumption DEF SafeState, Clock
<1>5. CASE servo.sinceIterate < IterateIntervalMs
  <2>1. servo' = servo
    BY <1>1, <1>3, <1>5, IteratePassIs
  <2>2. horn' = horn
    BY <1>1, <1>3, <2>1
  <2>3. Placed' /\ Going(servo')
    BY <1>2, <2>1, <2>2 DEF MotionInv, Placed
  <2> QED
    BY <1>1, <2>2, <2>3, StillIsSlow
<1>6. CASE ~ servo.sinceIterate < IterateIntervalMs /\ servo.isMoving
  <2>1. /\ servo'.pulse = us /\ servo'.currentMicroSec = us /\ us \in Pulse
        /\ servo'.isMoving <=> ~ servo.sinceMoveStart >= servo.moveDurationMs
        /\ servo'.firstCloudSync = servo.firstCloudSync
        /\ servo'.startMicroSec = servo.startMicroSec
        /\ servo'.targetMicroSec = servo.targetMicroSec
        /\ servo'.moveDurationMs = servo.moveDurationMs
        /\ servo'.sinceMoveStart = servo.sinceMoveStart /\ servo'.sinceIterate = 0
    BY <1>1, <1>3, <1>6, MovingPassIs
  <2>2. us = At(servo.startMicroSec, servo.targetMicroSec,
                servo.moveDurationMs, servo.sinceMoveStart)
    BY <1>1, InterpolatedIs
  <2>3. horn' = us
    BY <1>3, <2>1, PulsesSound
  <2>4. Placed'
    BY <1>2, <2>1, <2>3 DEF Placed
  <2>5. OnWay(servo.startMicroSec, servo.targetMicroSec, servo.currentMicroSec,
              servo.moveDurationMs, servo.sinceMoveStart, servo.sinceIterate)
    BY <1>6, Zenon DEF MotionInv, Going
  <2>6. PICK g \in Nat :
          /\ g = IF servo.sinceIterate < servo.sinceMoveStart
                 THEN servo.sinceIterate ELSE servo.sinceMoveStart
          /\ g = GapMs
    BY <1>4 DEF GapMs
  <2> HIDE DEF us
  <2>7. /\ Absolute(us - servo.currentMicroSec) * TransitionTimeMs
              <= Sweep * (g + 1) + TransitionTimeMs
        /\ servo.sinceMoveStart < servo.moveDurationMs =>
              OnWay(servo.startMicroSec, servo.targetMicroSec, us,
                    servo.moveDurationMs, servo.sinceMoveStart, 0)
    BY <1>4, <2>2, <2>5, <2>6, PassOnWay, Zenon
  <2>8. Slow
    BY <1>2, <2>3, <2>6, <2>7, Zenon DEF Slow, Sweep
  <2>9. servo'.isMoving => servo.sinceMoveStart < servo.moveDurationMs
    BY <1>4, <2>1
  <2>10. Going(servo')
    BY <2>1, <2>7, <2>9, Zenon DEF Going
  <2> QED
    BY <2>4, <2>8, <2>10
<1>7. CASE ~ servo.sinceIterate < IterateIntervalMs /\ ~ servo.isMoving
  <2>1. /\ ~ servo'.isMoving /\ servo'.currentMicroSec = servo.currentMicroSec
        /\ servo'.firstCloudSync = servo.firstCloudSync
    BY <1>1, <1>3, <1>7, RestingPassIs
  <2>2. servo'.pulse \in {0, servo.pulse}
    BY <1>1, <1>3, <1>7, IteratePassTied
  <2>3. horn' = horn
    BY <1>1, <1>3, <2>2
  <2>4. Placed' /\ Going(servo')
    BY <1>2, <2>1, <2>3 DEF Placed, Going
  <2> QED
    BY <1>1, <2>3, <2>4, StillIsSlow
<1> QED
  BY <1>5, <1>6, <1>7


\* A stop leaves the horn where it is.
LEMMA StopGoes ==
    ASSUME Type = 0, MotionInv, StopAction
    PROVE  horn' = horn /\ Placed' /\ Going(servo')
<1>1. /\ servo \in SafeState /\ Tied(servo)
      /\ ~ servo.firstCloudSync /\ horn = servo.currentMicroSec
  BY Zenon DEF MotionInv, WireInv, RangeInv, Placed, StopAction
<1>2. PICK b : servo' = ForceStopAndSync(servo, b)
  BY Zenon DEF StopAction
<1>3. /\ ~ servo'.isMoving
      /\ servo'.pulse = (IF servo.isAttached THEN servo.currentMicroSec ELSE 0)
      /\ servo'.currentMicroSec = servo.currentMicroSec
      /\ servo'.firstCloudSync = servo.firstCloudSync
  BY <1>1, <1>2, ForceStopTied
<1>4. horn' = IF servo'.pulse = 0 THEN horn ELSE servo'.pulse
  BY Zenon DEF StopAction, HornFollows
<1>5. horn' = horn
  BY <1>1, <1>3, <1>4
<1> QED
  BY <1>1, <1>3, <1>5 DEF Placed, Going

\* A restart of a servo at rest finds the horn where the saved value puts it.
LEMMA RestartGoes ==
    ASSUME ~ PowerLossAnytime, Restart
    PROVE  horn' = horn /\ Placed' /\ Going(servo')
<1>1. /\ savedBrightness = curBrightness
      /\ horn = TargetPulse(Brightness255(HwValue(curBrightness)))
  BY Zenon DEF Restart, AtRest
<1>2. /\ curBrightness' = savedBrightness /\ savedBrightness' = savedBrightness
      /\ servo' = Booted /\ horn' = horn
  BY Zenon DEF Restart
<1>3. Booted.firstCloudSync /\ ~ Booted.isMoving
  BY DEF Booted
<1>4. Placed'
  BY <1>1, <1>2, <1>3, Zenon DEF Placed
<1>5. Going(servo')
  BY <1>2, <1>3, Zenon DEF Going
<1> QED
  BY <1>2, <1>4, <1>5

\* Time that passes leaves the move on its way: a clock that has come to its
\* bound says no more than that so much time is gone at least.
LEMMA TimeGoes ==
    ASSUME MotionInv, TimePasses
    PROVE  horn' = horn /\ Placed' /\ Going(servo')
<1>1. servo \in SafeState
  BY DEF MotionInv, WireInv, RangeInv
<1>2. /\ servo'.firstCloudSync = servo.firstCloudSync
      /\ servo'.isMoving = servo.isMoving
      /\ servo'.startMicroSec = servo.startMicroSec
      /\ servo'.currentMicroSec = servo.currentMicroSec
      /\ servo'.targetMicroSec = servo.targetMicroSec
      /\ servo'.moveDurationMs = servo.moveDurationMs
      /\ servo'.sinceMoveStart = (IF servo.isMoving THEN Later(servo.sinceMoveStart)
                                  ELSE servo.sinceMoveStart)
      /\ servo'.sinceIterate = Later(servo.sinceIterate)
      /\ horn' = horn
  BY <1>1, TimeIs
<1>3. UNCHANGED <<curBrightness, savedBrightness>>
  BY DEF TimePasses
<1>4. Placed'
  BY <1>2, <1>3 DEF MotionInv, Placed
<1>5. ASSUME servo.isMoving PROVE Going(servo')
  <2>1. PICK a \in Nat : a = servo.sinceMoveStart /\ a <= ClockCapMs
    BY <1>1, SpecAssumption DEF SafeState, Clock
  <2>2. PICK si \in Nat : si = servo.sinceIterate /\ si <= ClockCapMs
    BY <1>1, SpecAssumption DEF SafeState, Clock
  <2>3. PICK a2 \in Nat :
          /\ a2 = Later(a)
          /\ a2 = IF a + TimeStepMs > ClockCapMs THEN ClockCapMs ELSE a + TimeStepMs
    BY <2>1, SpecAssumption DEF Later
  <2>4. PICK si2 \in Nat :
          /\ si2 = Later(si)
          /\ si2 = IF si + TimeStepMs > ClockCapMs THEN ClockCapMs ELSE si + TimeStepMs
    BY <2>2, SpecAssumption DEF Later
  <2>5. a <= a2 /\ (a2 - si2 <= a - si \/ a2 <= si2)
    BY <2>1, <2>2, <2>3, <2>4, SpecAssumption
  <2>6. /\ servo.startMicroSec \in Pulse /\ servo.targetMicroSec \in Pulse
        /\ servo.currentMicroSec \in Pulse /\ servo.moveDurationMs \in Nat
    BY <1>1 DEF SafeState
  <2>7. OnWay(servo.startMicroSec, servo.targetMicroSec, servo.currentMicroSec,
              servo.moveDurationMs, a, si)
    BY <1>5, <2>1, <2>2, Zenon DEF MotionInv, Going
  <2>8. OnWay(servo.startMicroSec, servo.targetMicroSec, servo.currentMicroSec,
              servo.moveDurationMs, a2, si2)
    BY <2>5, <2>6, <2>7, TimeOnWay, Zenon
  <2>9. servo'.sinceMoveStart = a2 /\ servo'.sinceIterate = si2
    BY <1>2, <1>5, <2>1, <2>2, <2>3, <2>4, Zenon
  <2> QED
    BY <1>2, <2>8, <2>9, Zenon DEF Going
<1>6. ~ servo.isMoving => Going(servo')
  BY <1>2 DEF Going
<1> QED
  BY <1>2, <1>4, <1>5, <1>6

\* Commands reach a servo only after its first value; saving, the switches and
\* stuttering concern no member.
LEMMA OthersGo ==
    ASSUME MotionInv, Command \/ SaveState \/ LimitSwitchChange \/ UNCHANGED vars
    PROVE  horn' = horn /\ Placed' /\ Going(servo')
<1>1. UNCHANGED <<servo, horn>>
  BY DEF Command, HandleNewValueFromServer, SaveState, LimitSwitchChange, vars
<1>2. Going(servo')
  BY <1>1 DEF MotionInv
<1>3. servo.firstCloudSync =>
         /\ curBrightness' = curBrightness
         /\ savedBrightness' \in {savedBrightness, curBrightness}
  BY DEF Command, HandleNewValueFromServer, SaveState, LimitSwitchChange, vars
<1>4. Placed'
  BY <1>1, <1>3, Zenon DEF MotionInv, Placed
<1> QED
  BY <1>1, <1>2, <1>4

\* Every step keeps the horn placed and its move on its way, and is slow enough.
LEMMA MotionStep ==
    ASSUME Type = 0, Mode # "relay", ~ PowerLossAnytime
    PROVE  MotionInv /\ [Next]_vars => MotionInv' /\ Slow
<1> SUFFICES ASSUME MotionInv, [Next]_vars PROVE MotionInv' /\ Slow
  OBVIOUS
<1>1. WireInv' /\ RangeInv
  BY WireStep DEF MotionInv, WireInv
<1>2. CASE OnFastTimer
  BY <1>1, <1>2, NewValueGoes, StillIsSlow DEF MotionInv
<1>3. CASE IterateAlways
  BY <1>1, <1>3, PassGoes DEF MotionInv
<1>4. CASE StopAction
  BY <1>1, <1>4, StopGoes, StillIsSlow DEF MotionInv
<1>5. CASE Restart
  BY <1>1, <1>5, RestartGoes, StillIsSlow DEF MotionInv
<1>6. CASE TimePasses
  BY <1>1, <1>6, TimeGoes, StillIsSlow DEF MotionInv
<1>7. CASE Command \/ SaveState \/ LimitSwitchChange \/ UNCHANGED vars
  BY <1>1, <1>7, OthersGo, StillIsSlow DEF MotionInv
<1> QED
  BY <1>2, <1>3, <1>4, <1>5, <1>6, <1>7 DEF Next

\* A 180 degree servo that is not used as a switch never moves its horn faster
\* than the configured sweep, for any pulse range, transition time and granularity
\* of time, however late the passes of the loop come and whatever commands and
\* stops come in mid-move.  The two other hypotheses are needed: a switch may
\* find its horn at the other end after a boot, and so may a servo that lost
\* its power in mid-move.
THEOREM HornKeepsTheSweep ==
    ASSUME Type = 0, Mode # "relay", ~ PowerLossAnytime
    PROVE  Spec => SmoothMotion
<1>1. Init => MotionInv
  <2> SUFFICES ASSUME Init PROVE MotionInv
    OBVIOUS
  <2>1. Booted.firstCloudSync /\ ~ Booted.isMoving
    BY DEF Booted
  <2>2. /\ savedBrightness = curBrightness /\ servo = Booted
        /\ horn = TargetPulse(Brightness255(HwValue(curBrightness)))
    BY Zenon DEF Init
  <2>3. Placed /\ Going(servo)
    BY <2>1, <2>2, Zenon DEF Placed, Going
  <2> QED
    BY <2>3, WireInit DEF MotionInv
<1>2. MotionInv /\ [Next]_vars => MotionInv'
  BY MotionStep
<1>3. MotionInv /\ [Next]_vars => [Slow]_vars
  BY MotionStep
<1> QED
  BY <1>1, <1>2, <1>3, PTL DEF Spec, SmoothMotion, Slow
=============================================================================
