----------------------------- MODULE RelayProofs -----------------------------
(* Theorems about Relay, for every set of durations, every function the server *)
(* may give, and every way the relay may be told to start.                     *)
EXTENDS Relay, TLAPS

\* What makes TimedRelay inductive: a channel with a timed function always knows
\* a duration other than 0, so that a countdown does start whenever it is
\* switched on.
RelayInv ==
    /\ TypeOK
    /\ Timed(function) => storedMs > 0
    /\ TimedRelay

\* A default duration is a positive number.
LEMMA DefaultPositive ==
    ASSUME NEW f
    PROVE  DefaultMs(f) \in Nat /\ DefaultMs(f) > 0
  BY RelayAssumption DEF DefaultMs

\* The invariant holds at the start.
LEMMA RelayInit == Init => RelayInv
<1> SUFFICES ASSUME Init PROVE RelayInv
  OBVIOUS
<1>1. saved \in SavedState
  BY DEF Init, SavedState
<1>2. on \in BOOLEAN
  BY DEF Init
<1> QED
  BY <1>1, <1>2 DEF Init, RelayInv, TypeOK, TimedRelay, Timed

-----------------------------------------------------------------------------
(* The pin and the countdown keep their types.                                 *)

PinTypes == on \in BOOLEAN /\ durationMs \in Nat /\ elapsedMs \in Nat

\* turnOn keeps the types,
LEMMA TurnOnTypes ==
    ASSUME NEW f, NEW duration \in Nat, NEW stored \in Nat,
           TurnOn(f, duration, stored)
    PROVE  PinTypes'
<1>1. durationMs' \in Nat
  BY DEF TurnOn
<1> QED
  BY <1>1 DEF TurnOn, PinTypes

\* turnOff does,
LEMMA TurnOffTypes ==
    ASSUME NEW duration \in Nat, TurnOff(duration)
    PROVE  PinTypes'
  BY DEF TurnOff, PinTypes

\* and so does toggle.
LEMMA ToggleTypes ==
    ASSUME TypeOK, Toggle
    PROVE  PinTypes'
<1>1. 0 \in Nat /\ storedMs \in Nat
  BY DEF TypeOK
<1>2. CASE on
  BY <1>1, <1>2, TurnOffTypes DEF Toggle
<1>3. CASE ~on
  BY <1>1, <1>3, TurnOnTypes DEF Toggle
<1> QED
  BY <1>2, <1>3

-----------------------------------------------------------------------------
(* The operations, one at a time.                                              *)

\* A request to switch on starts a countdown, or is exempt.
LEMMA ServerTurnOnStep ==
    ASSUME RelayInv, NEW duration \in Durations, ServerTurnOn(duration)
    PROVE  RelayInv'
<1>1. duration \in Nat
  BY RelayAssumption
<1>2. TypeOK'
  BY <1>1 DEF RelayInv, TypeOK, ServerTurnOn, TurnOn, persistent
<1>3. (Timed(function) => storedMs > 0)'
  BY <1>1 DEF RelayInv, TypeOK, ServerTurnOn, Timed, persistent
<1>4. TimedRelay'
  BY <1>1 DEF RelayInv, TypeOK, ServerTurnOn, TurnOn, TimedRelay, Timed, persistent
<1> QED
  BY <1>2, <1>3, <1>4 DEF RelayInv

\* A request to switch off leaves no countdown on a timed channel.
LEMMA ServerTurnOffStep ==
    ASSUME RelayInv, NEW duration \in Durations, ServerTurnOff(duration)
    PROVE  RelayInv'
<1>1. duration \in Nat
  BY RelayAssumption
<1> QED
  BY <1>1 DEF RelayInv, TypeOK, ServerTurnOff, TurnOff, TimedRelay, Timed, persistent

\* A button starts or ends a countdown together with the relay.
LEMMA HandleActionStep ==
    ASSUME RelayInv, NEW action, HandleAction(action)
    PROVE  RelayInv'
<1>1. exempt' \in BOOLEAN
  BY DEF HandleAction
<1>2. PinTypes'
  <2>1. 0 \in Nat /\ storedMs \in Nat
    BY DEF RelayInv, TypeOK
  <2>2. \/ TurnOn(function, 0, 0) \/ TurnOn(function, 0, storedMs)
        \/ TurnOff(0) \/ Toggle
    BY DEF HandleAction
  <2> QED
    BY <2>1, <2>2, TurnOnTypes, TurnOffTypes, ToggleTypes DEF RelayInv
<1>3. TypeOK' /\ (Timed(function) => storedMs > 0)'
  BY <1>1, <1>2 DEF RelayInv, TypeOK, HandleAction, PinTypes, persistent
<1>4. TimedRelay'
  BY DEF RelayInv, TypeOK, HandleAction, Toggle, TurnOn, TurnOff, TimedRelay,
         Timed, persistent
<1> QED
  BY <1>3, <1>4 DEF RelayInv

\* A new function switches the relay off and brings a duration with it.
LEMMA ChannelConfigStep ==
    ASSUME RelayInv, NEW newFunction \in Functions, NEW timeMs \in Durations,
           HandleChannelConfig(newFunction, timeMs)
    PROVE  RelayInv'
<1>1. timeMs \in Nat
  BY RelayAssumption
<1>2. /\ DurationFor(newFunction) \in Nat
      /\ Timed(newFunction) => DurationFor(newFunction) > 0
  BY DefaultPositive DEF RelayInv, TypeOK, DurationFor
<1>3. function' = newFunction /\ storedMs' \in Nat
  BY <1>1, <1>2 DEF HandleChannelConfig, SetAndSaveFunction
<1>4. (Timed(function) => storedMs > 0)'
  BY <1>1, <1>2, <1>3 DEF HandleChannelConfig, Timed
<1>5. TypeOK'
  <2>1. exempt' \in BOOLEAN
    BY DEF RelayInv, TypeOK, HandleChannelConfig, SetAndSaveFunction
  <2>2. PinTypes'
    <3>1. TurnOff(0) \/ UNCHANGED <<on, durationMs, elapsedMs>>
      BY DEF HandleChannelConfig, SetAndSaveFunction
    <3>2. CASE TurnOff(0)
      BY <3>2, TurnOffTypes
    <3>3. CASE UNCHANGED <<on, durationMs, elapsedMs>>
      BY <3>3 DEF RelayInv, TypeOK, PinTypes
    <3> QED
      BY <3>1, <3>2, <3>3
  <2> QED
    BY <1>3, <2>1, <2>2 DEF RelayInv, TypeOK, HandleChannelConfig, PinTypes,
                            persistent
<1>6. TimedRelay'
  BY <1>3 DEF RelayInv, TypeOK, HandleChannelConfig, SetAndSaveFunction, TurnOff,
              TimedRelay, Timed
<1> QED
  BY <1>4, <1>5, <1>6 DEF RelayInv

\* The end of a countdown switches the relay, whatever a button did since it was seen.
LEMMA ToggleExpiredStep ==
    ASSUME RelayInv, ToggleExpired
    PROVE  RelayInv'
<1>1. PinTypes'
  BY ToggleTypes DEF RelayInv, ToggleExpired
<1>2. TypeOK' /\ (Timed(function) => storedMs > 0)'
  BY <1>1 DEF RelayInv, TypeOK, ToggleExpired, PinTypes, persistent
<1>3. TimedRelay'
  BY DEF RelayInv, TypeOK, ToggleExpired, Toggle, TurnOn, TurnOff, TimedRelay
<1> QED
  BY <1>2, <1>3 DEF RelayInv

\* The saves leave the relay alone.
LEMMA SaveStep ==
    ASSUME RelayInv, OnSaveState
    PROVE  RelayInv'
<1>1. RemainingMs \in Nat
  BY DEF RelayInv, TypeOK, RemainingMs
<1>2. saved' \in SavedState
  BY <1>1 DEF RelayInv, TypeOK, OnSaveState, SavedState, Timed
<1> QED
  BY <1>2 DEF RelayInv, TypeOK, OnSaveState, TimedRelay, relay

\* A boot starts a countdown whenever it switches a timed channel on.
LEMMA RestartStep ==
    ASSUME RelayInv, Restart
    PROVE  RelayInv'
<1>1. saved.duration \in Nat /\ saved.on \in BOOLEAN
  BY DEF RelayInv, TypeOK, SavedState
<1>2. StoredAtLoad \in Nat /\ (Timed(savedFunction) => StoredAtLoad > 0)
  BY <1>1, DefaultPositive DEF StoredAtLoad
<1>3. Resumed \in Nat /\ (Timed(savedFunction) => Resumed = 0)
  BY <1>1 DEF Resumed
<1>4. PICK stateOn \in StatesAtInit :
        IF stateOn THEN TurnOn(savedFunction, Resumed, StoredAtLoad)
                   ELSE TurnOff(Resumed)
  BY DEF Restart
<1>5. on' \in BOOLEAN /\ durationMs' \in Nat /\ elapsedMs' = 0
  BY <1>2, <1>3, <1>4 DEF TurnOn, TurnOff
<1>6. Timed(savedFunction) => IF on' THEN durationMs' > 0 ELSE durationMs' = 0
  BY <1>2, <1>3, <1>4 DEF TurnOn, TurnOff
<1> QED
  BY <1>2, <1>5, <1>6 DEF RelayInv, TypeOK, Restart, TimedRelay, persistent, Timed

\* Every step keeps the invariant.
LEMMA RelayStep == RelayInv /\ [Next]_vars => RelayInv'
<1> SUFFICES ASSUME RelayInv, [Next]_vars PROVE RelayInv'
  OBVIOUS
<1>1. CASE Command
  BY <1>1, ServerTurnOnStep, ServerTurnOffStep, HandleActionStep, ChannelConfigStep
     DEF Command
<1>2. CASE IterateAlways
  BY <1>2 DEF RelayInv, TypeOK, IterateAlways, TimedRelay, relay, persistent
<1>8. CASE ToggleExpired
  BY <1>8, ToggleExpiredStep
<1>3. CASE OnSaveState
  BY <1>3, SaveStep
<1>4. CASE CommitConfig
  BY <1>4 DEF RelayInv, TypeOK, CommitConfig, TimedRelay, relay
<1>5. CASE Restart
  BY <1>5, RestartStep
<1>6. CASE TimePasses
  BY <1>6, RelayAssumption DEF RelayInv, TypeOK, TimePasses, TimedRelay, persistent
<1>7. CASE UNCHANGED vars
  BY <1>7 DEF vars, relay, persistent, RelayInv, TypeOK, TimedRelay
<1> QED
  BY <1>1, <1>2, <1>3, <1>4, <1>5, <1>6, <1>7, <1>8 DEF Next

-----------------------------------------------------------------------------

\* The members keep the types the code gives them; in particular the duration
\* that goes to state storage is never negative.
THEOREM RelayTypes == Spec => []TypeOK
<1>1. RelayInv => TypeOK
  BY DEF RelayInv
<1> QED
  BY RelayInit, RelayStep, <1>1, PTL DEF Spec

\* A staircase light or a gate is on exactly while a countdown runs, whatever the
\* durations, the functions and the configuration, and through every restart.
THEOREM RelayIsTimed == Spec => []TimedRelay
<1>1. RelayInv => TimedRelay
  BY DEF RelayInv
<1> QED
  BY RelayInit, RelayStep, <1>1, PTL DEF Spec
=============================================================================
