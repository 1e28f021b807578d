# Verification of the GUI-Generic firmware

TLA+ models of the firmware in this repository, an ESP8266/ESP32 device program
for the Supla cloud with the servo module this fork adds (`src/src/SuplaServoDimmer.cpp`),
on top of the SuplaDevice library (`src/lib/SuplaDevice`). TLC checks the models on
small instances; TLAPS proves the main safety properties for every value of the
parameters. `PROJECT.json` lists the runs, the lines each definition models, the
hazards, the findings and the theorems.

    tlc -config Servo180.cfg ServoDimmer.tla        # about 20 s
    tlc -config Servo360.cfg ServoDimmer.tla        # about 1 minute
    tlc -config Relay.cfg Relay.tla                 # a few seconds
    tlc -config WearLevel.cfg WearLevelSector.tla   # these four: about 2 minutes each
    tlc -config ChannelConfig.cfg MCChannelConfig.tla
    tlc -config RollerShutter.cfg RollerShutter.tla
    tlc -config MCButton.cfg MCButton.tla
    tlapm ServoProofs.tla                           # about 2 minutes
    tlapm ServoMotionProofs.tla                     # about 1 minute
    tlapm WearLevelProofs.tla                       # about 10 minutes
    tlapm ButtonProofs.tla                          # these three: about 2 to 3 minutes each
    tlapm RollerProofs.tla
    tlapm ChannelConfigProofs.tla
    tlapm RelayProofs.tla                           # seconds

## The system

A device is a list of *elements* (channels, buttons, sensors), built once at start-up
from the configuration (`SuplaDeviceGUI.cpp`), and a device object that runs them.

| Component | State it keeps | Operations | Hard behaviour | What makes it correct |
|---|---|---|---|---|
| Main loop and timers (`SuplaDevice.cpp`, `timer.cpp`) | status, element list | `begin` (load config, load state, init, start timers); `iterate` at least every 16 ms; 10 ms `onTimer`, 1 ms `onFastTimer` | on the ESP32 the timers are tasks that interrupt the loop; a reconnect blocks the loop, not the timers | an element sees its callbacks in the documented order |
| Servo channel (`SuplaServoDimmer.cpp`) | pulse, target, move timing, attach and release flags | new value, loop pass, limit switches, stop, release | command in mid-move, late pass, stop against write, restart | range, speed, a watched motor, a released pin, an honest report |
| Dimmer and RGBW base (`rgbw_base.cpp`, `dimmer_base.cpp`) | requested and applied brightness, last brightness, auto-iterate | requests, actions, fade on the fast timer, save | request and timer race; auto-iterate bounces at both ends | the value applied follows the request |
| Relay (`relay.cpp`) | pin, countdown, stored duration, function | on, off, toggle, request, change of function and configuration, save, load | countdown against button; function and state in two stores | on and counting down go together; a restart restores what was |
| State storage (`storage/`) | ring of slots in flash, directory with its bitmap and a backup | periodic and scheduled save, load | power loss in mid-write, worn sectors | a load returns the last complete save |
| Configuration file (`key_value.cpp`, `SPIFFS_confi.cpp`, `SuplaConfigManager.cpp`) | main and backup file, key list | set, commit, load | power loss between the two files | a load returns the last complete commit |
| Channel configuration exchange (`element_with_channel_actions.cpp`, `remote_device_config.cpp`) | local change flag, exchange state | local change, send, result, receive | a local change while one is under way | both sides end with the same configuration, no local change lost |
| Roller shutter (`roller_shutter*.cpp`) | position, target, motion and calibration times | move, stop, calibrate, position by time | reversal, lost power in mid-move | never both directions; position within its bounds |
| Buttons, action triggers (`button.cpp`, `action_trigger.cpp`) | debounce, click count, hold | `onTimer`, events to handlers | click counting against hold; local action or cloud action | each click reaches one consumer |
| Supla client (`supla_srpc.cpp`, `register_device.cpp`, `channel.cpp`) | registration, keep-alive, unsent changes | register, receive, send, reconnect | lost connection, repeated registration | the last value of every channel reaches the server |
| Device shell and web pages (`SuplaDeviceGUI`, `SuplaConfigESP`, `SuplaWebPage*`) | configuration keys | build elements, forms | none after start-up | parameters within their ranges |
| Heating, valves, MQTT, sensors, displays, network, update | their own | | | not studied here |

Interaction: the client hands requests to elements (`handleNewValueFromServer`,
`handleChannelConfig`) from the loop; buttons call `handleAction` of other elements from
the 10 ms timer; the fast timer of a dimmer calls `setRGBWValueOnDevice`; elements write
their channel's value, which the client sends when it changed; elements ask the storage
for a save (`ScheduleSave`, `saveWithDelay`), which the loop performs later.

## Modules

| Module | Models | Extends |
|---|---|---|
| `ServoPulse` | the conversions of a servo channel: percent, 10 bits, 8 bits, pulse width and back, duration of a move, reported value; operators only | |
| `ServoDimmer` | one servo channel with the loop, the timer, the network, the limit switches, state storage and restarts | `ServoPulse` |
| `Arithmetic` | lemmas about products and quotients of integers, which the provers need at hand | `TLAPS` |
| `ServoProofs` | the theorems about it | `ServoDimmer`, `TLAPS` |
| `ServoMotionProofs` | the theorems about the motion of a 180 degree servo | `ServoProofs`, `Arithmetic` |
| `Relay` | one relay with server, buttons, countdown, both stores and restarts | |
| `RelayProofs` | the theorems about it | `Relay`, `TLAPS` |
| `StateRegister` | what state storage promises, whatever its layout: one atomic register | |
| `WearLevelSector` | the sector layout of state storage on flash, shown to implement `StateRegister` | |
| `WearLevelProofs` | the theorems about it, the refinement included | `WearLevelSector`, `TLAPS` |
| `ChannelConfig` | one channel, its configuration file, the connection and the server | |
| `MCChannelConfig` | values of its constants for TLC | `ChannelConfig` |
| `ChannelConfigProofs` | the theorems about it: what the device keeps, and that both sides agree in the end | `ChannelConfig`, `TLAPS` |
| `RollerShutter` | one shutter driven by two relays, its timer, commands, storage and restarts | |
| `RollerProofs` | the theorems about it | `RollerShutter`, `Arithmetic`, `TLAPS` |
| `Button` | one button, the handlers of its events, its relay or blind, and its action trigger | |
| `MCButton` | values of its constants for TLC | `Button` |
| `ButtonProofs` | the theorems about it | `Button`, `TLAPS` |

### ServoDimmer and the code

The members of `SuplaServoDimmer` are one record, `servo`, and each method is an operator
from one such record to the next (`StartMove`, `ForceStopAndSync`, `LimitSwitchCheck360`,
`MoveStep`, `DetachStep`), so that an action composes them in the order the code calls
them. `IteratePass` is the whole of `iterateAlways`: limit switches first, then the 20 ms
gate, then motion, then release.

| Action | Code | Context |
|---|---|---|
| `HandleNewValueFromServer` | the base class's handler through `setRGBW` | loop |
| `OnFastTimer` | `onFastTimer` finding a new value, and `setRGBWValueOnDevice` | 1 ms timer |
| `IterateAlways` | `iterateAlways` | loop |
| `StopAction` | `handleAction` in roller mode | any |
| `SaveState`, `Restart` | `onSaveState`; `onLoadState`, constructor, `onInit` | loop, power |
| `LimitSwitchChange`, `TimePasses` | the world | |

`horn` is not a variable of the program: it is where the motor stands, that is, the last
pulse it received, and it survives a restart. The timestamps of the code are kept as the
time elapsed since, saturated at `ClockCapMs`: a move lasts at most `TransitionTimeMs` and
a release waits for `DetachDelayMs`, so beyond the cap no comparison changes.
The Servo library is external; the model lets `attach` emit no pulse before the first
`writeMicroseconds`. `Percents` of the 360 run holds 1, what the server sends to switch on
a channel of relay type, and 0 and 100.

A channel without a GPIO is left out (every method returns at once), and so are the actions
ON, OFF and TOGGLE of the base class, which nothing in the GUI connects to a servo.
`handleAction` takes actions 12 and 3 for a stop; the model takes its word for it.

`channelValue` is what the channel keeps: the byte `value[0]` for a dimmer or a switch, an int32
in `value[0..3]` for a roller. There `sendAckToCloud` declares the percentage `double`, so
`setNewValue(percentage, 0.0)` takes the overload for temperature and humidity
(`channel.cpp:175`), which stores `percentage * 1000`. `HornMatchesCloud` is about that number
and says nothing about a reader of `value[0]` alone, such as the channel's own
`getValueClosingPercentage` (`channel.cpp:696`), or the server of which the comment at
`SuplaServoDimmer.cpp:190` says it reads `value[0]`: such a reader gets the low byte of the
thousandths, 160 for 100 %, and not the place of the horn.

### Relay and the code

`function`, `on`, `durationMs`, `storedMs` are the members of the code; `elapsedMs` is
`millis() - durationTimestamp`. `savedFunction` is the configuration file, `saved` the two
values in state storage: a duration and a byte of flags. `TurnOn`, `TurnOff` and `Toggle`
are the methods; `TurnOn` takes the function and the stored duration as parameters because
two callers change the stored duration for one call and put it back.

`iterateAlways` is two actions: `IterateAlways` sees that the countdown is over,
`ToggleExpired` toggles. In between the 10 ms timer may run a button, and nothing else:
the requests, configurations and saves are guarded by `~expired`, since they run in the
loop as well. Power may be lost there too. `exempt` is a history variable: the present
state was asked for without a timer (a staircase request of duration 0,
`TURN_ON_WITHOUT_TIMER`), or dates from a time when the channel had no function
(`setAndSaveFunction` does not switch such a relay off). One function stands for each kind:
`power` for the plain ones, `gate` for the four impulse ones.

Left out: the overcurrent cut-off and the minimum duration (the GUI never sets either), the
HVAC aggregator, and the report of the remaining time to the server.

### WearLevelSector and the code

The program is a list of flash operations, and power may fail between any two of them:
`step` says where it is. `Boot`, `FirstBoot`, `LoadState`, `DropState` are the start
(`loadPreambles`, `prepareLoadState`, `finalizeSizeCheck`); `SaveState` to `WriteFailed` are
`finalizeSaveState` (next slot, erase, write, read back, try again); `WriteConfig` to
`WriteBackupTag` are `writeSectionPreamble`, which rewrites the main copy of the directory
and then the backup. The flash is external: `Program` only clears bits, so a word written
over another is neither of the two (`Dirty`); `EraseSector` erases a whole sector. A bitmap
byte is the number of its zero bits. `SaveState` happens only when something differs, since
a save that changes nothing writes nothing.

`StateRegister` is the promise: a state is kept, a save commits at one instant, a power
loss in the middle of one may lose the kept state but never brings back an older one, and
bytes that nobody saved are loaded only where nothing was kept yet (the first save writes
the size of a slot before the bitmap). `KeepsPromise` is its specification with `kept` mapped
to what a restart would load now, computed from the flash (`Kept`). Reading the slot at boot
does not check its checksum: the directory alone says what is loaded, so the refinement
rests on `BitmapNamesSlot`.

The GUI itself keeps its state in the simple layout, which writes in place; this one is
used by the library's ESP-IDF port.

### ChannelConfig and the code

`channel` is the record of the members of `ElementWithChannelActions` with the channel's
keys in the store (`stored`), `file` the committed configuration file. Each method is an operator on
it. The server is external: it keeps the configuration, sends every part after a
registration, then `ChannelConfigFinished`, and answers `setChannelConfig` with success or
refusal; the two queues are the connection, which drops what is in them when it is lost.

`style` is the class of the channel. In `BinaryBase` a setter triggers the sending of its
part (`"trigger"`); in `GeneralPurposeChannelBase` it marks a local change for the next
registration (`"pending"`). A part of the server's may be empty or of a wrong size, or be
applied only in part and sent back (`Incomplete`, `Completed`): `BinaryBase` keeps a field it has
set when the server's is 0, and `GeneralPurposeChannelBase` sends its own defaults back.

The code loses local changes in several cases. History variables name them, so that the
properties can say where they do not hold:

- `spoiled`: in this session a change on either side came before all was at rest, the server
  refused a part, or the device gave one up. The attempts are set back at registration, at
  `ChannelConfigFinished`, between the parts of one exchange and when one is given up, not by
  the last result of an exchange, so that a fourth change in a session may be given up unsent.
- `unsent`: a part changed in this session, at rest, in the pending style. There is nothing
  `receivedConfigTypes` lacks, so `iterateConfigExchange` clears the flag without sending
  (`element_with_channel_actions.cpp:509-514`): device and server differ until the next change.
- `owed`, `broken`, and `Due` defined from them: a part changed offline which the server has
  not got (`owed`), and an exchange of such parts that ended without success (`broken`). In the
  trigger style a change made offline leaves `ResendConfig`, in which the server's part is
  applied over it at the next registration (lines 295-314 and 385-386), unless a restart comes
  between that reads the stored flag as `LocalChangePending`. In the pending style the same
  happens once `ChannelConfigFinished` has replaced `LocalChangePending` by `ResendConfig` and the
  connection breaks before every part is confirmed. `Due` leaves both out; `OfflineChangeWins`
  does not, and is violated (finding 5).
- `orphaned`: the function was taken away with the flag stored.

A change whose last word a power loss took before the file was written is owed no longer, nor is
one that a later change of the same part on either side replaces while the device is connected, or
one of a channel whose function the user changes or has taken away.

Left out: a weekly schedule accepted unseen, a send that fails at once, the device's
configuration (`remote_device_config.cpp`).

### RollerShutter and the code

`rs` is the record of the members and the two relays; `OnTimer` is one call of `onTimer`
after one period: the pause, the stop, then one of calibration, move, or move without
calibration, then the timeout, in the order of the code. Commands and configurations only
set what the timer reads, as in the code. `shutter` is the real shutter, from 0 to `Way`, in a
unit of which it goes a whole number in a millisecond either way. `trusted`, `skipped` and
`drift` are history and compare it with the computed position. A pass that takes a request does
not measure, so a stop or a new request loses up to the time since the last pass (`skipped`
periods); `drift` adds these up with the rounding of moves and restarts, and is 0 again when the
position and the shutter meet at an end, or a calibration is over.
The conversion of a negative time (a move up from an unknown position) is undefined in C++;
every outcome leads to the same position. On the way up the code subtracts a double and rounds
the difference down (`roller_shutter.cpp:489`) where the model rounds the distance: the two are
at most a hundredth of a percent apart.

Left out: tilt, time margins other than the device's own, shutters that calibrate
themselves, comfort positions; buttons that step through up, stop and down issue the same
commands. Times are never 0 in the runs once set: the server that takes them away in
mid-move leaves a motor without a timeout (hazards).

### Button and the code

`input` is `ButtonState`, `count` the counters of `Button`, `enabled` the handlers of
`LocalAction` that are enabled, as pairs of client and event. `OnTimerEdge` and
`OnTimerQuiet` are the two halves of `onTimer`; `HandleChannelConfig` is the configuration of
the action trigger, which enables and disables handlers (`ParseActiveActionsFromServer`, in the
order of the code). The GUI stores no state of action triggers, so after a restart nothing is
active until the server says so. `gesture` is history: what the user did since the last rest,
and what came of it.

`localEvent` is what the relay behind the button listens to. `HoldRelease` stands for the three
events of a blind with tilt (`Blind`), for which `setupButtonActions` wires a step to `ON_CLICK_1`, a
move to `ON_HOLD` and `STOP` to `ON_HOLD_RELEASE` (`roller_shutter_interface.cpp:1276-1284`,
`1304-1313`); it is the library's wiring of a shutter's own buttons, while the GUI wires its
shutters' buttons to presses itself (`SuplaDeviceGUI.cpp:587-618`). When the server takes `ON_HOLD`
away, `ON_HOLD_RELEASE` goes with it, and both come back together (`OtherClients`,
`action_trigger.cpp:273-275`, `290-292`). A configuration that does so in mid-hold takes the
release from a blind that is moving, and letting go of the button does not stop it; `taken` marks
such a gesture.

Left out: motion sensor and central buttons, conditional events, the configuration button,
disabling a button, the MQTT modes of a trigger, and the queue of actions on its way to the
server.

## Runs

| Run | Question | Instance | Result |
|---|---|---|---|
| `servo180` | Is a 180 degree servo safe, smooth, honest and released in the end? | roller, inverted, 2 positions, sweep of 60 ms, steps of 20 ms, restarts at rest | holds, 43,466 states |
| `servo360` | Is a continuous motor watched, stopped at its limit and by OFF? | switch, upper limit switch, steps of 10 ms, power loss at any time | holds, 229,332 states |
| `servo360_roller` | ... also when it moves a roller by time? | roller, two limit switches | violated: see findings |
| `servo180_switch` | Does a restart at rest leave a servo without a jerk? | inverted switch | violated |
| `relay` | Do relay, countdown and stores stay together? | all four kinds of function, 2 durations, defaults 3 and 1 | holds, 14,548 states |
| `relay_function_lost` | Is what is resumed after a restart a countdown? | power and staircase | violated |
| `wear_leveling` | Is state storage an atomic register? Does a save end? | 2 states, 3 data sectors of 7 words, slots of 2 or 3 words, 3 faults | holds, 810,521 states |
| `channel_config` | Do device and server end equal after an undisturbed exchange? Is a marked change kept until then? | 2 parts, 2 values and one the device completes, 3 changes, 1 refusal, 1 lost connection or restart, 4 of all, both styles | holds, 1,701,831 states |
| `channel_config_broken` | Is a change made offline kept until the server has it? | the style that marks its changes | violated |
| `roller_shutter` | Is the motor paused, stopped, where the device thinks and where it was sent? | 3 positions, 2 closing times, 3 requests, 1 restart | holds, 811,198 states |
| `roller_shutter_unknown` | Does a request to open open? | the same | violated |
| `button` | Is every gesture counted right and consumed once, and a hold released? | relay or blind, 2 clicks, bounces, 7 sets of events the server may take | holds, 517,766 states |

Properties of the servo:

- `MechanicalRange`: no pulse outside `MinUs .. MaxUs`. The interpolation of a late pass is
  what could break it.
- `SmoothMotion` (180 degrees): a step moves the horn no further than the configured speed
  allows in the time since the last pass or the start of the move. It ties the pulse to the
  one before it over commands in mid-move, stalled loops, stops and restarts.
- `HornMatchesCloud`: with the move over, the number the channel of a roller keeps
  (thousandths of a percent) is where the horn is, two percent of rounding granted.
- `MotorIsWatched`: a continuous motor that turns is one the loop still compares with the
  limit switches in the direction it turns, or whose stop is due.
- `LimitStopsMotor`: a full loop pass with a closed switch does not leave the motor driving
  into it.
- `PinReleased`: when commands and stops cease, the pin is released for good.
- `OffStopsMotor`: an OFF that stays in force stops the motor.

Properties of the relay: `TimedRelay` (under a timed function, on and counting down go
together), `CountdownEnds`, `StoresCatchUp`, `RestoredCountdown`.

Properties of state storage:

- `KeepsPromise`: the flash, at every instant and seen through the code that would boot from it,
  is an atomic register.
- `BitmapNamesSlot`: between saves the bitmap names the slot the program holds for the current
  one, after wraps, retries and restarts.
- `SaveEnds`: the loop that looks for a good slot ends.

Properties of the configuration exchange:

- `SettledAgrees`: with the exchange over in a session that is not `spoiled`, device and server
  hold the same, whatever earlier sessions left behind, except the `unsent` parts.
- `SettledForgets`: by then every part that is `Due` has reached the server, and no stored flag is
  left that would let the device overrule the server after a later restart, unless `orphaned`.
- `OfflineChangeKept`: nothing replaces a part while it is `Due`, not even over restarts.
- `OfflineChangeWins`: the same for every part that is `owed`; false.
- `ExchangeEnds`: when changes and losses cease, the exchange ends.

Properties of the shutter: `ReversalPause`, `PositionTracksShutter` (the position of a shutter
at rest is where it is, but for half a percent and what earlier moves and restarts have added:
after one move from an end a millisecond of the way, nothing at an end both have reached),
`MotorStops`, `ArrivesAtTarget` (a reversal does not forget the target), `OpenNeverCloses`.

Properties of the button: `ClicksCounted` (a click event tells how often the user pressed, and
is one for long clicks exactly after a hold), `OneConsumer` (a complete gesture of clicks, without
a hold and with no configuration arriving during it, has the effect the configuration asks for,
on the relay or on the server), `HoldIsReleased` (a blind that was told of a hold is told of its
release when the button is up, unless the gesture was `taken`), `GestureEnds`.

**Bounds.** Time is discrete, in steps that divide the 20 ms gate of the loop; the sweep is
three passes long, so that a command can come at the start, in the middle and at the end of
a move, and a stalled loop can skip any number of passes. The percentages are the ends of
the range (or what a switch receives) and a value between them. One switch per direction is
enough, as they are independent of the history. For the relay a staircase of 3, an impulse
of 1 and requested durations of 0 and 2 make all of "shorter", "longer" and "not given"
possible; the clock stops at 4, beyond every duration that can be counted down. The
proofs show the safety properties they cover do not depend on these values.

Three sectors of data and a slot size that does not divide a sector make slots that cross a
sector border, a ring that wraps, and retries over more than one sector; three faults
allow a bad word, a power loss and a second one during the recovery. Four-sector storages
(two of data) and slots above half a sector are excluded by `SectorAssumption`: there a run of
bad writes may erase the sector of the slot the directory names. `LossBetweenBytes = FALSE`
excludes a power loss between two bytes of one bitmap update (hazards).

Two parts of configuration are the fewest with an order of sending; three changes allow one
offline, one on the server and one during the exchange, and four events in all a refusal or a
loss besides them. The shutter's closing takes eight
periods, its pause two, so that requests can come in every phase of a move, a pause or a
calibration; three requests make a move, its reversal and a stop or configuration possible.
A click is over after four periods of the button's timer, a hold is reported after six: the
GUI's defaults have the same order. With `HoldMs` not above `MulticlickMs` a hold itself
would count as a long click.

**Fairness.** Weak fairness of `OnFastTimer`, `IterateAlways` and `TimePasses`: the
timer is a hardware timer, `loop()` calls `iterateAlways` of every element on every turn,
and `millis()` advances. For the relay also of `ToggleExpired` (the same turn of the loop)
and of `OnSaveState` and `CommitConfig`, called from the loop on their periods. Nothing is
assumed of commands, buttons, stops, limit switches or power loss. The liveness properties
of the relay assume that commands and restarts cease, `PinReleased` that commands and stops
do: anybody who keeps pressing keeps the device busy.
State storage: one condition for all its steps, since it is a sequential program that runs on
while it has power. The exchange: each of the loop's steps, the receipt of a message, the
commit of the file, a new registration and the server's answer; not changes, refusals or
losses, which are bounded and so cease. Shutter and button: the timer.

`CHECK_DEADLOCK` is off for the runs of the exchange and of the shutter only: with the
changes and requests used up an idle channel or shutter has nothing left to do.

## Findings

1. **A timed roller keeps turning** (`servo360_roller`). In `iterateAlways` the pulse to
   write is set before the timed stop is made and written after it. If the time of the move
   is over at its first pass (requests of one half and then 0 from brightness 0 give a
   duration of 0; a stalled loop does the same), the stop pulse is followed by the moving
   pulse, with `_isMoving` false. No later pass stops the motor.
2. **An inverted 180 degree switch jumps after every restart** (`servo180_switch`): the first
   conversion, `calculateMicroSec`, ignores the inversion in relay mode, the later ones do not.
3. **A staircase length resumed as a countdown** (`relay_function_lost`): the function and
   the duration are in two stores written at different times, and the flags that would tell
   are not looked at.
4. **A request to open drives the shutter down** (`roller_shutter_unknown`): a restart with a
   calibration pending forgets the calibration but not that the position is unknown, and an
   unknown position of -1 lies "above" open.
5. **A change made offline is overwritten** (`channel_config_broken`): `ChannelConfigFinished`
   turns `LocalChangePending` into `ResendConfig`, since the parts the device ignored count as
   missing; a connection that breaks before they are confirmed leaves `ResendConfig`, and at the next
   registration the server's part is applied over the change and saved. The trace has one
   change, one lost connection and nothing else.

Met while modelling, and kept in the model without a run of their own: a servo that loses power
away from the saved position starts its next move with a jump from there, since the first value
after a restart is taken for the place of the horn (`SuplaServoDimmer.cpp:272`; with
`PowerLossAnytime = TRUE` TLC finds `SmoothMotion` violated); `value[0]` of a roller is no percentage
(`SuplaServoDimmer.cpp:198`, see above); changes made offline in the trigger style are overwritten,
and changes of the pending style made at rest not sent, as described above; a configuration in
mid-hold that takes the hold leaves a moving blind without its stop; the backup copy of the
directory in flash never gets its preamble (`state_wear_leveling_sector.cpp:376`) and
cannot be loaded; a bitmap update interrupted between two bytes may name a wrong slot
(line 345); attempts to send a configuration are counted over several changes
(`element_with_channel_actions.cpp:522`); `motorUpsideDown` changed in mid-move swaps the
relays without a pause (`roller_shutter_interface.cpp:819`).

## Proofs

Assumed: `ServoAssumption` and `SpecAssumption` (the range is ordered, with the stop pulse more
than 40 us from either end; speeds positive; a clock long enough), `RelayAssumption` (default
durations positive), `ShutterAssumption` (period, pause and the default timeout positive; one
of the closing times is the longest, as they have 32 bits), `SectorAssumption` (three data
sectors or more, slots of at most half a sector, a bitmap with a bit for every slot, no slot
size that looks like erased flash), `ButtonAssumption` (periods positive, the server's events
those offered), `ConfigAssumption` (a finite, non-empty set of parts, numbered as in the
protocol; valid contents told from empty and rejected ones). TLC evaluates them on every run.
The web form does not enforce the order of the servo's three pulse widths: the theorems are
about configurations that do keep it.

- `ServoTypes`, `ServoStaysInRange`: `Spec => []TypeOK` and `Spec => []MechanicalRange`, for
  both kinds of servo and all modes. `MechanicalRange` speaks of the wire only. The
  invariant `RangeInv` adds that every pulse the members remember (start, current, target)
  is in the range; the horn too. The steps rest on lemmas about the arithmetic:
  `MapUp`/`MapDown` (Arduino's `map` stays inside its output range), `PulseInRange`
  (every brightness gives a pulse in the range, deadband included), `InterpolatedInRange`
  (a pulse on the way lies between start and target). Each method keeps a safe record safe,
  and each action is a composition of methods.
- `SwitchIsWatched`, `SwitchStopsAtLimit`: `MotorIsWatched` and `LimitStopsMotor` for a
  continuous servo used as a switch (`Type = 1`, `ChType = 0`). Neither is inductive: a
  command sets a target while an older pulse is on the wire, and a pulse is only written
  when it differs from the last one written. `Watched` ties the wire to
  `lastWrittenMicroSec`, and both to the two pulses a switch can be told to give. The
  roller mode is excluded because there the property is false (finding 1).
- `RollerReportsItsHorn`: `HornMatchesCloud` for a 180 degree servo. It is not inductive: in
  mid-move the channel already reports the target, and a pass leaves out a pulse it believes
  to be on the wire. `Tied` says that what is on the wire, and what was last written, is the
  current pulse, and that a servo without a pin is silent and at rest; `Told` that the
  channel reports the target of a move, or the pulse of a servo at rest. What is left is
  arithmetic: a brightness `b` goes to a pulse and comes back in `b - 4 .. b + 4`
  (`BackFromTarget`, for any range of 82 us and more, inverted or not), and two such
  brightnesses are at most two percent apart (`PercentsClose`), in the thousandths the channel
  keeps.
- `HornKeepsTheSweep`: `SmoothMotion` compares two states and needs an invariant about how far
  along its move the horn is. `OnWay` says that the start, the current pulse, the duration
  and the clocks agree: the pulse is the one the last pass, `sinceIterate` ago, or the start
  computed from them. `Placed` says where the horn is: at the current pulse once the first
  value has come, and before it where that value will put the members. `Speed` is the bound: from
  `q` to `(a * m) \div d` microseconds, with `d = (m * t) \div r`, is no more than the sweep
  `r` covers in the time `t` at its rate in the time gone, one millisecond and one microsecond
  granted. Hypotheses: not in relay mode, and restarts only of a servo at rest; without the
  first `servo180_switch` shows the property violated, without the second TLC does with
  `PowerLossAnytime = TRUE`.
- `RelayTypes`, `RelayIsTimed`: `TimedRelay` needs that a timed function always has a
  stored duration (`storedMs > 0`), or switching on would start no countdown; the
  defaults at boot and at a change of function and the rejection of a configured time of 0
  are what keeps it so.
- `MotorInvariant`, `RelaysExclusive`, `PauseBeforeReversal`: `ReversalPause` follows from
  `MotorInv`, which ties the relays to the direction (through `motorUpsideDown`), the time since
  a relay was on (`rest`) to the pause counter, and the relay that was on last to the
  direction. Every method of `onTimer` is shown to do one of three things to the motor
  (`Drives`): leave it alone, stop it with the pause started, or start it in a direction
  it was not driven against; `PassDrives` composes them.
- `OfflineChangesKept`, `SettledForgotten`, `ExchangeTypes`, with the exceptions the properties
  name (`Due`, `spoiled`, `orphaned`): nothing the channel's members hold alone keeps a change made offline; what is in the two queues matters. `Inv` says
  that while `ChannelConfigFinished` is under way (`Awaited`) no answer is, that a part the
  server sends after a registration comes before it, and that the device then is in
  `LocalChangePending`, in which it ignores such a part (`QueueInv`, `KeptInv`). After
  it, a part that is due is one the server has not confirmed (`Due \cap received = {}`), hence
  `received # UsedConfigTypes`, and so neither `ChannelConfigFinished` nor an answer
  lets the device stop sending. `FlagInv` ties the stored flag to the state and a
  refusal, known or on its way, to `spoiled`.
- `SettledAgreed`, for the parts that are not `unsent`: agreement is only reached at the end of an
  exchange. What holds all along, in a session that nothing disturbed, is that every message tells what its receiver is to
  hold in the end (`AgreeInv`): a part from the server is what the server keeps, and either
  `ChannelConfigFinished` comes behind it or the device is at rest; a part from the device is
  what the device holds; an answer, or a mark in `receivedConfigTypes`, stands for a part
  both hold or that is on its way. `OneWay` says that parts never travel in both directions,
  and `RestsWithAll` that a device at rest has a mark for every part, which gives the
  theorem.
- `ShutterTypes`: the position of a shutter is interpolated in hundredths of a percent from
  the time since the start of the move; `DataInv` adds the position at that start
  (`before`), so that an interpolation that would pass the end of the travel is cut off
  there. Times of any length are covered, products included.
- `PositionIsKept`: `PositionTracksShutter` speaks of a shutter at rest, and a move is what puts
  it there. `PositionInv` has three parts. `SettingsInv`: the times and a pending calibration go
  together, and a calibration in progress runs longer than the whole way (`Orderly`). `RunInv`:
  a shutter whose motor runs has gone at least as far as the clock of the move says, or is at
  the end, which is why a calibration ends where the position is then said to be. `TrustInv`:
  with the right settings the shutter of a move is where the time puts it, but for the drift
  (`Course`), and the position is no further from it than the rounding of a move and the periods
  that were not measured (`Follows`). The rest is arithmetic: the interpolated position and the
  time it stands for (`MovedIs`, `MeasuredTracks`), and how the bounds grow with a pass, a stop
  and a restart. No bound on the number of requests or restarts is used. The attempt
  corrected the property: at first it granted the rounding of one move and of one restart,
  however many came before, which holds in the small instance and fails with more restarts, as
  each rounds what is stored and the move that follows starts from there.
- `SlotInvariant`, `StorageTypes`: `SlotInv` says for each step of the program what the
  steps before have established (`SetUp`, `Checking`, `Running`, `AtStep`): while a save runs
  the current and the last slot lie in the data sectors, and a bit of the bitmap is cleared
  only for a slot of the size it is kept with (`BitsFit`), so that the next boot reads
  inside them.
- `BitmapNamesLastSlot`, `StorageKeepsPromise`: `KeepInv` follows a save through the flash.
  `Searching` bounds the slots tried: after the last one in its sector, or the one that ends
  in the next sector, or the start of the ring, so that no erase and no write touches the
  slot the directory names. `Rewriting` follows the directory, copy by copy and byte by byte:
  the bitmap is the old one with the new one written over it from the top. For the refinement
  each of the thirteen steps and a power loss at each is shown to leave `Kept` alone (`Quiet`),
  to commit, or to lose the kept state in the middle of a save. Hypothesis:
  `~LossBetweenBytes`. With it TRUE the bitmap may name a wrong slot (hazards), and TLC
  finds `BitmapNamesSlot` violated.
- `HoldsAreReleased`: `HoldInv` adds to `HoldIsReleased` that while a blind is held moving, and the
  hold not taken from it, the button is monostable, the hold counter positive and the click
  counter at most 1, which is the condition under which a release is reported, and that the
  server has not activated the hold; `HandlersFollowConfig` then gives that the blind still
  listens to the release.
- `HandlersFollowConfig`: `parseActiveActionsFromServer` edits the enabled handlers in four
  steps, some of which undo others. `ListensAsTold` computes the outcome from the new active
  set alone (`RelayListens`, `TriggerListens`): nothing of an earlier configuration is left, and a
  blind listens to the release exactly while it listens to the hold.
- `ButtonTypes`, `ClicksAreCounted`: `RestInv` (at rest both counters are 0, but for the
  hold counter of a button that is held) and `ClicksInv` (during a gesture the click counter
  is the number of presses, one more than anybody waits for, or reported). No relation
  between the times is assumed.
- `OneConsumerIsServed`: `LocalInv` (while nothing is active the relay was told of every
  press), `CloudInv` (otherwise nobody is told before the report, and with it whoever the
  configuration names), and `ReportDue`: once the highest click is counted the next call of the
  timer reports it. Hypothesis `PressesApart`: multiple clicks are counted at all
  (`MulticlickMs > 0`), and no call of the timer is further than the debounce time from the
  one before it. The code has 10 ms (`timer.cpp:94`, `timer.cpp:146`) and 50 ms
  (`simple_button.h:55`; the GUI never changes it). Both parts are needed: TLC finds
  `OneConsumer` violated with a debounce time of 0, where two edges in successive calls count
  one click beyond the highest and nobody is told, and with `MulticlickMs = 0`, where
  clicks are never reported.

Only model-checked: the liveness properties (`PinReleased`, `OffStopsMotor`,
`CountdownEnds`, `StoresCatchUp`, `SaveEnds`, `ExchangeEnds`, `MotorStops`,
`ArrivesAtTarget`, `GestureEnds`), which need fairness. Every safety property of a passing run,
action properties and the refinement included, is proved.

## Plan

Done: `ServoDimmer`, `Relay`, `WearLevelSector` with `StateRegister`, `ChannelConfig`,
`RollerShutter`, `Button`. Left, in this order:

1. `ConfigFile`: main and backup file, commit, crash, load; a second refinement of a register
   that holds the last or the last but one commit.
2. `DimmerCommands`: the request path of RGBW and dimmer (last brightness, toggle, auto-iterate,
   fade), as the front end of `ServoDimmer`.
3. `Srpc`: registration and the delivery of the last channel value, composed with
   `ChannelConfig`.
4. Finer steps for the ESP32, where the timers are tasks: a loop pass of the servo, `turnOn`
   of the relay and `setTargetPosition` of the shutter split where the members are read.
5. An abstract timed switch that `Relay` refines.

## Not modelled

Heating and valves (a subsystem of its own, untouched by this fork), MQTT
(formatting over an external client), sensors, displays, update and web pages (input and
output over external libraries), the shell that builds the elements from the
configuration once at start-up, vendored drivers. Within the modelled parts: see "and the
code" of each module.
