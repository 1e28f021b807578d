-------------------------------- MODULE Button --------------------------------
(* A button with the relay or the blind it controls, called its relay below,   *)
(* and the action trigger that offers its events to the server                 *)
(* (Supla::Control::Button, ButtonState, ActionTrigger).  The 10 ms timer       *)
(* filters the pin, counts clicks, notices holds and runs the actions of        *)
(* whoever is listening; a configuration from the server, handled by the loop,  *)
(* decides who is.                                                             *)
(* The kind of button and the events its relay listens to are fixed when the   *)
(* elements are built.  The GUI stores no state of action triggers: after a    *)
(* restart nothing is active until the server says so.                         *)
EXTENDS Integers

CONSTANTS
    Clicks,         \* multiple clicks offered to the server, 5 in the code
    ActiveSets,     \* what the server may activate
    Periods,        \* time between two calls of the timer
    MulticlickMs, HoldMs, RepeatMs, DebounceMs, FilterMs

Plain(name) == <<name, 0>>
Press == Plain("press")
Release == Plain("release")
Change == Plain("change")
Hold == Plain("hold")
HoldRelease == Plain("hold release")
Click(n) == <<"click", n>>
LongClick(n) == <<"long click", n>>

Events == {Press, Release, Change, Hold, HoldRelease}
            \cup {Click(n) : n \in 1 .. 10} \cup {LongClick(n) : n \in 0 .. 10}

ASSUME ButtonAssumption ==
    /\ Clicks \in 1 .. 5
    /\ ActiveSets \subseteq SUBSET ({Press, Release, Hold} \cup {Click(n) : n \in 1 .. Clicks})
    /\ Periods \subseteq Nat \ {0}
    /\ {MulticlickMs, HoldMs, RepeatMs, DebounceMs, FilterMs} \subseteq Nat

Never == -1          \* lastStateChangeMs = 0: no change since the start
Reported == 255      \* clickCounter of a gesture already reported

Greatest(a, b) == IF a > b THEN a ELSE b
Least(a, b) == IF a < b THEN a ELSE b

\* Times are compared up to here, two repeats of a hold included.
ClockCapMs == Greatest(MulticlickMs, HoldMs + 2 * RepeatMs) + 1
InputCapMs == Greatest(DebounceMs, FilterMs) + 1

Later(ms, d) == IF ms = Never THEN Never ELSE Least(ms + d, ClockCapMs)

VARIABLES
    bistable, localEvent,   \* the kind of button, and what its relay listens to: an
                            \* event, or HoldRelease for the three events of a blind
    pin,          \* the level of the pin is the one of a press
    input,        \* ButtonState: the level taken for true, a candidate, two clocks
    count,        \* Button: since the last change, clickCounter, holdSend
    enabled,      \* the handlers that are enabled, as <<client, event>>
    active,       \* activeActionsFromServer, as events
    emitted,      \* history: the events of the last call of the timer
    gesture       \* history: what the user did since the last rest, and its effect

config == <<bistable, localEvent>>
vars == <<bistable, localEvent, pin, input, count, enabled, active, emitted, gesture>>
-------------------------------------------------------------------------------
(* Handlers.                                                                   *)

\* A blind with tilt steps on a click, moves on a hold and stops on its release.
Blind == localEvent = HoldRelease

LocalEvents == IF Blind THEN {Click(1), Hold, HoldRelease} ELSE {localEvent}

\* These local events give way to a single click when the server is interested.
Switching == localEvent \in {Press, Release, Change}

Registered ==
    {<<"relay", e>> : e \in LocalEvents}
      \cup (IF Switching THEN {<<"relay", Click(1)>>} ELSE {})
      \cup {<<"at", e>> : e \in {Press, Release} \cup {Click(n) : n \in 1 .. Clicks}
                                  \cup (IF bistable THEN {} ELSE {Hold})}

\* The events the server may take away from the relay.
DisablesLocalOperation == {e \in {Hold, Click(1)} : <<"relay", e>> \in Registered}

MaxMulticlickValueConfigured ==
    CHOOSE n \in 0 .. Clicks :
        /\ n = 0 \/ \E h \in enabled : h[2] = Click(n)
        /\ \A m \in n + 1 .. Clicks : \A h \in enabled : h[2] # Click(m)

RepeatOnHoldEnabled == RepeatMs > 0 /\ (Hold \notin active \/ RepeatMs >= 1000)

\* Handlers of others that are switched together with the one of event e.
OtherClients(e) ==
    Registered \cap {<<"relay", x>> : x \in {e} \cup (IF e = Click(1) THEN {Change} ELSE {})
                                                \cup (IF e = Hold THEN {HoldRelease} ELSE {})}

\* The relay listens to its own event, or to a single click.
LocalHandlers(on, en) ==
    IF ~ Switching THEN en
    ELSE IF on = {} THEN (en \ {<<"relay", Click(1)>>}) \cup {<<"relay", localEvent>>}
    ELSE (en \ {<<"relay", localEvent>>}) \cup {<<"relay", Click(1)>>}

TriggerHandlers(on, en) ==
    {h \in en : h[1] = "relay"} \cup {h \in Registered : h[1] = "at" /\ h[2] \in on}

\* What was enabled again with the others and is not to be.
MadeSureDisabled(on) ==
    IF ~ Switching THEN {}
    ELSE {<<"relay", IF on = {} THEN Click(1) ELSE localEvent>>}

\* As it would be if the last step of the loop were forgotten.
GiveBackAll(on, en) == en \cup UNION {OtherClients(e) : e \in DisablesLocalOperation \ on}

GiveBack(on, en) == (en \cup UNION {OtherClients(e) : e \in DisablesLocalOperation \ on})
                      \ (IF Click(1) \in on THEN {} ELSE MadeSureDisabled(on))

TakeAway(on, en) == en \ UNION {OtherClients(e) : e \in DisablesLocalOperation \cap on}

ParseActiveActionsFromServer(on, en) ==
    TakeAway(on, GiveBack(on, TriggerHandlers(on, LocalHandlers(on, en))))
-------------------------------------------------------------------------------
(* The pin, filtered.                                                          *)

\* The candidate of a new level is started, kept long enough, or dropped.
Waiting(in, d) ==
    [in EXCEPT !.debounceMs = Least(@ + d, InputCapMs), !.filterMs = Least(@ + d, InputCapMs)]

Update(in) ==
    IF DebounceMs > 0 /\ in.debounceMs <= DebounceMs THEN in
    ELSE IF pin = in.pressed THEN [in EXCEPT !.candidate = FALSE]
    ELSE IF FilterMs > 0 /\ ~ in.candidate THEN [in EXCEPT !.candidate = TRUE, !.filterMs = 0]
    ELSE IF in.filterMs > FilterMs
         THEN [in EXCEPT !.pressed = pin, !.candidate = FALSE, !.debounceMs = 0]
    ELSE in
-------------------------------------------------------------------------------
(* Clicks and holds.  The counters are [sinceMs, clickCounter, holdSend].      *)

\* As it would be if only a hold within the multiclick time were released.
EdgeEventsShortHold(c, pressed) ==
    {Change, IF pressed THEN Press ELSE Release}
      \cup (IF ~ pressed /\ c.clickCounter = 1 /\ c.holdSend > 0 THEN {HoldRelease} ELSE {})

EdgeEvents(c, pressed) ==
    {Change, IF pressed THEN Press ELSE Release}
      \cup (IF ~ pressed /\ c.clickCounter <= 1 /\ c.holdSend > 0 THEN {HoldRelease} ELSE {})

Counts(pressed) == pressed \/ bistable

AfterEdge(c, pressed) ==
    [c EXCEPT !.sinceMs = 0,
              !.clickCounter = IF MulticlickMs > 0 /\ Counts(pressed)
                                     /\ @ <= MaxMulticlickValueConfigured
                               THEN @ + 1 ELSE @]

\* As it would be if a repeated hold were not limited.
HoldDueAgain(c) == c.clickCounter <= 1 /\ HoldMs > 0 /\ c.sinceMs > HoldMs

HoldDue(c) ==
    /\ c.clickCounter <= 1 /\ HoldMs > 0
    /\ c.sinceMs > HoldMs + c.holdSend * RepeatMs
    /\ RepeatOnHoldEnabled \/ c.holdSend = 0

\* As it would be if a long press still counted as a click.
AfterHoldingStillCounted(c) == [c EXCEPT !.holdSend = IF HoldDue(c) THEN @ + 1 ELSE @]

AfterHolding(c) ==
    [c EXCEPT !.holdSend = IF HoldDue(c) THEN @ + 1 ELSE @,
              !.clickCounter = IF c.sinceMs > MulticlickMs THEN 0 ELSE @]

\* As it would be if the last gesture were only looked at when it is complete.
GestureOverLate(c) == MulticlickMs > 0 /\ c.clickCounter = MaxMulticlickValueConfigured

GestureOver(c) == MulticlickMs > 0 /\ (\/ c.sinceMs > MulticlickMs
                                       \/ c.clickCounter = MaxMulticlickValueConfigured)

ClickEvents(c) ==
    IF c.holdSend = 0
    THEN {e \in {Click(c.clickCounter)} : c.clickCounter \in 1 .. 10}
    ELSE {e \in {LongClick(c.clickCounter)} : c.clickCounter \in 0 .. 10}

AfterReport(c) ==
    IF c.sinceMs > MulticlickMs THEN [c EXCEPT !.clickCounter = 0, !.holdSend = 0]
    ELSE [c EXCEPT !.clickCounter = Reported]

\* What one call of onTimer does when the pin shows no change.
QuietEvents(c, pressed) ==
    IF c.sinceMs = Never THEN {}
    ELSE IF ~ bistable /\ pressed THEN {e \in {Hold} : HoldDue(c)}
    ELSE {e \in ClickEvents(c) : GestureOver(c)}

AfterQuiet(c, pressed) ==
    IF c.sinceMs = Never THEN c
    ELSE IF ~ bistable /\ pressed THEN AfterHolding(c)
    ELSE IF MulticlickMs = 0 THEN [c EXCEPT !.clickCounter = 0, !.holdSend = 0]
    ELSE IF GestureOver(c) THEN AfterReport(c) ELSE c
-------------------------------------------------------------------------------
(* The history of a gesture: presses that are not too long, how often the      *)
(* relay was told, which clicks the server was, whether a hold was reported,   *)
(* whether what the relay began with it goes on (holding), and whether the     *)
(* server took the hold from the relay while it did (taken).                   *)

NoGesture == [presses |-> 0, local |-> 0, cloud |-> {},
              held |-> FALSE, holding |-> FALSE, taken |-> FALSE, reconfigured |-> FALSE]

Rested(c) == c.sinceMs = Never \/ c.sinceMs > MulticlickMs

Many == Clicks + 2

\* The user is done: the button is let go of, and the time for another click is over.
Complete == ~ (input.pressed /\ ~ bistable) /\ count.sinceMs > MulticlickMs

Heard(client, events) == {e \in events : <<client, e>> \in enabled}

WithEffects(g, events) ==
    [g EXCEPT !.local = Least(@ + (IF Heard("relay", events) = {} THEN 0 ELSE 1), Many),
              !.cloud = @ \cup (Heard("at", events) \cap {Click(n) : n \in 1 .. Clicks}),
              !.held = @ \/ Hold \in events,
              !.holding = (@ \/ Hold \in Heard("relay", events))
                              /\ HoldRelease \notin Heard("relay", events)]

\* A press longer than MulticlickMs is no click: it starts the count over.
AfterLongPress(g) == [g EXCEPT !.presses = 0, !.local = 0, !.cloud = {}]

WithEdge(g, c, pressed, events) ==
    LET begun == IF Counts(pressed) /\ Rested(c) THEN NoGesture ELSE g
        counted == IF Counts(pressed) THEN [begun EXCEPT !.presses = Least(@ + 1, Many)] ELSE begun
        told == WithEffects(counted, events)
    IN  IF ~ Counts(pressed) /\ Rested(c) THEN AfterLongPress(told) ELSE told
-------------------------------------------------------------------------------
Boot(level) ==
    /\ input' = [pressed |-> level, candidate |-> FALSE,
                 debounceMs |-> InputCapMs, filterMs |-> InputCapMs]
    /\ count' = [sinceMs |-> Never, clickCounter |-> 0, holdSend |-> 0]
    /\ active' = {}
    /\ enabled' = {<<"relay", e>> : e \in LocalEvents}
    /\ emitted' = {}
    /\ gesture' = NoGesture

Init ==
    /\ bistable \in BOOLEAN
    /\ localEvent \in IF bistable THEN {Change}
                      ELSE {Press, Release, Hold, Click(1), HoldRelease}
    /\ pin \in BOOLEAN
    /\ input = [pressed |-> pin, candidate |-> FALSE,
                debounceMs |-> InputCapMs, filterMs |-> InputCapMs]
    /\ count = [sinceMs |-> Never, clickCounter |-> 0, holdSend |-> 0]
    /\ active = {}
    /\ enabled = {<<"relay", e>> : e \in LocalEvents}
    /\ emitted = {}
    /\ gesture = NoGesture

PinChanges ==
    /\ pin' = ~ pin
    /\ UNCHANGED <<config, input, count, enabled, active, emitted, gesture>>

\* The timer sees a press or a release.
OnTimerEdge(d) ==
    \E in \in {Update(Waiting(input, d))} : \E c \in {[count EXCEPT !.sinceMs = Later(@, d)]} :
        /\ in.pressed # input.pressed
        /\ emitted' = EdgeEvents(c, in.pressed)
        /\ count' = AfterEdge(c, in.pressed)
        /\ gesture' = WithEdge(gesture, count, in.pressed, EdgeEvents(c, in.pressed))
        /\ input' = in
        /\ UNCHANGED <<config, pin, enabled, active>>

\* The timer sees no change.
OnTimerQuiet(d) ==
    \E in \in {Update(Waiting(input, d))} : \E c \in {[count EXCEPT !.sinceMs = Later(@, d)]} :
        /\ in.pressed = input.pressed
        /\ emitted' = QuietEvents(c, in.pressed)
        /\ count' = AfterQuiet(c, in.pressed)
        /\ gesture' = WithEffects(gesture, QuietEvents(c, in.pressed))
        /\ input' = in
        /\ UNCHANGED <<config, pin, enabled, active>>

OnTimer == \E d \in Periods : OnTimerEdge(d) \/ OnTimerQuiet(d)

HandleChannelConfig(on) ==
    /\ active' = on
    /\ enabled' = ParseActiveActionsFromServer(on, enabled)
    /\ gesture' = IF Complete THEN NoGesture
                  ELSE [gesture EXCEPT !.reconfigured = TRUE,
                                       !.taken = @ \/ (gesture.holding /\ Hold \in on)]
    /\ emitted' = {}
    /\ UNCHANGED <<config, pin, input, count>>

Restart == Boot(pin) /\ UNCHANGED <<config, pin>>

Next ==
    \/ PinChanges
    \/ OnTimer
    \/ \E on \in ActiveSets : HandleChannelConfig(on)
    \/ Restart

Spec == Init /\ [][Next]_vars

\* The timer is a hardware timer.
FairSpec == Spec /\ WF_vars(OnTimer)
-------------------------------------------------------------------------------
\* How often a hold may have been reported: the last report was in time.
Reports == {n \in Nat : n = 0 \/ HoldMs + (n - 1) * RepeatMs < ClockCapMs}

\* Members keep their types, and a hold is not reported before its time.
TypeOK ==
    /\ bistable \in BOOLEAN /\ localEvent \in Events /\ pin \in BOOLEAN
    /\ input \in [pressed : BOOLEAN, candidate : BOOLEAN,
                  debounceMs : 0 .. InputCapMs, filterMs : 0 .. InputCapMs]
    /\ count.sinceMs \in Never .. ClockCapMs
    /\ count.clickCounter \in 0 .. Clicks + 1 \cup {Reported}
    /\ count.holdSend \in Reports
    /\ enabled \subseteq Registered
    /\ emitted \subseteq Events

\* Button::onTimer, the counting: a click event, up to the highest number anybody
\* waits for, tells how often the user pressed, and is one for long clicks if and only
\* if a hold was reported before.
ClicksCounted ==
    ~ gesture.reconfigured =>
        \A n \in 0 .. MaxMulticlickValueConfigured :
            /\ Click(n) \in emitted => ~ gesture.held /\ gesture.presses = n
            /\ LongClick(n) \in emitted => gesture.held /\ gesture.presses = n

\* parseActiveActionsFromServer and the counting: a complete gesture of clicks, with no
\* hold in it and no configuration during it, has exactly the effect the configuration
\* asks for.  The relay acts on every press while nothing is active; else the number of
\* clicks, up to the highest anybody waits for, goes to the server if it activated that
\* number, and a single click to the relay otherwise.
OneConsumer ==
    (Complete /\ ~ gesture.held /\ ~ gesture.reconfigured /\ gesture.presses \in 1 .. Clicks) =>
      IF active = {} /\ Switching
      THEN gesture.local = gesture.presses /\ gesture.cloud = {}
      ELSE LET reported == Click(Least(gesture.presses, MaxMulticlickValueConfigured))
           IN  /\ gesture.local = IF reported = Click(1) /\ Click(1) \notin active
                                    /\ localEvent # Hold THEN 1 ELSE 0
               /\ gesture.cloud = {reported} \cap active

\* Button::onTimer and parseActiveActionsFromServer, ON_HOLD_RELEASE: a blind that was
\* told of a hold, and so moves, is told to stop by the time the button is released.
\* The exception is a configuration in mid-hold that takes the hold to the server: it
\* disables the release as well, and the blind is not stopped by the button.
HoldIsReleased == Blind /\ gesture.holding /\ ~ gesture.taken => input.pressed

\* A button that is left alone comes to rest: no gesture is kept for the next one.
GestureEnds ==
    <>[](~ pin) => <>[](count.clickCounter = 0 /\ count.holdSend = 0)
================================================================================
