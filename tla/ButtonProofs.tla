----------------------------- MODULE ButtonProofs -----------------------------
(* Who listens is what the last configuration says; a blind that moves on a    *)
(* hold is stopped no later than the press ends, whatever the times and the    *)
(* configurations that leave it the hold.  The event that stops it is only     *)
(* sent when clickCounter is at most 1 and holdSend positive, two counters     *)
(* that clicks, reports and long presses change as well: the invariant says    *)
(* that they have these values during a hold.                                  *)
EXTENDS Button, TLAPS

-------------------------------------------------------------------------------
(* Who listens.  parseActiveActionsFromServer changes the handlers step by     *)
(* step; what it leaves depends on the new active set alone, not on the old.   *)

Kinds ==
    /\ bistable \in BOOLEAN
    /\ localEvent \in (IF bistable THEN {Change}
                       ELSE {Press, Release, Hold, Click(1), HoldRelease})

\* The event with which the server takes e from the relay.
TakenWith(e) == IF e = HoldRelease THEN Hold ELSE e

\* What the relay listens to while the server waits for the events of on.
RelayListens(on) ==
    IF Switching
    THEN IF on = {} THEN {<<"relay", localEvent>>}
         ELSE IF Click(1) \in on THEN {} ELSE {<<"relay", Click(1)>>}
    ELSE {<<"relay", e>> : e \in {f \in LocalEvents : TakenWith(f) \notin on}}

TriggerListens(on) == {h \in Registered : h[1] = "at" /\ h[2] \in on}

HandlersInv == Kinds /\ enabled = RelayListens(active) \cup TriggerListens(active)

\* The names of the events the relay may listen to tell them apart.
LEMMA EventNames ==
    /\ Press # Release /\ Press # Change /\ Press # Hold /\ Press # HoldRelease
    /\ Release # Change /\ Release # Hold /\ Release # HoldRelease
    /\ Change # Hold /\ Change # HoldRelease /\ Hold # HoldRelease
    /\ \A n : Click(n) \notin {Press, Release, Change, Hold, HoldRelease}
    /\ \A n : LongClick(n) \notin {Press, Release, Change, Hold, HoldRelease}
    /\ \A n, m : Click(n) # LongClick(m)
    /\ \A n, m : (Click(n) = Click(m) \/ LongClick(n) = LongClick(m)) => n = m
BY DEF Press, Release, Change, Hold, HoldRelease, Plain, Click, LongClick

\* The local events there are: one, with a single click that may take its place, or
\* the three of a blind.
LEMMA LocalKinds ==
    ASSUME Kinds
    PROVE  /\ localEvent \in {Press, Release, Change, Hold, Click(1), HoldRelease}
           /\ Switching <=> localEvent \in {Press, Release, Change}
           /\ ~ Blind => LocalEvents = {localEvent}
           /\ Blind => LocalEvents = {Click(1), Hold, HoldRelease} /\ ~ Switching
           /\ \A x : <<"relay", x>> \in Registered
                        <=> x \in LocalEvents \/ (Switching /\ x = Click(1))
<1>1. localEvent \in {Press, Release, Change, Hold, Click(1), HoldRelease}
  BY DEF Kinds
<1>2. Blind => ~ Switching
  BY EventNames DEF Blind, Switching
<1>3. \A x : <<"relay", x>> \in Registered
                 <=> x \in LocalEvents \/ (Switching /\ x = Click(1))
  <2> HIDE DEF LocalEvents
  <2> QED BY DEF Registered
<1> QED BY <1>1, <1>2, <1>3 DEF LocalEvents, Switching

\* What is enabled again or disabled with the events the server may take away: a single
\* click with the change it stands for, a hold with its release.
LEMMA TakenAway ==
    ASSUME Kinds
    PROVE  /\ Switching =>
                  /\ DisablesLocalOperation = {Click(1)}
                  /\ OtherClients(Click(1)) = {<<"relay", Click(1)>>} \cup
                         (IF localEvent = Change THEN {<<"relay", Change>>} ELSE {})
           /\ Blind =>
                  /\ DisablesLocalOperation = {Hold, Click(1)}
                  /\ OtherClients(Click(1)) = {<<"relay", Click(1)>>}
                  /\ OtherClients(Hold) = {<<"relay", Hold>>, <<"relay", HoldRelease>>}
           /\ ~ Switching /\ ~ Blind =>
                  /\ DisablesLocalOperation = {localEvent}
                  /\ OtherClients(localEvent) = {<<"relay", localEvent>>}
<1>1. /\ localEvent \in {Press, Release, Change, Hold, Click(1), HoldRelease}
      /\ Switching <=> localEvent \in {Press, Release, Change}
      /\ ~ Blind => LocalEvents = {localEvent}
      /\ Blind => LocalEvents = {Click(1), Hold, HoldRelease} /\ ~ Switching
      /\ \A x : <<"relay", x>> \in Registered
                   <=> x \in LocalEvents \/ (Switching /\ x = Click(1))
  BY LocalKinds
<1> DEFINE first == Click(1)
<1>2. /\ Hold # first /\ Change # first /\ Change # Hold /\ HoldRelease # first
      /\ HoldRelease # Hold /\ HoldRelease # Change /\ Press # first /\ Release # first
      /\ Press # Hold /\ Release # Hold /\ Press # Change /\ Release # Change
  BY EventNames
<1>3. DisablesLocalOperation = {e \in {Hold, first} : <<"relay", e>> \in Registered}
  BY DEF DisablesLocalOperation
<1>4. OtherClients(first) = {<<"relay", x>> : x \in {y \in {first, Change} :
                                                       <<"relay", y>> \in Registered}}
  BY <1>2 DEF OtherClients
<1>5. OtherClients(Hold) = {<<"relay", x>> : x \in {y \in {Hold, HoldRelease} :
                                                      <<"relay", y>> \in Registered}}
  BY <1>2 DEF OtherClients
<1>6. first = Click(1)
  OBVIOUS
<1> HIDE DEF first
<1>7. CASE Switching
  <2>1. \A x : <<"relay", x>> \in Registered <=> x = localEvent \/ x = first
    BY <1>1, <1>6, <1>7
  <2>2. {y \in {first, Change} : <<"relay", y>> \in Registered} =
            {first} \cup (IF localEvent = Change THEN {Change} ELSE {})
    BY <2>1
  <2>3. DisablesLocalOperation = {first}
    BY <1>1, <1>2, <1>3, <1>7, <2>1
  <2>4. OtherClients(first) = {<<"relay", first>>} \cup
            (IF localEvent = Change THEN {<<"relay", Change>>} ELSE {})
    BY <1>4, <2>2
  <2>5. QED
    BY <1>1, <1>6, <1>7, <2>3, <2>4
<1>8. CASE Blind
  <2>1. \A x : <<"relay", x>> \in Registered <=> x \in {first, Hold, HoldRelease}
    BY <1>1, <1>6, <1>8
  <2>2. {y \in {first, Change} : <<"relay", y>> \in Registered} = {first}
        /\ {y \in {Hold, HoldRelease} : <<"relay", y>> \in Registered} = {Hold, HoldRelease}
    BY <1>2, <2>1
  <2>3. DisablesLocalOperation = {Hold, first}
    BY <1>3, <2>1
  <2>4. OtherClients(first) = {<<"relay", first>>}
        /\ OtherClients(Hold) = {<<"relay", Hold>>, <<"relay", HoldRelease>>}
    BY <1>4, <1>5, <2>2
  <2>5. QED
    BY <1>1, <1>6, <1>8, <2>3, <2>4
<1>9. CASE ~ Switching /\ ~ Blind
  <2>1. localEvent = Hold \/ localEvent = first
    BY <1>1, <1>6, <1>9 DEF Blind
  <2>2. \A x : <<"relay", x>> \in Registered <=> x = localEvent
    BY <1>1, <1>9
  <2>3. DisablesLocalOperation = {localEvent}
    BY <1>3, <2>1, <2>2
  <2>4. CASE localEvent = Hold
    <3>1. {y \in {Hold, HoldRelease} : <<"relay", y>> \in Registered} = {Hold}
      BY <1>2, <2>2, <2>4
    <3>2. OtherClients(Hold) = {<<"relay", Hold>>}
      BY <1>5, <3>1
    <3>3. QED
      BY <1>9, <2>3, <2>4, <3>2
  <2>5. CASE localEvent = first
    <3>1. {y \in {first, Change} : <<"relay", y>> \in Registered} = {first}
      BY <1>2, <2>2, <2>5
    <3>2. OtherClients(first) = {<<"relay", first>>}
      BY <1>4, <3>1
    <3>3. QED
      BY <1>9, <2>3, <2>5, <3>2
  <2>6. QED
    BY <2>1, <2>4, <2>5
<1>10. QED
  BY <1>7, <1>8, <1>9

\* Without a switch the handlers given back are those the new active set leaves to the
\* relay, and those taken away are the others.
LEMMA GivenAndTaken ==
    ASSUME Kinds, ~ Switching, NEW on
    PROVE  LET local == {<<"relay", e>> : e \in LocalEvents}
           IN  /\ UNION {OtherClients(e) : e \in DisablesLocalOperation \ on} = RelayListens(on)
               /\ UNION {OtherClients(e) : e \in DisablesLocalOperation \cap on} =
                      local \ RelayListens(on)
<1> DEFINE first == Click(1)
           back == UNION {OtherClients(e) : e \in DisablesLocalOperation \ on}
           away == UNION {OtherClients(e) : e \in DisablesLocalOperation \cap on}
           local == {<<"relay", e>> : e \in LocalEvents}
<1>1. /\ Hold # first /\ HoldRelease # first /\ HoldRelease # Hold
      /\ TakenWith(HoldRelease) = Hold /\ TakenWith(Hold) = Hold /\ TakenWith(first) = first
  BY EventNames DEF TakenWith
<1>2. RelayListens(on) = {<<"relay", e>> : e \in {f \in LocalEvents : TakenWith(f) \notin on}}
  BY DEF RelayListens
<1>3. CASE Blind
  <2>1. /\ LocalEvents = {first, Hold, HoldRelease}
        /\ DisablesLocalOperation = {Hold, first}
        /\ OtherClients(first) = {<<"relay", first>>}
        /\ OtherClients(Hold) = {<<"relay", Hold>>, <<"relay", HoldRelease>>}
    BY <1>3, LocalKinds, TakenAway
  <2> HIDE DEF first
  <2>2. {f \in LocalEvents : TakenWith(f) \notin on} =
            (IF first \in on THEN {} ELSE {first}) \cup (IF Hold \in on THEN {} ELSE {Hold, HoldRelease})
    BY <1>1, <2>1
  <2>3. RelayListens(on) = (IF first \in on THEN {} ELSE {<<"relay", first>>}) \cup
            (IF Hold \in on THEN {} ELSE {<<"relay", Hold>>, <<"relay", HoldRelease>>})
    BY <1>2, <2>2
  <2>4. /\ back = (IF first \in on THEN {} ELSE OtherClients(first)) \cup
                  (IF Hold \in on THEN {} ELSE OtherClients(Hold))
        /\ away = (IF first \in on THEN OtherClients(first) ELSE {}) \cup
                  (IF Hold \in on THEN OtherClients(Hold) ELSE {})
    BY <1>1, <2>1
  <2>5. local = {<<"relay", first>>, <<"relay", Hold>>, <<"relay", HoldRelease>>}
    BY <2>1
  <2>6. <<"relay", first>> \notin {<<"relay", Hold>>, <<"relay", HoldRelease>>}
    BY <1>1
  <2> DEFINE c == <<"relay", first>>
             h == <<"relay", Hold>>
             g == <<"relay", HoldRelease>>
  <2>7. /\ OtherClients(first) = {c} /\ OtherClients(Hold) = {h, g} /\ local = {c, h, g}
        /\ c # h /\ c # g
        /\ RelayListens(on) = (IF first \in on THEN {} ELSE {c}) \cup (IF Hold \in on THEN {} ELSE {h, g})
    BY <2>1, <2>3, <2>5, <2>6
  <2> HIDE DEF c, h, g, local, back, away
  <2>8. back = RelayListens(on) /\ away = local \ RelayListens(on)
    BY <2>4, <2>7
  <2>9. QED
    BY <2>8 DEF back, away, local
<1>4. CASE ~ Blind
  <2>1. /\ LocalEvents = {localEvent} /\ DisablesLocalOperation = {localEvent}
        /\ OtherClients(localEvent) = {<<"relay", localEvent>>}
    BY <1>4, LocalKinds, TakenAway
  <2>2. TakenWith(localEvent) = localEvent
    BY <1>4 DEF Blind, TakenWith
  <2>3. RelayListens(on) = (IF localEvent \in on THEN {} ELSE {<<"relay", localEvent>>})
        /\ local = {<<"relay", localEvent>>}
    BY <1>2, <2>1, <2>2
  <2>4. /\ back = (IF localEvent \in on THEN {} ELSE {<<"relay", localEvent>>})
        /\ away = (IF localEvent \in on THEN {<<"relay", localEvent>>} ELSE {})
    BY <2>1
  <2>5. QED
    BY <2>3, <2>4
<1>5. QED
  BY <1>3, <1>4

\* parseActiveActionsFromServer: the handlers are the ones the new active set calls for.
LEMMA ListensAsTold ==
    ASSUME HandlersInv, NEW on
    PROVE  ParseActiveActionsFromServer(on, enabled) = RelayListens(on) \cup TriggerListens(on)
<1> DEFINE relay == <<"relay", localEvent>>
           single == <<"relay", Click(1)>>
           told == TriggerListens(on)
           others == OtherClients(Click(1))
           kept == IF ~ Switching THEN RelayListens(active)
                   ELSE IF on = {} THEN {relay} ELSE {single}
           back == UNION {OtherClients(e) : e \in DisablesLocalOperation \ on}
           off == IF Click(1) \in on THEN {} ELSE MadeSureDisabled(on)
           away == UNION {OtherClients(e) : e \in DisablesLocalOperation \cap on}
<1>1. Kinds
  BY DEF HandlersInv
<1>2. /\ \A h \in told : h[1] = "at"
      /\ relay[1] = "relay" /\ single[1] = "relay" /\ <<"relay", Change>>[1] = "relay"
      /\ \A h \in TriggerListens(active) : h[1] = "at"
  BY DEF TriggerListens
<1>3. \A h \in RelayListens(active) : h[1] = "relay"
  BY <1>2 DEF RelayListens
<1>4. {h \in LocalHandlers(on, enabled) : h[1] = "relay"} = kept
  <2>1. CASE ~ Switching
    <3>1. LocalHandlers(on, enabled) = RelayListens(active) \cup TriggerListens(active)
      BY <2>1 DEF HandlersInv, LocalHandlers
    <3>2. QED
      BY <1>2, <1>3, <2>1, <3>1, "at" # "relay"
  <2>2. CASE Switching
    <3>1. \A h \in RelayListens(active) : h = relay \/ h = single
      BY <2>2 DEF RelayListens
    <3>2. LocalHandlers(on, enabled) =
              IF on = {} THEN (enabled \ {single}) \cup {relay}
              ELSE (enabled \ {relay}) \cup {single}
      BY <2>2 DEF LocalHandlers
    <3>3. enabled = RelayListens(active) \cup TriggerListens(active)
      BY DEF HandlersInv
    <3>4. relay # single
      BY <2>2, EventNames DEF Switching
    <3> HIDE DEF relay, single
    <3>5. QED
      BY <1>2, <2>2, <3>1, <3>2, <3>3, <3>4, "at" # "relay"
  <2>3. QED
    BY <2>1, <2>2
<1>5. TriggerHandlers(on, LocalHandlers(on, enabled)) = kept \cup told
  BY <1>4 DEF TriggerHandlers, TriggerListens
<1>6. ParseActiveActionsFromServer(on, enabled) = ((kept \cup told \cup back) \ off) \ away
  <2> HIDE DEF kept, told, back, off, away
  <2>1. GiveBack(on, kept \cup told) = (kept \cup told \cup back) \ off
    BY DEF GiveBack, off, back
  <2>2. TakeAway(on, (kept \cup told \cup back) \ off) = ((kept \cup told \cup back) \ off) \ away
    BY DEF TakeAway, away
  <2>3. QED
    BY <1>5, <2>1, <2>2 DEF ParseActiveActionsFromServer
<1>7. CASE ~ Switching
  <2> DEFINE local == {<<"relay", e>> : e \in LocalEvents}
  <2>1. RelayListens(active) \subseteq local /\ RelayListens(on) \subseteq local
    BY <1>7 DEF RelayListens
  <2>2. \A h \in local : h \notin told
    BY <1>2, "at" # "relay"
  <2>3. kept = RelayListens(active) /\ off = {} /\ told = TriggerListens(on)
    BY <1>7 DEF MadeSureDisabled
  <2>4. back = RelayListens(on) /\ away = local \ RelayListens(on)
    BY <1>1, <1>7, GivenAndTaken
  <2> HIDE DEF relay, single, told, kept, back, off, away, local
  <2>5. QED
    BY <1>6, <2>1, <2>2, <2>3, <2>4
<1>8. CASE Switching
  <2>1. relay # single
    BY <1>8, EventNames DEF Switching
  <2>2. MadeSureDisabled(on) = IF on = {} THEN {single} ELSE {relay}
    BY <1>8 DEF MadeSureDisabled
  <2>3. RelayListens(on) = IF on = {} THEN {relay} ELSE IF Click(1) \in on THEN {} ELSE {single}
    BY <1>8 DEF RelayListens
  <2>4. relay \notin told /\ single \notin told
    BY <1>2, "at" # "relay"
  <2>5. localEvent = Change => <<"relay", Change>> = relay
    OBVIOUS
  <2>6. /\ others = {single} \cup (IF localEvent = Change THEN {relay} ELSE {})
        /\ DisablesLocalOperation = {Click(1)}
    BY <1>1, <1>8, <2>5, TakenAway
  <2>7. /\ kept = (IF on = {} THEN {relay} ELSE {single}) /\ told = TriggerListens(on)
        /\ back = (IF Click(1) \in on THEN {} ELSE others)
        /\ away = (IF Click(1) \in on THEN others ELSE {})
        /\ off = (IF Click(1) \in on THEN {} ELSE IF on = {} THEN {single} ELSE {relay})
    BY <1>8, <2>2, <2>6
  <2> DEFINE first == Click(1)
  <2>8. first = Click(1)
    OBVIOUS
  <2> HIDE DEF relay, single, told, others, kept, back, off, away, first
  <2>9. CASE on = {}
    BY <1>6, <2>1, <2>3, <2>4, <2>6, <2>7, <2>8, <2>9
  <2>10. CASE on # {} /\ first \notin on
    BY <1>6, <2>1, <2>3, <2>4, <2>6, <2>7, <2>8, <2>10
  <2>11. CASE first \in on
    BY <1>6, <2>1, <2>3, <2>4, <2>6, <2>7, <2>8, <2>11
  <2>12. QED
    BY <2>9, <2>10, <2>11
<1>9. QED
  BY <1>7, <1>8

\* Before the server says anything the relay listens to its own events.
LEMMA ListensAtStart ==
    ASSUME Kinds
    PROVE  {<<"relay", e>> : e \in LocalEvents} = RelayListens({}) \cup TriggerListens({})
<1>1. TriggerListens({}) = {}
  BY DEF TriggerListens
<1>2. Switching => LocalEvents = {localEvent}
  BY LocalKinds
<1>3. QED
  BY <1>1, <1>2 DEF RelayListens

\* What a blind is told of a hold and of its release: both, or neither.
LEMMA BlindListens ==
    ASSUME HandlersInv, Blind
    PROVE  /\ <<"relay", Hold>> \in enabled <=> Hold \notin active
           /\ <<"relay", HoldRelease>> \in enabled <=> Hold \notin active
<1>1. Kinds /\ enabled = RelayListens(active) \cup TriggerListens(active)
  BY DEF HandlersInv
<1>2. LocalEvents = {Click(1), Hold, HoldRelease} /\ ~ Switching
  BY <1>1, LocalKinds
<1>3. RelayListens(active) = {<<"relay", e>> : e \in {f \in LocalEvents : TakenWith(f) \notin active}}
  BY <1>2 DEF RelayListens
<1>4. \A e : <<"relay", e>> \in enabled <=> e \in LocalEvents /\ TakenWith(e) \notin active
  <2>1. \A e : <<"relay", e>> \notin TriggerListens(active)
    BY "at" # "relay" DEF TriggerListens
  <2>2. QED
    BY <1>1, <1>3, <2>1
<1>5. TakenWith(Hold) = Hold /\ TakenWith(HoldRelease) = Hold
  BY EventNames DEF TakenWith
<1>6. Hold \in LocalEvents /\ HoldRelease \in LocalEvents
  BY <1>2
<1>7. QED
  BY <1>4, <1>5, <1>6

\* They do at the start.
LEMMA InitHandlers == Init => HandlersInv
<1> SUFFICES ASSUME Init PROVE HandlersInv
  OBVIOUS
<1>1. Kinds
  BY DEF Init, Kinds
<1>2. active = {} /\ enabled = {<<"relay", e>> : e \in LocalEvents}
  BY DEF Init
<1>3. QED
  BY <1>1, <1>2, ListensAtStart DEF HandlersInv

\* The invariant of the handlers is inductive.
LEMMA NextHandlers == HandlersInv /\ [Next]_vars => HandlersInv'
<1> SUFFICES ASSUME HandlersInv, [Next]_vars PROVE HandlersInv'
  OBVIOUS
<1>1. CASE UNCHANGED <<bistable, localEvent, enabled, active>>
  BY <1>1 DEF HandlersInv, Kinds, RelayListens, TriggerListens, Switching, Registered,
              LocalEvents, Blind
<1>2. CASE PinChanges \/ OnTimer
  BY <1>1, <1>2 DEF PinChanges, OnTimer, OnTimerEdge, OnTimerQuiet, config
<1>3. ASSUME NEW on \in ActiveSets, HandleChannelConfig(on)
      PROVE  HandlersInv'
  <2>1. /\ active' = on /\ enabled' = ParseActiveActionsFromServer(on, enabled)
        /\ UNCHANGED <<bistable, localEvent>>
    BY <1>3 DEF HandleChannelConfig, config
  <2>2. enabled' = RelayListens(on) \cup TriggerListens(on)
    BY <2>1, ListensAsTold
  <2>3. QED
    BY <2>1, <2>2 DEF HandlersInv, Kinds, RelayListens, TriggerListens, Switching, Registered,
                      LocalEvents, Blind
<1>4. CASE Restart
  <2>1. /\ active' = {} /\ enabled' = {<<"relay", e>> : e \in LocalEvents}
        /\ UNCHANGED <<bistable, localEvent>>
    BY <1>4 DEF Restart, Boot, config
  <2>2. enabled' = RelayListens({}) \cup TriggerListens({})
    BY <2>1, ListensAtStart DEF HandlersInv
  <2>3. QED
    BY <2>1, <2>2 DEF HandlersInv, Kinds, RelayListens, TriggerListens, Switching, Registered,
                      LocalEvents, Blind
<1>5. CASE UNCHANGED vars
  BY <1>1, <1>5 DEF vars
<1>6. QED
  BY <1>2, <1>3, <1>4, <1>5 DEF Next

\* Whatever the order of the configurations, the handlers that are enabled are the ones
\* the last of them calls for: nothing of an earlier one stays or is missing.
THEOREM HandlersFollowConfig == Spec => []HandlersInv
BY InitHandlers, NextHandlers, PTL DEF Spec

-------------------------------------------------------------------------------
(* Holds.                                                                      *)

Input(i) ==
    /\ i = [f \in {"pressed", "candidate", "debounceMs", "filterMs"} |-> i[f]]
    /\ i.pressed \in BOOLEAN

Counters(c) ==
    /\ c = [f \in {"sinceMs", "clickCounter", "holdSend"} |-> c[f]]
    /\ c.clickCounter \in Nat /\ c.holdSend \in Nat

Gesture(g) ==
    g = [f \in {"presses", "local", "cloud", "held", "holding", "taken", "reconfigured"} |-> g[f]]

Types == bistable \in BOOLEAN /\ pin \in BOOLEAN /\ Input(input) /\ Counters(count) /\ Gesture(gesture)

DuringHold ==
    Blind /\ gesture.holding /\ ~ gesture.taken =>
        /\ input.pressed /\ ~ bistable /\ Hold \notin active
        /\ count.clickCounter <= 1 /\ count.holdSend > 0

HoldInv == Types /\ DuringHold

\* ButtonState::update leaves the level a level.
LEMMA InputKeepsType ==
    ASSUME NEW in, Input(in), NEW d, pin \in BOOLEAN
    PROVE  Input(Update(Waiting(in, d)))
<1> DEFINE w == Waiting(in, d)
<1>1. Input(w)
  BY DEF Input, Waiting
<1> HIDE DEF w
<1>2. Input([w EXCEPT !.candidate = FALSE])
  BY <1>1 DEF Input
<1>3. Input([w EXCEPT !.candidate = TRUE, !.filterMs = 0])
  BY <1>1 DEF Input
<1>4. Input([w EXCEPT !.pressed = pin, !.candidate = FALSE, !.debounceMs = 0])
  BY <1>1 DEF Input
<1>5. Input(Update(w))
  <2>1. CASE DebounceMs > 0 /\ w.debounceMs <= DebounceMs
    BY <1>1, <2>1, Zenon DEF Update
  <2>2. CASE ~ (DebounceMs > 0 /\ w.debounceMs <= DebounceMs)
    <3>1. CASE pin = w.pressed
      BY <1>2, <2>2, <3>1, Zenon DEF Update
    <3>2. CASE pin # w.pressed /\ FilterMs > 0 /\ ~ w.candidate
      BY <1>3, <2>2, <3>2, Zenon DEF Update
    <3>3. CASE pin # w.pressed /\ ~ (FilterMs > 0 /\ ~ w.candidate)
      BY <1>1, <1>4, <2>2, <3>3, Zenon DEF Update
    <3> QED BY <3>1, <3>2, <3>3, Zenon
  <2> QED BY <2>1, <2>2, Zenon
<1> QED BY <1>5 DEF w

\* The clock goes on; the counters stay.
LEMMA Clock ==
    ASSUME NEW c, Counters(c), NEW d
    PROVE  LET n == [c EXCEPT !.sinceMs = Later(@, d)]
           IN  Counters(n) /\ n.clickCounter = c.clickCounter /\ n.holdSend = c.holdSend
BY DEF Counters

\* A press or a release counts or does not.
LEMMA EdgeKeepsType ==
    ASSUME NEW c, Counters(c), NEW pressed
    PROVE  Counters(AfterEdge(c, pressed))
<1> DEFINE n == IF MulticlickMs > 0 /\ Counts(pressed)
                      /\ c.clickCounter <= MaxMulticlickValueConfigured
                THEN c.clickCounter + 1 ELSE c.clickCounter
<1>1. AfterEdge(c, pressed) = [c EXCEPT !.sinceMs = 0, !.clickCounter = n]
  BY Zenon DEF AfterEdge
<1>2. n \in Nat
  BY DEF Counters
<1> HIDE DEF n
<1> QED BY <1>1, <1>2 DEF Counters

\* Holding: the hold is counted, and a long press is no click.
LEMMA Holding ==
    ASSUME NEW c, Counters(c)
    PROVE  LET a == AfterHolding(c)
           IN  /\ Counters(a)
               /\ c.clickCounter <= 1 => a.clickCounter <= 1
               /\ c.holdSend > 0 \/ HoldDue(c) => a.holdSend > 0
<1> DEFINE n == IF HoldDue(c) THEN c.holdSend + 1 ELSE c.holdSend
           k == IF c.sinceMs > MulticlickMs THEN 0 ELSE c.clickCounter
           a == [c EXCEPT !.holdSend = n, !.clickCounter = k]
<1>1. AfterHolding(c) = a
  BY Zenon DEF AfterHolding
<1>2. /\ n \in Nat /\ k \in Nat
      /\ c.clickCounter <= 1 => k <= 1
      /\ c.holdSend > 0 \/ HoldDue(c) => n > 0
  BY DEF Counters
<1> HIDE DEF n, k
<1>3. Counters(a) /\ a.clickCounter = k /\ a.holdSend = n
  BY <1>2 DEF Counters
<1> HIDE DEF a
<1> QED BY <1>1, <1>2, <1>3

\* A call of the timer without a change leaves numbers.
LEMMA QuietKeepsType ==
    ASSUME NEW c, Counters(c), NEW pressed
    PROVE  Counters(AfterQuiet(c, pressed))
<1>1. Counters([c EXCEPT !.clickCounter = 0, !.holdSend = 0])
  BY DEF Counters
<1>2. Counters([c EXCEPT !.clickCounter = Reported])
  BY DEF Counters, Reported
<1>3. Counters(AfterReport(c))
  BY <1>1, <1>2, Zenon DEF AfterReport
<1>4. Counters(AfterHolding(c))
  BY Holding
<1> QED BY <1>1, <1>3, <1>4, Zenon DEF AfterQuiet

\* The events heard change the effect of a gesture, and begin or end its hold.
LEMMA Effects ==
    ASSUME NEW g, Gesture(g), NEW events
    PROVE  /\ Gesture(WithEffects(g, events))
           /\ WithEffects(g, events).holding =>
                  /\ g.holding \/ Hold \in Heard("relay", events)
                  /\ HoldRelease \notin Heard("relay", events)
           /\ WithEffects(g, events).taken = g.taken
<1> DEFINE local == Least(g.local + (IF Heard("relay", events) = {} THEN 0 ELSE 1), Many)
           cloud == g.cloud \cup (Heard("at", events) \cap {Click(n) : n \in 1 .. Clicks})
           held == g.held \/ Hold \in events
           holding == (g.holding \/ Hold \in Heard("relay", events))
                          /\ HoldRelease \notin Heard("relay", events)
<1>1. WithEffects(g, events) = [g EXCEPT !.local = local, !.cloud = cloud,
                                         !.held = held, !.holding = holding]
  BY Zenon DEF WithEffects
<1>2. holding => /\ g.holding \/ Hold \in Heard("relay", events)
                 /\ HoldRelease \notin Heard("relay", events)
  OBVIOUS
<1> HIDE DEF local, cloud, held, holding
<1>3. /\ Gesture(WithEffects(g, events)) /\ WithEffects(g, events).holding = holding
      /\ WithEffects(g, events).taken = g.taken
  BY <1>1 DEF Gesture
<1> QED BY <1>2, <1>3, Zenon

\* A press or a release: no hold begins with it.
LEMMA EdgeOfGesture ==
    ASSUME NEW g, Gesture(g), NEW c, NEW pressed, NEW events, Hold \notin events
    PROVE  /\ Gesture(WithEdge(g, c, pressed, events))
           /\ WithEdge(g, c, pressed, events).holding =>
                  /\ g.holding /\ HoldRelease \notin Heard("relay", events)
                  /\ WithEdge(g, c, pressed, events).taken = g.taken
<1> DEFINE begun == IF Counts(pressed) /\ Rested(c) THEN NoGesture ELSE g
           presses == Least(begun.presses + 1, Many)
           more == [begun EXCEPT !.presses = presses]
           counted == IF Counts(pressed) THEN more ELSE begun
           told == WithEffects(counted, events)
<1>1. Gesture(NoGesture) /\ ~ NoGesture.holding
  BY DEF Gesture, NoGesture
<1>2. Gesture(begun) /\ (begun.holding => g.holding /\ begun.taken = g.taken)
  BY <1>1, Zenon
<1>3. Gesture(more) /\ (more.holding => begun.holding) /\ more.taken = begun.taken
  <2> HIDE DEF begun, presses
  <2> QED BY <1>2 DEF Gesture
<1>4. Gesture(counted) /\ (counted.holding => g.holding /\ counted.taken = g.taken)
  <2> HIDE DEF begun, more
  <2> QED BY <1>2, <1>3, Zenon
<1>5. Gesture(told) /\ (told.holding => /\ g.holding /\ told.taken = g.taken
                                         /\ HoldRelease \notin Heard("relay", events))
  <2> HIDE DEF counted
  <2>1. Hold \notin Heard("relay", events)
    BY DEF Heard
  <2> QED BY <1>4, <2>1, Effects, ZenonT(60)
<1>6. WithEdge(g, c, pressed, events) =
          IF ~ Counts(pressed) /\ Rested(c) THEN AfterLongPress(told) ELSE told
  BY Zenon DEF WithEdge
<1> HIDE DEF told
<1>7. /\ Gesture(AfterLongPress(told)) /\ (AfterLongPress(told).holding => told.holding)
      /\ AfterLongPress(told).taken = told.taken
  BY <1>5 DEF AfterLongPress, Gesture
<1> QED BY <1>5, <1>6, <1>7, Zenon

\* The invariant holds at the start.
LEMMA InitHold == Init => HoldInv
BY DEF Init, HoldInv, Types, DuringHold, Input, Counters, Gesture, NoGesture

\* A release during a hold is told: that is what the two counters are for.
LEMMA EdgeHold ==
    ASSUME HoldInv, HandlersInv, NEW d \in Periods, OnTimerEdge(d)
    PROVE  HoldInv'
<1> DEFINE in == Update(Waiting(input, d))
           c == [count EXCEPT !.sinceMs = Later(@, d)]
<1>1. Input(in)
  BY InputKeepsType DEF HoldInv, Types
<1>2. Counters(c) /\ c.clickCounter = count.clickCounter /\ c.holdSend = count.holdSend
  BY Clock DEF HoldInv, Types
<1>3. /\ in.pressed # input.pressed
      /\ count' = AfterEdge(c, in.pressed)
      /\ gesture' = WithEdge(gesture, count, in.pressed, EdgeEvents(c, in.pressed))
      /\ input' = in
      /\ UNCHANGED <<bistable, localEvent, pin, active, enabled>>
  BY DEF OnTimerEdge, config
<1> HIDE DEF in, c
<1>4. Counters(count')
  BY <1>2, <1>3, EdgeKeepsType
<1>5. Hold \notin EdgeEvents(c, in.pressed)
  BY DEF EdgeEvents, Hold, Change, Press, Release, HoldRelease, Plain
<1>6. /\ Gesture(gesture')
      /\ gesture'.holding => /\ gesture.holding /\ gesture'.taken = gesture.taken
                             /\ HoldRelease \notin Heard("relay", EdgeEvents(c, in.pressed))
  BY <1>3, <1>5, EdgeOfGesture DEF HoldInv, Types
<1>7. ASSUME Blind, gesture'.holding, ~ gesture'.taken
      PROVE  FALSE
  <2>1. /\ gesture.holding /\ ~ gesture.taken
        /\ HoldRelease \notin Heard("relay", EdgeEvents(c, in.pressed))
    BY <1>6, <1>7
  <2>2. /\ input.pressed /\ count.clickCounter <= 1 /\ count.holdSend > 0
        /\ Hold \notin active
    BY <1>7, <2>1 DEF HoldInv, DuringHold
  <2>3. ~ in.pressed
    BY <1>1, <1>3, <2>2 DEF Input, HoldInv, Types
  <2>4. c.clickCounter <= 1 /\ c.holdSend > 0
    BY <1>2, <2>2
  <2>5. HoldRelease \in EdgeEvents(c, in.pressed)
    BY <2>3, <2>4, Zenon DEF EdgeEvents
  <2>6. <<"relay", HoldRelease>> \in enabled
    BY <1>7, <2>2, BlindListens
  <2> QED BY <2>1, <2>5, <2>6, Zenon DEF Heard
<1>8. DuringHold'
  <2>1. Blind' <=> Blind
    BY <1>3 DEF Blind
  <2> QED BY <1>7, <2>1 DEF DuringHold
<1> QED BY <1>1, <1>3, <1>4, <1>6, <1>8 DEF HoldInv, Types

\* While the button is held the counters keep their values; a hold begins with them.
LEMMA QuietHold ==
    ASSUME HoldInv, HandlersInv, NEW d \in Periods, OnTimerQuiet(d)
    PROVE  HoldInv'
<1> DEFINE in == Update(Waiting(input, d))
           c == [count EXCEPT !.sinceMs = Later(@, d)]
<1>1. Input(in)
  BY InputKeepsType DEF HoldInv, Types
<1>2. Counters(c) /\ c.clickCounter = count.clickCounter /\ c.holdSend = count.holdSend
  BY Clock DEF HoldInv, Types
<1>3. /\ in.pressed = input.pressed
      /\ count' = AfterQuiet(c, in.pressed)
      /\ gesture' = WithEffects(gesture, QuietEvents(c, in.pressed))
      /\ input' = in
      /\ UNCHANGED <<bistable, localEvent, pin, active, enabled>>
  BY DEF OnTimerQuiet, config
<1> HIDE DEF in, c
<1>4. Counters(count')
  BY <1>2, <1>3, QuietKeepsType
<1>5. /\ Gesture(gesture')
      /\ gesture'.holding => gesture.holding \/ Hold \in Heard("relay", QuietEvents(c, in.pressed))
      /\ gesture'.taken = gesture.taken
  BY <1>3, Effects DEF HoldInv, Types
<1>6. ASSUME Hold \in QuietEvents(c, in.pressed)
      PROVE  ~ bistable /\ in.pressed /\ HoldDue(c) /\ c.sinceMs # Never
  BY <1>6 DEF QuietEvents, ClickEvents, Hold, Plain, Click, LongClick
<1>7. ASSUME Blind, gesture'.holding, ~ gesture'.taken
      PROVE  /\ in.pressed /\ ~ bistable /\ Hold \notin active
             /\ count'.clickCounter <= 1 /\ count'.holdSend > 0
  <2>1. CASE gesture.holding
    <3>1. /\ input.pressed /\ ~ bistable /\ Hold \notin active
          /\ count.clickCounter <= 1 /\ count.holdSend > 0
      BY <1>5, <1>7, <2>1 DEF HoldInv, DuringHold
    <3>2. in.pressed
      BY <1>3, <3>1, Zenon
    <3>3. c.clickCounter <= 1 /\ c.holdSend > 0
      BY <1>2, <3>1
    <3>4. count' = IF c.sinceMs = Never THEN c ELSE AfterHolding(c)
      BY <1>3, <3>1, <3>2, Zenon DEF AfterQuiet
    <3>5. AfterHolding(c).clickCounter <= 1 /\ AfterHolding(c).holdSend > 0
      BY <1>2, <3>3, Holding
    <3>6. count'.clickCounter <= 1 /\ count'.holdSend > 0
      BY <3>3, <3>4, <3>5, Zenon
    <3> QED BY <3>1, <3>2, <3>6, Zenon
  <2>2. CASE Hold \in Heard("relay", QuietEvents(c, in.pressed))
    <3>0. Hold \in QuietEvents(c, in.pressed) /\ <<"relay", Hold>> \in enabled
      BY <2>2, Zenon DEF Heard
    <3>1. ~ bistable /\ in.pressed /\ HoldDue(c) /\ c.sinceMs # Never
      BY <1>6, <3>0, Zenon
    <3>5. Hold \notin active
      BY <1>7, <3>0, BlindListens
    <3>2. count' = AfterHolding(c)
      BY <1>3, <3>1, Zenon DEF AfterQuiet
    <3>3. c.clickCounter <= 1
      BY <3>1, Zenon DEF HoldDue
    <3>4. AfterHolding(c).clickCounter <= 1 /\ AfterHolding(c).holdSend > 0
      BY <1>2, <3>1, <3>3, Holding
    <3> QED BY <3>1, <3>2, <3>4, <3>5, Zenon
  <2> QED BY <1>5, <1>7, <2>1, <2>2, Zenon
<1>8. Input(input') /\ DuringHold'
  <2>1. Blind' <=> Blind
    BY <1>3 DEF Blind
  <2> QED BY <1>1, <1>3, <1>7, <2>1 DEF DuringHold
<1> QED BY <1>3, <1>4, <1>5, <1>8 DEF HoldInv, Types

\* A new configuration leaves a hold alone, takes it, or forgets a complete gesture.
LEMMA ConfigHold ==
    ASSUME HoldInv, NEW on \in ActiveSets, HandleChannelConfig(on)
    PROVE  HoldInv'
<1> DEFINE taken == gesture.taken \/ (gesture.holding /\ Hold \in on)
           g == [gesture EXCEPT !.reconfigured = TRUE, !.taken = taken]
<1>1. gesture' = IF Complete THEN NoGesture ELSE g
  BY Zenon DEF HandleChannelConfig
<1>2. Gesture(NoGesture) /\ ~ NoGesture.holding
  BY DEF NoGesture, Gesture
<1>3. Gesture(g) /\ (g.holding => gesture.holding) /\ g.taken = taken
  <2> HIDE DEF taken
  <2> QED BY DEF HoldInv, Types, Gesture
<1>4. g.holding /\ ~ g.taken => gesture.holding /\ ~ gesture.taken /\ Hold \notin on
  BY <1>3
<1> HIDE DEF g
<1>5. /\ Gesture(gesture')
      /\ gesture'.holding /\ ~ gesture'.taken =>
            gesture.holding /\ ~ gesture.taken /\ Hold \notin on
  BY <1>1, <1>2, <1>3, <1>4, Zenon
<1>6. active' = on /\ UNCHANGED <<bistable, localEvent, pin, input, count>>
  BY DEF HandleChannelConfig, config
<1> QED BY <1>5, <1>6 DEF HoldInv, Types, DuringHold, Blind

\* No step breaks the invariant.
LEMMA NextHold == HandlersInv /\ HoldInv /\ [Next]_vars => HoldInv'
<1> SUFFICES ASSUME HandlersInv, HoldInv, [Next]_vars PROVE HoldInv'
  OBVIOUS
<1>1. CASE PinChanges
  BY <1>1 DEF PinChanges, HoldInv, Types, DuringHold, Blind, config
<1>2. CASE OnTimer
  BY <1>2, EdgeHold, QuietHold DEF OnTimer
<1>3. CASE \E on \in ActiveSets : HandleChannelConfig(on)
  BY <1>3, ConfigHold
<1>4. CASE Restart
  BY <1>4 DEF Restart, Boot, HoldInv, Types, DuringHold, Input, Counters, Gesture,
              NoGesture, config
<1>5. CASE UNCHANGED vars
  BY <1>5 DEF vars, HoldInv, Types, DuringHold, Blind
<1> QED BY <1>1, <1>2, <1>3, <1>4, <1>5 DEF Next

\* Button::onTimer with parseActiveActionsFromServer: a blind that moves on a hold is
\* told to stop when the button is released, for every setting of the times and every
\* order of configurations, but for one in mid-hold that takes the hold to the server:
\* it disables the release with it, and nothing is promised of the blind.
THEOREM HoldsAreReleased == Spec => []HoldIsReleased
<1>1. HoldInv => HoldIsReleased
  BY DEF HoldInv, DuringHold, HoldIsReleased
<1> QED BY <1>1, InitHandlers, NextHandlers, InitHold, NextHold, PTL DEF Spec

-------------------------------------------------------------------------------
(* The numbers.                                                                *)

InputTyped(i) ==
    /\ i.candidate \in BOOLEAN
    /\ i.debounceMs \in 0 .. InputCapMs /\ i.filterMs \in 0 .. InputCapMs

CountTyped(c) ==
    /\ c.sinceMs \in Never .. ClockCapMs
    /\ c.clickCounter \in 0 .. Clicks + 1 \cup {Reported}
    /\ c.holdSend \in Reports

GestureTyped(g) ==
    /\ g.presses \in 0 .. Many /\ g.local \in 0 .. Many
    /\ g.held \in BOOLEAN /\ g.holding \in BOOLEAN /\ g.reconfigured \in BOOLEAN

NumbersInv ==
    /\ InputTyped(input) /\ CountTyped(count) /\ GestureTyped(gesture)
    /\ emitted \subseteq Events

Highest == MaxMulticlickValueConfigured

\* The constants and the bounds made of them are numbers.
LEMMA Times ==
    /\ MulticlickMs \in Nat /\ HoldMs \in Nat /\ RepeatMs \in Nat
    /\ DebounceMs \in Nat /\ FilterMs \in Nat /\ Clicks \in 1 .. 5
    /\ ClockCapMs \in Nat /\ ClockCapMs > MulticlickMs
    /\ InputCapMs \in Nat /\ InputCapMs > DebounceMs
    /\ Many \in Nat /\ Many = Clicks + 2
    /\ \A d \in Periods : d \in Nat /\ d > 0
<1>1. /\ MulticlickMs \in Nat /\ HoldMs \in Nat /\ RepeatMs \in Nat
      /\ DebounceMs \in Nat /\ FilterMs \in Nat /\ Clicks \in 1 .. 5
      /\ \A d \in Periods : d \in Nat /\ d > 0
  BY ButtonAssumption
<1>2. QED
  BY <1>1 DEF ClockCapMs, InputCapMs, Greatest, Many

\* The highest number of clicks somebody waits for is one of those offered, or 0.
LEMMA HighestClick ==
    /\ Highest \in 0 .. Clicks
    /\ Highest = 0 \/ \E h \in enabled : h[2] = Click(Highest)
    /\ \A m \in Highest + 1 .. Clicks : \A h \in enabled : h[2] # Click(m)
<1> DEFINE On(n) == \E h \in enabled : h[2] = Click(n)
           Top(n) == n \in 0 .. Clicks /\ (n = 0 \/ On(n)) /\ \A m \in n + 1 .. Clicks : ~ On(m)
<1>1. Highest = CHOOSE n \in 0 .. Clicks :
                    /\ n = 0 \/ On(n)
                    /\ \A m \in n + 1 .. Clicks : \A h \in enabled : h[2] # Click(m)
  BY DEF Highest, MaxMulticlickValueConfigured
<1>2. \A m : ~ On(m) <=> \A h \in enabled : h[2] # Click(m)
  OBVIOUS
<1>3. \E n : Top(n)
  <2>1. Clicks \in 1 .. 5
    BY Times
  <2> HIDE DEF On
  <2>2. Top(5) \/ \A m \in 5 .. Clicks : ~ On(m)
    BY <2>1
  <2>3. Top(5) \/ Top(4) \/ \A m \in 4 .. Clicks : ~ On(m)
    BY <2>1, <2>2
  <2>4. Top(5) \/ Top(4) \/ Top(3) \/ \A m \in 3 .. Clicks : ~ On(m)
    BY <2>1, <2>3
  <2>5. Top(5) \/ Top(4) \/ Top(3) \/ Top(2) \/ \A m \in 2 .. Clicks : ~ On(m)
    BY <2>1, <2>4
  <2>6. \/ Top(5) \/ Top(4) \/ Top(3) \/ Top(2) \/ Top(1)
        \/ \A m \in 1 .. Clicks : ~ On(m)
    BY <2>1, <2>5
  <2>7. (\A m \in 1 .. Clicks : ~ On(m)) => Top(0)
    BY <2>1
  <2> HIDE DEF Top
  <2>8. QED
    BY <2>6, <2>7
<1>4. \E n \in 0 .. Clicks : /\ n = 0 \/ On(n)
                             /\ \A m \in n + 1 .. Clicks : \A h \in enabled : h[2] # Click(m)
  BY <1>2, <1>3
<1>5. QED
  BY <1>1, <1>4

\* The clock since the last change: it runs once there was one, up to its bound.
LEMMA ClockRuns ==
    ASSUME NEW ms \in Never .. ClockCapMs, NEW d \in Periods
    PROVE  /\ Later(ms, d) \in Never .. ClockCapMs
           /\ Later(ms, d) = Never <=> ms = Never
           /\ ms # Never => Later(ms, d) > 0 /\ Later(ms, d) >= ms
           /\ ms > MulticlickMs => Later(ms, d) > MulticlickMs
BY Times DEF Later, Least, Never

\* The pin, filtered: after an edge the next one is DebounceMs away.
LEMMA UpdateTyped ==
    ASSUME NEW in, Input(in), InputTyped(in), NEW d \in Periods, pin \in BOOLEAN
    PROVE  LET u == Update(Waiting(in, d))
           IN  /\ InputTyped(u)
               /\ u.pressed # in.pressed =>
                     u.debounceMs = 0 /\ ~ (DebounceMs > 0 /\ Least(in.debounceMs + d, InputCapMs) <= DebounceMs)
<1> DEFINE debounce == Least(in.debounceMs + d, InputCapMs)
           filter == Least(in.filterMs + d, InputCapMs)
           w == [in EXCEPT !.debounceMs = debounce, !.filterMs = filter]
<1>1. Waiting(in, d) = w
  BY DEF Waiting
<1>2. debounce \in 0 .. InputCapMs /\ filter \in 0 .. InputCapMs
  BY Times DEF InputTyped, Least
<1> HIDE DEF debounce, filter
<1>3. Input(w) /\ InputTyped(w) /\ w.debounceMs = debounce /\ w.pressed = in.pressed
  BY <1>2 DEF Input, InputTyped
<1> HIDE DEF w
<1>4. 0 \in 0 .. InputCapMs
  BY Times
<1> DEFINE dropped == [w EXCEPT !.candidate = FALSE]
           started == [w EXCEPT !.candidate = TRUE, !.filterMs = 0]
           taken == [w EXCEPT !.pressed = pin, !.candidate = FALSE, !.debounceMs = 0]
<1>5. /\ InputTyped(dropped) /\ dropped.pressed = w.pressed
      /\ InputTyped(started) /\ started.pressed = w.pressed
      /\ InputTyped(taken) /\ taken.debounceMs = 0
  BY <1>3, <1>4 DEF Input, InputTyped
<1>6. Update(w) = IF DebounceMs > 0 /\ w.debounceMs <= DebounceMs THEN w
                  ELSE IF pin = w.pressed THEN dropped
                  ELSE IF FilterMs > 0 /\ ~ w.candidate THEN started
                  ELSE IF w.filterMs > FilterMs THEN taken ELSE w
  BY Zenon DEF Update
<1> HIDE DEF dropped, started, taken
<1>7. QED
  BY <1>1, <1>3, <1>5, <1>6, Zenon DEF debounce

\* No report is in time.
LEMMA NoReports == 0 \in Reports
BY DEF Reports

\* A press or a release: the clock starts again, and a counted one is counted.
LEMMA EdgeCounts ==
    ASSUME NEW c, Counters(c), CountTyped(c), NEW pressed
    PROVE  LET a == AfterEdge(c, pressed)
           IN  /\ CountTyped(a) /\ a.sinceMs = 0 /\ a.holdSend = c.holdSend
               /\ a.clickCounter = IF MulticlickMs > 0 /\ Counts(pressed)
                                         /\ c.clickCounter <= Highest
                                   THEN c.clickCounter + 1 ELSE c.clickCounter
<1> DEFINE n == IF MulticlickMs > 0 /\ Counts(pressed) /\ c.clickCounter <= Highest
                THEN c.clickCounter + 1 ELSE c.clickCounter
           a == [c EXCEPT !.sinceMs = 0, !.clickCounter = n]
<1>1. AfterEdge(c, pressed) = a
  BY Zenon DEF AfterEdge, Highest
<1>2. n \in 0 .. Clicks + 1 \cup {Reported}
  BY HighestClick, Times DEF CountTyped, Reported
<1>3. 0 \in Never .. ClockCapMs
  BY Times DEF Never
<1>4. n = IF MulticlickMs > 0 /\ Counts(pressed) /\ c.clickCounter <= Highest
          THEN c.clickCounter + 1 ELSE c.clickCounter
  OBVIOUS
<1> HIDE DEF n
<1>5. CountTyped(a) /\ a.sinceMs = 0 /\ a.holdSend = c.holdSend /\ a.clickCounter = n
  BY <1>2, <1>3 DEF Counters, CountTyped
<1>6. QED
  BY <1>1, <1>4, <1>5

\* While the button is held the clock runs on, and each report of the hold needs time.
LEMMA HoldingCounts ==
    ASSUME NEW c, Counters(c), CountTyped(c)
    PROVE  LET a == AfterHolding(c)
           IN  /\ CountTyped(a) /\ a.sinceMs = c.sinceMs
               /\ a.holdSend = (IF HoldDue(c) THEN c.holdSend + 1 ELSE c.holdSend)
               /\ a.clickCounter = (IF c.sinceMs > MulticlickMs THEN 0 ELSE c.clickCounter)
<1> DEFINE n == IF HoldDue(c) THEN c.holdSend + 1 ELSE c.holdSend
           k == IF c.sinceMs > MulticlickMs THEN 0 ELSE c.clickCounter
           a == [c EXCEPT !.holdSend = n, !.clickCounter = k]
<1>1. AfterHolding(c) = a
  BY Zenon DEF AfterHolding
<1>2. ASSUME HoldDue(c) PROVE c.holdSend + 1 \in Reports
  <2>1. c.holdSend \in Nat /\ c.sinceMs \in Never .. ClockCapMs
    BY Times DEF CountTyped, Reports
  <2> DEFINE repeats == c.holdSend * RepeatMs
  <2>2. c.sinceMs > HoldMs + repeats
    BY <1>2 DEF HoldDue
  <2>3. repeats \in Nat /\ ((c.holdSend + 1) - 1) * RepeatMs = repeats
    BY <2>1, Times
  <2> HIDE DEF repeats
  <2>4. HoldMs + repeats < ClockCapMs
    BY <2>1, <2>2, <2>3, Times DEF Never
  <2>5. QED
    BY <2>1, <2>3, <2>4 DEF Reports
<1>3. n \in Reports /\ k \in 0 .. Clicks + 1 \cup {Reported}
  BY <1>2, Times DEF CountTyped
<1>4. n = (IF HoldDue(c) THEN c.holdSend + 1 ELSE c.holdSend)
      /\ k = (IF c.sinceMs > MulticlickMs THEN 0 ELSE c.clickCounter)
  OBVIOUS
<1> HIDE DEF n, k
<1>5. CountTyped(a) /\ a.sinceMs = c.sinceMs /\ a.holdSend = n /\ a.clickCounter = k
  BY <1>3 DEF Counters, CountTyped
<1>6. QED
  BY <1>1, <1>4, <1>5

\* A call of the timer without a change: while held, at the end of a gesture, otherwise.
LEMMA QuietCounts ==
    ASSUME NEW c, Counters(c), CountTyped(c), NEW pressed
    PROVE  LET a == AfterQuiet(c, pressed)
           IN  /\ CountTyped(a) /\ a.sinceMs = c.sinceMs
               /\ c.sinceMs = Never => a = c
               /\ c.sinceMs # Never /\ ~ bistable /\ pressed => a = AfterHolding(c)
               /\ c.sinceMs # Never /\ ~ (~ bistable /\ pressed) =>
                     /\ MulticlickMs = 0 \/ c.sinceMs > MulticlickMs =>
                            a.clickCounter = 0 /\ a.holdSend = 0
                     /\ MulticlickMs > 0 /\ ~ c.sinceMs > MulticlickMs =>
                            /\ a.holdSend = c.holdSend
                            /\ a.clickCounter = (IF c.clickCounter = Highest THEN Reported
                                                 ELSE c.clickCounter)
<1> DEFINE zero == [c EXCEPT !.clickCounter = 0, !.holdSend = 0]
           told == [c EXCEPT !.clickCounter = Reported]
<1>1. /\ CountTyped(zero) /\ zero.sinceMs = c.sinceMs
      /\ zero.clickCounter = 0 /\ zero.holdSend = 0
  BY Times, NoReports DEF Counters, CountTyped
<1>2. /\ CountTyped(told) /\ told.sinceMs = c.sinceMs
      /\ told.clickCounter = Reported /\ told.holdSend = c.holdSend
  BY Times DEF Counters, CountTyped
<1>3. CountTyped(AfterHolding(c)) /\ AfterHolding(c).sinceMs = c.sinceMs
  BY HoldingCounts
<1>4. AfterReport(c) = IF c.sinceMs > MulticlickMs THEN zero ELSE told
  BY Zenon DEF AfterReport
<1>5. AfterQuiet(c, pressed) =
          IF c.sinceMs = Never THEN c
          ELSE IF ~ bistable /\ pressed THEN AfterHolding(c)
          ELSE IF MulticlickMs = 0 THEN zero
          ELSE IF GestureOver(c) THEN AfterReport(c) ELSE c
  BY Zenon DEF AfterQuiet
<1>6. GestureOver(c) <=> MulticlickMs > 0 /\ (c.sinceMs > MulticlickMs \/ c.clickCounter = Highest)
  BY DEF GestureOver, Highest
<1>7. MulticlickMs = 0 \/ MulticlickMs > 0
  BY Times
<1> HIDE DEF zero, told
<1>8. CASE c.sinceMs = Never
  BY <1>5, <1>8, Zenon
<1>9. CASE c.sinceMs # Never /\ ~ bistable /\ pressed
  BY <1>3, <1>5, <1>9, Zenon
<1>10. CASE c.sinceMs # Never /\ ~ (~ bistable /\ pressed)
  <2>1. CASE MulticlickMs = 0
    <3>1. AfterQuiet(c, pressed) = zero
      BY <1>5, <1>10, <2>1, Zenon
    <3>2. QED
      BY <1>1, <1>10, <2>1, <3>1
  <2>2. CASE MulticlickMs > 0 /\ c.sinceMs > MulticlickMs
    <3>1. AfterQuiet(c, pressed) = zero
      BY <1>4, <1>5, <1>6, <1>10, <2>2
    <3>2. QED
      BY <1>1, <1>10, <2>2, <3>1
  <2>3. CASE MulticlickMs > 0 /\ ~ c.sinceMs > MulticlickMs
    <3>1. AfterQuiet(c, pressed) = IF c.clickCounter = Highest THEN told ELSE c
      BY <1>4, <1>5, <1>6, <1>10, <2>3
    <3>2. QED
      BY <1>2, <1>10, <2>3, <3>1
  <2>4. QED
    BY <1>7, <2>1, <2>2, <2>3
<1>11. QED
  BY <1>8, <1>9, <1>10

\* The effects of a call, by field.
LEMMA EffectsTold ==
    ASSUME NEW g, Gesture(g), GestureTyped(g), NEW events
    PROVE  LET t == WithEffects(g, events)
           IN  /\ GestureTyped(t) /\ t.presses = g.presses /\ t.reconfigured = g.reconfigured
               /\ t.held = (g.held \/ Hold \in events)
               /\ t.local = (IF Heard("relay", events) = {} THEN g.local
                             ELSE Least(g.local + 1, Many))
               /\ t.cloud = g.cloud \cup (Heard("at", events) \cap {Click(n) : n \in 1 .. Clicks})
<1> DEFINE local == Least(g.local + (IF Heard("relay", events) = {} THEN 0 ELSE 1), Many)
           cloud == g.cloud \cup (Heard("at", events) \cap {Click(n) : n \in 1 .. Clicks})
           held == g.held \/ Hold \in events
           holding == (g.holding \/ Hold \in Heard("relay", events))
                          /\ HoldRelease \notin Heard("relay", events)
           t == [g EXCEPT !.local = local, !.cloud = cloud, !.held = held, !.holding = holding]
<1>1. WithEffects(g, events) = t
  BY Zenon DEF WithEffects
<1>2. /\ local \in 0 .. Many
      /\ local = (IF Heard("relay", events) = {} THEN g.local ELSE Least(g.local + 1, Many))
  BY Times DEF GestureTyped, Least
<1>3. held \in BOOLEAN /\ holding \in BOOLEAN
  OBVIOUS
<1> HIDE DEF local, cloud, held, holding
<1>4. /\ GestureTyped(t) /\ t.presses = g.presses /\ t.reconfigured = g.reconfigured
      /\ t.held = held /\ t.local = local /\ t.cloud = cloud
  BY <1>2, <1>3 DEF Gesture, GestureTyped
<1> HIDE DEF t
<1>5. QED
  BY <1>1, <1>2, <1>4, Zenon DEF cloud, held

\* A press or a release, by field: a gesture begins with a press at rest, and a release
\* after a long press starts its count over.
LEMMA EdgeTold ==
    ASSUME NEW g, Gesture(g), GestureTyped(g), NEW c, NEW pressed, NEW events
    PROVE  LET e == WithEdge(g, c, pressed, events)
               b == IF Counts(pressed) /\ Rested(c) THEN NoGesture ELSE g
           IN  /\ GestureTyped(e) /\ e.reconfigured = b.reconfigured
               /\ e.held = (b.held \/ Hold \in events)
               /\ ~ Counts(pressed) /\ Rested(c) =>
                     e.presses = 0 /\ e.local = 0 /\ e.cloud = {}
               /\ Counts(pressed) \/ ~ Rested(c) =>
                     /\ e.presses = (IF Counts(pressed) THEN Least(b.presses + 1, Many)
                                     ELSE b.presses)
                     /\ e.local = (IF Heard("relay", events) = {} THEN b.local
                                   ELSE Least(b.local + 1, Many))
                     /\ e.cloud = b.cloud
                           \cup (Heard("at", events) \cap {Click(n) : n \in 1 .. Clicks})
<1> DEFINE b == IF Counts(pressed) /\ Rested(c) THEN NoGesture ELSE g
           presses == Least(b.presses + 1, Many)
           more == [b EXCEPT !.presses = presses]
           counted == IF Counts(pressed) THEN more ELSE b
           told == WithEffects(counted, events)
           long == [told EXCEPT !.presses = 0, !.local = 0, !.cloud = {}]
<1>1. Gesture(NoGesture) /\ GestureTyped(NoGesture)
  BY Times DEF Gesture, GestureTyped, NoGesture
<1>2. Gesture(b) /\ GestureTyped(b)
  BY <1>1, Zenon
<1>3. presses \in 0 .. Many
  <2> HIDE DEF b
  <2> QED BY <1>2, Times DEF GestureTyped, Least
<1>4. /\ Gesture(more) /\ GestureTyped(more) /\ more.presses = presses /\ more.local = b.local
      /\ more.cloud = b.cloud /\ more.held = b.held /\ more.reconfigured = b.reconfigured
  <2> HIDE DEF b, presses
  <2> QED BY <1>2, <1>3 DEF Gesture, GestureTyped
<1>5. /\ Gesture(counted) /\ GestureTyped(counted)
      /\ counted.presses = (IF Counts(pressed) THEN presses ELSE b.presses)
      /\ counted.local = b.local /\ counted.cloud = b.cloud /\ counted.held = b.held
      /\ counted.reconfigured = b.reconfigured
  <2> HIDE DEF b, presses, more
  <2> QED BY <1>2, <1>4, Zenon
<1> HIDE DEF counted
<1>6. /\ Gesture(told) /\ GestureTyped(told)
      /\ told.presses = counted.presses /\ told.reconfigured = counted.reconfigured
      /\ told.held = (counted.held \/ Hold \in events)
      /\ told.local = (IF Heard("relay", events) = {} THEN counted.local
                       ELSE Least(counted.local + 1, Many))
      /\ told.cloud = counted.cloud
            \cup (Heard("at", events) \cap {Click(n) : n \in 1 .. Clicks})
  BY <1>5, Effects, EffectsTold
<1>7. WithEdge(g, c, pressed, events) =
          IF ~ Counts(pressed) /\ Rested(c) THEN AfterLongPress(told) ELSE told
  BY Zenon DEF WithEdge, counted
<1>8. AfterLongPress(told) = long
  BY DEF AfterLongPress
<1> HIDE DEF b, presses, told
<1>9. /\ GestureTyped(long) /\ long.presses = 0 /\ long.local = 0 /\ long.cloud = {}
      /\ long.held = told.held /\ long.reconfigured = told.reconfigured
  BY <1>6, Times DEF Gesture, GestureTyped
<1> HIDE DEF long
<1>10. WithEdge(g, c, pressed, events) =
           IF ~ Counts(pressed) /\ Rested(c) THEN long ELSE told
  BY <1>7, <1>8, Zenon
<1>11. CASE ~ Counts(pressed) /\ Rested(c)
  BY <1>5, <1>6, <1>9, <1>10, <1>11, Zenon DEF b
<1>12. CASE Counts(pressed) \/ ~ Rested(c)
  <2>1. WithEdge(g, c, pressed, events) = told
    BY <1>10, <1>12, Zenon
  <2>2. told.presses = (IF Counts(pressed) THEN Least(b.presses + 1, Many) ELSE b.presses)
    BY <1>5, <1>6, Zenon DEF presses
  <2>3. /\ told.local = (IF Heard("relay", events) = {} THEN b.local ELSE Least(b.local + 1, Many))
        /\ told.cloud = b.cloud \cup (Heard("at", events) \cap {Click(n) : n \in 1 .. Clicks})
        /\ told.held = (b.held \/ Hold \in events) /\ told.reconfigured = b.reconfigured
    BY <1>5, <1>6
  <2>4. ~ (~ Counts(pressed) /\ Rested(c))
    BY <1>12, Zenon
  <2>5. QED
    BY <1>6, <2>1, <2>2, <2>3, <2>4, Zenon DEF b
<1>13. QED
  BY <1>11, <1>12, Zenon

-------------------------------------------------------------------------------
(* The steps of the timer, by field.                                           *)

\* What is known of every state.
Base == HoldInv /\ HandlersInv /\ NumbersInv

\* The timer sees a press or a release.
LEMMA EdgeStep ==
    ASSUME Base, NEW d \in Periods, OnTimerEdge(d)
    PROVE  LET pressed == input'.pressed
               begun == IF Counts(pressed) /\ Rested(count) THEN NoGesture ELSE gesture
           IN  /\ UNCHANGED <<bistable, localEvent, pin, enabled, active>>
               /\ pressed \in BOOLEAN /\ pressed = ~ input.pressed
               /\ InputTyped(input') /\ input'.debounceMs = 0
               /\ ~ (DebounceMs > 0 /\ Least(input.debounceMs + d, InputCapMs) <= DebounceMs)
               /\ CountTyped(count') /\ count'.sinceMs = 0 /\ count'.holdSend = count.holdSend
               /\ count'.clickCounter = IF MulticlickMs > 0 /\ Counts(pressed)
                                              /\ count.clickCounter <= Highest
                                        THEN count.clickCounter + 1 ELSE count.clickCounter
               /\ emitted' \subseteq {Change, IF pressed THEN Press ELSE Release, HoldRelease}
               /\ {Change, IF pressed THEN Press ELSE Release} \subseteq emitted'
               /\ HoldRelease \in emitted' => ~ pressed /\ count.holdSend > 0
               /\ GestureTyped(gesture') /\ gesture'.reconfigured = begun.reconfigured
               /\ gesture'.held = begun.held
               /\ ~ Counts(pressed) /\ Rested(count) =>
                     gesture'.presses = 0 /\ gesture'.local = 0 /\ gesture'.cloud = {}
               /\ Counts(pressed) \/ ~ Rested(count) =>
                     /\ gesture'.presses = (IF Counts(pressed) THEN Least(begun.presses + 1, Many)
                                            ELSE begun.presses)
                     /\ gesture'.local = (IF Heard("relay", emitted') = {} THEN begun.local
                                          ELSE Least(begun.local + 1, Many))
                     /\ gesture'.cloud = begun.cloud
<1> DEFINE in == Update(Waiting(input, d))
           c == [count EXCEPT !.sinceMs = Later(@, d)]
           pressed == in.pressed
           events == EdgeEvents(c, pressed)
           begun == IF Counts(pressed) /\ Rested(count) THEN NoGesture ELSE gesture
           e == WithEdge(gesture, count, pressed, events)
<1>1. /\ pressed # input.pressed /\ input' = in /\ emitted' = events
      /\ count' = AfterEdge(c, pressed) /\ gesture' = e
      /\ UNCHANGED <<bistable, localEvent, pin, enabled, active>>
  BY DEF OnTimerEdge, config
<1>2. /\ Input(input) /\ InputTyped(input) /\ Counters(count) /\ CountTyped(count)
      /\ Gesture(gesture) /\ GestureTyped(gesture) /\ pin \in BOOLEAN
  BY DEF Base, HoldInv, Types, NumbersInv
<1>3. /\ Input(in) /\ InputTyped(in)
      /\ pressed # input.pressed =>
            /\ in.debounceMs = 0
            /\ ~ (DebounceMs > 0 /\ Least(input.debounceMs + d, InputCapMs) <= DebounceMs)
  BY <1>2, InputKeepsType, UpdateTyped
<1>4. pressed \in BOOLEAN /\ pressed = ~ input.pressed
  BY <1>1, <1>2, <1>3 DEF Input
<1>5. Later(count.sinceMs, d) \in Never .. ClockCapMs
  BY <1>2, ClockRuns DEF CountTyped
<1>6. /\ Counters(c) /\ CountTyped(c) /\ c.holdSend = count.holdSend
      /\ c.clickCounter = count.clickCounter
  BY <1>2, <1>5 DEF Counters, CountTyped
<1> HIDE DEF in, c
<1>7. /\ CountTyped(AfterEdge(c, pressed)) /\ AfterEdge(c, pressed).sinceMs = 0
      /\ AfterEdge(c, pressed).holdSend = c.holdSend
      /\ AfterEdge(c, pressed).clickCounter =
             IF MulticlickMs > 0 /\ Counts(pressed) /\ c.clickCounter <= Highest
             THEN c.clickCounter + 1 ELSE c.clickCounter
  BY <1>6, EdgeCounts
<1>8. /\ events \subseteq {Change, IF pressed THEN Press ELSE Release, HoldRelease}
      /\ {Change, IF pressed THEN Press ELSE Release} \subseteq events
      /\ HoldRelease \in events => ~ pressed /\ c.holdSend > 0
  BY EventNames DEF EdgeEvents
<1>9. /\ Hold \notin events
      /\ \A n : Click(n) \notin events
  BY <1>8, EventNames
<1>10. Heard("at", events) \cap {Click(n) : n \in 1 .. Clicks} = {}
  BY <1>9 DEF Heard
<1> HIDE DEF events
<1>11. /\ GestureTyped(e) /\ e.reconfigured = begun.reconfigured
       /\ e.held = (begun.held \/ Hold \in events)
       /\ ~ Counts(pressed) /\ Rested(count) =>
             e.presses = 0 /\ e.local = 0 /\ e.cloud = {}
       /\ Counts(pressed) \/ ~ Rested(count) =>
             /\ e.presses = (IF Counts(pressed) THEN Least(begun.presses + 1, Many)
                             ELSE begun.presses)
             /\ e.local = (IF Heard("relay", events) = {} THEN begun.local
                           ELSE Least(begun.local + 1, Many))
             /\ e.cloud = begun.cloud
                   \cup (Heard("at", events) \cap {Click(n) : n \in 1 .. Clicks})
  BY <1>2, EdgeTold
<1>12. begun.held \in BOOLEAN
  BY <1>2 DEF GestureTyped, NoGesture
<1> DEFINE pressed1 == input'.pressed
           begun1 == IF Counts(pressed1) /\ Rested(count) THEN NoGesture ELSE gesture
<1>13. pressed1 = pressed /\ begun1 = begun
  BY <1>1
<1> HIDE DEF e, begun, begun1, pressed, pressed1
<1>14. /\ gesture'.held = begun.held
       /\ Counts(pressed) \/ ~ Rested(count) => gesture'.cloud = begun.cloud
  BY <1>1, <1>9, <1>10, <1>11, <1>12
<1>15. /\ CountTyped(count') /\ count'.sinceMs = 0 /\ count'.holdSend = count.holdSend
       /\ count'.clickCounter =
              IF MulticlickMs > 0 /\ Counts(pressed) /\ count.clickCounter <= Highest
              THEN count.clickCounter + 1 ELSE count.clickCounter
  BY <1>1, <1>6, <1>7
<1>16. InputTyped(input') /\ input'.debounceMs = 0
       /\ ~ (DebounceMs > 0 /\ Least(input.debounceMs + d, InputCapMs) <= DebounceMs)
  BY <1>1, <1>3
<1>17. /\ GestureTyped(gesture') /\ gesture'.reconfigured = begun.reconfigured
       /\ ~ Counts(pressed) /\ Rested(count) =>
             gesture'.presses = 0 /\ gesture'.local = 0 /\ gesture'.cloud = {}
       /\ Counts(pressed) \/ ~ Rested(count) =>
             /\ gesture'.presses = (IF Counts(pressed) THEN Least(begun.presses + 1, Many)
                                    ELSE begun.presses)
             /\ gesture'.local = (IF Heard("relay", emitted') = {} THEN begun.local
                                  ELSE Least(begun.local + 1, Many))
  BY <1>1, <1>11
<1>18. QED
  BY <1>1, <1>4, <1>6, <1>8, <1>13, <1>14, <1>15, <1>16, <1>17, Zenon DEF begun1, pressed1

\* The end of a gesture, or of as many clicks as anybody waits for.
EndsAt(ms, clicks) == MulticlickMs > 0 /\ (ms > MulticlickMs \/ clicks = Highest)

\* The timer sees no change.
LEMMA QuietStep ==
    ASSUME Base, NEW d \in Periods, OnTimerQuiet(d)
    PROVE  LET ms == Later(count.sinceMs, d)
               clicks == count.clickCounter
               held == ~ bistable /\ input.pressed
           IN  /\ UNCHANGED <<bistable, localEvent, pin, enabled, active>>
               /\ input'.pressed = input.pressed /\ InputTyped(input')
               /\ CountTyped(count') /\ count'.sinceMs = ms
               /\ ms = Never => emitted' = {} /\ count'.clickCounter = clicks
                                /\ count'.holdSend = count.holdSend
               /\ ms # Never /\ held =>
                     /\ emitted' \subseteq {Hold}
                     /\ count'.holdSend = (IF Hold \in emitted' THEN count.holdSend + 1
                                           ELSE count.holdSend)
                     /\ count'.clickCounter = (IF ms > MulticlickMs THEN 0 ELSE clicks)
               /\ ms # Never /\ ~ held =>
                     /\ emitted' = IF ~ EndsAt(ms, clicks) THEN {}
                                   ELSE IF count.holdSend = 0
                                        THEN {x \in {Click(clicks)} : clicks \in 1 .. 10}
                                        ELSE {x \in {LongClick(clicks)} : clicks \in 0 .. 10}
                     /\ MulticlickMs = 0 \/ ms > MulticlickMs =>
                            count'.clickCounter = 0 /\ count'.holdSend = 0
                     /\ MulticlickMs > 0 /\ ~ ms > MulticlickMs =>
                            /\ count'.holdSend = count.holdSend
                            /\ count'.clickCounter = (IF clicks = Highest THEN Reported ELSE clicks)
               /\ GestureTyped(gesture') /\ gesture'.presses = gesture.presses
               /\ gesture'.reconfigured = gesture.reconfigured
               /\ gesture'.held = (gesture.held \/ Hold \in emitted')
               /\ gesture'.local = (IF Heard("relay", emitted') = {} THEN gesture.local
                                    ELSE Least(gesture.local + 1, Many))
               /\ gesture'.cloud = gesture.cloud
                     \cup (Heard("at", emitted') \cap {Click(n) : n \in 1 .. Clicks})
<1> DEFINE in == Update(Waiting(input, d))
           ms == Later(count.sinceMs, d)
           c == [count EXCEPT !.sinceMs = ms]
           pressed == in.pressed
           events == QuietEvents(c, pressed)
           clicks == count.clickCounter
           held == ~ bistable /\ input.pressed
           t == WithEffects(gesture, events)
<1>1. /\ pressed = input.pressed /\ input' = in /\ emitted' = events
      /\ count' = AfterQuiet(c, pressed) /\ gesture' = t
      /\ UNCHANGED <<bistable, localEvent, pin, enabled, active>>
  BY DEF OnTimerQuiet, config
<1>2. /\ Input(input) /\ InputTyped(input) /\ Counters(count) /\ CountTyped(count)
      /\ Gesture(gesture) /\ GestureTyped(gesture) /\ pin \in BOOLEAN
  BY DEF Base, HoldInv, Types, NumbersInv
<1>3. Input(in) /\ InputTyped(in)
  BY <1>2, InputKeepsType, UpdateTyped
<1>4. ms \in Never .. ClockCapMs
  BY <1>2, ClockRuns DEF CountTyped
<1> HIDE DEF ms
<1>5. /\ Counters(c) /\ CountTyped(c) /\ c.holdSend = count.holdSend
      /\ c.clickCounter = count.clickCounter /\ c.sinceMs = ms
  BY <1>2, <1>4 DEF Counters, CountTyped
<1> HIDE DEF in, c
<1> DEFINE a == AfterQuiet(c, pressed)
<1>6. /\ CountTyped(a) /\ a.sinceMs = c.sinceMs
      /\ c.sinceMs = Never => a = c
      /\ c.sinceMs # Never /\ ~ bistable /\ pressed => a = AfterHolding(c)
      /\ c.sinceMs # Never /\ ~ (~ bistable /\ pressed) =>
            /\ MulticlickMs = 0 \/ c.sinceMs > MulticlickMs =>
                   a.clickCounter = 0 /\ a.holdSend = 0
            /\ MulticlickMs > 0 /\ ~ c.sinceMs > MulticlickMs =>
                   /\ a.holdSend = c.holdSend
                   /\ a.clickCounter = (IF c.clickCounter = Highest THEN Reported
                                        ELSE c.clickCounter)
  BY <1>5, QuietCounts
<1>7. LET h == AfterHolding(c)
      IN  /\ h.holdSend = (IF HoldDue(c) THEN c.holdSend + 1 ELSE c.holdSend)
          /\ h.clickCounter = (IF c.sinceMs > MulticlickMs THEN 0 ELSE c.clickCounter)
  BY <1>5, HoldingCounts
<1>8. GestureOver(c) <=> EndsAt(ms, clicks)
  BY <1>5 DEF GestureOver, EndsAt, Highest
<1>9. /\ ms = Never => events = {}
      /\ ms # Never /\ held => events = {x \in {Hold} : HoldDue(c)}
      /\ ms # Never /\ ~ held => events = {x \in ClickEvents(c) : GestureOver(c)}
  BY <1>1, <1>5, Zenon DEF QuietEvents
<1>10. ClickEvents(c) = IF count.holdSend = 0
                        THEN {x \in {Click(clicks)} : clicks \in 1 .. 10}
                        ELSE {x \in {LongClick(clicks)} : clicks \in 0 .. 10}
  BY <1>5 DEF ClickEvents
<1>11. /\ GestureTyped(t) /\ t.presses = gesture.presses
       /\ t.reconfigured = gesture.reconfigured
       /\ t.held = (gesture.held \/ Hold \in events)
       /\ t.local = (IF Heard("relay", events) = {} THEN gesture.local
                     ELSE Least(gesture.local + 1, Many))
       /\ t.cloud = gesture.cloud
             \cup (Heard("at", events) \cap {Click(n) : n \in 1 .. Clicks})
  BY <1>2, EffectsTold
<1> HIDE DEF events, t, a
<1>12. /\ GestureTyped(gesture') /\ gesture'.presses = gesture.presses
       /\ gesture'.reconfigured = gesture.reconfigured
       /\ gesture'.held = (gesture.held \/ Hold \in emitted')
       /\ gesture'.local = (IF Heard("relay", emitted') = {} THEN gesture.local
                            ELSE Least(gesture.local + 1, Many))
       /\ gesture'.cloud = gesture.cloud
             \cup (Heard("at", emitted') \cap {Click(n) : n \in 1 .. Clicks})
  BY <1>1, <1>11
<1>13. count' = a
  BY <1>1 DEF a
<1>14. /\ CountTyped(count') /\ count'.sinceMs = ms
       /\ ms = Never => emitted' = {} /\ count'.clickCounter = clicks
                        /\ count'.holdSend = count.holdSend
  BY <1>1, <1>5, <1>6, <1>9, <1>13, Zenon
<1>15. ms # Never /\ held =>
          /\ emitted' \subseteq {Hold}
          /\ count'.holdSend = (IF Hold \in emitted' THEN count.holdSend + 1 ELSE count.holdSend)
          /\ count'.clickCounter = (IF ms > MulticlickMs THEN 0 ELSE clicks)
  <2> SUFFICES ASSUME ms # Never, held
               PROVE  /\ emitted' \subseteq {Hold}
                      /\ count'.holdSend = (IF Hold \in emitted' THEN count.holdSend + 1
                                            ELSE count.holdSend)
                      /\ count'.clickCounter = (IF ms > MulticlickMs THEN 0 ELSE clicks)
    OBVIOUS
  <2>1. count' = AfterHolding(c)
    BY <1>1, <1>5, <1>6, <1>13, Zenon
  <2>2. /\ emitted' \subseteq {Hold} /\ (Hold \in emitted' <=> HoldDue(c))
    BY <1>1, <1>9
  <2>3. QED
    BY <1>5, <1>7, <2>1, <2>2
<1>16. ms # Never /\ ~ held =>
          /\ emitted' = IF ~ EndsAt(ms, clicks) THEN {}
                        ELSE IF count.holdSend = 0
                             THEN {x \in {Click(clicks)} : clicks \in 1 .. 10}
                             ELSE {x \in {LongClick(clicks)} : clicks \in 0 .. 10}
          /\ MulticlickMs = 0 \/ ms > MulticlickMs =>
                 count'.clickCounter = 0 /\ count'.holdSend = 0
          /\ MulticlickMs > 0 /\ ~ ms > MulticlickMs =>
                 /\ count'.holdSend = count.holdSend
                 /\ count'.clickCounter = (IF clicks = Highest THEN Reported ELSE clicks)
  <2> SUFFICES ASSUME ms # Never, ~ held
               PROVE  /\ emitted' = IF ~ EndsAt(ms, clicks) THEN {}
                                    ELSE IF count.holdSend = 0
                                         THEN {x \in {Click(clicks)} : clicks \in 1 .. 10}
                                         ELSE {x \in {LongClick(clicks)} : clicks \in 0 .. 10}
                      /\ MulticlickMs = 0 \/ ms > MulticlickMs =>
                             count'.clickCounter = 0 /\ count'.holdSend = 0
                      /\ MulticlickMs > 0 /\ ~ ms > MulticlickMs =>
                             /\ count'.holdSend = count.holdSend
                             /\ count'.clickCounter = (IF clicks = Highest THEN Reported
                                                       ELSE clicks)
    OBVIOUS
  <2>1. emitted' = {x \in ClickEvents(c) : EndsAt(ms, clicks)}
    BY <1>1, <1>8, <1>9
  <2>2. emitted' = IF EndsAt(ms, clicks) THEN ClickEvents(c) ELSE {}
    BY <2>1
  <2>3. /\ MulticlickMs = 0 \/ ms > MulticlickMs =>
               count'.clickCounter = 0 /\ count'.holdSend = 0
        /\ MulticlickMs > 0 /\ ~ ms > MulticlickMs =>
               /\ count'.holdSend = count.holdSend
               /\ count'.clickCounter = (IF clicks = Highest THEN Reported ELSE clicks)
    BY <1>1, <1>5, <1>6, <1>13
  <2>4. QED
    BY <1>10, <2>2, <2>3, Zenon
<1>17. input'.pressed = input.pressed /\ InputTyped(input')
  BY <1>1, <1>3
<1>18. QED
  BY <1>1, <1>12, <1>14, <1>15, <1>16, <1>17, Zenon DEF ms

\* The numbers stay within their bounds.
LEMMA NextNumbers == Base /\ [Next]_vars => NumbersInv'
<1> SUFFICES ASSUME Base, [Next]_vars PROVE NumbersInv'
  OBVIOUS
<1>1. NumbersInv
  BY DEF Base
<1>2. CASE PinChanges
  BY <1>1, <1>2 DEF PinChanges, NumbersInv, config
<1>3. ASSUME NEW d \in Periods, OnTimerEdge(d)
      PROVE  NumbersInv'
  <2>1. /\ InputTyped(input') /\ CountTyped(count') /\ GestureTyped(gesture')
        /\ emitted' \subseteq {Change, IF input'.pressed THEN Press ELSE Release, HoldRelease}
    BY <1>3, EdgeStep
  <2>2. {Change, Press, Release, HoldRelease} \subseteq Events
    BY DEF Events
  <2>3. QED
    BY <2>1, <2>2 DEF NumbersInv
<1>4. ASSUME NEW d \in Periods, OnTimerQuiet(d)
      PROVE  NumbersInv'
  <2> DEFINE ms == Later(count.sinceMs, d)
             clicks == count.clickCounter
             held == ~ bistable /\ input.pressed
  <2>1. /\ InputTyped(input') /\ CountTyped(count') /\ GestureTyped(gesture')
        /\ ms = Never => emitted' = {}
        /\ ms # Never /\ held => emitted' \subseteq {Hold}
        /\ ms # Never /\ ~ held =>
              emitted' = IF ~ EndsAt(ms, clicks) THEN {}
                         ELSE IF count.holdSend = 0
                              THEN {x \in {Click(clicks)} : clicks \in 1 .. 10}
                              ELSE {x \in {LongClick(clicks)} : clicks \in 0 .. 10}
    BY <1>4, QuietStep
  <2> HIDE DEF ms, clicks, held
  <2>2. \/ emitted' \subseteq {Hold}
        \/ clicks \in 1 .. 10 /\ emitted' \subseteq {Click(clicks)}
        \/ clicks \in 0 .. 10 /\ emitted' \subseteq {LongClick(clicks)}
    BY <2>1
  <2>3. emitted' \subseteq Events
    BY <2>2 DEF Events
  <2>4. QED
    BY <2>1, <2>3 DEF NumbersInv
<1>5. ASSUME NEW on \in ActiveSets, HandleChannelConfig(on)
      PROVE  NumbersInv'
  <2> DEFINE taken == gesture.taken \/ (gesture.holding /\ Hold \in on)
             g == [gesture EXCEPT !.reconfigured = TRUE, !.taken = taken]
  <2>1. /\ gesture' = IF Complete THEN NoGesture ELSE g
        /\ emitted' = {} /\ input' = input /\ count' = count
    BY <1>5, Zenon DEF HandleChannelConfig
  <2> HIDE DEF taken
  <2>2. GestureTyped(g) /\ GestureTyped(NoGesture)
    BY <1>1, Times DEF Base, HoldInv, Types, Gesture, NumbersInv, GestureTyped, NoGesture
  <2> HIDE DEF g
  <2>3. QED
    BY <1>1, <2>1, <2>2 DEF NumbersInv
<1>6. CASE Restart
  <2>1. /\ input' = [pressed |-> pin, candidate |-> FALSE,
                     debounceMs |-> InputCapMs, filterMs |-> InputCapMs]
        /\ count' = [sinceMs |-> Never, clickCounter |-> 0, holdSend |-> 0]
        /\ emitted' = {} /\ gesture' = NoGesture
    BY <1>6 DEF Restart, Boot
  <2>2. QED
    BY <2>1, Times, NoReports DEF NumbersInv, InputTyped, CountTyped, GestureTyped, NoGesture, Never
<1>7. CASE UNCHANGED vars
  BY <1>1, <1>7 DEF vars, NumbersInv
<1>8. QED
  BY <1>2, <1>3, <1>4, <1>5, <1>6, <1>7 DEF Next, OnTimer

\* At the start too.
LEMMA InitNumbers == Init => NumbersInv
BY Times, NoReports DEF Init, NumbersInv, InputTyped, CountTyped, GestureTyped, NoGesture, Never

\* The base of what follows.
THEOREM ButtonBase == Spec => []Base
<1>2. Init => Base
  BY InitHandlers, InitHold, InitNumbers DEF Base
<1>3. Base /\ [Next]_vars => Base'
  BY NextHold, NextHandlers, NextNumbers DEF Base
<1>4. QED
  BY <1>2, <1>3, PTL DEF Spec

\* Every counter of the button and of its input stays within its bound; nobody listens
\* who is not registered.
THEOREM ButtonTypes == Spec => []TypeOK
<1>1. Base => TypeOK
  <2> SUFFICES ASSUME Base PROVE TypeOK
    OBVIOUS
  <2>1. bistable \in BOOLEAN /\ localEvent \in {Press, Release, Change, Hold, Click(1), HoldRelease}
    BY DEF Base, HandlersInv, Kinds
  <2>2. localEvent \in Events
    BY <2>1 DEF Events
  <2>3. input \in [pressed : BOOLEAN, candidate : BOOLEAN,
                   debounceMs : 0 .. InputCapMs, filterMs : 0 .. InputCapMs]
        /\ pin \in BOOLEAN
    BY DEF Base, HoldInv, Types, NumbersInv, Input, InputTyped
  <2>4. RelayListens(active) \subseteq Registered
    <3>1. \A x : x \in LocalEvents \/ (Switching /\ x = Click(1))
                     => <<"relay", x>> \in Registered
      BY LocalKinds DEF Base, HandlersInv
    <3>2. Switching => localEvent \in LocalEvents
      BY LocalKinds DEF Base, HandlersInv
    <3>3. QED
      BY <3>1, <3>2 DEF RelayListens
  <2>5. enabled \subseteq Registered
    BY <2>4 DEF Base, HandlersInv, TriggerListens
  <2>6. QED
    BY <2>1, <2>2, <2>3, <2>5 DEF Base, NumbersInv, CountTyped, TypeOK
<1>2. QED
  BY <1>1, ButtonBase, PTL

-------------------------------------------------------------------------------
(* The count.  While a gesture goes on, clickCounter is the number of presses, *)
(* or one more than anybody waits for, or it was reported; holdSend tells      *)
(* whether a hold was.  At rest both are 0 again, but for holdSend while the   *)
(* button is held.                                                             *)

HeldDown == input.pressed /\ ~ bistable

RestInv ==
    /\ Rested(count) => count.clickCounter = 0
    /\ Rested(count) /\ ~ HeldDown => count.holdSend = 0
    /\ bistable => count.holdSend = 0
    /\ MulticlickMs = 0 => count.clickCounter = 0

\* The counter, for the presses of a gesture.
Tells(clicks, presses) ==
    \/ clicks = Reported
    \/ clicks <= Highest /\ presses = clicks
    \/ clicks = Highest + 1 /\ presses >= clicks

ClicksInv ==
    ~ gesture.reconfigured =>
        /\ ~ Rested(count) /\ MulticlickMs > 0 => Tells(count.clickCounter, gesture.presses)
        /\ ~ Rested(count) \/ HeldDown => (gesture.held <=> count.holdSend > 0)

CountInv == RestInv /\ ClicksInv /\ ClicksCounted

\* A call of the timer changes nobody's interest.
LEMMA HighestStays ==
    ASSUME enabled' = enabled
    PROVE  Highest' = Highest
BY DEF Highest, MaxMulticlickValueConfigured

\* A press at rest begins a count, a release after a long press leaves none.
LEMMA EdgeCountInv ==
    ASSUME Base, CountInv, NEW d \in Periods, OnTimerEdge(d)
    PROVE  CountInv'
<1> DEFINE pressed == input'.pressed
           begun == IF Counts(pressed) /\ Rested(count) THEN NoGesture ELSE gesture
           k == count.clickCounter
           k1 == count'.clickCounter
           p == gesture.presses
           p1 == gesture'.presses
<1>1. /\ UNCHANGED <<bistable, enabled>>
      /\ pressed \in BOOLEAN /\ pressed = ~ input.pressed
      /\ count'.sinceMs = 0 /\ count'.holdSend = count.holdSend
      /\ k1 = IF MulticlickMs > 0 /\ Counts(pressed) /\ k <= Highest THEN k + 1 ELSE k
      /\ emitted' \subseteq {Change, IF pressed THEN Press ELSE Release, HoldRelease}
      /\ HoldRelease \in emitted' => ~ pressed /\ count.holdSend > 0
      /\ gesture'.reconfigured = begun.reconfigured /\ gesture'.held = begun.held
      /\ ~ Counts(pressed) /\ Rested(count) => p1 = 0
      /\ Counts(pressed) \/ ~ Rested(count) =>
            p1 = (IF Counts(pressed) THEN Least(begun.presses + 1, Many) ELSE begun.presses)
  BY EdgeStep
<1>2. Highest' = Highest /\ Highest \in 0 .. Clicks
  BY <1>1, HighestStays, HighestClick
<1>3. /\ k \in 0 .. Clicks + 1 \cup {Reported} /\ p \in 0 .. Many
      /\ count.holdSend \in Nat /\ gesture.held \in BOOLEAN
  BY Times DEF Base, NumbersInv, CountTyped, GestureTyped, Reports
<1>4. ~ Rested(count)'
  BY <1>1, Times DEF Rested, Never
<1>5. /\ Rested(count) => k = 0
      /\ Rested(count) /\ ~ HeldDown => count.holdSend = 0
      /\ bistable => count.holdSend = 0
      /\ MulticlickMs = 0 => k = 0
  BY DEF CountInv, RestInv
<1>6. ~ gesture.reconfigured =>
         /\ ~ Rested(count) /\ MulticlickMs > 0 => Tells(k, p)
         /\ ~ Rested(count) \/ HeldDown => (gesture.held <=> count.holdSend > 0)
  BY DEF CountInv, ClicksInv
<1>7. Counts(pressed) <=> pressed \/ bistable
  BY DEF Counts
<1>8. ~ NoGesture.held /\ NoGesture.presses = 0
  BY DEF NoGesture
<1> HIDE DEF pressed, k, k1, p, p1
<1>9. RestInv'
  BY <1>1, <1>4, <1>5 DEF RestInv, k, k1
<1>10. CASE Counts(pressed) /\ Rested(count)
  <2>1. begun = NoGesture /\ p1 = 1 /\ gesture'.held = FALSE
    BY <1>1, <1>8, <1>10, Times DEF Least, NoGesture
  <2>2. k = 0 /\ count'.holdSend = 0
    BY <1>1, <1>5, <1>7, <1>10 DEF HeldDown
  <2>3. MulticlickMs > 0 => k1 = 1
    BY <1>1, <1>2, <1>10, <2>2
  <2>4. MulticlickMs > 0 => Tells(k1, p1)
    BY <1>2, <2>1, <2>3 DEF Tells
  <2>5. ClicksInv'
    BY <1>2, <2>1, <2>2, <2>4 DEF ClicksInv, Tells, k1, p1
  <2>6. QED
    BY <1>1, <1>9, <2>5, EventNames DEF CountInv, ClicksCounted
<1>11. CASE ~ (Counts(pressed) /\ Rested(count))
  <2>1. begun = gesture
    BY <1>11
  <2> SUFFICES ASSUME ~ gesture.reconfigured
               PROVE  /\ MulticlickMs > 0 => Tells(k1, p1)
                      /\ gesture'.held <=> count'.holdSend > 0
    <3>1. ClicksInv'
      BY <1>1, <1>2, <2>1 DEF ClicksInv, Tells, k1, p1
    <3>2. QED
      BY <1>1, <1>9, <3>1, EventNames DEF CountInv, ClicksCounted
  <2>2. CASE Counts(pressed)
    <3>1. ~ Rested(count) /\ p1 = Least(p + 1, Many)
      BY <1>1, <1>11, <2>1, <2>2 DEF p
    <3>2. MulticlickMs > 0 => Tells(k, p)
      BY <1>6, <3>1
    <3>3. MulticlickMs > 0 => Tells(k1, p1)
      BY <1>1, <1>2, <1>3, <2>2, <3>1, <3>2, Times DEF Tells, Least, Reported
    <3>4. QED
      BY <1>1, <1>6, <2>1, <3>1, <3>3
  <2>3. CASE ~ Counts(pressed) /\ Rested(count)
    <3>1. p1 = 0 /\ k1 = 0
      BY <1>1, <1>5, <2>3
    <3>2. HeldDown
      BY <1>1, <1>7, <2>3 DEF HeldDown
    <3>3. QED
      BY <1>1, <1>2, <1>6, <2>1, <3>1, <3>2 DEF Tells
  <2>4. CASE ~ Counts(pressed) /\ ~ Rested(count)
    <3>1. p1 = p /\ k1 = k
      BY <1>1, <2>1, <2>4 DEF p
    <3>2. QED
      BY <1>1, <1>6, <2>1, <2>4, <3>1
  <2>5. QED
    BY <2>2, <2>3, <2>4
<1>12. QED
  BY <1>10, <1>11

\* Between presses the count stands, is reported, or is over.
LEMMA QuietCountInv ==
    ASSUME Base, CountInv, NEW d \in Periods, OnTimerQuiet(d)
    PROVE  CountInv'
<1> DEFINE ms == Later(count.sinceMs, d)
           held == ~ bistable /\ input.pressed
           k == count.clickCounter
           k1 == count'.clickCounter
           p == gesture.presses
<1>1. /\ UNCHANGED <<bistable, enabled>>
      /\ input'.pressed = input.pressed /\ count'.sinceMs = ms
      /\ ms = Never => emitted' = {} /\ k1 = k /\ count'.holdSend = count.holdSend
      /\ ms # Never /\ held =>
            /\ emitted' \subseteq {Hold}
            /\ count'.holdSend = (IF Hold \in emitted' THEN count.holdSend + 1
                                  ELSE count.holdSend)
            /\ k1 = (IF ms > MulticlickMs THEN 0 ELSE k)
      /\ ms # Never /\ ~ held =>
            /\ emitted' = IF ~ EndsAt(ms, k) THEN {}
                          ELSE IF count.holdSend = 0
                               THEN {x \in {Click(k)} : k \in 1 .. 10}
                               ELSE {x \in {LongClick(k)} : k \in 0 .. 10}
            /\ MulticlickMs = 0 \/ ms > MulticlickMs => k1 = 0 /\ count'.holdSend = 0
            /\ MulticlickMs > 0 /\ ~ ms > MulticlickMs =>
                   /\ count'.holdSend = count.holdSend
                   /\ k1 = (IF k = Highest THEN Reported ELSE k)
      /\ gesture'.presses = p /\ gesture'.reconfigured = gesture.reconfigured
      /\ gesture'.held = (gesture.held \/ Hold \in emitted')
  BY QuietStep
<1>2. Highest' = Highest /\ Highest \in 0 .. Clicks
  BY <1>1, HighestStays, HighestClick
<1>3. /\ k \in 0 .. Clicks + 1 \cup {Reported} /\ p \in 0 .. Many
      /\ count.holdSend \in Nat /\ gesture.held \in BOOLEAN
      /\ count.sinceMs \in Never .. ClockCapMs
  BY Times DEF Base, NumbersInv, CountTyped, GestureTyped, Reports
<1>4. /\ ms \in Never .. ClockCapMs
      /\ ms = Never <=> count.sinceMs = Never
      /\ ms # Never => ms > 0 /\ (count.sinceMs > MulticlickMs => ms > MulticlickMs)
  BY <1>3, ClockRuns
<1>5. /\ Rested(count) => k = 0
      /\ Rested(count) /\ ~ HeldDown => count.holdSend = 0
      /\ bistable => count.holdSend = 0
      /\ MulticlickMs = 0 => k = 0
  BY DEF CountInv, RestInv
<1>6. ~ gesture.reconfigured =>
         /\ ~ Rested(count) /\ MulticlickMs > 0 => Tells(k, p)
         /\ ~ Rested(count) \/ HeldDown => (gesture.held <=> count.holdSend > 0)
  BY DEF CountInv, ClicksInv
<1>7. held <=> HeldDown
  BY DEF HeldDown
<1> HIDE DEF ms, held, k, k1, p
<1>8. Rested(count)' <=> ms = Never \/ ms > MulticlickMs
  BY <1>1 DEF Rested
<1>9. Rested(count) <=> count.sinceMs = Never \/ count.sinceMs > MulticlickMs
  BY DEF Rested
<1>10. HeldDown' <=> HeldDown
  BY <1>1 DEF HeldDown
<1>11. /\ \A n : Click(n) # Hold /\ LongClick(n) # Hold
       /\ \A n, m : Click(n) # LongClick(m)
       /\ \A n, m : (Click(n) = Click(m) \/ LongClick(n) = LongClick(m)) => n = m
  BY EventNames
<1>12. CASE ms = Never
  <2>1. RestInv'
    BY <1>1, <1>4, <1>5, <1>8, <1>9, <1>10, <1>12 DEF RestInv, k1
  <2>2. ClicksInv'
    BY <1>1, <1>2, <1>4, <1>6, <1>8, <1>9, <1>10, <1>12 DEF ClicksInv
  <2>3. ClicksCounted'
    BY <1>1, <1>12 DEF ClicksCounted
  <2>4. QED
    BY <2>1, <2>2, <2>3 DEF CountInv
<1>13. CASE ms # Never /\ held
  <2>1. /\ emitted' \subseteq {Hold} /\ k1 = (IF ms > MulticlickMs THEN 0 ELSE k)
        /\ count'.holdSend = (IF Hold \in emitted' THEN count.holdSend + 1 ELSE count.holdSend)
    BY <1>1, <1>13
  <2>2. HeldDown /\ ~ bistable
    BY <1>7, <1>13 DEF HeldDown
  <2>3. RestInv'
    <3>1. /\ Rested(count)' => k1 = 0
          /\ MulticlickMs = 0 => k1 = 0
      BY <1>5, <1>8, <1>13, <2>1
    <3>2. QED
      BY <1>1, <1>10, <2>2, <3>1 DEF RestInv, k1
  <2>4. ClicksInv'
    <3> SUFFICES ASSUME ~ gesture.reconfigured
                 PROVE  /\ ~ Rested(count)' /\ MulticlickMs > 0 => Tells(k1, p)
                        /\ gesture'.held <=> count'.holdSend > 0
      BY <1>1, <1>2 DEF ClicksInv, Tells, k1
    <3>1. gesture'.held <=> count'.holdSend > 0
      <4>1. gesture.held <=> count.holdSend > 0
        BY <1>6, <2>2
      <4>2. CASE Hold \in emitted'
        <5>1. count'.holdSend > 0
          BY <1>3, <2>1, <4>2
        <5>2. gesture'.held
          BY <1>1, <4>2, Zenon
        <5>3. QED
          BY <5>1, <5>2, Zenon
      <4>3. CASE Hold \notin emitted'
        <5>1. count'.holdSend = count.holdSend
          BY <2>1, <4>3
        <5>2. gesture'.held <=> gesture.held
          BY <1>1, <4>3, Zenon
        <5>3. QED
          BY <4>1, <5>1, <5>2, Zenon
      <4>4. QED
        BY <4>2, <4>3
    <3>2. ~ Rested(count)' => ~ Rested(count) /\ k1 = k
      BY <1>4, <1>8, <1>9, <1>13, <2>1
    <3>3. QED
      BY <1>6, <3>1, <3>2
  <2>5. ClicksCounted'
    BY <2>1, EventNames DEF ClicksCounted
  <2>6. QED
    BY <2>3, <2>4, <2>5 DEF CountInv
<1>14. CASE ms # Never /\ ~ held
  <2>1. /\ emitted' = IF ~ EndsAt(ms, k) THEN {}
                      ELSE IF count.holdSend = 0
                           THEN {x \in {Click(k)} : k \in 1 .. 10}
                           ELSE {x \in {LongClick(k)} : k \in 0 .. 10}
        /\ MulticlickMs = 0 \/ ms > MulticlickMs => k1 = 0 /\ count'.holdSend = 0
        /\ MulticlickMs > 0 /\ ~ ms > MulticlickMs =>
               /\ count'.holdSend = count.holdSend
               /\ k1 = (IF k = Highest THEN Reported ELSE k)
    BY <1>1, <1>14
  <2>2. ~ HeldDown /\ ms > 0
    BY <1>4, <1>7, <1>14
  <2>3. MulticlickMs = 0 \/ MulticlickMs > 0
    BY Times
  <2>4. RestInv'
    <3>1. /\ Rested(count)' => k1 = 0 /\ count'.holdSend = 0
          /\ MulticlickMs = 0 => k1 = 0
          /\ bistable => count'.holdSend = 0
      BY <1>5, <1>8, <1>14, <2>1, <2>3
    <3>2. QED
      BY <1>1, <3>1 DEF RestInv, k1
  <2>5. Hold \notin emitted' /\ (gesture'.held <=> gesture.held)
    <3>1. Hold \notin emitted'
      BY <1>11, <2>1
    <3>2. QED
      BY <1>1, <1>3, <3>1
  <2>6. ClicksInv'
    <3> SUFFICES ASSUME ~ gesture.reconfigured, ~ Rested(count)'
                 PROVE  /\ MulticlickMs > 0 => Tells(k1, p)
                        /\ gesture'.held <=> count'.holdSend > 0
      BY <1>1, <1>2, <1>10, <2>2 DEF ClicksInv, Tells, k1
    <3>1. ~ Rested(count) /\ ~ ms > MulticlickMs /\ MulticlickMs > 0
      BY <1>4, <1>8, <1>9, <1>14, <2>2, <2>3
    <3>2. Tells(k, p) /\ (gesture.held <=> count.holdSend > 0)
      BY <1>6, <3>1
    <3>3. Tells(k1, p)
      BY <2>1, <3>1, <3>2 DEF Tells
    <3>4. QED
      BY <2>1, <2>5, <3>1, <3>2, <3>3
  <2>7. ClicksCounted'
    <3> SUFFICES ASSUME ~ gesture.reconfigured, NEW n \in 0 .. Highest
                 PROVE  /\ Click(n) \in emitted' => ~ gesture'.held /\ p = n
                        /\ LongClick(n) \in emitted' => gesture'.held /\ p = n
      BY <1>1, <1>2 DEF ClicksCounted, Highest
    <3>1. ASSUME Click(n) \in emitted' \/ LongClick(n) \in emitted'
          PROVE  k = n /\ MulticlickMs > 0 /\ ~ Rested(count)
      <4>1. k = n
        BY <1>11, <2>1, <3>1
      <4>2. EndsAt(ms, k)
        BY <2>1, <3>1
      <4>3. Click(n) \in emitted' => k \in 1 .. 10
        BY <1>11, <2>1
      <4>4. LongClick(n) \in emitted' => count.holdSend # 0
        BY <1>11, <2>1
      <4>5. QED
        BY <1>5, <2>2, <3>1, <4>1, <4>2, <4>3, <4>4 DEF EndsAt
    <3>2. ASSUME k = n, MulticlickMs > 0, ~ Rested(count)
          PROVE  p = n /\ (gesture.held <=> count.holdSend > 0)
      <4>1. Tells(k, p) /\ (gesture.held <=> count.holdSend > 0)
        BY <1>6, <3>2
      <4>2. QED
        BY <1>2, <3>2, <4>1, Times DEF Tells, Reported
    <3>3. /\ Click(n) \in emitted' => count.holdSend = 0
          /\ LongClick(n) \in emitted' => count.holdSend # 0
      BY <1>11, <2>1
    <3>4. QED
      BY <1>3, <2>5, <3>1, <3>2, <3>3
  <2>8. QED
    BY <2>4, <2>6, <2>7 DEF CountInv
<1>15. QED
  BY <1>12, <1>13, <1>14

\* A configuration between gestures finds the button at rest; within one it is known.
LEMMA ConfigCountInv ==
    ASSUME Base, CountInv, NEW on \in ActiveSets, HandleChannelConfig(on)
    PROVE  CountInv'
<1> DEFINE taken == gesture.taken \/ (gesture.holding /\ Hold \in on)
           g == [gesture EXCEPT !.reconfigured = TRUE, !.taken = taken]
<1>0. gesture' = IF Complete THEN NoGesture ELSE g
  BY Zenon DEF HandleChannelConfig
<1> HIDE DEF taken
<1>1. /\ gesture' = IF Complete THEN NoGesture ELSE g
      /\ emitted' = {} /\ UNCHANGED <<bistable, input, count>>
  BY <1>0 DEF HandleChannelConfig, config
<1>2. g.reconfigured = TRUE
  BY DEF Base, HoldInv, Types, Gesture
<1>3. RestInv'
  BY <1>1 DEF CountInv, RestInv, Rested, HeldDown
<1>4. ClicksCounted'
  BY <1>1 DEF ClicksCounted
<1> HIDE DEF g
<1>5. ClicksInv'
  <2>1. CASE Complete
    <3>1. ~ HeldDown /\ Rested(count)
      BY <2>1 DEF Complete, HeldDown, Rested
    <3>2. ~ HeldDown' /\ Rested(count)'
      BY <1>1, <3>1 DEF HeldDown, Rested
    <3>3. QED
      BY <3>2, Zenon DEF ClicksInv
  <2>2. CASE ~ Complete
    BY <1>1, <1>2, <2>2 DEF ClicksInv
  <2>3. QED
    BY <2>1, <2>2
<1>6. QED
  BY <1>3, <1>4, <1>5 DEF CountInv

\* After a restart nothing has been counted.
LEMMA BootCounts ==
    ASSUME NEW c, c = [sinceMs |-> Never, clickCounter |-> 0, holdSend |-> 0]
    PROVE  Rested(c) /\ c.clickCounter = 0 /\ c.holdSend = 0
BY DEF Rested

\* The invariant of the count is inductive.
LEMMA NextCount == Base /\ CountInv /\ [Next]_vars => CountInv'
<1> SUFFICES ASSUME Base, CountInv, [Next]_vars PROVE CountInv'
  OBVIOUS
<1>1. CASE UNCHANGED <<bistable, input, count, enabled, emitted, gesture>>
  <2>1. Highest' = Highest
    BY <1>1, HighestStays
  <2>2. RestInv' /\ ClicksInv'
    BY <1>1, <2>1 DEF CountInv, RestInv, ClicksInv, Tells, Rested, HeldDown
  <2>3. ClicksCounted'
    BY <1>1, <2>1 DEF CountInv, ClicksCounted, Highest
  <2>4. QED
    BY <2>2, <2>3 DEF CountInv
<1>2. CASE PinChanges
  <2>1. CASE UNCHANGED <<bistable, input, count, enabled, emitted, gesture>>
    BY <1>1, <2>1
  <2>2. QED
    BY <1>2, <2>1 DEF PinChanges, config
<1>3. CASE OnTimer
  BY <1>3, EdgeCountInv, QuietCountInv DEF OnTimer
<1>4. CASE \E on \in ActiveSets : HandleChannelConfig(on)
  BY <1>4, ConfigCountInv
<1>5. CASE Restart
  <2>1. /\ count' = [sinceMs |-> Never, clickCounter |-> 0, holdSend |-> 0]
        /\ gesture' = NoGesture /\ emitted' = {}
    BY <1>5 DEF Restart, Boot
  <2>2. Rested(count)' /\ count'.clickCounter = 0 /\ count'.holdSend = 0
    <3>1. count'.sinceMs = Never /\ count'.clickCounter = 0 /\ count'.holdSend = 0
      BY <2>1
    <3>2. QED
      BY <3>1 DEF Rested
  <2>3. ClicksInv'
    BY <2>1, <2>2, Times DEF ClicksInv, NoGesture
  <2>4. QED
    BY <2>1, <2>2, <2>3 DEF CountInv, RestInv, ClicksCounted
<1>6. CASE UNCHANGED vars
  BY <1>1, <1>6 DEF vars
<1>7. QED
  BY <1>2, <1>3, <1>4, <1>5, <1>6 DEF Next

\* Nothing is counted at the start.
LEMMA InitCount == ASSUME Init PROVE CountInv
<1>1. /\ count = [sinceMs |-> Never, clickCounter |-> 0, holdSend |-> 0]
      /\ gesture = NoGesture /\ emitted = {}
  BY DEF Init
<1>2. Rested(count) /\ count.clickCounter = 0 /\ count.holdSend = 0
  BY <1>1, BootCounts
<1>3. ClicksInv
  BY <1>1, <1>2 DEF ClicksInv, NoGesture
<1>4. QED
  BY <1>1, <1>2, <1>3 DEF CountInv, RestInv, ClicksCounted

\* Button::onTimer, the counting: for every setting of the times, also one that allows
\* a press at every call of the timer or holds shorter than a click, a click event that
\* somebody waits for tells how often the user pressed, and is one of a long click
\* exactly when a hold was reported before.
THEOREM ClicksAreCounted == Spec => []ClicksCounted
<1>1. Base /\ CountInv /\ [Next]_vars => CountInv'
  BY NextCount
<1>2. Init => CountInv
  BY InitCount
<1>3. CountInv => ClicksCounted
  BY DEF CountInv
<1>4. QED
  BY <1>1, <1>2, <1>3, ButtonBase, PTL DEF Spec

-------------------------------------------------------------------------------
(* Who is told.  Presses are apart when the timer is called at least once      *)
(* between two of them; only then is the highest click reported before another *)
(* press is counted.                                                           *)

PressesApart == MulticlickMs > 0 /\ \A d \in Periods : d <= DebounceMs

\* Nothing is active: the relay acts on its own event.
Silent == active = {} /\ Switching

\* What n clicks are to do otherwise.
RelayTakes(n) == n = 1 /\ Click(1) \notin active /\ localEvent # Hold

Does(n) == /\ gesture.local = IF RelayTakes(n) THEN 1 ELSE 0
           /\ gesture.cloud = {Click(n)} \cap active

ActiveInv == active \subseteq {Press, Release, Hold} \cup {Click(n) : n \in 1 .. Clicks}

\* The relay was told of every press, or is told when the button is released.
LocalInv ==
    ~ gesture.reconfigured /\ Silent =>
        /\ gesture.cloud = {}
        /\ gesture.presses < Many =>
              IF localEvent = Release /\ input.pressed
              THEN Rested(count) \/ gesture.local = gesture.presses - 1
              ELSE gesture.local = gesture.presses

\* Nobody is told before the report, and all that are to be told with it.
CloudInv ==
    ~ gesture.reconfigured /\ ~ Silent /\ ~ gesture.held =>
        /\ ~ Rested(count) /\ count.clickCounter = Reported =>
              gesture.presses >= Highest /\ Does(Highest)
        /\ ~ Rested(count) /\ count.clickCounter # Reported =>
              /\ gesture.local = 0 /\ gesture.cloud = {}
              /\ count.clickCounter = Highest + 1 => Highest = 0
        /\ Rested(count) /\ ~ HeldDown => Does(Least(gesture.presses, Highest))

\* The highest click is reported before the pin may change again.
ReportDue ==
    ~ gesture.reconfigured /\ Highest > 0 /\ ~ Rested(count) /\ count.clickCounter = Highest =>
        HeldDown \/ input.debounceMs = 0

ServedInv == ActiveInv /\ LocalInv /\ CloudInv /\ ReportDue

\* While nothing is active only the relay listens, to its own event.
LEMMA HeardSilent ==
    ASSUME HandlersInv, Silent, NEW events
    PROVE  /\ Heard("at", events) = {}
           /\ Heard("relay", events) = {} <=> localEvent \notin events
<1>1. enabled = {<<"relay", localEvent>>}
  BY DEF HandlersInv, Silent, RelayListens, TriggerListens
<1>2. "at" # "relay"
  OBVIOUS
<1>3. QED
  BY <1>1, <1>2 DEF Heard

\* Otherwise the relay takes a single click unless the server does, and the server what
\* it activated.
LEMMA HeardOtherwise ==
    ASSUME HandlersInv, ActiveInv, ~ Silent
    PROVE  /\ \A e : <<"relay", e>> \in enabled => e = Click(1) \/ e = Hold \/ e = HoldRelease
           /\ <<"relay", Click(1)>> \in enabled <=> RelayTakes(1)
           /\ \A n \in 1 .. Clicks : <<"at", Click(n)>> \in enabled <=> Click(n) \in active
           /\ \A n : <<"at", Click(n)>> \in enabled => Click(n) \in active
<1>1. enabled = RelayListens(active) \cup TriggerListens(active) /\ Kinds
  BY DEF HandlersInv
<1>2. "at" # "relay"
  OBVIOUS
<1>3. \A e : <<"relay", e>> \in enabled <=> <<"relay", e>> \in RelayListens(active)
  BY <1>1, <1>2 DEF TriggerListens
<1>4. \A e : <<"at", e>> \in enabled <=> <<"at", e>> \in Registered /\ e \in active
  <2>1. \A e : <<"at", e>> \notin RelayListens(active)
    BY <1>2 DEF RelayListens
  <2>2. QED
    BY <1>1, <2>1 DEF TriggerListens
<1>5. \A n \in 1 .. Clicks : <<"at", Click(n)>> \in Registered
  BY DEF Registered
<1>6. CASE Switching
  <2>1. RelayListens(active) = IF Click(1) \in active THEN {} ELSE {<<"relay", Click(1)>>}
    BY <1>6 DEF RelayListens, Silent
  <2>2. localEvent # Hold
    BY <1>6, EventNames DEF Switching
  <2>3. QED
    BY <1>3, <1>4, <1>5, <2>1, <2>2 DEF RelayTakes
<1>7. CASE ~ Switching
  <2>1. \A e : <<"relay", e>> \in RelayListens(active)
                   <=> e \in LocalEvents /\ TakenWith(e) \notin active
    BY <1>7 DEF RelayListens
  <2>2. /\ localEvent = Hold \/ localEvent = Click(1) \/ Blind
        /\ ~ Blind => LocalEvents = {localEvent}
        /\ Blind => LocalEvents = {Click(1), Hold, HoldRelease}
    BY <1>1, <1>7, LocalKinds DEF Blind
  <2>3. Hold # Click(1) /\ HoldRelease # Click(1) /\ HoldRelease # Hold
    BY EventNames
  <2>4. TakenWith(Click(1)) = Click(1)
    BY <2>3 DEF TakenWith
  <2>5. CASE localEvent = Hold
    BY <1>3, <1>4, <1>5, <2>1, <2>2, <2>3, <2>5 DEF RelayTakes, Blind
  <2>6. CASE localEvent = Click(1)
    BY <1>3, <1>4, <1>5, <2>1, <2>2, <2>3, <2>4, <2>6 DEF RelayTakes, Blind
  <2>7. CASE Blind
    BY <1>3, <1>4, <1>5, <2>1, <2>2, <2>3, <2>4, <2>7 DEF RelayTakes, Blind
  <2>8. QED
    BY <2>2, <2>5, <2>6, <2>7
<1>8. QED
  BY <1>6, <1>7

\* A report tells whoever is to be told of as many clicks, up to the highest number.
LEMMA ReportTells ==
    ASSUME HandlersInv, ActiveInv, ~ Silent, NEW k \in Nat, k <= Highest \/ Highest = 0,
           NEW events, events = {x \in {Click(k)} : k \in 1 .. 10}
    PROVE  LET n == Least(k, Highest)
           IN  /\ Heard("relay", events) = {} <=> ~ RelayTakes(n)
               /\ Heard("at", events) \cap {Click(m) : m \in 1 .. Clicks} = {Click(n)} \cap active
<1> DEFINE n == Least(k, Highest)
<1>1. /\ Highest \in 0 .. Clicks /\ Clicks \in 1 .. 5
      /\ \A m \in Highest + 1 .. Clicks : \A h \in enabled : h[2] # Click(m)
  BY HighestClick, Times
<1>2. /\ \A e : <<"relay", e>> \in enabled => e = Click(1) \/ e = Hold \/ e = HoldRelease
      /\ <<"relay", Click(1)>> \in enabled <=> RelayTakes(1)
      /\ \A m \in 1 .. Clicks : <<"at", Click(m)>> \in enabled <=> Click(m) \in active
      /\ \A m : <<"at", Click(m)>> \in enabled => Click(m) \in active
  BY HeardOtherwise
<1>3. \A m : Click(m) # Hold /\ Click(m) # HoldRelease
  BY EventNames
<1>4. \A m, l : Click(m) = Click(l) => m = l
  BY EventNames
<1>5. Click(0) \notin active
  BY <1>1, <1>4, EventNames DEF ActiveInv
<1>6. \A client, e : <<client, e>> \in enabled => \A m \in Highest + 1 .. Clicks : e # Click(m)
  BY <1>1
<1>7. CASE k \in 1 .. Highest
  <2>1. n = k /\ k \in 1 .. Clicks
    BY <1>1, <1>7 DEF Least
  <2>2. events = {Click(k)}
    BY <1>1, <1>7
  <2>3. Heard("relay", events) = {} <=> <<"relay", Click(k)>> \notin enabled
    BY <2>2 DEF Heard
  <2>4. <<"relay", Click(k)>> \in enabled <=> RelayTakes(k)
    <3>1. CASE k = 1
      BY <1>2, <3>1
    <3>2. CASE k # 1
      BY <1>2, <1>3, <1>4, <3>2 DEF RelayTakes
    <3>3. QED
      BY <3>1, <3>2
  <2>5. Heard("at", events) = IF Click(k) \in active THEN {Click(k)} ELSE {}
    BY <1>2, <2>1, <2>2 DEF Heard
  <2>6. QED
    BY <2>1, <2>3, <2>4, <2>5
<1>8. CASE k = 0 \/ Highest = 0
  <2>1. n = 0
    BY <1>1, <1>8 DEF Least
  <2>2. \A client : Heard(client, events) \cap {Click(m) : m \in 1 .. Clicks} = {}
    <3>1. CASE k = 0
      <4>1. events = {}
        BY <3>1
      <4>2. QED
        BY <4>1 DEF Heard
    <3>2. CASE Highest = 0
      BY <1>1, <1>6, <3>2 DEF Heard
    <3>3. QED
      BY <1>8, <3>1, <3>2
  <2>3. Heard("relay", events) \subseteq {Click(1)}
    BY <1>2, <1>3 DEF Heard
  <2>4. Heard("relay", events) = {}
    <3>1. Click(1) \in {Click(m) : m \in 1 .. Clicks}
      BY <1>1
    <3>2. QED
      BY <2>2, <2>3, <3>1
  <2>5. ~ RelayTakes(n)
    BY <2>1 DEF RelayTakes
  <2>6. QED
    BY <1>5, <2>1, <2>2, <2>4, <2>5
<1>9. k \in 1 .. Highest \/ k = 0 \/ Highest = 0
  BY <1>1
<1>10. QED
  BY <1>7, <1>8, <1>9

\* A press or a release told to the relay that listens to it.
LEMMA EdgeLocal ==
    ASSUME Base, ServedInv, NEW d \in Periods, OnTimerEdge(d)
    PROVE  LocalInv'
<1> DEFINE pressed == input'.pressed
           begun == IF Counts(pressed) /\ Rested(count) THEN NoGesture ELSE gesture
           p == gesture.presses
           p1 == gesture'.presses
           l == gesture.local
           l1 == gesture'.local
<1>1. /\ UNCHANGED <<bistable, localEvent, pin, enabled, active>>
      /\ pressed \in BOOLEAN /\ pressed = ~ input.pressed
      /\ count'.sinceMs = 0
      /\ emitted' \subseteq {Change, IF pressed THEN Press ELSE Release, HoldRelease}
      /\ {Change, IF pressed THEN Press ELSE Release} \subseteq emitted'
      /\ gesture'.reconfigured = begun.reconfigured
      /\ ~ Counts(pressed) /\ Rested(count) => p1 = 0 /\ l1 = 0 /\ gesture'.cloud = {}
      /\ Counts(pressed) \/ ~ Rested(count) =>
            /\ p1 = (IF Counts(pressed) THEN Least(begun.presses + 1, Many) ELSE begun.presses)
            /\ l1 = (IF Heard("relay", emitted') = {} THEN begun.local
                     ELSE Least(begun.local + 1, Many))
            /\ gesture'.cloud = begun.cloud
  BY EdgeStep
<1>2. /\ NoGesture.presses = 0 /\ NoGesture.local = 0 /\ NoGesture.cloud = {}
  BY DEF NoGesture
<1>3. /\ p \in 0 .. Many /\ l \in 0 .. Many /\ Many \in Nat /\ Many >= 3
  BY Times DEF Base, NumbersInv, GestureTyped
<1>4. /\ HandlersInv /\ Kinds
  BY DEF Base, HandlersInv
<1>5. Silent' <=> Silent
  BY <1>1 DEF Silent, Switching
<1>6. Counts(pressed) <=> pressed \/ bistable
  BY DEF Counts
<1>7. ~ gesture.reconfigured /\ Silent =>
          /\ gesture.cloud = {}
          /\ p < Many => IF localEvent = Release /\ input.pressed
                         THEN Rested(count) \/ l = p - 1
                         ELSE l = p
  BY DEF ServedInv, LocalInv
<1>8. /\ begun.presses = (IF Counts(pressed) /\ Rested(count) THEN 0 ELSE p)
      /\ begun.local = (IF Counts(pressed) /\ Rested(count) THEN 0 ELSE l)
      /\ begun.cloud = (IF Counts(pressed) /\ Rested(count) THEN {} ELSE gesture.cloud)
      /\ ~ (Counts(pressed) /\ Rested(count)) => begun.reconfigured = gesture.reconfigured
  BY <1>2, Zenon
<1> HIDE DEF pressed, begun, p, p1, l, l1
<1> SUFFICES ASSUME Silent, ~ begun.reconfigured
             PROVE  /\ gesture'.cloud = {}
                    /\ p1 < Many => IF localEvent = Release /\ pressed
                                    THEN l1 = p1 - 1 ELSE l1 = p1
  BY <1>1, <1>5 DEF LocalInv, pressed, p1, l1
<1>9. Heard("relay", emitted') = {} <=> localEvent \notin emitted'
  BY <1>4, HeardSilent
<1>10. CASE ~ Counts(pressed) /\ Rested(count)
  BY <1>1, <1>6, <1>10
<1>11. CASE Counts(pressed) \/ ~ Rested(count)
  <2>1. gesture'.cloud = {}
    BY <1>1, <1>7, <1>8, <1>11
  <2>2. /\ p1 = (IF Counts(pressed) THEN Least(begun.presses + 1, Many) ELSE begun.presses)
        /\ l1 = (IF localEvent \notin emitted' THEN begun.local ELSE Least(begun.local + 1, Many))
    BY <1>1, <1>9, <1>11
  <2>3. begun.presses \in 0 .. Many /\ begun.local \in 0 .. Many
    BY <1>3, <1>8
  <2>4. /\ localEvent \in {Press, Release, Change}
        /\ bistable <=> localEvent = Change
    BY <1>4, EventNames DEF Kinds, Silent, Switching
  <2>5. begun.presses < Many => IF localEvent = Release /\ ~ pressed
                                THEN begun.local = begun.presses - 1
                                ELSE begun.local = begun.presses
    <3>1. CASE Counts(pressed) /\ Rested(count)
      <4>1. begun.presses = 0 /\ begun.local = 0
        BY <1>8, <3>1
      <4>2. ~ (localEvent = Release /\ ~ pressed)
        BY <1>6, <2>4, <3>1, EventNames
      <4>3. QED
        BY <4>1, <4>2
    <3>2. CASE ~ Rested(count)
      <4>1. begun.presses = p /\ begun.local = l /\ ~ gesture.reconfigured
        BY <1>8, <3>2
      <4>2. p < Many => IF localEvent = Release /\ input.pressed THEN l = p - 1 ELSE l = p
        BY <1>7, <3>2, <4>1
      <4>3. ~ pressed <=> input.pressed
        BY <1>1, <1>4 DEF Base, HoldInv, Types, Input
      <4>4. QED
        BY <4>1, <4>2, <4>3
    <3>3. QED
      BY <1>11, <3>1, <3>2
  <2>6. /\ localEvent = Change => localEvent \in emitted'
        /\ localEvent = Press => (localEvent \in emitted' <=> pressed)
        /\ localEvent = Release => (localEvent \in emitted' <=> ~ pressed)
    BY <1>1, EventNames
  <2>7. Press # Release /\ Press # Change /\ Release # Change
    BY EventNames
  <2>8. CASE localEvent = Change
    BY <1>3, <1>6, <2>1, <2>2, <2>3, <2>4, <2>5, <2>6, <2>7, <2>8 DEF Least
  <2>9. CASE localEvent = Press
    BY <1>1, <1>3, <1>6, <2>1, <2>2, <2>3, <2>4, <2>5, <2>6, <2>7, <2>9 DEF Least
  <2>10. CASE localEvent = Release
    BY <1>1, <1>3, <1>6, <2>1, <2>2, <2>3, <2>4, <2>5, <2>6, <2>7, <2>10 DEF Least
  <2>11. QED
    BY <2>4, <2>8, <2>9, <2>10
<1>12. QED
  BY <1>10, <1>11

\* No press is counted after the highest click but before its report, so that a press
\* or a release tells nobody who waits for clicks.
LEMMA EdgeCloud ==
    ASSUME Base, CountInv, ServedInv, PressesApart, NEW d \in Periods, OnTimerEdge(d)
    PROVE  CloudInv' /\ ReportDue'
<1> DEFINE pressed == input'.pressed
           begun == IF Counts(pressed) /\ Rested(count) THEN NoGesture ELSE gesture
           k == count.clickCounter
           k1 == count'.clickCounter
           p == gesture.presses
           p1 == gesture'.presses
<1>1. /\ UNCHANGED <<bistable, localEvent, pin, enabled, active>>
      /\ pressed \in BOOLEAN /\ pressed = ~ input.pressed
      /\ input'.debounceMs = 0
      /\ ~ (DebounceMs > 0 /\ Least(input.debounceMs + d, InputCapMs) <= DebounceMs)
      /\ count'.sinceMs = 0
      /\ k1 = IF MulticlickMs > 0 /\ Counts(pressed) /\ k <= Highest THEN k + 1 ELSE k
      /\ emitted' \subseteq {Change, IF pressed THEN Press ELSE Release, HoldRelease}
      /\ HoldRelease \in emitted' => ~ pressed /\ count.holdSend > 0
      /\ gesture'.reconfigured = begun.reconfigured /\ gesture'.held = begun.held
      /\ ~ Counts(pressed) /\ Rested(count) =>
            p1 = 0 /\ gesture'.local = 0 /\ gesture'.cloud = {}
      /\ Counts(pressed) \/ ~ Rested(count) =>
            /\ p1 = (IF Counts(pressed) THEN Least(begun.presses + 1, Many) ELSE begun.presses)
            /\ gesture'.local = (IF Heard("relay", emitted') = {} THEN begun.local
                                 ELSE Least(begun.local + 1, Many))
            /\ gesture'.cloud = begun.cloud
  BY EdgeStep
<1>2. /\ Highest' = Highest /\ Highest \in 0 .. Clicks /\ Clicks \in 1 .. 5
      /\ Many = Clicks + 2
  BY <1>1, HighestStays, HighestClick, Times
<1>3. /\ k \in 0 .. Clicks + 1 \cup {Reported} /\ p \in 0 .. Many
      /\ input.debounceMs \in Nat
  BY Times DEF Base, NumbersInv, CountTyped, GestureTyped, InputTyped
<1>4. ~ Rested(count)'
  BY <1>1, Times DEF Rested, Never
<1>5. MulticlickMs > 0 /\ (Rested(count) => k = 0)
  BY DEF CountInv, RestInv, PressesApart
<1>6. ReportDue'
  BY <1>1 DEF ReportDue
<1>7. Silent' <=> Silent
  BY <1>1 DEF Silent, Switching
<1>8. Counts(pressed) <=> pressed \/ bistable
  BY DEF Counts
<1>9. NoGesture.local = 0 /\ NoGesture.cloud = {}
  BY DEF NoGesture
<1>10. input.debounceMs # 0
  BY <1>1, Times DEF PressesApart, Least
<1>11. /\ begun.local = (IF Counts(pressed) /\ Rested(count) THEN 0 ELSE gesture.local)
       /\ begun.cloud = (IF Counts(pressed) /\ Rested(count) THEN {} ELSE gesture.cloud)
       /\ ~ (Counts(pressed) /\ Rested(count)) => begun = gesture
  BY <1>9, Zenon
<1>12. ~ gesture.reconfigured /\ ~ Silent /\ ~ gesture.held =>
           /\ ~ Rested(count) /\ k = Reported => p >= Highest /\ Does(Highest)
           /\ ~ Rested(count) /\ k # Reported =>
                 /\ gesture.local = 0 /\ gesture.cloud = {}
                 /\ k = Highest + 1 => Highest = 0
  BY DEF ServedInv, CloudInv
<1>13. ~ gesture.reconfigured /\ Highest > 0 /\ ~ Rested(count) /\ k = Highest => HeldDown
  BY <1>10 DEF ServedInv, ReportDue
<1>14. HeldDown => ~ Counts(pressed)
  BY <1>1, <1>8 DEF HeldDown
<1> HIDE DEF pressed, begun, k, k1, p, p1
<1> SUFFICES ASSUME ~ Silent, ~ begun.reconfigured, ~ begun.held
             PROVE  /\ k1 = Reported => p1 >= Highest /\ Does(Highest)'
                    /\ k1 # Reported => /\ gesture'.local = 0 /\ gesture'.cloud = {}
                                        /\ k1 = Highest + 1 => Highest = 0
  <2>1. Does(Highest') <=> Does(Highest)
    BY <1>2
  <2>2. QED
    BY <1>1, <1>2, <1>4, <1>6, <1>7 DEF CloudInv, Does, RelayTakes, k1, p1
<1>15. Heard("relay", emitted') = {}
  <2>1. \A e : <<"relay", e>> \in enabled => e = Click(1) \/ e = Hold \/ e = HoldRelease
    BY HeardOtherwise DEF Base, ServedInv
  <2>2. Hold \notin emitted' /\ Click(1) \notin emitted'
    BY <1>1, EventNames
  <2>3. HoldRelease \notin emitted'
    <3> SUFFICES ASSUME HoldRelease \in emitted' PROVE FALSE
      OBVIOUS
    <3>1. ~ pressed /\ count.holdSend > 0
      BY <1>1
    <3>2. ~ bistable
      BY <3>1 DEF CountInv, RestInv
    <3>3. HeldDown
      BY <1>1, <3>1, <3>2 DEF HeldDown, Base, HoldInv, Types, Input
    <3>4. begun = gesture
      BY <1>11, <1>14, <3>3
    <3>5. gesture.held <=> count.holdSend > 0
      BY <3>3, <3>4 DEF CountInv, ClicksInv
    <3>6. QED
      BY <3>1, <3>4, <3>5
  <2>4. QED
    BY <2>1, <2>2, <2>3 DEF Heard
<1>16. CASE Rested(count)
  <2>1. gesture'.local = 0 /\ gesture'.cloud = {}
    BY <1>1, <1>11, <1>15, <1>16
  <2>2. k1 # Reported /\ (k1 = Highest + 1 => Highest = 0)
    BY <1>1, <1>2, <1>5, <1>16 DEF Reported
  <2>3. QED
    BY <2>1, <2>2
<1>17. CASE ~ Rested(count)
  <2>1. /\ begun = gesture /\ gesture'.local = gesture.local /\ gesture'.cloud = gesture.cloud
        /\ p1 = (IF Counts(pressed) THEN Least(begun.presses + 1, Many) ELSE begun.presses)
    BY <1>1, <1>11, <1>15, <1>17
  <2>2. begun.presses = p
    BY <2>1 DEF p
  <2>3. CASE k = Reported
    <3>1. k1 = Reported /\ p >= Highest /\ Does(Highest)
      BY <1>1, <1>2, <1>3, <1>12, <1>17, <2>1, <2>3 DEF Reported
    <3>2. p1 >= Highest
      BY <1>2, <1>3, <2>1, <2>2, <3>1 DEF Least
    <3>3. Does(Highest)'
      BY <1>1, <1>2, <2>1, <3>1 DEF Does, RelayTakes
    <3>4. QED
      BY <3>1, <3>2, <3>3
  <2>4. CASE k # Reported
    <3>1. gesture'.local = 0 /\ gesture'.cloud = {} /\ (k = Highest + 1 => Highest = 0)
      BY <1>12, <1>17, <2>1, <2>4
    <3>2. k1 # Reported
      BY <1>1, <1>2, <1>3, <2>4 DEF Reported
    <3>3. k = Highest /\ Highest > 0 => ~ Counts(pressed)
      BY <1>13, <1>14, <1>17, <2>1
    <3>4. k1 = Highest + 1 => Highest = 0
      BY <1>1, <1>2, <1>3, <2>4, <3>1, <3>3
    <3>5. QED
      BY <3>1, <3>2, <3>4
  <2>5. QED
    BY <2>3, <2>4
<1>18. QED
  BY <1>16, <1>17

\* The timer tells of a gesture once, with its report.
LEMMA QuietCloud ==
    ASSUME Base, CountInv, ServedInv, PressesApart, ~ Silent, NEW d \in Periods, OnTimerQuiet(d)
    PROVE  CloudInv' /\ ReportDue'
<1> DEFINE ms == Later(count.sinceMs, d)
           held == ~ bistable /\ input.pressed
           k == count.clickCounter
           k1 == count'.clickCounter
           p == gesture.presses
           l == gesture.local
           l1 == gesture'.local
           Done(n) == l1 = (IF RelayTakes(n) THEN 1 ELSE 0) /\ gesture'.cloud = {Click(n)} \cap active
<1>1. /\ UNCHANGED <<bistable, localEvent, pin, enabled, active>>
      /\ input'.pressed = input.pressed /\ count'.sinceMs = ms
      /\ ms = Never => emitted' = {} /\ k1 = k /\ count'.holdSend = count.holdSend
      /\ ms # Never /\ held =>
            emitted' \subseteq {Hold} /\ k1 = (IF ms > MulticlickMs THEN 0 ELSE k)
      /\ ms # Never /\ ~ held =>
            /\ emitted' = IF ~ EndsAt(ms, k) THEN {}
                          ELSE IF count.holdSend = 0
                               THEN {x \in {Click(k)} : k \in 1 .. 10}
                               ELSE {x \in {LongClick(k)} : k \in 0 .. 10}
            /\ MulticlickMs > 0 /\ ~ ms > MulticlickMs =>
                   k1 = (IF k = Highest THEN Reported ELSE k)
      /\ gesture'.presses = p /\ gesture'.reconfigured = gesture.reconfigured
      /\ gesture'.held = (gesture.held \/ Hold \in emitted')
      /\ l1 = (IF Heard("relay", emitted') = {} THEN l ELSE Least(l + 1, Many))
      /\ gesture'.cloud = gesture.cloud
            \cup (Heard("at", emitted') \cap {Click(n) : n \in 1 .. Clicks})
  BY QuietStep
<1>2. /\ Highest' = Highest /\ Highest \in 0 .. Clicks /\ Clicks \in 1 .. 5
      /\ Many = Clicks + 2 /\ MulticlickMs > 0
  BY <1>1, HighestStays, HighestClick, Times DEF PressesApart
<1>3. /\ k \in 0 .. Clicks + 1 \cup {Reported} /\ p \in 0 .. Many /\ l \in 0 .. Many
      /\ count.holdSend \in Nat /\ gesture.held \in BOOLEAN
      /\ count.sinceMs \in Never .. ClockCapMs
  BY Times DEF Base, NumbersInv, CountTyped, GestureTyped, Reports
<1>4. /\ ms = Never <=> count.sinceMs = Never
      /\ ms # Never => (count.sinceMs > MulticlickMs => ms > MulticlickMs)
  BY <1>3, ClockRuns
<1>5. /\ Rested(count) => k = 0
      /\ Rested(count) /\ ~ HeldDown => count.holdSend = 0
  BY DEF CountInv, RestInv
<1>6. ~ gesture.reconfigured =>
         /\ ~ Rested(count) => Tells(k, p)
         /\ ~ Rested(count) \/ HeldDown => (gesture.held <=> count.holdSend > 0)
  BY <1>2 DEF CountInv, ClicksInv
<1>7. held <=> HeldDown
  BY DEF HeldDown
<1>8. Silent' <=> Silent
  BY <1>1 DEF Silent, Switching
<1>9. ~ gesture.reconfigured /\ ~ gesture.held =>
          /\ ~ Rested(count) /\ k = Reported => p >= Highest /\ Does(Highest)
          /\ ~ Rested(count) /\ k # Reported =>
                /\ l = 0 /\ gesture.cloud = {}
                /\ k = Highest + 1 => Highest = 0
          /\ Rested(count) /\ ~ HeldDown => Does(Least(p, Highest))
  BY DEF ServedInv, CloudInv
<1>10. Rested(count)' <=> ms = Never \/ ms > MulticlickMs
  BY <1>1 DEF Rested
<1>11. Rested(count) <=> count.sinceMs = Never \/ count.sinceMs > MulticlickMs
  BY DEF Rested
<1>12. HeldDown' <=> HeldDown
  BY <1>1 DEF HeldDown
<1>13. HandlersInv /\ ActiveInv
  BY DEF Base, ServedInv
<1> HIDE DEF ms, held, k, k1, p, l, l1
<1>14. ReportDue'
  <2>1. CASE ms # Never /\ ~ held /\ ~ ms > MulticlickMs
    <3>1. k1 = (IF k = Highest THEN Reported ELSE k)
      BY <1>1, <1>2, <2>1
    <3>2. k1 # Highest
      BY <1>2, <3>1 DEF Reported
    <3>3. QED
      BY <1>2, <3>2 DEF ReportDue, k1
  <2>2. CASE ms = Never \/ ms > MulticlickMs
    BY <1>10, <2>2 DEF ReportDue
  <2>3. CASE held
    BY <1>7, <1>12, <2>3 DEF ReportDue
  <2>4. QED
    BY <2>1, <2>2, <2>3
<1>15. \A n \in Nat : l1 = l /\ gesture'.cloud = gesture.cloud /\ Does(n) => Done(n)
  BY DEF Does, l
<1>16. Least(p, Highest) \in Nat /\ Highest \in Nat
  BY <1>2, <1>3 DEF Least
<1> SUFFICES ASSUME ~ gesture.reconfigured, ~ gesture'.held
             PROVE  /\ ~ Rested(count)' /\ k1 = Reported => p >= Highest /\ Done(Highest)
                    /\ ~ Rested(count)' /\ k1 # Reported =>
                          /\ l1 = 0 /\ gesture'.cloud = {}
                          /\ k1 = Highest + 1 => Highest = 0
                    /\ Rested(count)' /\ ~ HeldDown => Done(Least(p, Highest))
  BY <1>1, <1>2, <1>12, <1>14 DEF CloudInv, Does, RelayTakes, k1, l1
<1>17. ~ gesture.held /\ Hold \notin emitted'
  BY <1>1, <1>3
<1>18. ASSUME emitted' = {}
       PROVE  l1 = l /\ gesture'.cloud = gesture.cloud
  BY <1>1, <1>18 DEF Heard
<1>19. CASE ms = Never \/ held
  <2>1. emitted' = {}
    BY <1>1, <1>17, <1>19
  <2>2. l1 = l /\ gesture'.cloud = gesture.cloud
    BY <1>18, <2>1
  <2>3. Rested(count)' /\ ~ HeldDown => Rested(count)
    BY <1>4, <1>7, <1>10, <1>11, <1>19
  <2>4. ~ Rested(count)' => ~ Rested(count) /\ k1 = k
    BY <1>1, <1>4, <1>10, <1>11, <1>19
  <2>5. QED
    BY <1>9, <1>15, <1>16, <1>17, <2>2, <2>3, <2>4
<1>20. CASE ms # Never /\ ~ held /\ Rested(count)
  <2>1. k = 0 /\ count.holdSend = 0 /\ ~ HeldDown
    BY <1>5, <1>7, <1>20
  <2>2. emitted' = {}
    BY <1>1, <1>20, <2>1
  <2>3. l1 = l /\ gesture'.cloud = gesture.cloud
    BY <1>18, <2>2
  <2>4. Rested(count)'
    BY <1>4, <1>10, <1>11, <1>20
  <2>5. QED
    BY <1>9, <1>15, <1>16, <1>17, <1>20, <2>1, <2>3, <2>4
<1>21. CASE ms # Never /\ ~ held /\ ~ Rested(count)
  <2>1. count.holdSend = 0 /\ Tells(k, p)
    BY <1>3, <1>6, <1>17, <1>21
  <2>2. ~ Rested(count)' <=> ~ ms > MulticlickMs
    BY <1>10, <1>21
  <2>3. EndsAt(ms, k) <=> Rested(count)' \/ k = Highest
    BY <1>2, <2>2 DEF EndsAt
  <2>4. ~ Rested(count)' => k1 = (IF k = Highest THEN Reported ELSE k)
    BY <1>1, <1>2, <1>21, <2>2
  <2>5. CASE k = Reported
    <3>1. p >= Highest /\ Does(Highest)
      BY <1>9, <1>17, <1>21, <2>5
    <3>2. emitted' = {}
      BY <1>1, <1>21, <2>1, <2>5 DEF Reported
    <3>3. l1 = l /\ gesture'.cloud = gesture.cloud
      BY <1>18, <3>2
    <3>4. Done(Highest)
      BY <1>15, <1>16, <3>1, <3>3
    <3>5. Least(p, Highest) = Highest
      BY <1>2, <1>3, <3>1 DEF Least
    <3>6. Done(Least(p, Highest))
      BY <3>4, <3>5
    <3>7. ~ Rested(count)' => k1 = Reported
      BY <2>4, <2>5
    <3>8. QED
      BY <3>1, <3>4, <3>6, <3>7
  <2>6. CASE k # Reported
    <3>1. l = 0 /\ gesture.cloud = {} /\ (k = Highest + 1 => Highest = 0)
      BY <1>9, <1>17, <1>21, <2>6
    <3>2. CASE ~ EndsAt(ms, k)
      <4>1. emitted' = {} /\ ~ Rested(count)' /\ k1 = k
        BY <1>1, <1>21, <2>3, <2>4, <3>2
      <4>2. QED
        BY <1>18, <2>6, <3>1, <4>1
    <3>3. CASE EndsAt(ms, k)
      <4> DEFINE n == Least(k, Highest)
                 events == {x \in {Click(k)} : k \in 1 .. 10}
      <4>1. emitted' = events
        BY <1>1, <1>21, <2>1, <3>3
      <4>2. k \in Nat /\ (k <= Highest \/ Highest = 0)
        BY <1>2, <1>3, <2>1, <2>6, <3>1 DEF Tells
      <4>3. /\ Heard("relay", events) = {} <=> ~ RelayTakes(n)
            /\ Heard("at", events) \cap {Click(m) : m \in 1 .. Clicks} = {Click(n)} \cap active
        BY <1>13, <4>2, ReportTells
      <4>4. n = Least(p, Highest)
        BY <1>2, <1>3, <2>1, <2>6, <3>1, <4>2 DEF Tells, Least
      <4>5. l1 = (IF RelayTakes(n) THEN 1 ELSE 0)
        <5> HIDE DEF n, events
        <5>1. l1 = (IF RelayTakes(n) THEN Least(l + 1, Many) ELSE l)
          BY <1>1, <4>1, <4>3
        <5>2. QED
          BY <1>2, <3>1, <5>1 DEF Least
      <4>6. gesture'.cloud = {Click(n)} \cap active
        BY <1>1, <3>1, <4>1, <4>3
      <4> HIDE DEF n, events
      <4>7. Done(Least(p, Highest))
        BY <4>4, <4>5, <4>6
      <4>8. ~ Rested(count)' => k = Highest /\ k1 = Reported
        BY <2>3, <2>4, <3>3
      <4>9. k = Highest => p >= Highest /\ Least(p, Highest) = Highest
        BY <1>2, <1>3, <2>1, <2>6 DEF Tells, Least
      <4>10. k = Highest => Done(Highest)
        BY <4>7, <4>9
      <4>11. QED
        BY <4>7, <4>8, <4>9, <4>10
    <3>4. QED
      BY <3>2, <3>3
  <2>7. QED
    BY <2>5, <2>6
<1>22. QED
  BY <1>19, <1>20, <1>21

\* The timer tells nobody while nothing is active but of presses and releases.
LEMMA QuietLocal ==
    ASSUME Base, ServedInv, Silent, NEW d \in Periods, OnTimerQuiet(d)
    PROVE  LocalInv' /\ CloudInv' /\ (PressesApart => ReportDue')
<1> DEFINE ms == Later(count.sinceMs, d)
           k == count.clickCounter
           held == ~ bistable /\ input.pressed
<1>1. /\ UNCHANGED <<bistable, localEvent, pin, enabled, active>>
      /\ input'.pressed = input.pressed /\ count'.sinceMs = ms
      /\ ms = Never => emitted' = {}
      /\ ms # Never /\ held => emitted' \subseteq {Hold}
      /\ ms # Never /\ ~ held =>
            emitted' = IF ~ EndsAt(ms, k) THEN {}
                       ELSE IF count.holdSend = 0
                            THEN {x \in {Click(k)} : k \in 1 .. 10}
                            ELSE {x \in {LongClick(k)} : k \in 0 .. 10}
      /\ gesture'.presses = gesture.presses /\ gesture'.reconfigured = gesture.reconfigured
      /\ gesture'.local = (IF Heard("relay", emitted') = {} THEN gesture.local
                           ELSE Least(gesture.local + 1, Many))
      /\ gesture'.cloud = gesture.cloud
            \cup (Heard("at", emitted') \cap {Click(n) : n \in 1 .. Clicks})
  BY QuietStep
<1>2. Silent'
  BY <1>1 DEF Silent, Switching
<1>3. HandlersInv
  BY DEF Base
<1>4. count.sinceMs \in Never .. ClockCapMs
  BY DEF Base, NumbersInv, CountTyped
<1>5. Rested(count) => Rested(count)'
  <2>1. /\ ms = Never <=> count.sinceMs = Never
        /\ count.sinceMs > MulticlickMs => ms > MulticlickMs
    BY <1>4, ClockRuns
  <2>2. QED
    BY <1>1, <2>1 DEF Rested
<1> HIDE DEF ms, k, held
<1>6. localEvent \notin emitted'
  <2>1. localEvent \in {Press, Release, Change}
    BY DEF Silent, Switching
  <2>2. \A x \in emitted' : x = Hold \/ (\E n : x = Click(n) \/ x = LongClick(n))
    BY <1>1
  <2>3. QED
    BY <2>1, <2>2, EventNames
<1>7. Heard("at", emitted') = {} /\ Heard("relay", emitted') = {}
  BY <1>3, <1>6, HeardSilent
<1>8. gesture'.local = gesture.local /\ gesture'.cloud = gesture.cloud
  BY <1>1, <1>7
<1>9. LocalInv'
  BY <1>1, <1>2, <1>5, <1>8 DEF ServedInv, LocalInv, Silent, Switching
<1>10. CloudInv'
  BY <1>2 DEF CloudInv
<1>11. Highest = 0
  <2>1. enabled = {<<"relay", localEvent>>}
    BY <1>3 DEF HandlersInv, Silent, RelayListens, TriggerListens
  <2>2. localEvent \in {Press, Release, Change}
    BY DEF Silent, Switching
  <2>3. \A h \in enabled : \A n : h[2] # Click(n)
    BY <2>1, <2>2, EventNames
  <2>4. QED
    BY <2>3, HighestClick
<1>12. ReportDue'
  <2>1. Highest' = 0
    BY <1>1, <1>11, HighestStays
  <2>2. QED
    BY <2>1 DEF ReportDue
<1>13. QED
  BY <1>9, <1>10, <1>12

\* Where clicks count, what the relay was told of a press does not matter.
LEMMA QuietServed ==
    ASSUME Base, CountInv, ServedInv, PressesApart, NEW d \in Periods, OnTimerQuiet(d)
    PROVE  ServedInv'
<1>1. UNCHANGED <<bistable, localEvent, pin, enabled, active>>
  BY QuietStep
<1>2. ActiveInv'
  BY <1>1 DEF ServedInv, ActiveInv
<1>3. CASE Silent
  BY <1>2, <1>3, QuietLocal DEF ServedInv
<1>4. CASE ~ Silent
  <2>1. LocalInv'
    BY <1>1, <1>4 DEF LocalInv, Silent, Switching
  <2>2. CloudInv' /\ ReportDue'
    BY <1>4, QuietCloud
  <2>3. QED
    BY <1>2, <2>1, <2>2 DEF ServedInv
<1>5. QED
  BY <1>3, <1>4

\* A gesture that has not begun told nobody, and none was to be told.
LEMMA NothingToTell ==
    ASSUME ActiveInv, gesture = NoGesture, Rested(count)
    PROVE  LocalInv /\ CloudInv /\ ReportDue
<1>1. gesture.presses = 0 /\ gesture.local = 0 /\ gesture.cloud = {}
  BY DEF NoGesture
<1>2. LocalInv /\ ReportDue
  BY <1>1 DEF LocalInv, ReportDue
<1>3. Click(0) \notin active
  BY Times, EventNames DEF ActiveInv
<1>4. Least(0, Highest) = 0
  BY HighestClick DEF Least
<1>5. Does(0)
  BY <1>1, <1>3 DEF Does, RelayTakes
<1>6. CloudInv
  BY <1>1, <1>4, <1>5 DEF CloudInv
<1>7. QED
  BY <1>2, <1>6

\* The same of the state after a step.
LEMMA NothingToTellNext ==
    ActiveInv' /\ gesture' = NoGesture /\ Rested(count)' => LocalInv' /\ CloudInv' /\ ReportDue'
<1>1. ActiveInv /\ gesture = NoGesture /\ Rested(count) => LocalInv /\ CloudInv /\ ReportDue
  BY NothingToTell
<1>2. NoGesture' = NoGesture
  BY DEF NoGesture
<1>3. (ActiveInv /\ gesture = NoGesture /\ Rested(count))'
          => (LocalInv /\ CloudInv /\ ReportDue)'
  BY <1>1, PTL
<1>4. QED
  BY <1>2, <1>3

\* A configuration that comes between gestures finds nothing to tell.
LEMMA ConfigServed ==
    ASSUME Base, ServedInv, NEW on \in ActiveSets, HandleChannelConfig(on)
    PROVE  ServedInv'
<1> DEFINE taken == gesture.taken \/ (gesture.holding /\ Hold \in on)
           g == [gesture EXCEPT !.reconfigured = TRUE, !.taken = taken]
<1>0. gesture' = IF Complete THEN NoGesture ELSE g
  BY Zenon DEF HandleChannelConfig
<1> HIDE DEF taken
<1>1. /\ gesture' = IF Complete THEN NoGesture ELSE g
      /\ active' = on /\ UNCHANGED <<input, count>>
  BY <1>0 DEF HandleChannelConfig, config
<1>2. g.reconfigured = TRUE
  BY DEF Base, HoldInv, Types, Gesture
<1>3. ActiveInv'
  BY <1>1, ButtonAssumption DEF ActiveInv
<1> HIDE DEF g
<1>4. CASE Complete
  <2>1. Rested(count)'
    BY <1>1, <1>4 DEF Complete, Rested
  <2>2. QED
    BY <1>1, <1>3, <1>4, <2>1, NothingToTellNext DEF ServedInv
<1>5. CASE ~ Complete
  BY <1>1, <1>2, <1>3, <1>5 DEF ServedInv, LocalInv, CloudInv, ReportDue
<1>6. QED
  BY <1>4, <1>5

\* The invariant of what is told is inductive.
LEMMA NextServed ==
    ASSUME PressesApart
    PROVE  Base /\ CountInv /\ ServedInv /\ [Next]_vars => ServedInv'
<1> SUFFICES ASSUME Base, CountInv, ServedInv, [Next]_vars PROVE ServedInv'
  OBVIOUS
<1>1. CASE UNCHANGED <<bistable, localEvent, input, count, enabled, active, gesture>>
  <2>1. Highest' = Highest
    BY <1>1, HighestStays
  <2>2. ActiveInv' /\ LocalInv' /\ ReportDue'
    BY <1>1, <2>1 DEF ServedInv, ActiveInv, LocalInv, ReportDue, Silent, Switching, Rested,
                      HeldDown
  <2>3. CloudInv'
    BY <1>1, <2>1 DEF ServedInv, CloudInv, Silent, Switching, Rested, HeldDown, Does, RelayTakes,
                      Least
  <2>4. QED
    BY <2>2, <2>3 DEF ServedInv
<1>2. CASE PinChanges
  <2>1. CASE UNCHANGED <<bistable, localEvent, input, count, enabled, active, gesture>>
    BY <1>1, <2>1
  <2>2. QED
    BY <1>2, <2>1 DEF PinChanges, config
<1>3. ASSUME NEW d \in Periods, OnTimerEdge(d)
      PROVE  ServedInv'
  <2>1. UNCHANGED active
    BY <1>3, EdgeStep
  <2>2. ActiveInv'
    BY <2>1 DEF ServedInv, ActiveInv
  <2>3. QED
    BY <1>3, <2>2, EdgeLocal, EdgeCloud DEF ServedInv
<1>4. CASE OnTimer
  BY <1>3, <1>4, QuietServed DEF OnTimer
<1>5. CASE \E on \in ActiveSets : HandleChannelConfig(on)
  BY <1>5, ConfigServed
<1>6. CASE Restart
  <2>1. count'.sinceMs = Never /\ gesture' = NoGesture /\ active' = {}
    BY <1>6 DEF Restart, Boot
  <2>2. Rested(count)' /\ ActiveInv'
    BY <2>1 DEF Rested, ActiveInv
  <2>3. QED
    BY <2>1, <2>2, NothingToTellNext DEF ServedInv
<1>7. CASE UNCHANGED vars
  BY <1>1, <1>7 DEF vars
<1>8. QED
  BY <1>2, <1>4, <1>5, <1>6, <1>7 DEF Next

\* Nothing is to be told at the start.
LEMMA InitServed == ASSUME Init PROVE ServedInv
<1>1. count.sinceMs = Never /\ gesture = NoGesture /\ active = {}
  BY DEF Init
<1>2. Rested(count) /\ ActiveInv
  BY <1>1 DEF Rested, ActiveInv
<1>3. QED
  BY <1>1, <1>2, NothingToTell DEF ServedInv

\* parseActiveActionsFromServer and the counting: when the timer looks at the pin at
\* least once between two presses, a complete gesture of clicks, with no hold in it and no
\* configuration during it, has exactly one effect, the one the configuration asks for: at
\* the relay or at the server, never both or neither.
THEOREM OneConsumerIsServed ==
    ASSUME PressesApart
    PROVE  Spec => []OneConsumer
<1>1. Base /\ CountInv /\ ServedInv /\ [Next]_vars => ServedInv'
  BY NextServed
<1>2. Base /\ ServedInv => OneConsumer
  <2> SUFFICES ASSUME Base, ServedInv, Complete, ~ gesture.held, ~ gesture.reconfigured,
                      gesture.presses \in 1 .. Clicks
               PROVE  IF Silent
                      THEN gesture.local = gesture.presses /\ gesture.cloud = {}
                      ELSE LET reported == Click(Least(gesture.presses, Highest))
                           IN  /\ gesture.local = IF reported = Click(1)
                                                     /\ Click(1) \notin active
                                                     /\ localEvent # Hold THEN 1 ELSE 0
                               /\ gesture.cloud = {reported} \cap active
    BY Zenon DEF OneConsumer, Silent, Highest
  <2>1. Rested(count) /\ ~ HeldDown
    BY DEF Complete, Rested, HeldDown
  <2>2. CASE Silent
    <3>1. gesture.presses < Many
      BY Times
    <3>2. ~ (localEvent = Release /\ input.pressed)
      <4>1. localEvent = Release => ~ bistable
        BY EventNames DEF Base, HandlersInv, Kinds
      <4>2. QED
        BY <2>1, <4>1 DEF HeldDown
    <3>3. QED
      BY <2>2, <3>1, <3>2 DEF ServedInv, LocalInv
  <2>3. CASE ~ Silent
    <3>1. Does(Least(gesture.presses, Highest))
      BY <2>1, <2>3 DEF ServedInv, CloudInv
    <3>2. \A n : Click(n) = Click(1) <=> n = 1
      BY EventNames
    <3>3. QED
      BY <2>3, <3>1, <3>2 DEF Does, RelayTakes
  <2>4. QED
    BY <2>2, <2>3
<1>3. Init => CountInv /\ ServedInv
  BY InitCount, InitServed
<1>4. Base /\ CountInv /\ [Next]_vars => CountInv'
  BY NextCount
<1>5. QED
  BY <1>1, <1>2, <1>3, <1>4, ButtonBase, PTL DEF Spec

================================================================================
