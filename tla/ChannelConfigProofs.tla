------------------------- MODULE ChannelConfigProofs -------------------------
(* Theorems about the exchange of a channel's configuration, for any parts,    *)
(* values and numbers of changes, refusals and lost connections: a change made *)
(* offline is not overwritten before the server has it, and once an exchange   *)
(* is over none is left and both sides hold the same.                          *)
(*                                                                             *)
(* The invariant follows the messages on their way to the device.  The parts   *)
(* the server sends after a registration all come before ChannelConfigFinished *)
(* ("awaited"), and up to there LocalChangePending makes the device ignore     *)
(* them; from there on every part that is owed is one the server has not       *)
(* confirmed, so that the device goes on sending.                              *)
EXTENDS ChannelConfig, FiniteSetTheorems, SequenceTheorems, WellFoundedInduction, TLAPS

Members == [state : States, received : SUBSET UsedConfigTypes, finished : BOOLEAN,
            attempts : 0 .. MaxAttempts, config : Contents, function : BOOLEAN,
            stored : Stored]

Configs == [call : {"config"}, type : UsedConfigTypes, value : ServerContents,
            function : BOOLEAN]
Finisheds == [call : {"finished"}]
Results == [call : {"result"}, type : UsedConfigTypes, success : BOOLEAN]
Messages == Configs \cup Finisheds \cup Results

TypeInv ==
    /\ style \in Styles
    /\ channel \in Members
    /\ file \in Stored
    /\ connected \in BOOLEAN /\ enabled \in BOOLEAN
    /\ spoiled \in BOOLEAN /\ broken \in BOOLEAN /\ orphaned \in BOOLEAN
    /\ toDevice \in Seq(Messages)
    /\ toServer \in Seq([type : UsedConfigTypes, value : Values])
    /\ server \in [UsedConfigTypes -> ServerContents]
    /\ unsent \subseteq UsedConfigTypes /\ owed \subseteq UsedConfigTypes
    /\ changes \in Nat
    /\ ~ connected => toDevice = <<>> /\ toServer = <<>>

Awaited(q) == \E j \in 1 .. Len(q) : q[j].call = "finished"

\* Of a queue with ChannelConfigFinished in it: there is one, and there are no answers.
Finishes(q) ==
    /\ \A i \in 1 .. Len(q) : q[i].call # "result"
    /\ \A i, j \in 1 .. Len(q) : q[i].call = "finished" /\ q[j].call = "finished" => i = j

FinishInv == Awaited(toDevice) => toServer = <<>> /\ ~ channel.finished /\ Finishes(toDevice)

\* What is on its way about parts that are due, while the function is on or not.
QueueInv(q, on, parts) ==
    \A i \in 1 .. Len(q) :
        /\ q[i].call = "config" =>
              /\ q[i].function = on
              /\ on /\ q[i].type \in parts => \E j \in i + 1 .. Len(q) : q[j].call = "finished"
        /\ q[i].call = "result" => q[i].success /\ q[i].type \notin parts

OwedInv ==
    /\ owed # {} => enabled
    /\ Due # {} => QueueInv(toDevice, enabled, Due)

Busy == {"LocalChangePending", "ResendConfig", "SetChannelConfigSend", "LocalChangeSent"}

\* Where the device is with a part that is due.
KeptInv ==
    Due # {} =>
        /\ ~ connected \/ Awaited(toDevice) => channel.state = "LocalChangePending"
        /\ connected => Due \cap channel.received = {}
        /\ connected /\ Awaited(toDevice) => channel.function \/ toDevice[1].call = "config"
        /\ connected /\ ~ Awaited(toDevice) =>
              channel.finished /\ channel.function /\ channel.state \in Busy

\* What is stored is what is held, with the flag on while a part is due.
Saved(c) == c.stored.config = c.config

StoredInv == Saved(channel) /\ (Due # {} => channel.stored.flag)

Quiet == {"None", "WaitForConfigFinished"}

\* The stored flag tells of a change that is not settled.
Honest(c) == c.stored.flag => c.state \notin Quiet

NoRefusal(q) == \A i \in 1 .. Len(q) : q[i].call = "result" => q[i].success

FlagInv ==
    /\ Honest(channel) \/ orphaned
    /\ connected =>
          /\ channel.state = "SetChannelConfigFailed" => spoiled
          /\ NoRefusal(toDevice) \/ spoiled

Inv == TypeInv /\ FinishInv /\ OwedInv /\ KeptInv /\ StoredInv /\ FlagInv

----------------------------------------------------------------------------
(* The methods. *)

\* The counter of attempts starts again.
LEMMA NoAttempts == 0 \in 0 .. MaxAttempts
BY DEF MaxAttempts

\* clearChannelConfigChangedFlag
LEMMA ClearFacts ==
    ASSUME NEW c \in Members
    PROVE  LET d == ClearChannelConfigChangedFlag(c)
           IN  /\ d \in Members
               /\ d.received = c.received /\ d.finished = c.finished
               /\ d.function = c.function /\ d.config = c.config
               /\ d.state \in {"None", "SetChannelConfigFailed"}
               /\ d.state = "SetChannelConfigFailed" => c.state = "SetChannelConfigFailed"
               /\ Honest(c) => Honest(d)
               /\ Saved(c) => Saved(d)
BY DEF ClearChannelConfigChangedFlag, SaveConfigChangeFlag, Members, States, Stored, Honest,
       Quiet, Saved

\* saveConfig
LEMMA SaveFacts ==
    ASSUME NEW c \in Members
    PROVE  LET d == SaveConfig(c)
           IN  /\ d \in Members
               /\ d.received = c.received /\ d.finished = c.finished
               /\ d.function = c.function /\ d.config = c.config
               /\ d.state = c.state
               /\ Honest(c) => Honest(d)
               /\ Saved(d)
               /\ style = "pending" => d.stored.flag = c.stored.flag
BY DEF SaveConfig, SaveConfigChangeFlag, Members, States, Stored, Honest, Quiet, Saved

\* A part of the configuration is set.
LEMMA SetFacts ==
    ASSUME NEW c \in Members, NEW type \in UsedConfigTypes, NEW value \in Values
    PROVE  LET d == [c EXCEPT !.config[type] = value]
           IN  /\ d \in Members
               /\ d.received = c.received /\ d.finished = c.finished
               /\ d.function = c.function /\ d.state = c.state
               /\ d.stored = c.stored
               /\ \A t \in UsedConfigTypes \ {type} : d.config[t] = c.config[t]
BY DEF Members, Contents

\* A setter of the channel.
LEMMA ChangeFacts ==
    ASSUME NEW c \in Members, NEW type \in UsedConfigTypes, NEW value \in Values
    PROVE  LET d == ChangeConfig(c, type, value)
           IN  /\ d \in Members
               /\ d.finished = c.finished /\ d.function = c.function
               /\ d.received \subseteq c.received
               /\ Saved(d)
               /\ style = "pending" => d.state = "LocalChangePending" /\ d.stored.flag
               /\ d.state = "SetChannelConfigFailed" => c.state = "SetChannelConfigFailed"
               /\ Honest(c) => Honest(d)
<1> DEFINE s == [c EXCEPT !.config[type] = value]
           u == TriggerSetChannelConfig(s, type)
           v == [s EXCEPT !.state = "LocalChangePending"]
<1>1. s \in Members /\ s.received = c.received /\ s.finished = c.finished
      /\ s.function = c.function /\ s.state = c.state /\ s.stored = c.stored
  BY SetFacts
<1>2. ChangeConfig(c, type, value) = IF style = "trigger" THEN SaveConfig(u)
                                     ELSE SaveConfigChangeFlag(SaveConfig(v))
  BY Zenon DEF ChangeConfig
<1> HIDE DEF s
<1>3. u \in Members /\ u.received \subseteq s.received /\ u.finished = s.finished
      /\ u.function = s.function /\ u.stored = s.stored
      /\ (u.state = s.state \/ u.state = "ResendConfig")
      /\ (u.state = "SetChannelConfigFailed" => s.state = "SetChannelConfigFailed")
  BY <1>1 DEF TriggerSetChannelConfig, Members, States
<1>4. v \in Members /\ v.received = s.received /\ v.finished = s.finished
      /\ v.function = s.function /\ v.state = "LocalChangePending"
  BY <1>1 DEF Members, States
<1> HIDE DEF u, v
<1>5. CASE style = "trigger"
  <2>1. Honest(c) => Honest(u)
    BY <1>1, <1>3 DEF Honest, Quiet
  <2>2. QED
    BY <1>1, <1>2, <1>3, <1>5, <2>1, SaveFacts
<1>6. CASE style # "trigger"
  <2> DEFINE w == SaveConfig(v)
  <2>1. w \in Members /\ w.received = v.received /\ w.finished = v.finished
        /\ w.function = v.function /\ w.state = "LocalChangePending" /\ Saved(w)
    BY <1>4, SaveFacts
  <2> HIDE DEF w
  <2>2. LET d == SaveConfigChangeFlag(w)
        IN  /\ d \in Members /\ d.received = w.received /\ d.finished = w.finished
            /\ d.function = w.function /\ d.state = "LocalChangePending" /\ Honest(d)
            /\ Saved(d) /\ d.stored.flag
    BY <2>1 DEF SaveConfigChangeFlag, Members, Stored, Honest, Quiet, Saved
  <2>3. QED
    BY <1>1, <1>2, <1>4, <1>6, <2>1, <2>2 DEF w
<1> QED BY <1>5, <1>6

\* A part of the configuration is sent again.
LEMMA TriggerFacts ==
    ASSUME NEW c \in Members, NEW type \in UsedConfigTypes
    PROVE  LET d == TriggerSetChannelConfig(c, type)
           IN  /\ d \in Members
               /\ d.finished = c.finished /\ d.function = c.function
               /\ d.config = c.config /\ d.stored = c.stored
               /\ d.received \subseteq c.received /\ d.state \in {c.state, "ResendConfig"}
               /\ c.state # "SetChannelConfigFailed" =>
                     d.state = "ResendConfig" /\ d.received = c.received \ {type}
BY DEF TriggerSetChannelConfig, Members, States

\* A part of the configuration is held.
LEMMA AppliedFacts ==
    ASSUME NEW c \in Members, NEW type \in UsedConfigTypes, NEW value \in Values
    PROVE  LET a == Applied(c, type, value)
           IN  /\ a \in Members
               /\ a.received = c.received /\ a.finished = c.finished
               /\ a.function = c.function /\ a.state = c.state
               /\ Honest(c) => Honest(a)
               /\ Saved(c) => Saved(a)
               /\ style = "pending" => a.stored.flag = c.stored.flag
               /\ a.config[type] = value
               /\ \A t \in UsedConfigTypes \ {type} : a.config[t] = c.config[t]
<1> DEFINE s == [c EXCEPT !.config[type] = value]
<1>1. s \in Members /\ s.received = c.received /\ s.finished = c.finished
      /\ s.function = c.function /\ s.state = c.state /\ s.stored = c.stored
      /\ \A t \in UsedConfigTypes \ {type} : s.config[t] = c.config[t]
  BY SetFacts
<1>2. s.config[type] = value
  BY DEF Members, Contents
<1>3. Applied(c, type, value) = IF s = c THEN c ELSE SaveConfig(s)
  BY Zenon DEF Applied
<1> HIDE DEF s
<1>4. QED
  BY <1>1, <1>2, <1>3, SaveFacts DEF Honest

\* What the device completes is a content of its own.
LEMMA CompletedValue ==
    ASSUME NEW c \in Members, NEW m \in Configs, m.value \in Incomplete
    PROVE  Completed[<<m.value, c.config[m.type]>>] \in Values
BY ConfigAssumption DEF Members, Contents, Configs

\* A part is applied as far as it goes, and sent back.
LEMMA IncompleteFacts ==
    ASSUME NEW c \in Members, NEW m \in Configs, m.value \in Incomplete
    PROVE  LET d == ApplyChannelConfig(c, m)
           IN  /\ d \in Members
               /\ d.finished = c.finished /\ d.function = c.function
               /\ d.received \subseteq c.received /\ d.state \in {c.state, "ResendConfig"}
               /\ c.state # "SetChannelConfigFailed" =>
                     d.state = "ResendConfig" /\ d.received = c.received \ {m.type}
               /\ Honest(c) => Honest(d)
               /\ Saved(c) => Saved(d)
               /\ style = "pending" => d.stored.flag = c.stored.flag
               /\ \A t \in UsedConfigTypes \ {m.type} : d.config[t] = c.config[t]
<1> DEFINE v == Completed[<<m.value, c.config[m.type]>>]
           a == Applied(c, m.type, v)
<1>1. v \in Values /\ m.type \in UsedConfigTypes
  BY CompletedValue DEF Configs
<1>2. m.value # Empty /\ m.value # Bad
  BY ConfigAssumption
<1>3. ApplyChannelConfig(c, m) = TriggerSetChannelConfig(a, m.type)
  BY <1>2, Zenon DEF ApplyChannelConfig
<1> HIDE DEF v
<1>4. /\ a \in Members
      /\ a.received = c.received /\ a.finished = c.finished
      /\ a.function = c.function /\ a.state = c.state
      /\ Honest(c) => Honest(a)
      /\ Saved(c) => Saved(a)
      /\ style = "pending" => a.stored.flag = c.stored.flag
      /\ \A t \in UsedConfigTypes \ {m.type} : a.config[t] = c.config[t]
  BY <1>1, AppliedFacts
<1> HIDE DEF a
<1>5. QED
  BY <1>1, <1>3, <1>4, TriggerFacts DEF Honest, Quiet, Saved

\* applyChannelConfig
LEMMA ApplyFacts ==
    ASSUME NEW c \in Members, NEW m \in Configs
    PROVE  LET d == ApplyChannelConfig(c, m)
           IN  /\ d \in Members
               /\ d.finished = c.finished /\ d.function = c.function
               /\ d.received \subseteq c.received \cup {m.type}
               /\ d.state \in {c.state, "ResendConfig"}
               /\ Honest(c) => Honest(d)
               /\ Saved(c) => Saved(d)
               /\ style = "pending" => d.stored.flag = c.stored.flag
               /\ \A t \in UsedConfigTypes \ {m.type} : d.config[t] = c.config[t]
<1>1. m.type \in UsedConfigTypes
  BY DEF Configs
<1>2. CASE m.value = Empty
  <2>1. ApplyChannelConfig(c, m) = TriggerSetChannelConfig(c, m.type)
    BY <1>2, ConfigAssumption DEF ApplyChannelConfig
  <2>2. QED
    BY <1>1, <2>1, TriggerFacts DEF Honest, Quiet, Saved
<1>3. CASE m.value = Bad
  <2>1. ApplyChannelConfig(c, m) = c
    BY <1>3, ConfigAssumption DEF ApplyChannelConfig
  <2>2. QED
    BY <2>1
<1>4. CASE m.value \in Incomplete
  BY <1>4, IncompleteFacts
<1>5. CASE m.value \in Values
  <2> DEFINE a == Applied(c, m.type, m.value)
             d == [a EXCEPT !.received = @ \cup {m.type}]
  <2>1. m.value \notin Incomplete /\ m.value # Empty /\ m.value # Bad
    BY <1>5, ConfigAssumption
  <2>2. ApplyChannelConfig(c, m) = d
    BY <2>1, Zenon DEF ApplyChannelConfig
  <2>3. a \in Members /\ a.received = c.received /\ a.finished = c.finished
        /\ a.function = c.function /\ a.state = c.state /\ (Honest(c) => Honest(a))
        /\ (Saved(c) => Saved(a))
        /\ (style = "pending" => a.stored.flag = c.stored.flag)
        /\ \A t \in UsedConfigTypes \ {m.type} : a.config[t] = c.config[t]
    BY <1>1, <1>5, AppliedFacts
  <2> HIDE DEF a
  <2>4. d \in Members /\ d.received = a.received \cup {m.type} /\ d.finished = a.finished
        /\ d.function = a.function /\ d.state = a.state /\ d.config = a.config
        /\ d.stored = a.stored
    BY <1>1, <2>3 DEF Members
  <2> HIDE DEF d
  <2>5. QED
    BY <2>2, <2>3, <2>4 DEF Honest, Saved
<1>6. QED
  BY <1>2, <1>3, <1>4, <1>5 DEF Configs, ServerContents

\* handleChannelConfig
LEMMA ConfigFacts ==
    ASSUME NEW c \in Members, NEW m \in Configs
    PROVE  LET d == HandleChannelConfig(c, m)
           IN  /\ d \in Members
               /\ d.function = m.function
               /\ m.function =>
                     /\ d.finished = c.finished
                     /\ d.received \subseteq c.received \cup {m.type}
                     /\ d.state \in {c.state, "ResendConfig"}
                     /\ c.state = "LocalChangePending" =>
                            d.state = c.state /\ d.received = c.received /\ d.config = c.config
                     /\ Honest(c) => Honest(d)
                     /\ \A t \in UsedConfigTypes \ {m.type} : d.config[t] = c.config[t]
                     /\ style = "pending" => d.stored.flag = c.stored.flag
               /\ ~ m.function =>
                     /\ d.state = "None" /\ d.config = c.config
                     /\ d.stored.flag = c.stored.flag /\ ~ d.finished
               /\ Saved(c) => Saved(d)
<1> DEFINE s == SetAndSaveFunction(c, m.function)
<1>1. s \in Members /\ s.received = c.received /\ s.finished = c.finished
      /\ s.function = m.function /\ s.state = c.state /\ s.config = c.config
      /\ s.stored.flag = c.stored.flag /\ s.stored.config = c.stored.config
  BY DEF SetAndSaveFunction, Members, Stored, Configs
<1>2. HandleChannelConfig(c, m) =
        CASE ~ m.function -> [s EXCEPT !.state = "None", !.received = UsedConfigTypes,
                                       !.finished = FALSE]
          [] m.function /\ c.state = "LocalChangePending" -> s
          [] OTHER -> ApplyChannelConfig(s, m)
  BY Zenon DEF HandleChannelConfig
<1> HIDE DEF s
<1>3. CASE ~ m.function
  <2> DEFINE d == [s EXCEPT !.state = "None", !.received = UsedConfigTypes, !.finished = FALSE]
  <2>1. HandleChannelConfig(c, m) = d
    BY <1>2, <1>3
  <2>2. d \in Members /\ d.state = "None" /\ ~ d.finished /\ d.function = s.function
        /\ d.config = s.config /\ d.stored = s.stored
    BY <1>1 DEF Members, States
  <2> HIDE DEF d
  <2>3. QED
    BY <1>1, <1>3, <2>1, <2>2 DEF Saved
<1>4. CASE m.function /\ c.state = "LocalChangePending"
  BY <1>1, <1>2, <1>4 DEF Honest, Saved
<1>5. CASE m.function /\ c.state # "LocalChangePending"
  <2>1. HandleChannelConfig(c, m) = ApplyChannelConfig(s, m)
    BY <1>2, <1>5
  <2>2. (Honest(c) => Honest(s)) /\ (Saved(c) => Saved(s))
    BY <1>1 DEF Honest, Saved
  <2> DEFINE d == ApplyChannelConfig(s, m)
  <2>3. /\ d \in Members /\ d.finished = s.finished /\ d.function = s.function
        /\ d.received \subseteq s.received \cup {m.type}
        /\ d.state \in {s.state, "ResendConfig"}
        /\ Honest(s) => Honest(d)
        /\ Saved(s) => Saved(d)
        /\ style = "pending" => d.stored.flag = s.stored.flag
        /\ \A t \in UsedConfigTypes \ {m.type} : d.config[t] = s.config[t]
    BY <1>1, ApplyFacts
  <2> HIDE DEF d
  <2>4. HandleChannelConfig(c, m) = d
    BY <2>1 DEF d
  <2>5. QED
    BY <1>1, <1>5, <2>2, <2>3, <2>4
<1>6. QED
  BY <1>3, <1>4, <1>5 DEF Configs

\* handleChannelConfigFinished
LEMMA FinishedFacts ==
    ASSUME NEW c \in Members
    PROVE  LET d == HandleChannelConfigFinished(c)
           IN  /\ d \in Members
               /\ d.finished /\ d.function = c.function
               /\ d.received = c.received /\ d.config = c.config /\ d.stored = c.stored
               /\ c.received # UsedConfigTypes => d.state = "ResendConfig"
               /\ d.state = "SetChannelConfigFailed" => c.state = "SetChannelConfigFailed"
               /\ Honest(c) => Honest(d)
<1> DEFINE k == IF c.received # UsedConfigTypes THEN "ResendConfig"
                ELSE IF c.state = "WaitForConfigFinished" THEN "None" ELSE c.state
           d == [c EXCEPT !.finished = TRUE, !.attempts = 0, !.state = k]
<1>1. HandleChannelConfigFinished(c) = d
  BY Zenon DEF HandleChannelConfigFinished
<1>2. k \in States /\ (k = "SetChannelConfigFailed" => c.state = k)
      /\ (k \in Quiet => c.state \in Quiet)
      /\ (c.received # UsedConfigTypes => k = "ResendConfig")
  BY DEF Members, States, Quiet
<1> HIDE DEF k
<1>3. d \in Members /\ d.finished /\ d.function = c.function /\ d.received = c.received
      /\ d.config = c.config /\ d.state = k /\ d.stored = c.stored
  BY <1>2, NoAttempts DEF Members
<1> HIDE DEF d
<1>4. QED
  BY <1>1, <1>2, <1>3 DEF Honest

\* handleSetChannelConfigResult
LEMMA ResultFacts ==
    ASSUME NEW c \in Members, NEW m \in Results
    PROVE  LET d == HandleSetChannelConfigResult(c, m)
           IN  /\ d \in Members
               /\ d.finished = c.finished /\ d.function = c.function
               /\ d.received \subseteq c.received \cup {m.type} /\ d.config = c.config
               /\ m.success =>
                     /\ c.state \in Busy /\ c.received \cup {m.type} # UsedConfigTypes
                           => d.state \in Busy /\ d.stored = c.stored
                     /\ c.state = "LocalChangePending" => d.state = c.state
               /\ Saved(c) => Saved(d)
               /\ m.success /\ d.state = "SetChannelConfigFailed"
                     => c.state = "SetChannelConfigFailed"
               /\ Honest(c) => Honest(d)
<1> DEFINE got == [c EXCEPT !.received = @ \cup {m.type}]
           k == IF got.state = "SetChannelConfigSend" THEN "ResendConfig"
                ELSE "LocalChangePending"
           more == [got EXCEPT !.attempts = 0, !.state = k]
           next == IF c.state \notin {"SetChannelConfigSend", "LocalChangeSent"} THEN got
                   ELSE IF got.received # UsedConfigTypes THEN more
                   ELSE ClearChannelConfigChangedFlag(got)
           failed == [ClearChannelConfigChangedFlag(next) EXCEPT !.state = "SetChannelConfigFailed"]
<1>1. HandleSetChannelConfigResult(c, m) = IF m.success THEN next ELSE failed
  BY Zenon DEF HandleSetChannelConfigResult
<1>2. got \in Members /\ got.received = c.received \cup {m.type} /\ got.finished = c.finished
      /\ got.function = c.function /\ got.config = c.config /\ got.state = c.state
      /\ got.stored = c.stored
  BY DEF Members, Results
<1> HIDE DEF got, k
<1>3. more \in Members /\ more.received = got.received /\ more.finished = got.finished
      /\ more.function = got.function /\ more.config = got.config
      /\ more.state \in {"ResendConfig", "LocalChangePending"} /\ more.stored = got.stored
  <2>1. k \in {"ResendConfig", "LocalChangePending"}
    BY DEF k
  <2>2. QED
    BY <1>2, <2>1, NoAttempts DEF Members, States
<1> HIDE DEF more
<1>4. /\ next \in Members /\ next.received = got.received /\ next.finished = got.finished
      /\ next.function = got.function /\ next.config = got.config
      /\ c.state \in Busy /\ got.received # UsedConfigTypes
             => next.state \in Busy /\ next.stored = c.stored
      /\ Saved(c) => Saved(next)
      /\ c.state = "LocalChangePending" => next.state = c.state
      /\ next.state = "SetChannelConfigFailed" => c.state = "SetChannelConfigFailed"
      /\ Honest(c) => Honest(next)
  <2>1. Honest(c) => Honest(got) /\ Honest(more)
    BY <1>2, <1>3 DEF Honest, Quiet
  <2>2. Saved(c) => Saved(got) /\ Saved(more)
    BY <1>2, <1>3 DEF Saved
  <2>3. QED
    BY <1>2, <1>3, <2>1, <2>2, ClearFacts DEF Busy
<1> HIDE DEF next
<1>5. CASE m.success
  BY <1>1, <1>2, <1>4, <1>5
<1>6. CASE ~ m.success
  <2> DEFINE d == ClearChannelConfigChangedFlag(next)
  <2>1. d \in Members /\ d.received = next.received /\ d.finished = next.finished
        /\ d.function = next.function /\ d.config = next.config
        /\ (Saved(next) => Saved(d))
    BY <1>4, ClearFacts
  <2> HIDE DEF d
  <2>2. LET f == [d EXCEPT !.state = "SetChannelConfigFailed"]
        IN  /\ f \in Members /\ f.received = d.received /\ f.finished = d.finished
            /\ f.function = d.function /\ f.config = d.config /\ f.stored = d.stored
            /\ f.state = "SetChannelConfigFailed"
    BY <2>1 DEF Members, States
  <2>3. QED
    BY <1>1, <1>2, <1>4, <1>6, <2>1, <2>2 DEF d, Honest, Quiet, Saved
<1>7. QED
  BY <1>5, <1>6

----------------------------------------------------------------------------
(* The queue of messages. *)

\* The first message leaves.
LEMMA TailItems ==
    ASSUME NEW q \in Seq(Messages), q # <<>>
    PROVE  /\ Len(q) \in Nat /\ Len(q) > 0
           /\ Tail(q) \in Seq(Messages) /\ Len(Tail(q)) = Len(q) - 1
           /\ Head(q) = q[1] /\ Head(q) \in Messages
           /\ \A i \in 1 .. Len(q) - 1 : Tail(q)[i] = q[i + 1]
<1> HIDE DEF Messages
<1> QED OBVIOUS

\* A message joins.
LEMMA AppendItems ==
    ASSUME NEW q \in Seq(Messages), NEW m \in Messages
    PROVE  /\ Len(q) \in Nat
           /\ Append(q, m) \in Seq(Messages) /\ Len(Append(q, m)) = Len(q) + 1
           /\ Append(q, m)[Len(q) + 1] = m
           /\ \A i \in 1 .. Len(q) : Append(q, m)[i] = q[i]
OBVIOUS

\* ChannelConfigFinished leaves once, after the parts.
LEMMA FinishTail ==
    ASSUME NEW q \in Seq(Messages), q # <<>>
    PROVE  /\ Awaited(Tail(q)) => Awaited(q)
           /\ Awaited(q) /\ Head(q).call # "finished" => Awaited(Tail(q))
           /\ Finishes(q) => Head(q).call # "result" /\ Finishes(Tail(q))
           /\ Finishes(q) /\ Head(q).call = "finished" => ~ Awaited(Tail(q))
<1>1. /\ Len(q) \in Nat /\ Len(q) > 0 /\ Len(Tail(q)) = Len(q) - 1 /\ Head(q) = q[1]
      /\ \A i \in 1 .. Len(q) - 1 : Tail(q)[i] = q[i + 1]
  BY TailItems
<1>2. Awaited(Tail(q)) => Awaited(q)
  <2> SUFFICES ASSUME NEW i \in 1 .. Len(Tail(q)), Tail(q)[i].call = "finished"
               PROVE  Awaited(q)
    BY DEF Awaited
  <2>1. i + 1 \in 1 .. Len(q) /\ q[i + 1].call = "finished"
    BY <1>1
  <2>2. QED
    BY <2>1 DEF Awaited
<1>3. Awaited(q) /\ Head(q).call # "finished" => Awaited(Tail(q))
  <2> SUFFICES ASSUME NEW i \in 1 .. Len(q), q[i].call = "finished", Head(q).call # "finished"
               PROVE  Awaited(Tail(q))
    BY DEF Awaited
  <2>1. i - 1 \in 1 .. Len(Tail(q)) /\ Tail(q)[i - 1] = q[i]
    BY <1>1
  <2>2. QED
    BY <2>1 DEF Awaited
<1>4. Finishes(q) => Head(q).call # "result" /\ Finishes(Tail(q))
  BY <1>1 DEF Finishes
<1>5. Finishes(q) /\ Head(q).call = "finished" => ~ Awaited(Tail(q))
  BY <1>1 DEF Finishes, Awaited
<1>6. QED
  BY <1>2, <1>3, <1>4, <1>5

\* Other messages do not change it.
LEMMA FinishAppend ==
    ASSUME NEW q \in Seq(Messages), NEW m \in Messages, m.call # "finished"
    PROVE  /\ Awaited(Append(q, m)) <=> Awaited(q)
           /\ Finishes(q) /\ m.call # "result" => Finishes(Append(q, m))
<1>1. /\ Len(q) \in Nat /\ Len(Append(q, m)) = Len(q) + 1 /\ Append(q, m)[Len(q) + 1] = m
      /\ \A i \in 1 .. Len(q) : Append(q, m)[i] = q[i]
  BY AppendItems
<1>2. QED
  BY <1>1 DEF Awaited, Finishes

\* A refusal is known from its message.
LEMMA RefusalAppend ==
    ASSUME NEW q \in Seq(Messages), NEW m \in Messages, NoRefusal(q),
           m.call = "result" => m.success
    PROVE  NoRefusal(Append(q, m))
<1>1. /\ Len(q) \in Nat /\ Len(Append(q, m)) = Len(q) + 1 /\ Append(q, m)[Len(q) + 1] = m
      /\ \A i \in 1 .. Len(q) : Append(q, m)[i] = q[i]
  BY AppendItems
<1>2. QED
  BY <1>1 DEF NoRefusal

\* ... and stays out when a message leaves.
LEMMA RefusalTail ==
    ASSUME NEW q \in Seq(Messages), q # <<>>, NoRefusal(q)
    PROVE  NoRefusal(Tail(q)) /\ (Head(q).call = "result" => Head(q).success)
<1>1. /\ Len(q) \in Nat /\ Len(q) > 0 /\ Len(Tail(q)) = Len(q) - 1 /\ Head(q) = q[1]
      /\ \A i \in 1 .. Len(q) - 1 : Tail(q)[i] = q[i + 1]
  BY TailItems
<1>2. QED
  BY <1>1 DEF NoRefusal

\* The messages about owed parts: one leaves.
LEMMA QueueTail ==
    ASSUME NEW q \in Seq(Messages), q # <<>>, NEW on, NEW parts, QueueInv(q, on, parts)
    PROVE  /\ QueueInv(Tail(q), on, parts)
           /\ Head(q).call = "config" =>
                  Head(q).function = on /\ (on /\ Head(q).type \in parts => Awaited(q))
           /\ Head(q).call = "result" => Head(q).success /\ Head(q).type \notin parts
<1>1. /\ Len(q) \in Nat /\ Len(q) > 0 /\ Len(Tail(q)) = Len(q) - 1 /\ Head(q) = q[1]
      /\ \A i \in 1 .. Len(q) - 1 : Tail(q)[i] = q[i + 1]
  BY TailItems
<1>2. QueueInv(Tail(q), on, parts)
  <2> SUFFICES ASSUME NEW i \in 1 .. Len(Tail(q))
               PROVE  /\ Tail(q)[i].call = "config" =>
                            /\ Tail(q)[i].function = on
                            /\ on /\ Tail(q)[i].type \in parts =>
                                  \E j \in i + 1 .. Len(Tail(q)) : Tail(q)[j].call = "finished"
                      /\ Tail(q)[i].call = "result" =>
                            Tail(q)[i].success /\ Tail(q)[i].type \notin parts
    BY DEF QueueInv
  <2>1. i + 1 \in 1 .. Len(q) /\ Tail(q)[i] = q[i + 1]
    BY <1>1
  <2>2. ASSUME NEW j \in i + 2 .. Len(q), q[j].call = "finished"
        PROVE  \E k \in i + 1 .. Len(Tail(q)) : Tail(q)[k].call = "finished"
    <3>1. j - 1 \in i + 1 .. Len(Tail(q)) /\ Tail(q)[j - 1] = q[j]
      BY <1>1
    <3>2. QED
      BY <2>2, <3>1
  <2>3. QED
    BY <2>1, <2>2 DEF QueueInv
<1>3. QED
  BY <1>1, <1>2 DEF QueueInv, Awaited

\* ... one joins that is not about them, or fewer are owed.
LEMMA QueueAppend ==
    ASSUME NEW q \in Seq(Messages), NEW on, NEW parts, QueueInv(q, on, parts),
           NEW m \in Messages, m.call # "finished", m.type \notin parts,
           m.call = "config" => m.function = on, m.call = "result" => m.success
    PROVE  QueueInv(Append(q, m), on, parts)
<1>1. /\ Len(q) \in Nat /\ Len(Append(q, m)) = Len(q) + 1 /\ Append(q, m)[Len(q) + 1] = m
      /\ \A i \in 1 .. Len(q) : Append(q, m)[i] = q[i]
  BY AppendItems
<1>2. QED
  BY <1>1 DEF QueueInv

\* ... fewer parts are owed.
LEMMA QueueFewer ==
    ASSUME NEW q, NEW on, NEW parts, QueueInv(q, on, parts), NEW less \in SUBSET parts
    PROVE  QueueInv(q, on, less)
BY DEF QueueInv

\* The server sends at least one part.
LEMMA Parts ==
    LET parts == SetToSeq(UsedConfigTypes)
    IN  /\ Len(parts) \in Nat /\ Len(parts) > 0
        /\ \A i \in 1 .. Len(parts) : parts[i] \in UsedConfigTypes
<1> DEFINE n == Cardinality(UsedConfigTypes)
<1>1. n \in Nat /\ n # 0 /\ ExistsBijection(1 .. n, UsedConfigTypes)
  BY ConfigAssumption, FS_CardinalityType, FS_EmptySet
<1>2. \E f \in [1 .. n -> UsedConfigTypes] : IsInjective(f)
  BY <1>1 DEF ExistsBijection, Bijection, Injection, IsInjective
<1>3. SetToSeq(UsedConfigTypes) \in [1 .. n -> UsedConfigTypes]
  BY <1>2, Zenon DEF SetToSeq
<1> HIDE DEF n
<1>4. Len(SetToSeq(UsedConfigTypes)) = n
  BY <1>1, <1>3
<1>5. QED
  BY <1>1, <1>3, <1>4

----------------------------------------------------------------------------
(* The steps. *)

\* At the start nothing is owed.
LEMMA InitInv == ASSUME Init PROVE Inv
<1>1. channel = LoadConfig(file) /\ file \in Stored
  BY ConfigAssumption DEF Init, Stored, Contents
<1>2. channel \in Members /\ Honest(channel)
  BY <1>1, NoAttempts DEF LoadConfig, Members, States, Stored, Honest, Quiet
<1>3. TypeInv
  <2>1. server \in [UsedConfigTypes -> ServerContents]
    BY ConfigAssumption DEF Init, ServerContents
  <2>2. toDevice \in Seq(Messages) /\ toServer \in Seq([type : UsedConfigTypes, value : Values])
    <3> HIDE DEF Messages
    <3>1. toDevice = <<>> /\ toServer = <<>>
      BY DEF Init
    <3>2. QED
      BY <3>1
  <2>3. style \in Styles /\ connected \in BOOLEAN /\ enabled \in BOOLEAN
        /\ spoiled \in BOOLEAN /\ broken \in BOOLEAN /\ orphaned \in BOOLEAN
        /\ unsent \subseteq UsedConfigTypes /\ owed \subseteq UsedConfigTypes
        /\ changes \in Nat /\ toDevice = <<>> /\ toServer = <<>>
    BY DEF Init
  <2>4. QED
    BY <1>1, <1>2, <2>1, <2>2, <2>3 DEF TypeInv
<1>4. FinishInv /\ FlagInv
  BY <1>2 DEF Init, FinishInv, FlagInv, Awaited
<1>5. OwedInv /\ KeptInv /\ StoredInv
  <2>1. owed = {} /\ Due = {} /\ Saved(channel)
    BY <1>1 DEF Init, Due, LoadConfig, Saved
  <2>2. QED
    BY <2>1 DEF OwedInv, KeptInv, StoredInv
<1>6. QED
  BY <1>3, <1>4, <1>5 DEF Inv

\* Nothing but a change offline makes a part due.
LEMMA SameDue ==
    ASSUME UNCHANGED <<style, owed, broken>>
    PROVE  Due' = Due
BY DEF Due

\* ... while the server's taking a part, or a later change of it, ends that.
LEMMA LessDue ==
    ASSUME NEW types, owed' = owed \ types, UNCHANGED <<style, broken>>
    PROVE  Due' = Due \ types
BY DEF Due

\* A setter of the channel, connected or not.
LEMMA LocalChangeInv ==
    ASSUME Inv, NEW type \in UsedConfigTypes, NEW value \in Values, LocalChange(type, value)
    PROVE  Inv'
<1> DEFINE d == ChangeConfig(channel, type, value)
<1>1. channel \in Members /\ channel' = d
  BY DEF Inv, TypeInv, LocalChange
<1>2. /\ d \in Members /\ d.finished = channel.finished /\ d.function = channel.function
      /\ d.received \subseteq channel.received
      /\ Saved(d)
      /\ style = "pending" => d.state = "LocalChangePending" /\ d.stored.flag
      /\ d.state = "SetChannelConfigFailed" => channel.state = "SetChannelConfigFailed"
      /\ Honest(channel) => Honest(d)
  BY <1>1, ChangeFacts
<1> HIDE DEF d
<1>3. /\ spoiled' = (spoiled \/ (connected /\ ~ AtRest))
      /\ unsent' = IF style = "pending" /\ AtRest THEN unsent \cup {type} ELSE unsent
      /\ owed' = IF enabled /\ ~ connected THEN owed \cup {type} ELSE owed \ {type}
      /\ broken' = (broken /\ connected)
      /\ changes' = changes + 1
      /\ UNCHANGED <<style, file, connected, toDevice, toServer, server, enabled, orphaned>>
  BY Zenon DEF LocalChange, link
<1>4. /\ spoiled' \in BOOLEAN /\ broken' \in BOOLEAN /\ (spoiled => spoiled')
  BY <1>3, Zenon DEF Inv, TypeInv
<1>5. TypeInv'
  <2>1. unsent' \subseteq UsedConfigTypes /\ owed' \subseteq UsedConfigTypes
    BY <1>3 DEF Inv, TypeInv
  <2>2. QED
    BY <1>1, <1>2, <1>3, <1>4, <2>1 DEF Inv, TypeInv
<1>6. FinishInv'
  BY <1>1, <1>2, <1>3 DEF Inv, FinishInv, Awaited, Finishes
<1>7. Due' # {} => style = "pending"
  BY <1>3 DEF Due
<1>8. connected => Due' = Due \ {type}
  BY <1>3, Zenon DEF Inv, TypeInv, Due
<1>9. OwedInv'
  <2>1. owed' # {} => enabled'
    BY <1>3 DEF Inv, OwedInv
  <2>2. CASE connected
    BY <1>3, <1>8, <2>1, <2>2, QueueFewer DEF Inv, OwedInv
  <2>3. CASE ~ connected
    BY <1>3, <2>1, <2>3 DEF Inv, TypeInv, OwedInv, QueueInv
  <2>4. QED
    BY <2>2, <2>3
<1>10. KeptInv'
  BY <1>1, <1>2, <1>3, <1>7, <1>8 DEF Inv, TypeInv, KeptInv, Awaited, Busy
<1>11. StoredInv'
  BY <1>1, <1>2, <1>7 DEF StoredInv
<1>12. FlagInv'
  BY <1>1, <1>2, <1>3, <1>4 DEF Inv, FlagInv, Honest, NoRefusal
<1>13. QED
  BY <1>5, <1>6, <1>9, <1>10, <1>11, <1>12 DEF Inv

\* A set of parts has a least one.
LEMMA LeastPart ==
    ASSUME NEW S \in SUBSET UsedConfigTypes, S # {}
    PROVE  Min(S) \in S
<1>1. S \subseteq Nat
  BY ConfigAssumption
<1>2. \E x \in S : \A y \in S : ~ (<<y, x>> \in OpToRel(<, Nat))
  BY <1>1, NatLessThanWellFounded, WFMin
<1>3. PICK x \in S : \A y \in S : ~ (<<y, x>> \in OpToRel(<, Nat))
  BY <1>2
<1>4. ASSUME NEW y \in S PROVE x =< y
  <2>1. x \in Nat /\ y \in Nat
    BY <1>1
  <2>2. ~ (y < x)
    BY <1>3, <2>1, Zenon DEF OpToRel
  <2>3. QED
    BY <2>1, <2>2
<1>5. QED
  BY <1>4, Zenon DEF Min

\* The part that is sent is one the server lacks.
LEMMA NextType ==
    ASSUME NEW c \in Members, NotReceived(c) # {}
    PROVE  GetNextConfigType(c) \in NotReceived(c)
BY LeastPart DEF GetNextConfigType, NotReceived

\* A part is sent.
LEMMA SendInv ==
    ASSUME Inv, SendConfig
    PROVE  Inv'
<1> DEFINE type == GetNextConfigType(channel)
           k == IF channel.state = "LocalChangePending" THEN "LocalChangeSent"
                ELSE "SetChannelConfigSend"
           n == channel.attempts + 1
           d == [channel EXCEPT !.attempts = n, !.state = k]
           m == [type |-> type, value |-> channel.config[type]]
<1>1. /\ connected /\ channel.finished /\ channel.function /\ channel.state \in Busy
      /\ NotReceived(channel) # {} /\ channel.attempts < MaxAttempts
      /\ toServer' = Append(toServer, m)
      /\ UNCHANGED <<style, file, connected, toDevice, server, enabled, changes, spoiled,
                     unsent, owed, broken, orphaned>>
  BY Zenon DEF SendConfig, Send, Sending, Busy, history
<1>2. channel' = d
  BY Zenon DEF SendConfig, Send, Sent
<1>3. channel \in Members
  BY DEF Inv, TypeInv
<1>4. type \in UsedConfigTypes /\ channel.config[type] \in Values
  <2>1. NotReceived(channel) \subseteq UsedConfigTypes /\ NotReceived(channel) \subseteq Nat
    BY ConfigAssumption DEF NotReceived
  <2>2. type \in NotReceived(channel)
    BY <1>1, <1>3, NextType
  <2>3. QED
    BY <1>3, <2>1, <2>2 DEF Members, Contents
<1>5. n \in 0 .. MaxAttempts
  BY <1>1, <1>3 DEF Members, MaxAttempts
<1>6. k \in Busy /\ k \in States /\ k # "LocalChangePending"
  BY DEF Busy, States
<1> HIDE DEF type, k, n
<1>7. /\ d \in Members /\ d.state = k /\ d.received = channel.received
      /\ d.finished = channel.finished /\ d.function = channel.function
      /\ d.stored = channel.stored /\ d.config = channel.config
  BY <1>3, <1>5, <1>6 DEF Members
<1> HIDE DEF d
<1>8. toServer' \in Seq([type : UsedConfigTypes, value : Values])
  BY <1>1, <1>4 DEF Inv, TypeInv
<1>9. TypeInv'
  BY <1>1, <1>2, <1>7, <1>8 DEF Inv, TypeInv
<1>10. ~ Awaited(toDevice) /\ FinishInv'
  BY <1>1, <1>2, <1>7 DEF Inv, FinishInv, Awaited
<1>11. Due' = Due
  BY <1>1, SameDue
<1>12. OwedInv' /\ StoredInv'
  BY <1>1, <1>2, <1>7, <1>11 DEF Inv, OwedInv, StoredInv, Saved
<1>13. KeptInv'
  BY <1>1, <1>2, <1>6, <1>7, <1>10, <1>11 DEF Inv, KeptInv, Awaited
<1>14. FlagInv'
  BY <1>1, <1>2, <1>6, <1>7 DEF Inv, FlagInv, Honest, NoRefusal, Busy, Quiet
<1>15. QED
  BY <1>9, <1>10, <1>12, <1>13, <1>14 DEF Inv

\* A part is given up: none is due any longer.
LEMMA GiveUpInv ==
    ASSUME Inv, GiveUp
    PROVE  Inv'
<1> DEFINE type == GetNextConfigType(channel)
           d == [channel EXCEPT !.attempts = 0, !.received = @ \cup {type}]
<1>1. /\ connected /\ channel.finished /\ channel.function /\ channel.state \in Busy
      /\ NotReceived(channel) # {}
      /\ spoiled' = TRUE /\ broken' = (broken \/ owed # {})
      /\ UNCHANGED <<style, file, connected, toDevice, toServer, server, enabled, changes,
                     unsent, owed, orphaned>>
  BY Zenon DEF GiveUp, Sending, Busy, link
<1>2. channel' = d
  BY Zenon DEF GiveUp, GivenUp
<1>3. channel \in Members
  BY DEF Inv, TypeInv
<1>4. type \in UsedConfigTypes
  BY <1>1, <1>3, NextType DEF NotReceived
<1> HIDE DEF type
<1>5. /\ d \in Members /\ d.received = channel.received \cup {type} /\ d.state = channel.state
      /\ d.finished = channel.finished /\ d.function = channel.function
      /\ d.stored = channel.stored /\ d.config = channel.config
  BY <1>3, <1>4, NoAttempts DEF Members
<1> HIDE DEF d
<1>6. TypeInv'
  <2>1. broken' \in BOOLEAN
    BY <1>1, Zenon DEF Inv, TypeInv
  <2>2. QED
    BY <1>1, <1>2, <1>5, <2>1 DEF Inv, TypeInv
<1>7. ~ Awaited(toDevice) /\ FinishInv'
  BY <1>1, <1>2, <1>5 DEF Inv, FinishInv, Awaited
<1>8. Due' = {}
  BY <1>1, Zenon DEF Due
<1>9. OwedInv' /\ KeptInv' /\ StoredInv'
  BY <1>1, <1>2, <1>5, <1>8 DEF Inv, OwedInv, KeptInv, StoredInv, Saved
<1>10. FlagInv'
  BY <1>1, <1>2, <1>5 DEF Inv, FlagInv, Honest, NoRefusal
<1>11. QED
  BY <1>6, <1>7, <1>9, <1>10 DEF Inv

\* The server has every part: nothing is due, and the flag is cleared.
LEMMA NothingToSendInv ==
    ASSUME Inv, NothingToSend
    PROVE  Inv'
<1> DEFINE d == ClearChannelConfigChangedFlag(channel)
<1>1. /\ connected /\ channel.finished /\ channel.function /\ channel.state \in Busy
      /\ NotReceived(channel) = {}
      /\ channel' = d
      /\ UNCHANGED <<style, file, connected, toDevice, toServer, server, enabled, changes,
                     spoiled, unsent, owed, broken, orphaned>>
  BY Zenon DEF NothingToSend, Sending, Busy, link, history
<1>2. channel \in Members
  BY DEF Inv, TypeInv
<1>3. /\ d \in Members /\ d.received = channel.received
      /\ d.finished = channel.finished /\ d.function = channel.function
      /\ d.state = "SetChannelConfigFailed" => channel.state = "SetChannelConfigFailed"
      /\ Honest(channel) => Honest(d)
      /\ Saved(channel) => Saved(d)
  BY <1>2, ClearFacts
<1> HIDE DEF d
<1>4. TypeInv'
  BY <1>1, <1>3 DEF Inv, TypeInv
<1>5. ~ Awaited(toDevice) /\ FinishInv'
  BY <1>1, <1>3 DEF Inv, FinishInv, Awaited
<1>6. Due = {} /\ Due' = {}
  <2>1. Due \subseteq owed
    BY DEF Due
  <2>2. Due = {}
    BY <1>1, <2>1 DEF Inv, TypeInv, KeptInv, NotReceived
  <2>3. QED
    BY <1>1, <2>2, SameDue
<1>7. OwedInv' /\ KeptInv' /\ StoredInv'
  BY <1>1, <1>3, <1>6 DEF Inv, OwedInv, KeptInv, StoredInv
<1>8. FlagInv'
  BY <1>1, <1>3 DEF Inv, FlagInv, Honest, NoRefusal
<1>9. QED
  BY <1>4, <1>5, <1>7, <1>8 DEF Inv

\* The configuration file is written.
LEMMA CommitInv ==
    ASSUME Inv, CommitConfig
    PROVE  Inv'
<1>1. /\ file' = channel.stored
      /\ UNCHANGED <<style, channel, connected, toDevice, toServer, server, enabled, changes,
                     spoiled, unsent, owed, broken, orphaned>>
  BY DEF CommitConfig, link, history
<1>2. TypeInv'
  BY <1>1 DEF Inv, TypeInv, Members
<1>3. Due' = Due
  BY <1>1, SameDue
<1>4. FinishInv' /\ OwedInv' /\ KeptInv' /\ StoredInv' /\ FlagInv'
  BY <1>1, <1>3 DEF Inv, FinishInv, OwedInv, KeptInv, StoredInv, FlagInv, Saved, Awaited,
              Finishes, QueueInv, Honest, NoRefusal
<1>5. QED
  BY <1>2, <1>4 DEF Inv

\* After a restart a part is due only with the flag on.
LEMMA RestartInv ==
    ASSUME Inv, Restart
    PROVE  Inv'
<1> DEFINE d == LoadConfig(file)
<1>1. /\ channel' = d
      /\ connected' = FALSE /\ toDevice' = <<>> /\ toServer' = <<>>
      /\ owed' = IF file = channel.stored THEN owed ELSE {}
      /\ spoiled' = FALSE /\ unsent' = {}
      /\ UNCHANGED <<style, file, server, enabled, changes, broken, orphaned>>
  BY DEF Restart
<1>2. file \in Stored
  BY DEF Inv, TypeInv
<1>3. /\ d \in Members /\ Honest(d) /\ Saved(d) /\ d.stored = file
      /\ file.flag => d.state = "LocalChangePending"
  BY <1>2, NoAttempts DEF LoadConfig, Members, States, Stored, Honest, Quiet, Saved
<1> HIDE DEF d
<1>4. owed' \subseteq owed /\ (Due' # {} => file.flag)
  <2>1. CASE file = channel.stored
    <3>1. Due' = Due
      BY <1>1, <2>1, SameDue
    <3>2. QED
      BY <1>1, <2>1, <3>1 DEF Inv, StoredInv
  <2>2. CASE file # channel.stored
    BY <1>1, <2>2 DEF Due
  <2>3. QED
    BY <2>1, <2>2
<1>5. <<>> \in Seq(Messages) /\ <<>> \in Seq([type : UsedConfigTypes, value : Values])
  <2> HIDE DEF Messages
  <2> QED OBVIOUS
<1>6. TypeInv'
  BY <1>1, <1>3, <1>4, <1>5 DEF Inv, TypeInv
<1>7. FinishInv' /\ FlagInv'
  BY <1>1, <1>3 DEF FinishInv, Awaited, FlagInv
<1>8. OwedInv' /\ KeptInv' /\ StoredInv'
  BY <1>1, <1>3, <1>4 DEF Inv, OwedInv, KeptInv, StoredInv, QueueInv
<1>9. QED
  BY <1>6, <1>7, <1>8 DEF Inv

\* The connection breaks.
LEMMA DisconnectInv ==
    ASSUME Inv, Disconnect
    PROVE  Inv'
<1>1. /\ connected
      /\ connected' = FALSE /\ toDevice' = <<>> /\ toServer' = <<>>
      /\ spoiled' = FALSE /\ unsent' = {}
      /\ broken' = (broken \/ (owed # {} /\ channel.state # "LocalChangePending"))
      /\ UNCHANGED <<style, channel, file, server, enabled, changes, owed, orphaned>>
  BY DEF Disconnect
<1>2. <<>> \in Seq(Messages) /\ <<>> \in Seq([type : UsedConfigTypes, value : Values])
  <2> HIDE DEF Messages
  <2> QED OBVIOUS
<1>3. TypeInv'
  <2>1. broken' \in BOOLEAN
    BY <1>1, Zenon DEF Inv, TypeInv
  <2>2. QED
    BY <1>1, <1>2, <2>1 DEF Inv, TypeInv
<1>4. FinishInv' /\ FlagInv'
  BY <1>1 DEF Inv, FinishInv, Awaited, FlagInv, Honest
<1>5. Due' \subseteq Due /\ (Due' # {} => channel.state = "LocalChangePending")
  <2>1. CASE channel.state = "LocalChangePending"
    <3>1. broken' = broken
      BY <1>1, <2>1, Zenon DEF Inv, TypeInv
    <3>2. QED
      BY <1>1, <2>1, <3>1, SameDue
  <2>2. CASE channel.state # "LocalChangePending"
    BY <1>1, <2>2, Zenon DEF Due
  <2>3. QED
    BY <2>1, <2>2
<1>6. OwedInv' /\ KeptInv' /\ StoredInv'
  BY <1>1, <1>5 DEF Inv, OwedInv, KeptInv, StoredInv, QueueInv, Saved
<1>7. QED
  BY <1>3, <1>4, <1>6 DEF Inv

\* What the server sends after a registration.
LEMMA RegisterQueue ==
    ASSUME Inv, Register
    PROVE  /\ toDevice' \in Seq(Messages) /\ Awaited(toDevice') /\ Finishes(toDevice')
           /\ NoRefusal(toDevice') /\ toDevice'[1].call = "config"
           /\ QueueInv(toDevice', enabled, Due)
           /\ \A i \in 1 .. Len(toDevice') :
                  toDevice'[i].call = "config" =>
                      /\ toDevice'[i].function = enabled
                      /\ toDevice'[i].value = server[toDevice'[i].type]
                      /\ \E j \in i + 1 .. Len(toDevice') : toDevice'[j].call = "finished"
<1> DEFINE parts == SetToSeq(UsedConfigTypes)
           n == Len(parts)
           first == [i \in 1 .. n |-> ConfigMessage(parts[i], server[parts[i]], enabled)]
           last == <<[call |-> "finished"]>>
           q == first \o last
<1>1. n \in Nat /\ n > 0 /\ \A i \in 1 .. n : parts[i] \in UsedConfigTypes
  BY Parts
<1>2. toDevice' = q
  BY Zenon DEF Register
<1> HIDE DEF parts, n
<1>3. ASSUME NEW i \in 1 .. n
      PROVE  /\ first[i] \in Messages /\ first[i].call = "config" /\ first[i].function = enabled
             /\ first[i].value = server[first[i].type]
  BY <1>1 DEF Inv, TypeInv, ConfigMessage, Messages, Configs
<1> HIDE DEF first
<1>4. first \in [1 .. n -> Messages]
  <2>1. first = [i \in 1 .. n |-> ConfigMessage(parts[i], server[parts[i]], enabled)]
    BY DEF first
  <2> HIDE DEF Messages
  <2>2. QED
    BY <1>3, <2>1
<1>5. first \in Seq(Messages) /\ Len(first) = n
  <2> HIDE DEF Messages
  <2> QED BY <1>1, <1>4
<1>6. last \in Seq(Messages) /\ Len(last) = 1 /\ last[1].call = "finished"
  <2>1. [call |-> "finished"] \in Messages
    BY DEF Messages, Finisheds
  <2> HIDE DEF Messages
  <2>2. QED
    BY <2>1
<1> HIDE DEF last
<1>7. /\ q \in Seq(Messages) /\ Len(q) = n + 1
      /\ q[n + 1] = last[1] /\ \A i \in 1 .. n : q[i] = first[i]
  <2> HIDE DEF Messages
  <2>1. q \in Seq(Messages)
    BY <1>5, <1>6
  <2>2. Len(q) = n + 1
    <3>1. Len(first \o last) = Len(first) + Len(last)
      BY <1>5, <1>6, ConcatProperties, Zenon
    <3>2. QED
      BY <1>5, <1>6, <3>1
  <2>3. ASSUME NEW i \in 1 .. n PROVE q[i] = first[i]
    <3>1. i \in 1 .. Len(first) + Len(last) /\ i =< Len(first)
      BY <1>1, <1>5, <1>6
    <3>2. QED
      BY <1>5, <1>6, <3>1, ConcatProperties
  <2>4. q[n + 1] = last[1]
    BY <1>1, <1>5, <1>6, ConcatProperties
  <2>5. QED
    BY <2>1, <2>2, <2>3, <2>4
<1> HIDE DEF q
<1>8. q[n + 1].call = "finished"
      /\ \A i \in 1 .. n : q[i].call = "config" /\ q[i].function = enabled
                          /\ q[i].value = server[q[i].type]
  BY <1>3, <1>6, <1>7
<1>9. Awaited(q) /\ Finishes(q) /\ NoRefusal(q) /\ q[1].call = "config"
  BY <1>1, <1>7, <1>8 DEF Awaited, Finishes, NoRefusal
<1>10. QueueInv(q, enabled, Due)
  BY <1>1, <1>7, <1>8 DEF QueueInv
<1>11. ASSUME NEW i \in 1 .. Len(q), q[i].call = "config"
       PROVE  /\ q[i].function = enabled /\ q[i].value = server[q[i].type]
              /\ \E j \in i + 1 .. Len(q) : q[j].call = "finished"
  <2>1. i \in 1 .. n /\ n + 1 \in i + 1 .. Len(q)
    BY <1>1, <1>7, <1>8, <1>11
  <2>2. QED
    BY <1>8, <2>1
<1>12. QED
  BY <1>2, <1>7, <1>9, <1>10, <1>11

\* The device registers.
LEMMA RegisterInv ==
    ASSUME Inv, Register
    PROVE  Inv'
<1> DEFINE k == CASE channel.state \in {"None", "WaitForConfigFinished"} -> "WaitForConfigFinished"
                  [] channel.state = "LocalChangePending" -> channel.state
                  [] OTHER -> "ResendConfig"
           d == [channel EXCEPT !.received = {}, !.finished = FALSE, !.attempts = 0, !.state = k]
<1>1. /\ ~ connected /\ connected' = TRUE
      /\ UNCHANGED <<style, file, toServer, server, enabled, changes, spoiled, unsent, owed,
                     broken, orphaned>>
  BY DEF Register, history
<1>2. channel' = d
  BY Zenon DEF Register, OnRegistered
<1>3. channel \in Members /\ toServer = <<>>
  BY <1>1 DEF Inv, TypeInv
<1>4. /\ k \in States /\ k # "SetChannelConfigFailed"
      /\ channel.state = "LocalChangePending" => k = "LocalChangePending"
      /\ k \in Quiet => channel.state \in Quiet
  BY DEF States, Quiet
<1> HIDE DEF k
<1>5. /\ d \in Members /\ d.received = {} /\ ~ d.finished /\ d.state = k
      /\ d.function = channel.function /\ d.stored = channel.stored
      /\ d.config = channel.config
  BY <1>3, <1>4, NoAttempts DEF Members
<1> HIDE DEF d
<1>6. /\ toDevice' \in Seq(Messages) /\ Awaited(toDevice') /\ Finishes(toDevice')
      /\ NoRefusal(toDevice') /\ toDevice'[1].call = "config"
      /\ QueueInv(toDevice', enabled, Due)
  BY RegisterQueue
<1>7. TypeInv'
  BY <1>1, <1>2, <1>5, <1>6 DEF Inv, TypeInv
<1>8. Due' = Due
  BY <1>1, SameDue
<1>9. FinishInv' /\ OwedInv' /\ StoredInv'
  BY <1>1, <1>2, <1>3, <1>5, <1>6, <1>8 DEF Inv, FinishInv, OwedInv, StoredInv, Saved
<1>10. KeptInv'
  BY <1>1, <1>2, <1>4, <1>5, <1>6, <1>8 DEF Inv, KeptInv
<1>11. FlagInv'
  BY <1>1, <1>2, <1>4, <1>5, <1>6 DEF Inv, FlagInv, Honest
<1>12. QED
  BY <1>7, <1>9, <1>10, <1>11 DEF Inv

\* The server answers: the part it took is due no longer, and a refusal is known.
LEMMA AnswerInv ==
    ASSUME Inv, NEW success \in BOOLEAN, Answer(success)
    PROVE  Inv'
<1> DEFINE m == Head(toServer)
           a == [call |-> "result", type |-> m.type, success |-> success]
<1>1. /\ connected /\ toServer # <<>>
      /\ server' = IF success THEN [server EXCEPT ![m.type] = m.value] ELSE server
      /\ toDevice' = Append(toDevice, a)
      /\ toServer' = Tail(toServer)
      /\ spoiled' \in BOOLEAN /\ (spoiled => spoiled') /\ (~ success => spoiled')
      /\ owed' = IF success THEN owed \ {m.type} ELSE owed
      /\ success => broken' = broken
      /\ ~ success => broken' = (broken \/ owed # {})
      /\ UNCHANGED <<style, channel, file, connected, enabled, changes, unsent, orphaned>>
  BY DEF Answer, Inv, TypeInv
<1>2. m \in [type : UsedConfigTypes, value : Values]
      /\ toServer' \in Seq([type : UsedConfigTypes, value : Values])
  <2> DEFINE Parcels == [type : UsedConfigTypes, value : Values]
  <2>1. toServer \in Seq(Parcels)
    BY DEF Inv, TypeInv
  <2> HIDE DEF Parcels
  <2>2. Head(toServer) \in Parcels /\ Tail(toServer) \in Seq(Parcels)
    BY <1>1, <2>1
  <2>3. QED
    BY <1>1, <2>2 DEF Parcels
<1>3. a \in Messages /\ a.call = "result" /\ a.type = m.type /\ a.success = success
  BY <1>2 DEF Messages, Results
<1>4. server' \in [UsedConfigTypes -> ServerContents]
  BY <1>1, <1>2 DEF Inv, TypeInv, ServerContents
<1> HIDE DEF m, a
<1>5. toDevice \in Seq(Messages) /\ toDevice' \in Seq(Messages)
  BY <1>1, <1>3, AppendItems DEF Inv, TypeInv
<1>6. TypeInv'
  <2>1. broken' \in BOOLEAN
    BY <1>1, Zenon DEF Inv, TypeInv
  <2>2. QED
    BY <1>1, <1>2, <1>4, <1>5, <2>1 DEF Inv, TypeInv
<1>7. ~ Awaited(toDevice) /\ ~ Awaited(toDevice')
  BY <1>1, <1>3, <1>5, FinishAppend DEF Inv, FinishInv
<1>8. FinishInv'
  BY <1>7 DEF FinishInv, Awaited
<1>9. owed' \subseteq owed /\ Due' \subseteq Due /\ m.type \notin Due' /\ (Due' # {} => success)
  <2>1. CASE success
    <3>1. Due' = Due \ {m.type}
      BY <1>1, <2>1, LessDue
    <3>2. QED
      BY <1>1, <2>1, <3>1
  <2>2. CASE ~ success
    <3>1. Due' = {}
      BY <1>1, <2>2, Zenon DEF Due
    <3>2. QED
      BY <1>1, <2>2, <3>1
  <2>3. QED
    BY <2>1, <2>2
<1>10. OwedInv' /\ StoredInv'
  <2>1. Due' # {} => QueueInv(toDevice, enabled, Due')
    BY <1>9, QueueFewer DEF Inv, OwedInv
  <2>2. Due' # {} => QueueInv(toDevice', enabled, Due')
    BY <1>1, <1>3, <1>5, <1>9, <2>1, QueueAppend
  <2>3. QED
    BY <1>1, <1>9, <2>2 DEF Inv, OwedInv, StoredInv, Saved
<1>11. KeptInv'
  BY <1>1, <1>7, <1>9 DEF Inv, KeptInv, Awaited
<1>12. FlagInv'
  <2>1. NoRefusal(toDevice) /\ success => NoRefusal(toDevice')
    BY <1>1, <1>3, <1>5, RefusalAppend
  <2>2. QED
    BY <1>1, <2>1 DEF Inv, FlagInv, Honest
<1>13. QED
  BY <1>6, <1>8, <1>10, <1>11, <1>12 DEF Inv

\* What every call that arrives has in common.
LEMMA ReceiveFacts ==
    ASSUME Inv, Receive
    PROVE  LET m == Head(toDevice)
           IN  /\ channel \in Members /\ connected /\ toDevice \in Seq(Messages)
               /\ toDevice # <<>> /\ m \in Messages /\ m = toDevice[1]
               /\ toDevice' = Tail(toDevice) /\ toDevice' \in Seq(Messages)
               /\ m.call = "config" => m \in Configs /\ channel' = HandleChannelConfig(channel, m)
               /\ m.call = "finished" => channel' = HandleChannelConfigFinished(channel)
               /\ m.call = "result" =>
                      m \in Results /\ channel' = HandleSetChannelConfigResult(channel, m)
               /\ orphaned' = (orphaned \/ (channel.stored.flag /\ channel'.function = FALSE))
               /\ UNCHANGED <<style, file, connected, toServer, server, enabled, changes,
                              spoiled, unsent, owed, broken>>
<1>1. toDevice # <<>> /\ toDevice \in Seq(Messages) /\ toDevice' = Tail(toDevice)
  BY DEF Inv, TypeInv, Receive
<1>2. toDevice' \in Seq(Messages) /\ Head(toDevice) \in Messages /\ Head(toDevice) = toDevice[1]
  BY <1>1, TailItems
<1> DEFINE m == Head(toDevice)
<1>3. /\ channel' = CASE m.call = "config" -> HandleChannelConfig(channel, m)
                      [] m.call = "finished" -> HandleChannelConfigFinished(channel)
                      [] m.call = "result" -> HandleSetChannelConfigResult(channel, m)
      /\ orphaned' = (orphaned \/ (channel.stored.flag /\ channel'.function = FALSE))
  BY Zenon DEF Receive
<1> HIDE DEF m
<1>4. /\ m.call = "config" => m \in Configs /\ channel' = HandleChannelConfig(channel, m)
      /\ m.call = "finished" => channel' = HandleChannelConfigFinished(channel)
      /\ m.call = "result" =>
             m \in Results /\ channel' = HandleSetChannelConfigResult(channel, m)
  BY <1>2, <1>3 DEF m, Messages, Configs, Finisheds, Results
<1>5. connected /\ channel \in Members
      /\ UNCHANGED <<style, file, connected, toServer, server, enabled, changes, spoiled,
                     unsent, owed, broken>>
  BY DEF Inv, TypeInv, Receive
<1>6. QED
  BY <1>1, <1>2, <1>3, <1>4, <1>5 DEF m

\* A part arrives: while ChannelConfigFinished is awaited one that is owed is ignored.
LEMMA ReceiveConfigInv ==
    ASSUME Inv, Receive, Head(toDevice).call = "config"
    PROVE  Inv'
<1> DEFINE m == Head(toDevice)
           d == HandleChannelConfig(channel, m)
<1>1. /\ channel \in Members /\ connected /\ toDevice \in Seq(Messages)
      /\ toDevice # <<>> /\ m = toDevice[1] /\ m.call = "config" /\ m \in Configs
      /\ toDevice' = Tail(toDevice) /\ toDevice' \in Seq(Messages)
      /\ channel' = d
      /\ orphaned' = (orphaned \/ (channel.stored.flag /\ channel'.function = FALSE))
      /\ UNCHANGED <<style, file, connected, toServer, server, enabled, changes, spoiled,
                     unsent, owed, broken>>
  BY ReceiveFacts
<1>2. /\ d \in Members
      /\ d.function = m.function
      /\ m.function =>
            /\ d.finished = channel.finished
            /\ d.received \subseteq channel.received \cup {m.type}
            /\ d.state \in {channel.state, "ResendConfig"}
            /\ channel.state = "LocalChangePending" =>
                   d.state = channel.state /\ d.received = channel.received
            /\ Honest(channel) => Honest(d)
            /\ style = "pending" => d.stored.flag = channel.stored.flag
      /\ ~ m.function =>
            /\ d.state = "None" /\ d.stored.flag = channel.stored.flag /\ ~ d.finished
      /\ Saved(channel) => Saved(d)
  BY <1>1, ConfigFacts
<1>3. m.function \in BOOLEAN
  BY <1>1 DEF Configs
<1>4. /\ Awaited(toDevice) <=> Awaited(toDevice')
      /\ Finishes(toDevice) => Finishes(toDevice')
  BY <1>1, FinishTail
<1>5. /\ Due' = Due
      /\ Due # {} =>
            /\ QueueInv(toDevice', enabled, Due)
            /\ m.function = enabled /\ (enabled /\ m.type \in Due => Awaited(toDevice))
            /\ style = "pending" /\ enabled
  <2>1. Due' = Due
    BY <1>1, SameDue
  <2>2. Due # {} => style = "pending" /\ enabled
    BY DEF Inv, OwedInv, Due
  <2>3. QED
    BY <1>1, <2>1, <2>2, QueueTail DEF Inv, OwedInv
<1>6. NoRefusal(toDevice) => NoRefusal(toDevice')
  BY <1>1, RefusalTail
<1> HIDE DEF m, d
<1>7. TypeInv'
  BY <1>1, <1>2 DEF Inv, TypeInv, Members, Stored
<1>8. FinishInv'
  BY <1>1, <1>2, <1>3, <1>4 DEF Inv, FinishInv
<1>9. OwedInv' /\ StoredInv'
  BY <1>1, <1>2, <1>5 DEF Inv, OwedInv, StoredInv
<1>10. KeptInv'
  BY <1>1, <1>2, <1>4, <1>5 DEF Inv, KeptInv, Busy
<1>11. FlagInv'
  <2>1. Honest(channel') \/ orphaned'
    BY <1>1, <1>2, <1>3 DEF Inv, FlagInv, Honest
  <2>2. QED
    BY <1>1, <1>2, <1>3, <1>6, <2>1 DEF Inv, FlagInv
<1>12. QED
  BY <1>7, <1>8, <1>9, <1>10, <1>11 DEF Inv

\* ChannelConfigFinished arrives: what is owed the server has not sent, so the device
\* starts to send.
LEMMA ReceiveFinishedInv ==
    ASSUME Inv, Receive, Head(toDevice).call = "finished"
    PROVE  Inv'
<1> DEFINE d == HandleChannelConfigFinished(channel)
<1>1. /\ channel \in Members /\ connected /\ toDevice \in Seq(Messages)
      /\ toDevice # <<>> /\ toDevice[1] = Head(toDevice)
      /\ toDevice' = Tail(toDevice) /\ toDevice' \in Seq(Messages)
      /\ channel' = d
      /\ orphaned' = (orphaned \/ (channel.stored.flag /\ channel'.function = FALSE))
      /\ UNCHANGED <<style, file, connected, toServer, server, enabled, changes, spoiled,
                     unsent, owed, broken>>
  BY ReceiveFacts
<1>2. /\ d \in Members
      /\ d.finished /\ d.function = channel.function
      /\ d.received = channel.received
      /\ d.stored = channel.stored /\ d.config = channel.config
      /\ channel.received # UsedConfigTypes => d.state = "ResendConfig"
      /\ d.state = "SetChannelConfigFailed" => channel.state = "SetChannelConfigFailed"
      /\ Honest(channel) => Honest(d)
  BY <1>1, FinishedFacts
<1> HIDE DEF d
<1>3. Awaited(toDevice)
  <2>1. 1 \in 1 .. Len(toDevice)
    BY <1>1, TailItems
  <2>2. QED
    BY <1>1, <2>1 DEF Awaited
<1>4. ~ Awaited(toDevice')
  BY <1>1, <1>3, FinishTail DEF Inv, FinishInv
<1>5. Due' = Due /\ (Due # {} => QueueInv(toDevice', enabled, Due))
  BY <1>1, SameDue, QueueTail DEF Inv, OwedInv
<1>6. NoRefusal(toDevice) => NoRefusal(toDevice')
  BY <1>1, RefusalTail
<1>7. TypeInv'
  BY <1>1, <1>2 DEF Inv, TypeInv, Members, Stored
<1>8. FinishInv'
  BY <1>4 DEF FinishInv
<1>9. OwedInv' /\ StoredInv'
  BY <1>1, <1>2, <1>5 DEF Inv, OwedInv, StoredInv, Saved
<1>10. KeptInv'
  <2> SUFFICES ASSUME Due # {}
               PROVE  /\ Due \cap d.received = {}
                      /\ d.finished /\ d.function /\ d.state \in Busy
    BY <1>1, <1>4, <1>5 DEF KeptInv
  <2>1. Due \cap channel.received = {} /\ channel.function
    BY <1>1, <1>3 DEF Inv, OwedInv, KeptInv, QueueInv
  <2>2. channel.received # UsedConfigTypes
    BY <2>1 DEF Inv, TypeInv, Due
  <2>3. QED
    BY <1>2, <2>1, <2>2 DEF Busy
<1>11. FlagInv'
  <2>1. Honest(channel') \/ orphaned'
    BY <1>1, <1>2 DEF Inv, FlagInv
  <2>2. QED
    BY <1>1, <1>2, <1>6, <2>1 DEF Inv, FlagInv
<1>12. QED
  BY <1>7, <1>8, <1>9, <1>10, <1>11 DEF Inv

\* The result of a part arrives: it is not one that is owed, and another is left to send.
LEMMA ReceiveResultInv ==
    ASSUME Inv, Receive, Head(toDevice).call = "result"
    PROVE  Inv'
<1> DEFINE m == Head(toDevice)
           d == HandleSetChannelConfigResult(channel, m)
<1>1. /\ channel \in Members /\ connected /\ toDevice \in Seq(Messages)
      /\ toDevice # <<>> /\ m = toDevice[1] /\ m.call = "result" /\ m \in Results
      /\ toDevice' = Tail(toDevice) /\ toDevice' \in Seq(Messages)
      /\ channel' = d
      /\ orphaned' = (orphaned \/ (channel.stored.flag /\ channel'.function = FALSE))
      /\ UNCHANGED <<style, file, connected, toServer, server, enabled, changes, spoiled,
                     unsent, owed, broken>>
  BY ReceiveFacts
<1>2. /\ d \in Members
      /\ d.finished = channel.finished /\ d.function = channel.function
      /\ d.received \subseteq channel.received \cup {m.type}
      /\ m.success /\ channel.state \in Busy /\ channel.received \cup {m.type} # UsedConfigTypes
            => d.state \in Busy /\ d.stored = channel.stored
      /\ d.config = channel.config /\ (Saved(channel) => Saved(d))
      /\ m.success /\ d.state = "SetChannelConfigFailed"
            => channel.state = "SetChannelConfigFailed"
      /\ Honest(channel) => Honest(d)
  BY <1>1, ResultFacts
<1>3. ~ Awaited(toDevice) /\ ~ Awaited(toDevice')
  BY <1>1, FinishTail DEF Inv, FinishInv
<1>4. /\ Due' = Due
      /\ Due # {} => QueueInv(toDevice', enabled, Due) /\ m.success /\ m.type \notin Due
  BY <1>1, SameDue, QueueTail DEF Inv, OwedInv
<1>5. NoRefusal(toDevice) => NoRefusal(toDevice') /\ m.success
  BY <1>1, RefusalTail
<1> HIDE DEF m, d
<1>6. TypeInv'
  BY <1>1, <1>2 DEF Inv, TypeInv, Members, Stored
<1>7. FinishInv'
  BY <1>3 DEF FinishInv
<1>8. OwedInv'
  BY <1>1, <1>4 DEF Inv, OwedInv
<1>9. KeptInv' /\ StoredInv'
  <2>1. ASSUME Due # {}
        PROVE  /\ Due \cap d.received = {}
               /\ d.finished /\ d.function /\ d.state \in Busy
               /\ d.stored = channel.stored
    <3>1. Due \cap channel.received = {} /\ channel.function /\ channel.finished
          /\ channel.state \in Busy
      BY <1>1, <1>3, <2>1 DEF Inv, KeptInv
    <3>2. Due \cap (channel.received \cup {m.type}) = {}
      BY <1>4, <2>1, <3>1
    <3>3. channel.received \cup {m.type} # UsedConfigTypes
      BY <2>1, <3>2 DEF Inv, TypeInv, Due
    <3>4. QED
      BY <1>2, <1>4, <2>1, <3>1, <3>2, <3>3
  <2>2. KeptInv'
    BY <1>1, <1>3, <1>4, <2>1 DEF KeptInv
  <2>3. QED
    BY <1>1, <1>2, <1>4, <2>1, <2>2 DEF Inv, StoredInv
<1>10. FlagInv'
  <2>1. Honest(channel') \/ orphaned'
    BY <1>1, <1>2 DEF Inv, FlagInv
  <2>2. QED
    BY <1>1, <1>2, <1>5, <2>1 DEF Inv, FlagInv
<1>11. QED
  BY <1>6, <1>7, <1>8, <1>9, <1>10 DEF Inv

\* A call of the server arrives.
LEMMA ReceiveInv ==
    ASSUME Inv, Receive
    PROVE  Inv'
<1>1. Head(toDevice) \in Messages
  BY ReceiveFacts
<1>2. Head(toDevice).call \in {"config", "finished", "result"}
  BY <1>1 DEF Messages, Configs, Finisheds, Results
<1>3. QED
  BY <1>2, ReceiveConfigInv, ReceiveFinishedInv, ReceiveResultInv

\* A message about a part, which the server sends while connected.
LEMMA TellInv ==
    ASSUME Inv, NEW m \in Configs, NEW on \in BOOLEAN, m.function = on,
           toDevice' = IF connected THEN Append(toDevice, m) ELSE toDevice,
           connected' = connected, toServer' = toServer
    PROVE  /\ toDevice' \in Seq(Messages)
           /\ ~ connected => toDevice' = <<>>
           /\ Awaited(toDevice') <=> Awaited(toDevice)
           /\ Finishes(toDevice) => Finishes(toDevice')
           /\ toDevice # <<>> /\ connected => toDevice'[1] = toDevice[1]
           /\ NoRefusal(toDevice) => NoRefusal(toDevice')
<1>1. toDevice \in Seq(Messages) /\ m \in Messages /\ m.call = "config"
      /\ (~ connected => toDevice = <<>>)
  BY DEF Inv, TypeInv, Messages, Configs
<1>2. CASE connected
  <2>1. toDevice' = Append(toDevice, m)
    BY <1>2
  <2>2. toDevice' \in Seq(Messages)
    BY <1>1, <2>1, AppendItems
  <2>3. /\ Awaited(toDevice') <=> Awaited(toDevice)
        /\ Finishes(toDevice) => Finishes(toDevice')
    BY <1>1, <2>1, FinishAppend
  <2>4. NoRefusal(toDevice) => NoRefusal(toDevice')
    BY <1>1, <2>1, RefusalAppend
  <2>5. toDevice # <<>> => toDevice'[1] = toDevice[1]
    <3> SUFFICES ASSUME toDevice # <<>> PROVE toDevice'[1] = toDevice[1]
      OBVIOUS
    <3>1. 1 \in 1 .. Len(toDevice)
      BY <1>1, TailItems
    <3>2. QED
      BY <1>1, <2>1, <3>1, AppendItems
  <2>6. QED
    BY <1>2, <2>2, <2>3, <2>4, <2>5
<1>3. CASE ~ connected
  BY <1>1, <1>3
<1>4. QED
  BY <1>2, <1>3

\* The configuration is changed in the cloud.
LEMMA ServerChangeInv ==
    ASSUME Inv, NEW type \in UsedConfigTypes, NEW value \in CloudValues, ServerChange(type, value)
    PROVE  Inv'
<1> DEFINE m == ConfigMessage(type, value, enabled)
<1>1. /\ enabled
      /\ server' = [server EXCEPT ![type] = value]
      /\ toDevice' = IF connected THEN Append(toDevice, m) ELSE toDevice
      /\ spoiled' = (spoiled \/ (connected /\ ~ AtRest))
      /\ owed' = IF connected THEN owed \ {type} ELSE owed
      /\ unsent' = unsent \ {type}
      /\ changes' = changes + 1
      /\ UNCHANGED <<style, channel, file, connected, toServer, enabled, broken, orphaned>>
  BY Zenon DEF ServerChange, Tell
<1>2. /\ m \in Configs /\ m.function = enabled /\ m.type = type /\ m.call = "config"
      /\ value \in ServerContents
  BY ConfigAssumption DEF Inv, TypeInv, ConfigMessage, Configs, ServerContents
<1> HIDE DEF m
<1>3. enabled \in BOOLEAN /\ toDevice \in Seq(Messages) /\ m \in Messages
  BY <1>2 DEF Inv, TypeInv, Messages
<1>4. /\ toDevice' \in Seq(Messages)
      /\ ~ connected => toDevice' = <<>>
      /\ Awaited(toDevice') <=> Awaited(toDevice)
      /\ Finishes(toDevice) => Finishes(toDevice')
      /\ toDevice # <<>> /\ connected => toDevice'[1] = toDevice[1]
      /\ NoRefusal(toDevice) => NoRefusal(toDevice')
  BY <1>1, <1>2, <1>3, TellInv
<1>5. spoiled' \in BOOLEAN /\ (spoiled => spoiled')
  BY <1>1, Zenon DEF Inv, TypeInv
<1>6. TypeInv'
  BY <1>1, <1>2, <1>4, <1>5 DEF Inv, TypeInv
<1>7. FinishInv'
  BY <1>1, <1>4 DEF Inv, FinishInv
<1>8. owed' \subseteq owed /\ Due' \subseteq Due /\ (connected => type \notin Due')
  <2>1. CASE connected
    <3>1. Due' = Due \ {type}
      BY <1>1, <2>1, LessDue
    <3>2. QED
      BY <1>1, <3>1
  <2>2. CASE ~ connected
    BY <1>1, <2>2, SameDue
  <2>3. QED
    BY <2>1, <2>2
<1>9. OwedInv' /\ StoredInv'
  <2>1. Due' # {} => QueueInv(toDevice, enabled, Due')
    BY <1>8, QueueFewer DEF Inv, OwedInv
  <2>2. Due' # {} => QueueInv(toDevice', enabled, Due')
    <3>1. CASE connected
      BY <1>1, <1>2, <1>3, <1>8, <2>1, <3>1, QueueAppend
    <3>2. CASE ~ connected
      BY <1>1, <2>1, <3>2
    <3>3. QED
      BY <3>1, <3>2
  <2>3. QED
    BY <1>1, <1>8, <2>2 DEF Inv, OwedInv, StoredInv, Saved
<1>10. KeptInv'
  <2>1. Awaited(toDevice) => toDevice # <<>>
    BY DEF Awaited
  <2>2. QED
    BY <1>1, <1>4, <1>8, <2>1 DEF Inv, KeptInv
<1>11. FlagInv'
  BY <1>1, <1>4, <1>5 DEF Inv, FlagInv, Honest
<1>12. QED
  BY <1>6, <1>7, <1>9, <1>10, <1>11 DEF Inv

\* The function is taken away or given back: nothing is owed any longer.
LEMMA FunctionChangeInv ==
    ASSUME Inv, NEW type \in UsedConfigTypes, FunctionChange(type)
    PROVE  Inv'
<1> DEFINE on == ~ enabled
           m == ConfigMessage(type, server[type], on)
<1>1. /\ enabled' = on
      /\ toDevice' = IF connected THEN Append(toDevice, m) ELSE toDevice
      /\ spoiled' = (spoiled \/ (connected /\ ~ AtRest))
      /\ owed' = {}
      /\ changes' = changes + 1
      /\ UNCHANGED <<style, channel, file, connected, toServer, server, unsent, broken,
                     orphaned>>
  BY Zenon DEF FunctionChange, Tell
<1>2. on \in BOOLEAN
  OBVIOUS
<1> HIDE DEF on
<1>3. m \in Configs /\ m.function = on
  BY <1>2 DEF Inv, TypeInv, ConfigMessage, Configs
<1> HIDE DEF m
<1>4. /\ toDevice' \in Seq(Messages)
      /\ ~ connected => toDevice' = <<>>
      /\ Awaited(toDevice') <=> Awaited(toDevice)
      /\ Finishes(toDevice) => Finishes(toDevice')
      /\ NoRefusal(toDevice) => NoRefusal(toDevice')
  BY <1>1, <1>2, <1>3, TellInv
<1>5. spoiled' \in BOOLEAN /\ (spoiled => spoiled')
  BY <1>1, Zenon DEF Inv, TypeInv
<1>6. TypeInv'
  BY <1>1, <1>2, <1>4, <1>5 DEF Inv, TypeInv
<1>7. FinishInv'
  BY <1>1, <1>4 DEF Inv, FinishInv
<1>8. OwedInv' /\ KeptInv' /\ StoredInv'
  <2>1. Due' = {}
    BY <1>1 DEF Due
  <2>2. QED
    BY <1>1, <2>1 DEF Inv, OwedInv, KeptInv, StoredInv, Saved
<1>9. FlagInv'
  BY <1>1, <1>4, <1>5 DEF Inv, FlagInv, Honest
<1>10. QED
  BY <1>6, <1>7, <1>8, <1>9 DEF Inv

\* The invariant is inductive.
LEMMA NextInv ==
    ASSUME Inv, [Next]_vars
    PROVE  Inv'
<1>1. ASSUME NEW type \in UsedConfigTypes, NEW value \in Values, LocalChange(type, value)
      PROVE  Inv'
  BY <1>1, LocalChangeInv
<1>2. CASE IterateConfigExchange
  BY <1>2, SendInv, GiveUpInv, NothingToSendInv DEF IterateConfigExchange
<1>3. CASE Receive
  BY <1>3, ReceiveInv
<1>4. CASE CommitConfig
  BY <1>4, CommitInv
<1>5. CASE Restart
  BY <1>5, RestartInv
<1>6. CASE Register
  BY <1>6, RegisterInv
<1>7. CASE Disconnect
  BY <1>7, DisconnectInv
<1>8. ASSUME NEW success \in BOOLEAN, Answer(success)
      PROVE  Inv'
  BY <1>8, AnswerInv
<1>9. ASSUME NEW type \in UsedConfigTypes, NEW value \in CloudValues, ServerChange(type, value)
      PROVE  Inv'
  BY <1>9, ServerChangeInv
<1>10. CASE FunctionChange(Min(UsedConfigTypes))
  <2>1. Min(UsedConfigTypes) \in UsedConfigTypes
    BY ConfigAssumption, LeastPart
  <2>2. QED
    BY <1>10, <2>1, FunctionChangeInv
<1>11. CASE UNCHANGED vars
  <2>1. UNCHANGED <<style, channel, file, connected, toDevice, toServer, server, enabled,
                    changes, spoiled, unsent, owed, broken, orphaned>>
    BY <1>11 DEF vars, link, history
  <2>2. TypeInv' /\ Due' = Due
    BY <2>1, SameDue DEF Inv, TypeInv
  <2>3. FinishInv' /\ OwedInv' /\ KeptInv' /\ StoredInv' /\ FlagInv'
    BY <2>1, <2>2 DEF Inv, FinishInv, OwedInv, KeptInv, StoredInv, FlagInv
  <2>4. QED
    BY <2>2, <2>3 DEF Inv
<1>12. QED
  BY <1>1, <1>2, <1>3, <1>4, <1>5, <1>6, <1>7, <1>8, <1>9, <1>10, <1>11 DEF Next

----------------------------------------------------------------------------
(* The results. *)

\* Whatever crosses, refuses, breaks or restarts, the exchange stays within its
\* invariant.
THEOREM ExchangeInvariant == Spec => []Inv
<1>1. Init => Inv
  BY InitInv
<1>2. Inv /\ [Next]_vars => Inv'
  BY NextInv
<1>3. QED
  BY <1>1, <1>2, PTL DEF Spec

\* The members keep their types, and a part is sent at most MaxAttempts times before
\* it is given up (iterateConfigExchange, setChannelConfigAttempts).
THEOREM ExchangeTypes == Spec => []TypeOK
<1>1. Inv => TypeOK
  BY DEF Inv, TypeInv, TypeOK, Members
<1>2. QED
  BY <1>1, ExchangeInvariant, PTL

\* Once an exchange is over, no part changed offline that is due is left that the server
\* did not get, and no stored flag that would overrule it later.  Not meant are the cases
\* that Due leaves out (the style that has its changes sent, and what follows a broken
\* exchange of the other) and a session that a change, a refusal or a part given up
\* disturbed before it ended.
THEOREM SettledForgotten == Spec => []SettledForgets
<1>1. Inv => SettledForgets
  <2> SUFFICES ASSUME Inv, AtRest, ~ spoiled
               PROVE  Due = {} /\ (~ channel.stored.flag \/ orphaned)
    BY DEF SettledForgets
  <2>1. /\ connected /\ enabled /\ toDevice = <<>> /\ channel.state \in States
        /\ channel.state \notin Busy
    BY DEF AtRest, Exchanging, Inv, TypeInv, Members, Busy
  <2>2. ~ Awaited(toDevice)
    BY <2>1 DEF Awaited
  <2>3. Due = {}
    BY <2>1, <2>2 DEF Inv, KeptInv
  <2>4. channel.state \in Quiet
    BY <2>1 DEF Inv, FlagInv, States, Busy, Quiet
  <2>5. QED
    BY <2>3, <2>4 DEF Inv, FlagInv, Honest
<1>2. QED
  BY <1>1, ExchangeInvariant, PTL

\* A part changed offline that is due keeps its value until the server has it: what the
\* server sends meanwhile is not applied, and a restart reads it back.
LEMMA StepKeepsChange ==
    ASSUME Inv, [Next]_vars, NEW t \in Due \cap Due'
    PROVE  channel'.config[t] = channel.config[t] \/ changes' # changes
<1>1. /\ t \in UsedConfigTypes /\ t \in owed' /\ changes \in Nat /\ channel \in Members
      /\ enabled
  BY DEF Inv, TypeInv, OwedInv, Due
<1>2. ASSUME NEW type \in UsedConfigTypes, NEW value \in Values, LocalChange(type, value)
      PROVE  changes' # changes
  BY <1>1, <1>2 DEF LocalChange
<1>3. CASE SendConfig
  <2>1. channel' = Sent(channel)
    BY <1>3 DEF SendConfig, Send
  <2>2. QED
    BY <1>1, <2>1 DEF Sent, Members
<1>4. CASE GiveUp
  <2>1. channel' = GivenUp(channel)
    BY <1>4 DEF GiveUp
  <2>2. QED
    BY <1>1, <2>1 DEF GivenUp, Members
<1>5. CASE NothingToSend
  <2>1. channel' = ClearChannelConfigChangedFlag(channel)
    BY <1>5 DEF NothingToSend
  <2>2. QED
    BY <1>1, <2>1, ClearFacts
<1>6. CASE Receive
  <2> DEFINE m == Head(toDevice)
  <2>1. /\ toDevice \in Seq(Messages) /\ toDevice # <<>> /\ m \in Messages
        /\ m.call = "config" => m \in Configs /\ channel' = HandleChannelConfig(channel, m)
        /\ m.call = "finished" => channel' = HandleChannelConfigFinished(channel)
        /\ m.call = "result" =>
               m \in Results /\ channel' = HandleSetChannelConfigResult(channel, m)
    BY <1>6, ReceiveFacts
  <2>2. m.call = "config" =>
           m.function = enabled /\ (enabled /\ m.type \in Due => Awaited(toDevice))
    BY <2>1, QueueTail DEF Inv, OwedInv
  <2> HIDE DEF m
  <2>3. m.call \in {"config", "finished", "result"}
    BY <2>1 DEF Messages, Configs, Finisheds, Results
  <2>4. CASE m.call = "config"
    <3> DEFINE d == HandleChannelConfig(channel, m)
    <3>1. /\ m.function =>
               /\ channel.state = "LocalChangePending" => d.config = channel.config
               /\ \A s \in UsedConfigTypes \ {m.type} : d.config[s] = channel.config[s]
          /\ ~ m.function => d.config = channel.config
      BY <1>1, <2>1, <2>4, ConfigFacts
    <3> HIDE DEF d
    <3>2. channel' = d
      BY <2>1, <2>4 DEF d
    <3>3. enabled /\ Awaited(toDevice) => channel.state = "LocalChangePending"
      BY DEF Inv, KeptInv
    <3>4. QED
      BY <1>1, <2>2, <2>4, <3>1, <3>2, <3>3
  <2>5. CASE m.call = "finished"
    BY <1>1, <2>1, <2>5, FinishedFacts
  <2>6. CASE m.call = "result"
    BY <1>1, <2>1, <2>6, ResultFacts
  <2>7. QED
    BY <2>3, <2>4, <2>5, <2>6
<1>7. CASE CommitConfig
  BY <1>7 DEF CommitConfig
<1>8. CASE Restart
  <2>1. channel' = LoadConfig(file) /\ file = channel.stored
    BY <1>1, <1>8 DEF Restart
  <2>2. QED
    BY <2>1 DEF Inv, StoredInv, Saved, LoadConfig
<1>9. CASE Register
  <2>1. channel' = OnRegistered(channel)
    BY <1>9 DEF Register
  <2>2. QED
    BY <1>1, <2>1 DEF OnRegistered, Members
<1>10. CASE Disconnect
  BY <1>10 DEF Disconnect
<1>11. ASSUME NEW success \in BOOLEAN, Answer(success)
       PROVE  channel' = channel
  BY <1>11 DEF Answer
<1>12. ASSUME NEW type \in UsedConfigTypes, NEW value \in CloudValues, ServerChange(type, value)
       PROVE  channel' = channel
  BY <1>12 DEF ServerChange
<1>13. CASE FunctionChange(Min(UsedConfigTypes))
  BY <1>13 DEF FunctionChange
<1>14. CASE UNCHANGED vars
  BY <1>14 DEF vars
<1>15. QED
  BY <1>2, <1>3, <1>4, <1>5, <1>6, <1>7, <1>8, <1>9, <1>10, <1>11, <1>12, <1>13, <1>14
     DEF Next, IterateConfigExchange

\* Until the server has got it, nothing replaces a part that was changed offline in the
\* style that marks its changes, whatever the server sends and however often power fails.
\* Not meant: the other style, and what follows once the connection broke after
\* ChannelConfigFinished and before every part was confirmed, or a part was refused or
\* given up (OfflineChangeWins, without these exceptions, is false).
THEOREM OfflineChangesKept == Spec => OfflineChangeKept
<1>1. Inv /\ [Next]_vars =>
          KeptFrom(Due \cap Due')
  BY StepKeepsChange DEF KeptFrom
<1>2. QED
  BY <1>1, ExchangeInvariant, PTL DEF Spec, OfflineChangeKept

-----------------------------------------------------------------------------
(* Both sides agree in the end.  Agreement is only reached when an exchange is *)
(* over; what holds all along, in a session that nothing disturbed, is that    *)
(* every message tells what its receiver is to hold in the end: the parts the  *)
(* server sends are those it keeps, the parts the device sends are those it    *)
(* holds, and an answer, or a mark in receivedConfigTypes, stands for a part   *)
(* both have (unless it is one of those set apart: changed in this session at  *)
(* rest in the style that marks its changes, which does not send them).        *)

\* ChannelConfigFinished comes behind message i of q.
Followed(q, i) == \E j \in i + 1 .. Len(q) : q[j].call = "finished"

\* Part t is on its way.
Told(q, t) == \E i \in 1 .. Len(q) : q[i].call = "config" /\ q[i].type = t

\* Parts on their way to the device: the server's own, as they were at the registration
\* or of a change made while the device was at rest.
PartsAgree(q, kept, state) ==
    \A i \in 1 .. Len(q) : q[i].call = "config" =>
        /\ q[i].function /\ q[i].value = kept[q[i].type]
        /\ \/ Followed(q, i)
           \/ ~ Awaited(q) /\ Len(q) = 1 /\ state \in Quiet /\ q[i].value \in Values \cup Incomplete

AnswersAgree(q, config, kept, apart) ==
    \A i \in 1 .. Len(q) : q[i].call = "result" =>
        config[q[i].type] = kept[q[i].type] \/ q[i].type \in apart

SentAgree(r, config) == \A i \in 1 .. Len(r) : r[i].value = config[r[i].type]

ReceivedAgree(c, q, kept, apart) ==
    \A t \in c.received \ apart : c.config[t] = kept[t] \/ (~ Awaited(q) /\ Told(q, t))

NoParts(q) == \A i \in 1 .. Len(q) : q[i].call # "config"

OneWay(q, r) == r = <<>> \/ NoParts(q)

RestsWithAll(c) == c.finished /\ c.state \in Quiet => c.received = UsedConfigTypes

Agrees(c, q, r, kept, apart) ==
    /\ PartsAgree(q, kept, c.state)
    /\ AnswersAgree(q, c.config, kept, apart)
    /\ SentAgree(r, c.config)
    /\ ReceivedAgree(c, q, kept, apart)
    /\ OneWay(q, r)
    /\ RestsWithAll(c)

Undisturbed == connected /\ enabled /\ ~ spoiled

AgreeInv == Undisturbed => Agrees(channel, toDevice, toServer, server, unsent)

----------------------------------------------------------------------------
(* The methods, where they are called in an undisturbed session. *)

\* At rest every part has been received, and none is on its way.
LEMMA RestAgrees ==
    ASSUME Inv, AgreeInv, AtRest, ~ spoiled
    PROVE  /\ channel.state \in Quiet /\ channel.received = UsedConfigTypes
           /\ \A t \in UsedConfigTypes \ unsent : channel.config[t] = server[t]
           /\ toDevice = <<>> /\ toServer = <<>> /\ Undisturbed
<1>1. /\ connected /\ enabled /\ toDevice = <<>> /\ toServer = <<>> /\ channel.finished
      /\ channel.state \in States \ Busy
  BY DEF AtRest, Exchanging, Inv, TypeInv, Members, Busy
<1>2. channel.state \in Quiet
  BY <1>1 DEF Inv, FlagInv, States, Busy, Quiet
<1>3. Agrees(channel, toDevice, toServer, server, unsent)
  BY <1>1 DEF AgreeInv, Undisturbed
<1>4. channel.received = UsedConfigTypes
  BY <1>1, <1>2, <1>3 DEF Agrees, RestsWithAll
<1>5. \A t \in UsedConfigTypes \ unsent : channel.config[t] = server[t]
  BY <1>1, <1>3, <1>4 DEF Agrees, ReceivedAgree, Told
<1>6. QED
  BY <1>1, <1>2, <1>4, <1>5 DEF Undisturbed

\* A device that is sending has no part coming from the server.
LEMMA BusyAlone ==
    ASSUME NEW q, NEW kept, NEW state, PartsAgree(q, kept, state), ~ Awaited(q),
           state \notin Quiet, Len(q) \in Nat
    PROVE  NoParts(q)
<1> SUFFICES ASSUME NEW i \in 1 .. Len(q), q[i].call = "config" PROVE FALSE
  BY DEF NoParts
<1>1. Followed(q, i)
  BY DEF PartsAgree
<1>2. PICK j \in i + 1 .. Len(q) : q[j].call = "finished"
  BY <1>1 DEF Followed
<1>3. j \in 1 .. Len(q)
  BY <1>2
<1>4. QED
  BY <1>2, <1>3 DEF Awaited

\* A setter of a channel that has the changed part sent.
LEMMA ChangeSends ==
    ASSUME NEW c \in Members, NEW type \in UsedConfigTypes, NEW value \in Values,
           style = "trigger", c.state # "SetChannelConfigFailed"
    PROVE  LET d == ChangeConfig(c, type, value)
           IN  /\ d.state = "ResendConfig" /\ d.received = c.received \ {type}
               /\ \A t \in UsedConfigTypes \ {type} : d.config[t] = c.config[t]
<1> DEFINE s == [c EXCEPT !.config[type] = value]
           u == TriggerSetChannelConfig(s, type)
<1>1. s \in Members /\ s.received = c.received /\ s.state = c.state
      /\ \A t \in UsedConfigTypes \ {type} : s.config[t] = c.config[t]
  BY SetFacts
<1>2. ChangeConfig(c, type, value) = SaveConfig(u)
  BY Zenon DEF ChangeConfig
<1> HIDE DEF s
<1>3. u \in Members /\ u.received = s.received \ {type} /\ u.state = "ResendConfig"
      /\ u.config = s.config
  BY <1>1 DEF TriggerSetChannelConfig, Members, States
<1> HIDE DEF u
<1>4. QED
  BY <1>1, <1>2, <1>3, SaveFacts

\* A setter of a channel that marks its changes.
LEMMA ChangeMarks ==
    ASSUME NEW c \in Members, NEW type \in UsedConfigTypes, NEW value \in Values,
           style # "trigger"
    PROVE  LET d == ChangeConfig(c, type, value)
           IN  /\ d.state = "LocalChangePending" /\ d.received = c.received
               /\ \A t \in UsedConfigTypes \ {type} : d.config[t] = c.config[t]
<1> DEFINE s == [c EXCEPT !.config[type] = value]
           v == [s EXCEPT !.state = "LocalChangePending"]
           w == SaveConfig(v)
<1>1. s \in Members /\ s.received = c.received
      /\ \A t \in UsedConfigTypes \ {type} : s.config[t] = c.config[t]
  BY SetFacts
<1>2. ChangeConfig(c, type, value) = SaveConfigChangeFlag(w)
  BY Zenon DEF ChangeConfig
<1> HIDE DEF s
<1>3. v \in Members /\ v.received = s.received /\ v.state = "LocalChangePending"
      /\ v.config = s.config
  BY <1>1 DEF Members, States
<1> HIDE DEF v
<1>4. w \in Members /\ w.received = v.received /\ w.state = v.state /\ w.config = v.config
  BY <1>3, SaveFacts
<1> HIDE DEF w
<1>5. LET d == SaveConfigChangeFlag(w)
      IN  d.received = w.received /\ d.state = w.state /\ d.config = w.config
  BY <1>4 DEF SaveConfigChangeFlag, Members
<1>6. QED
  BY <1>1, <1>2, <1>3, <1>4, <1>5

\* handleChannelConfig, from the server to a channel that keeps its function: the part
\* is held and marked, or completed and to be sent back, or neither marked nor changed.
LEMMA ConfigAgrees ==
    ASSUME NEW c \in Members, NEW m \in Configs, m.function,
           c.state # "SetChannelConfigFailed"
    PROVE  LET d == HandleChannelConfig(c, m)
           IN  /\ m.value \in Values /\ c.state # "LocalChangePending" =>
                     /\ d.config[m.type] = m.value /\ d.received = c.received \cup {m.type}
                     /\ d.state = c.state
               /\ m.value \in Incomplete /\ c.state # "LocalChangePending" =>
                     d.received = c.received \ {m.type} /\ d.state = "ResendConfig"
               /\ m.value \in {Empty, Bad} \/ c.state = "LocalChangePending" =>
                     d.received \subseteq c.received /\ d.config = c.config
<1> DEFINE f == SetAndSaveFunction(c, m.function)
<1>1. f \in Members /\ f.received = c.received /\ f.state = c.state /\ f.config = c.config
  BY DEF SetAndSaveFunction, Members, Stored, Configs
<1>2. HandleChannelConfig(c, m) = IF c.state = "LocalChangePending" THEN f
                                  ELSE ApplyChannelConfig(f, m)
  BY Zenon DEF HandleChannelConfig
<1> HIDE DEF f
<1>3. m.type \in UsedConfigTypes
  BY DEF Configs
<1>4. CASE c.state = "LocalChangePending"
  BY <1>1, <1>2, <1>4
<1>5. CASE c.state # "LocalChangePending" /\ m.value = Empty
  <2>1. ApplyChannelConfig(f, m) = TriggerSetChannelConfig(f, m.type)
    BY <1>5, ConfigAssumption DEF ApplyChannelConfig
  <2>2. m.value \notin Values /\ m.value \notin Incomplete
    BY <1>5, ConfigAssumption
  <2>3. QED
    BY <1>1, <1>2, <1>3, <1>5, <2>1, <2>2, TriggerFacts
<1>6. CASE c.state # "LocalChangePending" /\ m.value = Bad
  <2>1. ApplyChannelConfig(f, m) = f
    BY <1>6, ConfigAssumption DEF ApplyChannelConfig
  <2>2. m.value \notin Values /\ m.value \notin Incomplete
    BY <1>6, ConfigAssumption
  <2>3. QED
    BY <1>1, <1>2, <1>6, <2>1, <2>2
<1>7. CASE c.state # "LocalChangePending" /\ m.value \in Incomplete
  <2>1. /\ ApplyChannelConfig(f, m).state = "ResendConfig"
        /\ ApplyChannelConfig(f, m).received = f.received \ {m.type}
    BY <1>1, <1>7, IncompleteFacts
  <2>2. m.value \notin Values /\ m.value # Empty /\ m.value # Bad
    BY <1>7, ConfigAssumption
  <2>3. QED
    BY <1>1, <1>2, <1>7, <2>1, <2>2
<1>8. CASE c.state # "LocalChangePending" /\ m.value \in Values
  <2> DEFINE a == Applied(f, m.type, m.value)
             d == [a EXCEPT !.received = @ \cup {m.type}]
  <2>1. m.value \notin Incomplete /\ m.value # Empty /\ m.value # Bad
    BY <1>8, ConfigAssumption
  <2>2. ApplyChannelConfig(f, m) = d
    BY <2>1, Zenon DEF ApplyChannelConfig
  <2>3. a \in Members /\ a.received = f.received /\ a.state = f.state
        /\ a.config[m.type] = m.value
    BY <1>1, <1>3, <1>8, AppliedFacts
  <2> HIDE DEF a
  <2>4. d.received = a.received \cup {m.type} /\ d.state = a.state /\ d.config = a.config
    BY <2>3 DEF Members
  <2> HIDE DEF d
  <2>5. QED
    BY <1>1, <1>2, <1>8, <2>1, <2>2, <2>3, <2>4
<1>9. QED
  BY <1>4, <1>5, <1>6, <1>7, <1>8 DEF Configs, ServerContents

\* handleChannelConfigFinished: the channel rests only if it has everything.
LEMMA FinishedRests ==
    ASSUME NEW c \in Members
    PROVE  RestsWithAll(HandleChannelConfigFinished(c))
BY DEF HandleChannelConfigFinished, RestsWithAll, Members, Quiet

\* handleSetChannelConfigResult of an accepted part: it is marked, a channel at rest
\* stays so, and one that comes to rest has everything.
LEMMA ResultRests ==
    ASSUME NEW c \in Members, NEW m \in Results, m.success
    PROVE  LET d == HandleSetChannelConfigResult(c, m)
           IN  /\ d.received = c.received \cup {m.type} /\ d.config = c.config
               /\ c.state \in Quiet => d.state = c.state
               /\ d.state \in Quiet /\ c.state \notin Quiet => d.received = UsedConfigTypes
<1> DEFINE got == [c EXCEPT !.received = @ \cup {m.type}]
           k == IF got.state = "SetChannelConfigSend" THEN "ResendConfig"
                ELSE "LocalChangePending"
           more == [got EXCEPT !.attempts = 0, !.state = k]
<1>1. HandleSetChannelConfigResult(c, m) =
          IF c.state \notin {"SetChannelConfigSend", "LocalChangeSent"} THEN got
          ELSE IF got.received # UsedConfigTypes THEN more
          ELSE ClearChannelConfigChangedFlag(got)
  BY Zenon DEF HandleSetChannelConfigResult
<1>2. got \in Members /\ got.received = c.received \cup {m.type} /\ got.config = c.config
      /\ got.state = c.state
  BY DEF Members, Results
<1>3. k \in {"ResendConfig", "LocalChangePending"}
  OBVIOUS
<1> HIDE DEF got, k
<1>4. more.received = got.received /\ more.config = got.config /\ more.state = k
  BY <1>2 DEF Members
<1> HIDE DEF more
<1> DEFINE clear == ClearChannelConfigChangedFlag(got)
<1>5. clear.received = got.received /\ clear.config = got.config
  BY <1>2, ClearFacts
<1>6. HandleSetChannelConfigResult(c, m) =
          IF c.state \notin {"SetChannelConfigSend", "LocalChangeSent"} THEN got
          ELSE IF got.received # UsedConfigTypes THEN more ELSE clear
  BY <1>1
<1> HIDE DEF clear
<1>7. QED
  BY <1>2, <1>3, <1>4, <1>5, <1>6 DEF Quiet

----------------------------------------------------------------------------
(* The steps. *)

\* At the start there is no connection.
LEMMA InitAgrees == ASSUME Init PROVE AgreeInv
BY DEF Init, AgreeInv, Undisturbed

\* A setter of the channel: at rest it has the part sent or sets it apart, otherwise it
\* disturbs.
LEMMA LocalChangeAgrees ==
    ASSUME Inv, AgreeInv, NEW type \in UsedConfigTypes, NEW value \in Values,
           LocalChange(type, value)
    PROVE  AgreeInv'
<1> SUFFICES ASSUME Undisturbed'
             PROVE  Agrees(channel', toDevice', toServer', server', unsent')
  BY DEF AgreeInv
<1> DEFINE d == ChangeConfig(channel, type, value)
<1>1. /\ channel' = d
      /\ spoiled' = (spoiled \/ (connected /\ ~ AtRest))
      /\ unsent' = IF style = "pending" /\ AtRest THEN unsent \cup {type} ELSE unsent
      /\ UNCHANGED <<connected, toDevice, toServer, server, enabled>>
  BY Zenon DEF LocalChange, link
<1>2. ~ spoiled /\ AtRest
  BY <1>1, Zenon DEF Undisturbed
<1>3. style \in {"trigger", "pending"} /\ channel \in Members
  BY ConfigAssumption DEF Inv, TypeInv
<1>4. /\ channel.state \in Quiet /\ channel.received = UsedConfigTypes
      /\ \A t \in UsedConfigTypes \ unsent : channel.config[t] = server[t]
      /\ toDevice = <<>> /\ toServer = <<>>
  BY <1>2, RestAgrees
<1>5. /\ d.state \notin Quiet
      /\ d.received \subseteq UsedConfigTypes
      /\ type \in d.received => style = "pending"
      /\ \A t \in UsedConfigTypes \ {type} : d.config[t] = channel.config[t]
  <2>1. CASE style = "trigger"
    BY <1>3, <1>4, <2>1, ChangeSends DEF Quiet
  <2>2. CASE style = "pending"
    BY <1>3, <1>4, <2>2, ChangeMarks DEF Quiet
  <2>3. QED
    BY <1>3, <2>1, <2>2
<1> HIDE DEF d
<1>6. ReceivedAgree(d, toDevice, server, unsent')
  BY <1>1, <1>2, <1>4, <1>5 DEF ReceivedAgree
<1>7. QED
  BY <1>1, <1>4, <1>5, <1>6
     DEF Agrees, PartsAgree, AnswersAgree, SentAgree, OneWay, RestsWithAll

\* A part is sent as it is held.
LEMMA SendAgrees ==
    ASSUME Inv, AgreeInv, SendConfig
    PROVE  AgreeInv'
<1> SUFFICES ASSUME Undisturbed'
             PROVE  Agrees(channel', toDevice', toServer', server', unsent')
  BY DEF AgreeInv
<1> DEFINE type == GetNextConfigType(channel)
           k == IF channel.state = "LocalChangePending" THEN "LocalChangeSent"
                ELSE "SetChannelConfigSend"
           n == channel.attempts + 1
           d == [channel EXCEPT !.attempts = n, !.state = k]
           m == [type |-> type, value |-> channel.config[type]]
<1>1. /\ connected /\ channel.finished /\ channel.state \in {"LocalChangePending", "ResendConfig"}
      /\ toServer' = Append(toServer, m)
      /\ UNCHANGED <<connected, toDevice, server, enabled, spoiled, unsent>>
  BY Zenon DEF SendConfig, Send, Sending, history
<1>2. channel' = d
  BY Zenon DEF SendConfig, Send, Sent
<1>3. channel \in Members /\ toDevice \in Seq(Messages) /\ Len(toDevice) \in Nat
      /\ Len(toServer) \in Nat
  BY DEF Inv, TypeInv
<1>4. m.value = channel.config[m.type]
  OBVIOUS
<1>5. k \notin Quiet
  BY DEF Quiet
<1> HIDE DEF type, k, n, m
<1>6. d.state = k /\ d.received = channel.received /\ d.config = channel.config
  BY <1>3 DEF Members
<1> HIDE DEF d
<1>7. Agrees(channel, toDevice, toServer, server, unsent) /\ ~ Awaited(toDevice)
  BY <1>1 DEF AgreeInv, Undisturbed, Inv, FinishInv
<1>8. NoParts(toDevice)
  BY <1>1, <1>3, <1>7, BusyAlone DEF Agrees, Quiet
<1>9. PartsAgree(toDevice, server, d.state)
  BY <1>8 DEF NoParts, PartsAgree
<1>10. SentAgree(toServer', d.config)
  <2>1. toServer \in Seq([type : UsedConfigTypes, value : Values])
    BY DEF Inv, TypeInv
  <2>2. /\ Len(toServer') = Len(toServer) + 1 /\ toServer'[Len(toServer) + 1] = m
        /\ \A i \in 1 .. Len(toServer) : toServer'[i] = toServer[i]
    BY <1>1, <2>1
  <2>3. QED
    BY <1>3, <1>4, <1>6, <1>7, <2>2 DEF Agrees, SentAgree
<1>11. QED
  BY <1>1, <1>2, <1>5, <1>6, <1>7, <1>8, <1>9, <1>10
     DEF Agrees, AnswersAgree, ReceivedAgree, OneWay, RestsWithAll

\* Nothing is left to send: the channel comes to rest with everything.
LEMMA NothingToSendAgrees ==
    ASSUME Inv, AgreeInv, NothingToSend
    PROVE  AgreeInv'
<1> SUFFICES ASSUME Undisturbed'
             PROVE  Agrees(channel', toDevice', toServer', server', unsent')
  BY DEF AgreeInv
<1> DEFINE d == ClearChannelConfigChangedFlag(channel)
<1>1. /\ connected /\ channel.finished /\ channel.state \in {"LocalChangePending", "ResendConfig"}
      /\ NotReceived(channel) = {}
      /\ channel' = d
      /\ UNCHANGED <<connected, toDevice, toServer, server, enabled, spoiled, unsent>>
  BY Zenon DEF NothingToSend, Sending, link, history
<1>2. channel \in Members /\ Len(toDevice) \in Nat
  BY DEF Inv, TypeInv
<1>3. d.received = channel.received /\ d.config = channel.config
  BY <1>2, ClearFacts
<1> HIDE DEF d
<1>4. channel.received = UsedConfigTypes
  BY <1>1, <1>2 DEF NotReceived, Members
<1>5. Agrees(channel, toDevice, toServer, server, unsent) /\ ~ Awaited(toDevice)
  BY <1>1 DEF AgreeInv, Undisturbed, Inv, FinishInv
<1>6. NoParts(toDevice)
  BY <1>1, <1>2, <1>5, BusyAlone DEF Agrees, Quiet
<1>7. PartsAgree(toDevice, server, d.state)
  BY <1>6 DEF NoParts, PartsAgree
<1>8. QED
  BY <1>1, <1>3, <1>4, <1>5, <1>6, <1>7
     DEF Agrees, AnswersAgree, SentAgree, ReceivedAgree, OneWay, RestsWithAll

\* The server sends its own parts, and nothing counts as received yet.
LEMMA RegisterAgrees ==
    ASSUME Inv, Register
    PROVE  AgreeInv'
<1> SUFFICES ASSUME Undisturbed'
             PROVE  Agrees(channel', toDevice', toServer', server', unsent')
  BY DEF AgreeInv
<1>1. /\ ~ connected /\ channel' = OnRegistered(channel)
      /\ UNCHANGED <<toServer, server, enabled>>
  BY DEF Register
<1>2. channel \in Members /\ toServer = <<>>
  BY <1>1 DEF Inv, TypeInv
<1>3. channel'.received = {} /\ ~ channel'.finished
  BY <1>1, <1>2 DEF OnRegistered, Members
<1>4. /\ Finishes(toDevice')
      /\ \A i \in 1 .. Len(toDevice') :
             toDevice'[i].call = "config" =>
                 /\ toDevice'[i].function = enabled
                 /\ toDevice'[i].value = server[toDevice'[i].type]
                 /\ \E j \in i + 1 .. Len(toDevice') : toDevice'[j].call = "finished"
  BY RegisterQueue
<1>5. enabled
  BY <1>1 DEF Undisturbed
<1>6. PartsAgree(toDevice', server', channel'.state)
  BY <1>1, <1>4, <1>5 DEF PartsAgree, Followed
<1>7. AnswersAgree(toDevice', channel'.config, server', unsent')
  BY <1>4 DEF AnswersAgree, Finishes
<1>8. SentAgree(toServer', channel'.config) /\ OneWay(toDevice', toServer')
  BY <1>1, <1>2 DEF SentAgree, OneWay
<1>9. QED
  BY <1>3, <1>6, <1>7, <1>8 DEF Agrees, ReceivedAgree, RestsWithAll

\* The server takes the part as it was sent; a refusal disturbs.
LEMMA AnswerAgrees ==
    ASSUME Inv, AgreeInv, NEW success \in BOOLEAN, Answer(success)
    PROVE  AgreeInv'
<1> SUFFICES ASSUME Undisturbed'
             PROVE  Agrees(channel', toDevice', toServer', server', unsent')
  BY DEF AgreeInv
<1> DEFINE m == Head(toServer)
           a == [call |-> "result", type |-> m.type, success |-> success]
           Parcels == [type : UsedConfigTypes, value : Values]
<1>1. /\ connected /\ toServer # <<>>
      /\ server' = IF success THEN [server EXCEPT ![m.type] = m.value] ELSE server
      /\ toDevice' = Append(toDevice, a) /\ toServer' = Tail(toServer)
      /\ IF success THEN UNCHANGED spoiled ELSE spoiled' = TRUE
      /\ UNCHANGED <<channel, connected, enabled, unsent>>
  BY DEF Answer
<1>2. success /\ ~ spoiled /\ enabled
  BY <1>1 DEF Undisturbed
<1>3. Agrees(channel, toDevice, toServer, server, unsent)
  BY <1>1, <1>2 DEF AgreeInv, Undisturbed
<1>4. NoParts(toDevice)
  BY <1>1, <1>3 DEF Agrees, OneWay
<1>5. toServer \in Seq(Parcels) /\ toDevice \in Seq(Messages) /\ channel \in Members
      /\ server \in [UsedConfigTypes -> ServerContents]
  BY DEF Inv, TypeInv
<1>6. /\ m = toServer[1] /\ m \in Parcels /\ Len(toServer) \in Nat /\ Len(toServer) > 0
      /\ Len(toServer') = Len(toServer) - 1
      /\ \A i \in 1 .. Len(toServer) - 1 : toServer'[i] = toServer[i + 1]
  <2> HIDE DEF Parcels
  <2> QED BY <1>1, <1>5
<1>7. m.type \in UsedConfigTypes /\ m.value = channel.config[m.type]
  BY <1>3, <1>6 DEF Agrees, SentAgree
<1>8. /\ server'[m.type] = channel.config[m.type]
      /\ \A t \in UsedConfigTypes \ {m.type} : server'[t] = server[t]
  BY <1>1, <1>2, <1>5, <1>7
<1>9. a \in Messages /\ a.call = "result" /\ a.type = m.type
  BY <1>6 DEF Messages, Results
<1> HIDE DEF m, a, Parcels
<1>10. /\ Len(toDevice) \in Nat /\ Len(toDevice') = Len(toDevice) + 1
       /\ toDevice'[Len(toDevice) + 1] = a
       /\ \A i \in 1 .. Len(toDevice) : toDevice'[i] = toDevice[i] /\ toDevice[i] \in Messages
  BY <1>1, <1>5, <1>9, AppendItems DEF Messages
<1>11. NoParts(toDevice')
  BY <1>4, <1>9, <1>10 DEF NoParts
<1>12. AnswersAgree(toDevice', channel.config, server', unsent)
  <2> SUFFICES ASSUME NEW i \in 1 .. Len(toDevice'), toDevice'[i].call = "result",
                      toDevice'[i].type \notin unsent
               PROVE  channel.config[toDevice'[i].type] = server'[toDevice'[i].type]
    BY DEF AnswersAgree
  <2>1. CASE i \in 1 .. Len(toDevice)
    <3>1. toDevice[i].type \in UsedConfigTypes
      BY <1>10, <2>1 DEF Messages, Configs, Finisheds, Results
    <3>2. channel.config[toDevice[i].type] = server[toDevice[i].type]
      BY <1>3, <1>10, <2>1 DEF Agrees, AnswersAgree
    <3>3. QED
      BY <1>8, <1>10, <2>1, <3>1, <3>2
  <2>2. CASE i = Len(toDevice) + 1
    BY <1>8, <1>9, <1>10, <2>2
  <2>3. QED
    BY <1>10, <2>1, <2>2
<1>13. SentAgree(toServer', channel.config)
  BY <1>3, <1>6 DEF Agrees, SentAgree
<1>14. ReceivedAgree(channel, toDevice', server', unsent)
  <2> SUFFICES ASSUME NEW t \in channel.received \ unsent PROVE channel.config[t] = server'[t]
    BY DEF ReceivedAgree
  <2>1. channel.config[t] = server[t] /\ t \in UsedConfigTypes
    BY <1>3, <1>4, <1>5 DEF Agrees, ReceivedAgree, Told, NoParts, Members
  <2>2. QED
    BY <1>8, <2>1
<1>15. QED
  BY <1>1, <1>3, <1>11, <1>12, <1>13, <1>14
     DEF Agrees, PartsAgree, NoParts, OneWay, RestsWithAll

\* A change in the cloud: at rest it is told to the device, otherwise it disturbs.
LEMMA ServerChangeAgrees ==
    ASSUME Inv, AgreeInv, NEW type \in UsedConfigTypes, NEW value \in CloudValues,
           ServerChange(type, value)
    PROVE  AgreeInv'
<1> SUFFICES ASSUME Undisturbed'
             PROVE  Agrees(channel', toDevice', toServer', server', unsent')
  BY DEF AgreeInv
<1> DEFINE m == ConfigMessage(type, value, enabled)
<1>1. /\ enabled
      /\ server' = [server EXCEPT ![type] = value]
      /\ toDevice' = IF connected THEN Append(toDevice, m) ELSE toDevice
      /\ spoiled' = (spoiled \/ (connected /\ ~ AtRest))
      /\ unsent' = unsent \ {type}
      /\ UNCHANGED <<channel, connected, toServer, enabled>>
  BY Zenon DEF ServerChange, Tell
<1>2. connected /\ ~ spoiled /\ AtRest
  BY <1>1, Zenon DEF Undisturbed
<1>3. /\ channel.state \in Quiet /\ channel.received = UsedConfigTypes
      /\ \A t \in UsedConfigTypes \ unsent : channel.config[t] = server[t]
      /\ toDevice = <<>> /\ toServer = <<>>
  BY <1>2, RestAgrees
<1>4. /\ server'[type] = value /\ value \in Values \cup Incomplete
      /\ \A t \in UsedConfigTypes \ {type} : server'[t] = server[t]
  BY <1>1, ConfigAssumption DEF Inv, TypeInv
<1>5. m.call = "config" /\ m.function /\ m.type = type /\ m.value = value
  BY <1>1 DEF ConfigMessage
<1> HIDE DEF m
<1>6. Len(toDevice') = 1 /\ toDevice'[1] = m
  BY <1>1, <1>2, <1>3
<1>7. \A i \in 1 .. Len(toDevice') : toDevice'[i] = m
  BY <1>6
<1>8. ~ Awaited(toDevice') /\ Told(toDevice', type)
  BY <1>5, <1>6, <1>7 DEF Awaited, Told
<1>9. PartsAgree(toDevice', server', channel.state)
  BY <1>3, <1>4, <1>5, <1>6, <1>7, <1>8 DEF PartsAgree
<1>10. AnswersAgree(toDevice', channel.config, server', unsent')
  BY <1>5, <1>7 DEF AnswersAgree
<1>11. ReceivedAgree(channel, toDevice', server', unsent')
  BY <1>1, <1>3, <1>4, <1>8 DEF ReceivedAgree
<1>12. QED
  BY <1>1, <1>3, <1>9, <1>10, <1>11 DEF Agrees, SentAgree, OneWay, RestsWithAll

\* The function is taken away or given back: that disturbs, or ends the exchange.
LEMMA FunctionChangeAgrees ==
    ASSUME NEW type \in UsedConfigTypes, FunctionChange(type)
    PROVE  AgreeInv'
<1>1. /\ enabled' = ~ enabled
      /\ spoiled' = (spoiled \/ (connected /\ ~ AtRest))
      /\ UNCHANGED connected
  BY Zenon DEF FunctionChange, Tell
<1>2. AtRest => enabled
  BY Zenon DEF AtRest
<1>3. ~ Undisturbed'
  BY <1>1, <1>2, Zenon DEF Undisturbed
<1>4. QED
  BY <1>3 DEF AgreeInv

----------------------------------------------------------------------------
(* What arrives. *)

\* A message leaves: those behind it keep what follows them.
LEMMA TailAgrees ==
    ASSUME NEW q \in Seq(Messages), q # <<>>, NEW config, NEW kept, NEW state, NEW apart,
           PartsAgree(q, kept, state), AnswersAgree(q, config, kept, apart)
    PROVE  /\ AnswersAgree(Tail(q), config, kept, apart)
           /\ NoParts(q) => NoParts(Tail(q))
           /\ \A i \in 1 .. Len(Tail(q)) : Tail(q)[i].call = "config" =>
                 /\ Tail(q)[i].function /\ Tail(q)[i].value = kept[Tail(q)[i].type]
                 /\ Followed(Tail(q), i)
           /\ \A t : Told(q, t) /\ ~ (Head(q).call = "config" /\ Head(q).type = t)
                        => Told(Tail(q), t)
<1>1. /\ Len(q) \in Nat /\ Len(q) > 0 /\ Len(Tail(q)) = Len(q) - 1 /\ Head(q) = q[1]
      /\ \A i \in 1 .. Len(q) - 1 : Tail(q)[i] = q[i + 1]
  BY TailItems
<1>2. AnswersAgree(Tail(q), config, kept, apart) /\ (NoParts(q) => NoParts(Tail(q)))
  BY <1>1 DEF AnswersAgree, NoParts
<1>3. ASSUME NEW i \in 1 .. Len(Tail(q)), Tail(q)[i].call = "config"
      PROVE  /\ Tail(q)[i].function /\ Tail(q)[i].value = kept[Tail(q)[i].type]
             /\ Followed(Tail(q), i)
  <2>1. i + 1 \in 1 .. Len(q) /\ Tail(q)[i] = q[i + 1] /\ Len(q) # 1
    BY <1>1
  <2>2. Followed(q, i + 1) /\ q[i + 1].function /\ q[i + 1].value = kept[q[i + 1].type]
    BY <1>3, <2>1 DEF PartsAgree
  <2>3. PICK j \in i + 1 + 1 .. Len(q) : q[j].call = "finished"
    BY <2>2 DEF Followed
  <2>4. j - 1 \in i + 1 .. Len(Tail(q)) /\ Tail(q)[j - 1] = q[j]
    BY <1>1, <2>3
  <2>5. QED
    BY <2>1, <2>2, <2>3, <2>4 DEF Followed
<1>4. ASSUME NEW t, Told(q, t), ~ (Head(q).call = "config" /\ Head(q).type = t)
      PROVE  Told(Tail(q), t)
  <2>1. PICK i \in 1 .. Len(q) : q[i].call = "config" /\ q[i].type = t
    BY <1>4 DEF Told
  <2>2. i # 1
    BY <1>1, <1>4, <2>1
  <2>3. i - 1 \in 1 .. Len(Tail(q)) /\ Tail(q)[i - 1] = q[i]
    BY <1>1, <2>2
  <2>4. QED
    BY <2>1, <2>3 DEF Told
<1>5. QED
  BY <1>2, <1>3, <1>4

\* A part arrives: before ChannelConfigFinished it may be ignored, at rest it is applied.
LEMMA ReceiveConfigAgrees ==
    ASSUME Inv, AgreeInv, Receive, Head(toDevice).call = "config"
    PROVE  AgreeInv'
<1> SUFFICES ASSUME Undisturbed'
             PROVE  Agrees(channel', toDevice', toServer', server', unsent')
  BY DEF AgreeInv
<1> DEFINE q == toDevice
           m == Head(q)
           d == HandleChannelConfig(channel, m)
<1>1. /\ channel \in Members /\ connected /\ q \in Seq(Messages) /\ q # <<>>
      /\ m = q[1] /\ m.call = "config" /\ m \in Configs
      /\ toDevice' = Tail(q) /\ channel' = d
      /\ UNCHANGED <<connected, toServer, server, enabled, spoiled, unsent>>
  BY ReceiveFacts
<1>2. Agrees(channel, q, toServer, server, unsent) /\ channel.state # "SetChannelConfigFailed"
  BY <1>1 DEF AgreeInv, Undisturbed, Inv, FlagInv
<1>3. /\ Len(q) \in Nat /\ 1 \in 1 .. Len(q) /\ m.type \in UsedConfigTypes
      /\ Len(Tail(q)) = Len(q) - 1 /\ \A i \in 1 .. Len(q) - 1 : Tail(q)[i] = q[i + 1]
  BY <1>1, TailItems DEF Configs
<1>4. /\ m.function /\ m.value = server[m.type]
      /\ \/ Followed(q, 1)
         \/ Len(q) = 1 /\ channel.state \in Quiet /\ m.value \in Values \cup Incomplete
  BY <1>1, <1>2, <1>3 DEF Agrees, PartsAgree
<1>5. Followed(q, 1) => Awaited(q)
  BY <1>3 DEF Followed, Awaited
<1>6. toServer = <<>>
  BY <1>1, <1>2, <1>3 DEF Agrees, OneWay, NoParts
<1> DEFINE applied == m.value \in Values /\ channel.state # "LocalChangePending"
           completed == m.value \in Incomplete /\ channel.state # "LocalChangePending"
<1>7. /\ d.finished = channel.finished
      /\ \A t \in UsedConfigTypes \ {m.type} : d.config[t] = channel.config[t]
      /\ applied => /\ d.config[m.type] = m.value /\ d.received = channel.received \cup {m.type}
                    /\ d.state = channel.state
      /\ completed => d.received = channel.received \ {m.type} /\ d.state = "ResendConfig"
      /\ ~ applied /\ ~ completed => d.received \subseteq channel.received /\ d.config = channel.config
  <2>1. m.value \in Values \cup Incomplete \cup {Empty, Bad}
    BY <1>1 DEF Configs, ServerContents
  <2>2. /\ applied => /\ d.config[m.type] = m.value
                      /\ d.received = channel.received \cup {m.type}
                      /\ d.state = channel.state
        /\ completed => d.received = channel.received \ {m.type} /\ d.state = "ResendConfig"
        /\ ~ applied /\ ~ completed =>
               d.received \subseteq channel.received /\ d.config = channel.config
    BY <1>1, <1>2, <1>4, <2>1, ConfigAgrees
  <2>3. /\ d.finished = channel.finished
        /\ \A t \in UsedConfigTypes \ {m.type} : d.config[t] = channel.config[t]
    BY <1>1, <1>4, ConfigFacts
  <2>4. QED
    BY <2>2, <2>3
<1>8. ~ Awaited(q) => (applied \/ completed) /\ channel.state \in Quiet
  BY <1>4, <1>5 DEF Quiet
<1>9. Awaited(q) <=> Awaited(Tail(q))
  BY <1>1, FinishTail
<1>10. /\ \A i \in 1 .. Len(Tail(q)) : Tail(q)[i].call = "config" =>
             /\ Tail(q)[i].function /\ Tail(q)[i].value = server[Tail(q)[i].type]
             /\ Followed(Tail(q), i)
       /\ \A t : Told(q, t) /\ m.type # t => Told(Tail(q), t)
  BY <1>1, <1>2, TailAgrees DEF Agrees
<1>11. \A i \in 1 .. Len(Tail(q)) : Tail(q)[i].call # "result"
  <2>1. CASE Awaited(q)
    <3>1. \A i \in 1 .. Len(q) : q[i].call # "result"
      BY <2>1 DEF Inv, FinishInv, Finishes
    <3>2. QED
      BY <1>3, <3>1
  <2>2. CASE ~ Awaited(q)
    BY <1>3, <1>4, <1>5, <2>2
  <2>3. QED
    BY <2>1, <2>2
<1> HIDE DEF d, m, applied, completed, q
<1>12. PartsAgree(Tail(q), server, d.state)
  BY <1>10 DEF PartsAgree
<1>13. AnswersAgree(Tail(q), d.config, server, unsent)
  BY <1>11 DEF AnswersAgree
<1>14. ReceivedAgree(d, Tail(q), server, unsent)
  <2> SUFFICES ASSUME NEW t \in d.received \ unsent
               PROVE  d.config[t] = server[t] \/ (~ Awaited(Tail(q)) /\ Told(Tail(q), t))
    BY DEF ReceivedAgree
  <2>1. ASSUME t \in channel.received, t # m.type
        PROVE  d.config[t] = server[t] \/ (~ Awaited(Tail(q)) /\ Told(Tail(q), t))
    <3>1. t \in UsedConfigTypes /\ d.config[t] = channel.config[t]
      BY <1>1, <1>7, <2>1 DEF Members
    <3>2. channel.config[t] = server[t] \/ (~ Awaited(q) /\ Told(q, t))
      BY <1>2, <2>1 DEF Agrees, ReceivedAgree
    <3>3. QED
      BY <1>9, <1>10, <2>1, <3>1, <3>2
  <2>2. CASE applied
    BY <1>4, <1>7, <2>1, <2>2
  <2>3. CASE completed
    BY <1>7, <2>1, <2>3
  <2>4. CASE ~ applied /\ ~ completed
    BY <1>2, <1>7, <1>8, <2>4 DEF Agrees, ReceivedAgree
  <2>5. QED
    BY <2>2, <2>3, <2>4
<1>15. RestsWithAll(d)
  <2> SUFFICES ASSUME d.finished, d.state \in Quiet PROVE d.received = UsedConfigTypes
    BY DEF RestsWithAll
  <2>1. ~ Awaited(q)
    BY <1>7 DEF Inv, FinishInv, q
  <2>2. channel.received = UsedConfigTypes
    BY <1>2, <1>7, <1>8, <2>1 DEF Agrees, RestsWithAll
  <2>3. applied
    BY <1>7, <1>8, <2>1 DEF Quiet
  <2>4. QED
    BY <1>3, <1>7, <2>2, <2>3
<1>16. QED
  BY <1>1, <1>6, <1>12, <1>13, <1>14, <1>15 DEF Agrees, SentAgree, OneWay

\* ChannelConfigFinished arrives, behind every part the server sent.
LEMMA ReceiveFinishedAgrees ==
    ASSUME Inv, AgreeInv, Receive, Head(toDevice).call = "finished"
    PROVE  AgreeInv'
<1> SUFFICES ASSUME Undisturbed'
             PROVE  Agrees(channel', toDevice', toServer', server', unsent')
  BY DEF AgreeInv
<1> DEFINE q == toDevice
           d == HandleChannelConfigFinished(channel)
<1>1. /\ channel \in Members /\ connected /\ q \in Seq(Messages) /\ q # <<>>
      /\ q[1] = Head(q) /\ toDevice' = Tail(q) /\ channel' = d
      /\ UNCHANGED <<connected, toServer, server, enabled, spoiled, unsent>>
  BY ReceiveFacts
<1>2. Agrees(channel, q, toServer, server, unsent)
  BY <1>1 DEF AgreeInv, Undisturbed
<1>3. Awaited(q)
  <2>1. 1 \in 1 .. Len(q)
    BY <1>1, TailItems
  <2>2. QED
    BY <1>1, <2>1 DEF Awaited
<1>4. toServer = <<>> /\ ~ Awaited(Tail(q))
  BY <1>1, <1>3, FinishTail DEF Inv, FinishInv
<1>5. d.received = channel.received /\ d.config = channel.config
  BY <1>1, FinishedFacts
<1>6. RestsWithAll(d)
  BY <1>1, FinishedRests
<1>7. /\ AnswersAgree(Tail(q), channel.config, server, unsent)
      /\ \A i \in 1 .. Len(Tail(q)) : Tail(q)[i].call = "config" => Followed(Tail(q), i)
  BY <1>1, <1>2, TailAgrees DEF Agrees
<1>8. Len(Tail(q)) \in Nat
  <2> HIDE DEF Messages
  <2> QED BY <1>1
<1> HIDE DEF d, q
<1>9. NoParts(Tail(q))
  <2> SUFFICES ASSUME NEW i \in 1 .. Len(Tail(q)), Tail(q)[i].call = "config" PROVE FALSE
    BY DEF NoParts
  <2>1. PICK j \in i + 1 .. Len(Tail(q)) : Tail(q)[j].call = "finished"
    BY <1>7 DEF Followed
  <2>2. j \in 1 .. Len(Tail(q))
    BY <1>8, <2>1
  <2>3. QED
    BY <1>4, <2>1, <2>2 DEF Awaited
<1>10. QED
  BY <1>1, <1>2, <1>3, <1>4, <1>5, <1>6, <1>7, <1>9
     DEF Agrees, PartsAgree, NoParts, SentAgree, ReceivedAgree, OneWay

\* The result of a part arrives: device and server both have it.
LEMMA ReceiveResultAgrees ==
    ASSUME Inv, AgreeInv, Receive, Head(toDevice).call = "result"
    PROVE  AgreeInv'
<1> SUFFICES ASSUME Undisturbed'
             PROVE  Agrees(channel', toDevice', toServer', server', unsent')
  BY DEF AgreeInv
<1> DEFINE q == toDevice
           m == Head(q)
           d == HandleSetChannelConfigResult(channel, m)
<1>1. /\ channel \in Members /\ connected /\ q \in Seq(Messages) /\ q # <<>>
      /\ m = q[1] /\ m.call = "result" /\ m \in Results
      /\ toDevice' = Tail(q) /\ channel' = d
      /\ UNCHANGED <<connected, toServer, server, enabled, spoiled, unsent>>
  BY ReceiveFacts
<1>2. Agrees(channel, q, toServer, server, unsent)
  BY <1>1 DEF AgreeInv, Undisturbed
<1>3. 1 \in 1 .. Len(q)
  BY <1>1, TailItems
<1>4. ~ Awaited(q) /\ ~ Awaited(Tail(q))
  BY <1>1, FinishTail DEF Inv, FinishInv
<1>5. m.success
  BY <1>1, <1>3 DEF Inv, FlagInv, NoRefusal, Undisturbed
<1>6. channel.config[m.type] = server[m.type] \/ m.type \in unsent
  BY <1>1, <1>2, <1>3 DEF Agrees, AnswersAgree
<1>7. /\ d.received = channel.received \cup {m.type} /\ d.config = channel.config
      /\ channel.state \in Quiet => d.state = channel.state
      /\ d.state \in Quiet /\ channel.state \notin Quiet => d.received = UsedConfigTypes
  BY <1>1, <1>5, ResultRests
<1>8. d.finished = channel.finished /\ m.type \in UsedConfigTypes
  BY <1>1, ResultFacts DEF Results
<1>9. /\ AnswersAgree(Tail(q), channel.config, server, unsent)
      /\ NoParts(q) => NoParts(Tail(q))
      /\ \A i \in 1 .. Len(Tail(q)) : Tail(q)[i].call = "config" =>
            /\ Tail(q)[i].function /\ Tail(q)[i].value = server[Tail(q)[i].type]
            /\ Followed(Tail(q), i)
      /\ \A t : Told(q, t) => Told(Tail(q), t)
  BY <1>1, <1>2, TailAgrees DEF Agrees
<1> HIDE DEF d, m, q
<1>10. PartsAgree(Tail(q), server, d.state)
  BY <1>9 DEF PartsAgree
<1>11. ReceivedAgree(d, Tail(q), server, unsent)
  BY <1>2, <1>4, <1>6, <1>7, <1>9 DEF Agrees, ReceivedAgree
<1>12. RestsWithAll(d)
  BY <1>2, <1>7, <1>8 DEF Agrees, RestsWithAll
<1>13. QED
  BY <1>1, <1>2, <1>7, <1>9, <1>10, <1>11, <1>12 DEF Agrees, SentAgree, OneWay

----------------------------------------------------------------------------
(* The result. *)

\* With the invariant of the exchange, agreement is inductive.
LEMMA NextAgrees ==
    ASSUME Inv, AgreeInv, [Next]_vars
    PROVE  AgreeInv'
<1>1. ASSUME NEW type \in UsedConfigTypes, NEW value \in Values, LocalChange(type, value)
      PROVE  AgreeInv'
  BY <1>1, LocalChangeAgrees
<1>2. CASE SendConfig
  BY <1>2, SendAgrees
<1>3. CASE GiveUp
  BY <1>3 DEF GiveUp, AgreeInv, Undisturbed
<1>4. CASE NothingToSend
  BY <1>4, NothingToSendAgrees
<1>5. CASE Receive
  <2>1. Head(toDevice) \in Messages
    BY <1>5, ReceiveFacts
  <2>2. Head(toDevice).call \in {"config", "finished", "result"}
    BY <2>1 DEF Messages, Configs, Finisheds, Results
  <2>3. QED
    BY <1>5, <2>2, ReceiveConfigAgrees, ReceiveFinishedAgrees, ReceiveResultAgrees
<1>6. CASE CommitConfig
  <2>1. UNCHANGED <<channel, connected, toDevice, toServer, server, enabled, spoiled, unsent>>
    BY <1>6 DEF CommitConfig, link, history
  <2>2. QED
    BY <2>1 DEF AgreeInv, Undisturbed
<1>7. CASE Restart
  BY <1>7 DEF Restart, AgreeInv, Undisturbed
<1>8. CASE Register
  BY <1>8, RegisterAgrees
<1>9. CASE Disconnect
  BY <1>9 DEF Disconnect, AgreeInv, Undisturbed
<1>10. ASSUME NEW success \in BOOLEAN, Answer(success)
       PROVE  AgreeInv'
  BY <1>10, AnswerAgrees
<1>11. ASSUME NEW type \in UsedConfigTypes, NEW value \in CloudValues, ServerChange(type, value)
       PROVE  AgreeInv'
  BY <1>11, ServerChangeAgrees
<1>12. CASE FunctionChange(Min(UsedConfigTypes))
  <2>1. Min(UsedConfigTypes) \in UsedConfigTypes
    BY ConfigAssumption, LeastPart
  <2>2. QED
    BY <1>12, <2>1, FunctionChangeAgrees
<1>13. CASE UNCHANGED vars
  <2>1. UNCHANGED <<channel, connected, toDevice, toServer, server, enabled, spoiled, unsent>>
    BY <1>13 DEF vars, link, history
  <2>2. QED
    BY <2>1 DEF AgreeInv, Undisturbed
<1>14. QED
  BY <1>1, <1>2, <1>3, <1>4, <1>5, <1>6, <1>7, <1>8, <1>9, <1>10, <1>11, <1>12, <1>13
     DEF Next, IterateConfigExchange

\* Whatever earlier sessions left behind (changes on either side, refusals, parts given
\* up, restarts that lost what was not written), an exchange that nothing disturbs ends
\* with the same configuration on the device and on the server, part by part.  Not meant:
\* a part changed in this session, at rest, in the style that marks its changes, which the
\* code does not send (unsent), and a session that a change before all was at rest, a
\* refusal or a part given up disturbed (spoiled).
THEOREM SettledAgreed == Spec => []SettledAgrees
<1>1. Inv /\ AgreeInv => SettledAgrees
  BY RestAgrees DEF SettledAgrees
<1>2. Init => AgreeInv
  BY InitAgrees
<1>3. Inv /\ AgreeInv /\ [Next]_vars => AgreeInv'
  BY NextAgrees
<1>4. QED
  BY <1>1, <1>2, <1>3, ExchangeInvariant, PTL DEF Spec
=============================================================================
