---------------------------- MODULE ChannelConfig ----------------------------
(* The exchange of one channel's configuration with the server                 *)
(* (Supla::ElementWithChannelActions).  Either side may change it at any time,  *)
(* the device also while it is not connected.  After each registration the     *)
(* server sends every part of the configuration (ConfigType) it has, then      *)
(* ChannelConfigFinished; from there on the device sends what the server lacks *)
(* and what changed locally, one part at a time, waiting for each result.      *)
(* A part of the configuration is one value.  Two styles of channel differ in  *)
(* what a local change does: "trigger" (BinaryBase, Relay) has one part sent,   *)
(* "pending" (GeneralPurposeChannelBase) marks the change for the next         *)
(* registration.                                                               *)
(*                                                                             *)
(* Three histories name the cases in which the code loses a local change, so   *)
(* that the properties can say where they do not apply:                        *)
(*  - the trigger style marks no change made offline, and the server's part is *)
(*    applied over it (handleChannelConfig), unless a restart comes between    *)
(*    that reads the stored flag as LocalChangePending: Due leaves it out;     *)
(*  - ChannelConfigFinished turns LocalChangePending into ResendConfig, which  *)
(*    onRegistered keeps: when the connection breaks before every part is      *)
(*    confirmed, the next registration has the server's parts applied; so it   *)
(*    is after a refusal or a part given up: broken;                           *)
(*  - a change of the pending style while connected and at rest has nothing to *)
(*    send (receivedConfigTypes is full), and iterateConfigExchange clears the *)
(*    flag: unsent.                                                            *)
EXTENDS Integers, SequencesExt

CONSTANTS
    UsedConfigTypes,   \* usedConfigTypes, numbered as in the protocol
    Values,            \* valid and complete contents of a part
    Incomplete,        \* contents on the server that lack something the device has
    Completed,         \* what the device makes of one of them, from its own contents
    CloudValues,       \* what the user may set in the cloud
    Empty, Bad,        \* ConfigSize 0, and a size the channel does not accept
    InitialValue,
    Styles,
    MaxChanges, MaxRefusals, MaxLosses,
    MaxEvents          \* ... of all three together

ASSUME ConfigAssumption ==
    /\ UsedConfigTypes \subseteq Nat /\ UsedConfigTypes # {}
    /\ IsFiniteSet(UsedConfigTypes)
    /\ Values \cap (Incomplete \cup {Empty, Bad}) = {}
    /\ Incomplete \cap {Empty, Bad} = {} /\ Empty # Bad
    /\ Completed \in [Incomplete \X Values -> Values]
    /\ CloudValues \subseteq Values \cup Incomplete
    /\ InitialValue \in Values
    /\ Styles \subseteq {"trigger", "pending"} /\ Styles # {}
    /\ {MaxChanges, MaxRefusals, MaxLosses, MaxEvents} \subseteq Nat

MaxAttempts == 3

VARIABLES
    style,
    channel,      \* the members, and what is stored under the channel's keys
    file,         \* the configuration file as last committed
    connected,
    toDevice, toServer,
    server,       \* the configuration the server keeps
    enabled,      \* the server gives the channel a function
    changes, refusals, losses,  \* how many there were
    spoiled,      \* history: in this session a change on either side came before all
                  \* was at rest, the server refused a part, or the device gave one up
    unsent,       \* history: parts changed in this session, at rest, in the pending style
    owed,         \* history: parts changed offline that the server has not got
    broken,       \* history: an exchange of theirs ended without success, with no change offline since
    orphaned      \* history: the function was taken away with the flag stored

link == <<connected, toDevice, toServer>>
history == <<spoiled, unsent, owed, broken, orphaned>>
vars == <<style, channel, file, link, server, enabled, changes, refusals, losses,
          history>>

States == {"None", "LocalChangePending", "SetChannelConfigSend",
           "SetChannelConfigFailed", "WaitForConfigFinished", "ResendConfig",
           "LocalChangeSent"}
Contents == [UsedConfigTypes -> Values]
ServerContents == Values \cup Incomplete \cup {Empty, Bad}
Stored == [config : Contents, flag : BOOLEAN, function : BOOLEAN]

----------------------------------------------------------------------------
(* The channel: each method takes the members to the members. *)

\* A channel built from stored keys.
LoadConfig(stored) ==
    [state |-> IF stored.flag THEN "LocalChangePending" ELSE "None",
     received |-> {}, finished |-> FALSE, attempts |-> 0,
     config |-> stored.config, function |-> stored.function,
     stored |-> stored]

SaveConfigChangeFlag(c) ==
    [c EXCEPT !.stored.flag = c.state \notin {"None", "WaitForConfigFinished"}]

\* BinaryBase::saveConfig writes the flag as well; the other style does it apart.
SaveConfig(c) ==
    LET saved == [c EXCEPT !.stored.config = c.config]
    IN  IF style = "trigger" THEN SaveConfigChangeFlag(saved) ELSE saved

\* Mutant of ClearChannelConfigChangedFlag: the stored flag stays.
ClearStateOnly(c) == [c EXCEPT !.state = IF @ = "SetChannelConfigFailed" THEN @ ELSE "None"]

\* Mutant of ClearChannelConfigChangedFlag: the state stays.
ClearFlagOnly(c) == [c EXCEPT !.stored.flag = FALSE]

ClearChannelConfigChangedFlag(c) ==
    IF c.state \in {"None", "SetChannelConfigFailed"}
    THEN c
    ELSE SaveConfigChangeFlag([c EXCEPT !.state = "None"])

TriggerSetChannelConfig(c, type) ==
    IF c.state = "SetChannelConfigFailed"
    THEN c
    ELSE [c EXCEPT !.state = "ResendConfig", !.received = @ \ {type}]

\* A setter of the channel, called on the device.
ChangeConfig(c, type, value) ==
    LET set == [c EXCEPT !.config[type] = value]
    IN  IF style = "trigger"
        THEN SaveConfig(TriggerSetChannelConfig(set, type))
        ELSE SaveConfigChangeFlag(SaveConfig([set EXCEPT !.state = "LocalChangePending"]))

\* Mutant of OnRegistered: what was received in an earlier session counts.
OnRegisteredKeepingReceived(c) ==
    [c EXCEPT !.finished = FALSE, !.attempts = 0,
              !.state = IF @ \in {"None", "WaitForConfigFinished"}
                        THEN "WaitForConfigFinished" ELSE @]

OnRegistered(c) ==
    [c EXCEPT !.received = {}, !.finished = FALSE, !.attempts = 0,
              !.state = CASE @ \in {"None", "WaitForConfigFinished"}
                               -> "WaitForConfigFinished"
                          [] @ = "LocalChangePending" -> @
                          [] OTHER -> "ResendConfig"]

HandleChannelConfigFinished(c) ==
    [c EXCEPT !.finished = TRUE, !.attempts = 0,
              !.state = IF c.received # UsedConfigTypes THEN "ResendConfig"
                        ELSE IF @ = "WaitForConfigFinished" THEN "None" ELSE @]

SetAndSaveFunction(c, function) ==
    [c EXCEPT !.function = function, !.stored.function = function]

\* A valid part is held, and saved if that changes anything.
Applied(c, type, value) ==
    LET set == [c EXCEPT !.config[type] = value]
    IN  IF set = c THEN c ELSE SaveConfig(set)

\* A part that lacks a field the device has set (BinaryBase) or was made for other
\* defaults (GeneralPurposeChannelBase) is applied as far as it goes and sent back.
ApplyChannelConfig(c, m) ==
    CASE m.value = Empty -> TriggerSetChannelConfig(c, m.type)
      [] m.value = Bad -> c
      [] m.value \in Incomplete ->
            TriggerSetChannelConfig(
                Applied(c, m.type, Completed[<<m.value, c.config[m.type]>>]), m.type)
      [] OTHER -> [Applied(c, m.type, m.value) EXCEPT !.received = @ \cup {m.type}]

\* Mutant of HandleChannelConfig: the server's part is applied over a change made
\* offline.
HandleChannelConfigAlways(c, m) ==
    LET set == SetAndSaveFunction(c, m.function)
    IN  IF ~ m.function
        THEN [set EXCEPT !.state = "None", !.received = UsedConfigTypes, !.finished = FALSE]
        ELSE ApplyChannelConfig(set, m)

\* A channel without a function takes part in no exchange: receivedConfigTypes is
\* set to usedConfigTypes, whose bit for ChannelConfigFinished is clear.
HandleChannelConfig(c, m) ==
    LET set == SetAndSaveFunction(c, m.function)
    IN  CASE ~ m.function ->
                [set EXCEPT !.state = "None", !.received = UsedConfigTypes,
                            !.finished = FALSE]
          [] m.function /\ c.state = "LocalChangePending" -> set
          [] OTHER -> ApplyChannelConfig(set, m)

HandleSetChannelConfigResult(c, m) ==
    LET got == [c EXCEPT !.received = @ \cup {m.type}]
        more == [got EXCEPT !.attempts = 0,
                            !.state = IF @ = "SetChannelConfigSend"
                                      THEN "ResendConfig" ELSE "LocalChangePending"]
        next == IF c.state \notin {"SetChannelConfigSend", "LocalChangeSent"} THEN got
                ELSE IF got.received # UsedConfigTypes THEN more
                ELSE ClearChannelConfigChangedFlag(got)
    IN  IF m.success
        THEN next
        ELSE [ClearChannelConfigChangedFlag(next) EXCEPT !.state = "SetChannelConfigFailed"]

NotReceived(c) == UsedConfigTypes \ c.received
GetNextConfigType(c) == Min(NotReceived(c))

Sent(c) ==
    [c EXCEPT !.attempts = @ + 1,
              !.state = IF @ = "LocalChangePending"
                        THEN "LocalChangeSent" ELSE "SetChannelConfigSend"]

GivenUp(c) ==
    [c EXCEPT !.attempts = 0, !.received = @ \cup {GetNextConfigType(c)}]

\* iterateConfigExchange has something to do.
Sending(c) ==
    /\ c.finished /\ c.function
    /\ c.state \in {"LocalChangePending", "ResendConfig"}

Exchanging(c) ==
    /\ c.finished /\ c.function
    /\ c.state \in {"LocalChangePending", "ResendConfig",
                    "SetChannelConfigSend", "LocalChangeSent"}

----------------------------------------------------------------------------
(* The device. *)

\* One more change, refusal or loss.
Eventful == changes + refusals + losses < MaxEvents

AtRest ==
    /\ connected /\ toDevice = <<>> /\ toServer = <<>>
    /\ channel.finished /\ channel.function /\ enabled
    /\ ~ Exchanging(channel)

\* A setter is called on the device.  A channel without a function in the cloud owes
\* it nothing.
LocalChange(type, value) ==
    /\ changes < MaxChanges /\ Eventful
    /\ value # channel.config[type]
    /\ changes' = changes + 1
    /\ channel' = ChangeConfig(channel, type, value)
    /\ spoiled' = (spoiled \/ (connected /\ ~ AtRest))
    /\ unsent' = IF style = "pending" /\ AtRest THEN unsent \cup {type} ELSE unsent
    /\ owed' = IF enabled /\ ~ connected THEN owed \cup {type} ELSE owed \ {type}
    /\ broken' = (broken /\ connected)
    /\ UNCHANGED <<orphaned, style, file, link, server, enabled, refusals, losses>>

Send ==
    /\ LET type == GetNextConfigType(channel)
       IN  toServer' = Append(toServer, [type |-> type, value |-> channel.config[type]])
    /\ channel' = Sent(channel)
    /\ UNCHANGED <<style, file, connected, toDevice, server, enabled, changes, refusals,
                   losses, history>>

\* Mutant of SendConfig: any number of attempts.
SendConfigAgain == connected /\ Sending(channel) /\ NotReceived(channel) # {} /\ Send

\* iterateConfigExchange.
SendConfig ==
    /\ connected /\ Sending(channel)
    /\ NotReceived(channel) # {} /\ channel.attempts < MaxAttempts
    /\ Send

GiveUp ==
    /\ connected /\ Sending(channel)
    /\ NotReceived(channel) # {} /\ channel.attempts >= MaxAttempts
    /\ channel' = GivenUp(channel)
    /\ spoiled' = TRUE
    /\ broken' = (broken \/ owed # {})
    /\ UNCHANGED <<style, file, link, server, enabled, changes, refusals, losses, unsent,
                   owed, orphaned>>

NothingToSend ==
    /\ connected /\ Sending(channel)
    /\ NotReceived(channel) = {}
    /\ channel' = ClearChannelConfigChangedFlag(channel)
    /\ UNCHANGED <<style, file, link, server, enabled, changes, refusals, losses, history>>

\* A call of the server arrives.
Receive ==
    /\ connected /\ toDevice # <<>>
    /\ LET m == Head(toDevice)
       IN  channel' = CASE m.call = "config" -> HandleChannelConfig(channel, m)
                        [] m.call = "finished" -> HandleChannelConfigFinished(channel)
                        [] m.call = "result" -> HandleSetChannelConfigResult(channel, m)
    /\ toDevice' = Tail(toDevice)
    /\ orphaned' = (orphaned \/ (channel.stored.flag /\ channel'.function = FALSE))
    /\ UNCHANGED <<style, file, connected, toServer, server, enabled, changes, refusals,
                   losses, spoiled, unsent, owed, broken>>

\* saveIfNeeded, 5 s after the first change.
CommitConfig ==
    /\ file # channel.stored
    /\ file' = channel.stored
    /\ UNCHANGED <<style, channel, link, server, enabled, changes, refusals, losses,
                   history>>

\* Power fails: what was not committed is lost, and so is the connection.  A change
\* whose last word is not in the file yet is owed no longer.
Restart ==
    /\ losses < MaxLosses /\ Eventful
    /\ losses' = losses + 1
    /\ channel' = LoadConfig(file)
    /\ connected' = FALSE /\ toDevice' = <<>> /\ toServer' = <<>>
    /\ owed' = IF file = channel.stored THEN owed ELSE {}
    /\ spoiled' = FALSE /\ unsent' = {}
    /\ UNCHANGED <<style, file, server, enabled, changes, refusals, broken, orphaned>>

----------------------------------------------------------------------------
(* The connection and the server (not in this repository). *)

ConfigMessage(type, value, function) ==
    [call |-> "config", type |-> type, value |-> value, function |-> function]

\* The device registers; the server sends what it has.
Register ==
    /\ ~ connected
    /\ connected' = TRUE
    /\ channel' = OnRegistered(channel)
    /\ LET parts == SetToSeq(UsedConfigTypes)
       IN  toDevice' = [i \in 1 .. Len(parts) |->
                           ConfigMessage(parts[i], server[parts[i]], enabled)]
                       \o <<[call |-> "finished"]>>
    /\ UNCHANGED <<style, file, toServer, server, enabled, changes, refusals, losses,
                   history>>

Disconnect ==
    /\ connected /\ losses < MaxLosses /\ Eventful
    /\ losses' = losses + 1
    /\ connected' = FALSE /\ toDevice' = <<>> /\ toServer' = <<>>
    /\ spoiled' = FALSE /\ unsent' = {}
    \* the parts are being sent, or one was given up or refused
    /\ broken' = (broken \/ (owed # {} /\ channel.state # "LocalChangePending"))
    /\ UNCHANGED <<style, channel, file, server, enabled, changes, refusals, owed, orphaned>>

\* The server's answer to setChannelConfig.
Answer(success) ==
    /\ connected /\ toServer # <<>>
    /\ LET m == Head(toServer)
       IN  /\ server' = IF success THEN [server EXCEPT ![m.type] = m.value] ELSE server
           /\ toDevice' = Append(toDevice, [call |-> "result", type |-> m.type,
                                            success |-> success])
    /\ toServer' = Tail(toServer)
    /\ IF success
       THEN UNCHANGED <<refusals, spoiled, broken>>
       ELSE /\ refusals < MaxRefusals /\ Eventful
            /\ refusals' = refusals + 1
            /\ spoiled' = TRUE
            /\ broken' = (broken \/ owed # {})
    /\ owed' = IF success THEN owed \ {Head(toServer).type} ELSE owed
    /\ UNCHANGED <<style, channel, file, connected, enabled, changes, losses, unsent,
                   orphaned>>

Tell(type, value, function) ==
    /\ toDevice' = IF connected
                   THEN Append(toDevice, ConfigMessage(type, value, function)) ELSE toDevice
    /\ spoiled' = (spoiled \/ (connected /\ ~ AtRest))

\* The user changes the configuration in the cloud.  While the device is connected the
\* later change of a part is the one that counts.
ServerChange(type, value) ==
    /\ enabled /\ changes < MaxChanges /\ Eventful
    /\ value # server[type]
    /\ changes' = changes + 1
    /\ server' = [server EXCEPT ![type] = value]
    /\ Tell(type, value, enabled)
    /\ owed' = IF connected THEN owed \ {type} ELSE owed
    /\ unsent' = unsent \ {type}
    /\ UNCHANGED <<style, channel, file, connected, toServer, enabled, refusals, losses,
                   broken, orphaned>>

\* The user takes the channel's function away, or gives it back.
FunctionChange(type) ==
    /\ changes < MaxChanges /\ Eventful
    /\ changes' = changes + 1
    /\ enabled' = ~ enabled
    /\ Tell(type, server[type], ~ enabled)
    /\ owed' = {}
    /\ UNCHANGED <<style, channel, file, connected, toServer, server, refusals, losses,
                   unsent, broken, orphaned>>

----------------------------------------------------------------------------
Init ==
    /\ style \in Styles
    \* onLoadConfig with nothing stored yet: the second style marks its defaults
    /\ file = [config |-> [t \in UsedConfigTypes |-> InitialValue],
               flag |-> style = "pending", function |-> TRUE]
    /\ channel = LoadConfig(file)
    /\ connected = FALSE /\ toDevice = <<>> /\ toServer = <<>>
    /\ \E content \in {InitialValue, Empty, Bad} : server = [t \in UsedConfigTypes |-> content]
    /\ enabled = TRUE
    /\ changes = 0 /\ refusals = 0 /\ losses = 0
    /\ spoiled = FALSE /\ unsent = {} /\ owed = {} /\ broken = FALSE /\ orphaned = FALSE

IterateConfigExchange == SendConfig \/ GiveUp \/ NothingToSend

Next ==
    \/ \E type \in UsedConfigTypes, value \in Values : LocalChange(type, value)
    \/ IterateConfigExchange
    \/ Receive
    \/ CommitConfig
    \/ Restart
    \/ Register
    \/ Disconnect
    \/ \E success \in BOOLEAN : Answer(success)
    \/ \E type \in UsedConfigTypes, value \in CloudValues : ServerChange(type, value)
    \/ FunctionChange(Min(UsedConfigTypes))

Spec == Init /\ [][Next]_vars

\* The loop runs, and the connection is made again.
FairSpec ==
    /\ Spec
    /\ WF_vars(IterateConfigExchange) /\ WF_vars(Receive) /\ WF_vars(CommitConfig)
    /\ WF_vars(Register) /\ WF_vars(Answer(TRUE))

----------------------------------------------------------------------------
(* Properties. *)

\* Every variable stays within its type, and the retry counter within its bound.
TypeOK ==
    /\ style \in Styles
    /\ channel \in [state : States, received : SUBSET UsedConfigTypes, finished : BOOLEAN,
                    attempts : 0 .. MaxAttempts, config : Contents, function : BOOLEAN,
                    stored : Stored]
    /\ file \in Stored
    /\ {connected, enabled, spoiled, broken, orphaned} \subseteq BOOLEAN
    /\ server \in [UsedConfigTypes -> ServerContents]
    /\ unsent \subseteq UsedConfigTypes /\ owed \subseteq UsedConfigTypes

\* Whatever earlier sessions left behind, once an exchange is over device and server hold
\* the same, part by part.  Not meant: a session in which a change on either side came
\* before all was at rest, the server refused a part, or the device gave one up (after
\* three sends since the counter was last reset, which the last result of an exchange
\* does not do); and a part changed in this session in the pending style, which the code
\* does not send.
SettledAgrees ==
    AtRest /\ ~ spoiled =>
        \A t \in UsedConfigTypes \ unsent : channel.config[t] = server[t]

\* Parts changed offline that the device is still to send: those of the pending style,
\* until the connection breaks while they are being sent, or a part is refused or given up.
Due == IF style = "pending" /\ ~ broken THEN owed ELSE {}

\* Once an exchange is over every part changed offline that is due has reached the server,
\* and no stored flag is left that would let the device overrule the server after a later
\* restart.  Not meant: sessions as for SettledAgrees, and a function taken away with the
\* flag stored, which leaves the flag there.
SettledForgets ==
    AtRest /\ ~ spoiled => Due = {} /\ (~ channel.stored.flag \/ orphaned)

KeptFrom(parts) ==
    \A t \in parts : channel'.config[t] = channel.config[t] \/ changes' # changes

\* Until the server has got it, nothing replaces a part changed offline in the pending
\* style, not even over restarts: the server's own version is ignored.  Not meant: what
\* follows once the connection broke after ChannelConfigFinished and before every part was
\* confirmed, or a part was refused or given up; and the trigger style.
OfflineChangeKept == [][KeptFrom(Due \cap Due')]_vars

\* The same without the exceptions: a part changed offline is not replaced before the
\* server has it ("Skip config if local config changed", handleChannelConfig).
OfflineChangeWins == [][KeptFrom(owed \cap owed')]_vars

\* When changes, refusals and losses cease, the exchange ends.
ExchangeEnds == <>[](connected /\ ~ Exchanging(channel))
=============================================================================
