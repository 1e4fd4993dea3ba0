---------------------------- MODULE Notifications ----------------------------
(***************************************************************************)
(* Alerts: the registry of notification channels, the broadcast of an alert *)
(* over them and the log of what was sent.                                  *)
(*                                                                          *)
(* A broadcast copies the list of enabled channels, not the channels: it     *)
(* goes through them one by one and sees what an administrator has changed  *)
(* meanwhile.  It suspends only where a channel is reached over HTTP, by a   *)
(* client with a timeout; in-app and e-mail messages are delivered at once. *)
(***************************************************************************)
EXTENDS Naturals, Sequences, SequencesExt, FiniteSetsExt, Selections

CONSTANTS
  InApp,      \* the in-app channel that initialize creates
  HttpChannels,
  Severities,
  LogCapacity \* messages the log keeps: 1000 in the code

ASSUME NotificationsAssumption == LogCapacity \in Nat

AllChannels == {InApp} \cup HttpChannels

VARIABLES
  registry,    \* the registered channels, in the order they were registered
  setting,     \* the channel objects: a broadcast may hold a deleted one
  created,     \* channels ever created: an id is never used again
  initialized, \* initialize has run
  alert,       \* the broadcast under way: what is left, its head being posted
  messages,    \* the log, newest first
  expected,    \* history: channels due for the alert and unchanged since
  logged       \* history: channels the alert has a message for

notificationVars ==
  <<registry, setting, created, initialized, alert, messages, expected, logged>>

Setting == [enabled : BOOLEAN, hears : SUBSET Severities, valid : BOOLEAN]
Default == [enabled |-> TRUE, hears |-> Severities, valid |-> TRUE]

Message == [channel : AllChannels, delivered : BOOLEAN, read : BOOLEAN]

NoAlert == [severity |-> "none", todo |-> <<>>]

NotificationsInit ==
  /\ registry = <<>> /\ created = {} /\ initialized = FALSE
  /\ setting = [c \in AllChannels |-> Default]
  /\ alert = NoAlert /\ messages = <<>>
  /\ expected = {} /\ logged = {}
-----------------------------------------------------------------------------
(* Channels.                                                                *)

\* The first listing or broadcast seeds the in-app channel.
Seeded == IF initialized \/ InApp \in created THEN registry ELSE Append(registry, InApp)

Initialize ==
  /\ registry' = Seeded
  /\ created' = created \cup Range(Seeded)
  /\ initialized' = TRUE

ListChannels ==
  /\ ~initialized /\ Initialize
  /\ UNCHANGED <<setting, alert, messages, expected, logged>>

\* No severities at all stands for every severity.
RegisterChannel(c, hears, valid) ==
  /\ c \notin created
  /\ created' = created \cup {c}
  /\ registry' = Append(registry, c)
  /\ setting' = [setting EXCEPT ![c] =
       [enabled |-> TRUE, valid |-> valid,
        hears |-> IF hears = {} THEN Severities ELSE hears]]
  /\ UNCHANGED <<initialized, alert, messages, expected, logged>>

\* Here no severities means none.
UpdateChannel(c, new) ==
  /\ c \in Range(registry)
  /\ setting' = [setting EXCEPT ![c] = new]
  /\ expected' = expected \ {c}
  /\ UNCHANGED <<registry, created, initialized, alert, messages, logged>>

DeleteChannel(c) ==
  /\ c \in Range(registry)
  /\ registry' = Only(registry, AllChannels \ {c})
  /\ expected' = expected \ {c}
  /\ UNCHANGED <<setting, created, initialized, alert, messages, logged>>
-----------------------------------------------------------------------------
(* Broadcasts.                                                              *)

Posted(c, severity) ==
  c \in HttpChannels /\ setting[c].enabled /\ severity \in setting[c].hears /\ setting[c].valid

\* The messages of channels that are dispatched without a suspension: the
\* ones that do not listen get none, and what is disabled fails.
Immediate(chs, severity) ==
  LET heard == Only(chs, {c \in AllChannels : severity \in setting[c].hears})
  IN [i \in 1 .. Len(heard) |->
        [channel |-> heard[i], read |-> FALSE,
         delivered |-> heard[i] = InApp /\ setting[heard[i]].enabled]]

\* Mutant: nothing is dropped.
SavedInFull(new) == Reverse(new) \o messages

\* The newest first; what the log has no room for is dropped.
Saved(new) ==
  LET all == Reverse(new) \o messages
  IN SubSeq(all, 1, IF Len(all) < LogCapacity THEN Len(all) ELSE LogCapacity)

\* The loop of broadcast_alert from here to its next post, or to its end.
Loop(sent, todo, severity, before) ==
  LET posts == {i \in 1 .. Len(todo) : Posted(todo[i], severity)}
      stop  == IF posts = {} THEN Len(todo) + 1 ELSE Min(posts)
      new   == sent \o Immediate(SubSeq(todo, 1, stop - 1), severity)
  IN /\ messages' = Saved(new)
     /\ logged' = before \cup {m.channel : m \in Range(new)}
     /\ alert' = IF posts = {} THEN NoAlert
                 ELSE [severity |-> severity, todo |-> SubSeq(todo, stop, Len(todo))]

\* To the channels of the targeted kinds that are enabled now.
BroadcastAlert(severity, kinds) ==
  LET todo == Only(Seeded, {c \in kinds : setting[c].enabled})
  IN /\ alert = NoAlert
     /\ Initialize
     /\ Loop(<<>>, todo, severity, {})
     /\ expected' = {c \in Range(todo) : severity \in setting[c].hears}
     /\ UNCHANGED setting

\* Mutant: the first channel that fails ends the broadcast.
PostEndsAll(delivered) ==
  LET posted == [channel |-> Head(alert.todo), delivered |-> delivered, read |-> FALSE]
  IN /\ alert # NoAlert
     /\ Loop(<<posted>>, IF delivered THEN Tail(alert.todo) ELSE <<>>, alert.severity, logged)
     /\ UNCHANGED <<registry, setting, created, initialized, expected>>

\* The post is answered, refused or timed out.
PostEnds(delivered) ==
  LET posted == [channel |-> Head(alert.todo), delivered |-> delivered, read |-> FALSE]
  IN /\ alert # NoAlert
     /\ Loop(<<posted>>, Tail(alert.todo), alert.severity, logged)
     /\ UNCHANGED <<registry, setting, created, initialized, expected>>

MarkRead(i) ==
  /\ messages' = [messages EXCEPT ![i].read = TRUE]
  /\ UNCHANGED <<registry, setting, created, initialized, alert, expected, logged>>

NotificationsNext ==
  \/ ListChannels
  \/ \E c \in HttpChannels, hears \in SUBSET Severities, valid \in BOOLEAN :
       RegisterChannel(c, hears, valid)
  \/ \E c \in AllChannels :
       \/ DeleteChannel(c)
       \/ \E new \in Setting : (c = InApp => new.valid) /\ UpdateChannel(c, new)
  \/ \E s \in Severities, kinds \in {AllChannels, {InApp}, HttpChannels} :
       BroadcastAlert(s, kinds)
  \/ \E ok \in BOOLEAN : PostEnds(ok)
  \/ \E i \in DOMAIN messages : MarkRead(i)

NotificationsSpec == NotificationsInit /\ [][NotificationsNext]_notificationVars
-----------------------------------------------------------------------------
(* Properties.                                                              *)

(* Every variable keeps its type, and the log its capacity.                 *)
NotificationsTypeOK ==
  /\ registry \in Seq(AllChannels) /\ Range(registry) \subseteq created
  /\ created \subseteq AllChannels
  /\ setting \in [AllChannels -> Setting]
  /\ initialized \in BOOLEAN
  /\ alert = NoAlert \/ (alert.todo \in Seq(AllChannels) /\ alert.severity \in Severities)
  /\ messages \in Seq(Message) /\ Len(messages) <= LogCapacity
  /\ expected \subseteq AllChannels /\ logged \subseteq AllChannels

(* No channel misses an alert for another one's sake: when a broadcast is    *)
(* over, every channel that was due for it when it began and that nobody has *)
(* changed since has a message in the log, whatever failed, was changed or   *)
(* was deleted before its turn.                                             *)
AlertsReachEveryChannel == alert = NoAlert => expected \subseteq logged
=============================================================================
