------------------------------ MODULE Streaming ------------------------------
(***************************************************************************)
(* The WebSocket streams: the connection managers, the endpoints that serve *)
(* one client each, and the broadcasts of ticks, execution reports and      *)
(* telemetry.                                                               *)
(*                                                                          *)
(* The three managers are one class and share no client: a channel is named *)
(* with its stream.  Everything runs on one event loop and only a send       *)
(* suspends, so that what lies between two sends is a single step.  A        *)
(* broadcast takes its recipients when it starts and serves them one by one *)
(* while clients come, go and change their subscriptions.                   *)
(***************************************************************************)
EXTENDS Naturals

CONSTANTS
  Sockets,  \* connections, each used once
  Topics,   \* symbols and accounts
  Casts     \* broadcasts under way at once

Streams  == {"market", "orders", "telemetry"}
ALL      == "ALL"
Channels == {"market", "orders"} \X (Topics \cup {ALL})

VARIABLES
  endpoint,      \* socket -> what its endpoint is waiting for, and its stream
  lost,          \* sockets whose peer is gone
  active,        \* managers: _active_connections
  subscriptions, \* managers: socket -> the channels in its metadata
  members,       \* managers: channel -> its sockets; {} for no entry
  cast,          \* broadcasts under way
  steady,        \* history: listeners of a broadcast that stayed subscribed
  served         \* history: sockets the broadcast was sent to

streamingVars ==
  <<endpoint, lost, active, subscriptions, members, cast, steady, served>>

Waits == {"unopened", "greeting", "reading", "replying", "closed"}

Quiet == [stream |-> "market", todo |-> {}, stale |-> {}, next |-> {}]

StreamingInit ==
  /\ endpoint = [s \in Sockets |-> [wait |-> "unopened", stream |-> "market"]]
  /\ lost = {} /\ active = {}
  /\ subscriptions = [s \in Sockets |-> {}]
  /\ members = [c \in Channels |-> {}]
  /\ cast = [b \in Casts |-> Quiet]
  /\ steady = [b \in Casts |-> {}] /\ served = [b \in Casts |-> {}]
-----------------------------------------------------------------------------
(* WebSocketConnectionManager.                                              *)

Enter(s) ==
  /\ active' = active \cup {s}
  /\ subscriptions' = [subscriptions EXCEPT ![s] = {}]
  /\ UNCHANGED members

\* disconnect: a socket is looked up in the channels of its own metadata.
MembersWithout(S) ==
  [c \in Channels |-> members[c] \ {s \in S \cap active : c \in subscriptions[s]}]

Leave(S) ==
  /\ members' = MembersWithout(S)
  /\ subscriptions' = [s \in Sockets |-> IF s \in S THEN {} ELSE subscriptions[s]]
  /\ active' = active \ S

\* Mutant: a client that was removed is still entered in the channels.
SubscribeUnchecked(s, chs) ==
  /\ subscriptions' = [subscriptions EXCEPT ![s] = @ \cup chs]
  /\ members' = [c \in Channels |-> IF c \in chs THEN members[c] \cup {s} ELSE members[c]]
  /\ UNCHANGED active

\* A socket that a broadcast has removed meanwhile is ignored.
Subscribe(s, chs) ==
  IF s \in active
  THEN /\ subscriptions' = [subscriptions EXCEPT ![s] = @ \cup chs]
       /\ members' = [c \in Channels |-> IF c \in chs THEN members[c] \cup {s} ELSE members[c]]
       /\ UNCHANGED active
  ELSE UNCHANGED <<active, subscriptions, members>>

Unsubscribe(s, chs) ==
  IF s \in active
  THEN /\ subscriptions' = [subscriptions EXCEPT ![s] = @ \ chs]
       /\ members' = [c \in Channels |-> IF c \in chs THEN members[c] \ {s} ELSE members[c]]
       /\ UNCHANGED active
  ELSE UNCHANGED <<active, subscriptions, members>>
-----------------------------------------------------------------------------
(* The endpoints.                                                           *)

Waiting(s, w) ==
  /\ endpoint' = [endpoint EXCEPT ![s].wait = w]
  /\ UNCHANGED <<lost, cast, served>>

\* The client is accepted and entered; the greeting is being sent.
OpenSocket(s, st) ==
  /\ endpoint[s].wait = "unopened"
  /\ endpoint' = [endpoint EXCEPT ![s] = [wait |-> "greeting", stream |-> st]]
  /\ Enter(s)
  /\ UNCHANGED <<lost, cast, steady, served>>

\* The greeting or a reply is sent: the endpoint reads on.
SentByEndpoint(s) ==
  /\ endpoint[s].wait \in {"greeting", "replying"}
  /\ Waiting(s, "reading")
  /\ UNCHANGED <<active, subscriptions, members, steady>>

\* Order clients are always subscribed to the reports of all accounts.
Requested(st, topics) ==
  {st} \X (IF st = "orders" THEN topics \cup {ALL} ELSE topics)

ClientSubscribes(s, topics) ==
  /\ endpoint[s].wait = "reading" /\ endpoint[s].stream # "telemetry"
  /\ Subscribe(s, Requested(endpoint[s].stream, topics))
  /\ Waiting(s, "replying")
  /\ UNCHANGED steady

\* Only the market data stream knows the command.
ClientUnsubscribes(s, topics) ==
  /\ endpoint[s].wait = "reading" /\ endpoint[s].stream = "market"
  /\ Unsubscribe(s, {"market"} \X topics)
  /\ Waiting(s, "replying")
  /\ steady' = [b \in Casts |-> steady[b] \ {s}]

\* A ping, or text that is not JSON, is answered.
ClientPings(s) ==
  /\ endpoint[s].wait = "reading"
  /\ Waiting(s, "replying")
  /\ UNCHANGED <<active, subscriptions, members, steady>>

PeerGoes(s) ==
  /\ endpoint[s].wait \notin {"unopened", "closed"} /\ s \notin lost
  /\ lost' = lost \cup {s}
  /\ UNCHANGED <<endpoint, active, subscriptions, members, cast, steady, served>>

\* Reading or sending fails: the handler removes the client and ends.
EndpointEnds(s) ==
  /\ endpoint[s].wait \in {"greeting", "reading", "replying"} /\ s \in lost
  /\ Leave({s})
  /\ Waiting(s, "closed")
  /\ UNCHANGED steady

\* JSON that is no object is an exception of the handler as well; the
\* telemetry endpoint swallows it.
ClientGarbles(s) ==
  /\ endpoint[s].wait = "reading"
  /\ IF endpoint[s].stream = "telemetry"
     THEN UNCHANGED <<endpoint, active, subscriptions, members, lost, cast, served>>
     ELSE Leave({s}) /\ Waiting(s, "closed")
  /\ UNCHANGED steady
-----------------------------------------------------------------------------
(* Broadcasts.                                                              *)

\* The recipients of the first of the topics that has any, in directory m.
Listeners(m, st, topics) ==
  LET heard == {t \in topics : m[<<st, t>>] # {}}
  IN IF heard = {} THEN Quiet
     ELSE LET t == IF heard = {ALL} THEN ALL ELSE CHOOSE x \in heard : x # ALL
          IN [stream |-> st, todo |-> m[<<st, t>>], stale |-> {},
              next |-> IF t = ALL THEN {} ELSE {ALL}]

\* broadcast_tick and broadcast_execution_report: the topic, then everything.
Broadcast(b, st, topic) ==
  /\ cast[b] = Quiet
  /\ cast' = [cast EXCEPT ![b] = Listeners(members, st, {topic, ALL})]
  /\ steady' = [steady EXCEPT ![b] = members[<<st, topic>>] \cup members[<<st, ALL>>]]
  /\ served' = [served EXCEPT ![b] = {}]
  /\ UNCHANGED <<endpoint, lost, active, subscriptions, members>>

\* broadcast_telemetry goes to every client of its manager.
BroadcastTelemetry(b) ==
  LET clients == {s \in active : endpoint[s].stream = "telemetry"}
  IN /\ cast[b] = Quiet
     /\ cast' = [cast EXCEPT ![b] =
          [stream |-> "telemetry", todo |-> clients, stale |-> {}, next |-> {}]]
     /\ clients # {}
     /\ steady' = [steady EXCEPT ![b] = clients]
     /\ served' = [served EXCEPT ![b] = {}]
     /\ UNCHANGED <<endpoint, lost, active, subscriptions, members>>

\* The broadcast goes on with recipient s behind it: with the last one the
\* stale clients are removed and the next topic's recipients are taken.
GoesOn(b, s, stale) ==
  LET rest == cast[b].todo \ {s}
  IN IF rest # {}
     THEN /\ cast' = [cast EXCEPT ![b].todo = rest, ![b].stale = stale]
          /\ UNCHANGED <<active, subscriptions, members>>
     ELSE /\ Leave(stale)
          /\ cast' = [cast EXCEPT ![b] =
                        IF cast[b].next = {} THEN Quiet
                        ELSE Listeners(MembersWithout(stale), cast[b].stream, cast[b].next)]

\* What is sent to a peer that is gone may still be buffered.
Delivered(b, s) ==
  /\ s \in cast[b].todo
  /\ served' = [served EXCEPT ![b] = @ \cup {s}]
  /\ GoesOn(b, s, cast[b].stale)
  /\ UNCHANGED <<endpoint, lost, steady>>

\* Mutant: a failing client ends the broadcast.
UndeliveredEnds(b, s) ==
  /\ s \in cast[b].todo
  /\ s \in lost \/ endpoint[s].wait = "closed"
  /\ cast' = [cast EXCEPT ![b] = Quiet]
  /\ Leave({s})
  /\ UNCHANGED <<endpoint, lost, steady, served>>

Undelivered(b, s) ==
  /\ s \in cast[b].todo
  /\ s \in lost \/ endpoint[s].wait = "closed"
  /\ GoesOn(b, s, cast[b].stale \cup {s})
  /\ UNCHANGED <<endpoint, lost, steady, served>>

StreamingNext ==
  \/ \E s \in Sockets :
       \/ \E st \in Streams : OpenSocket(s, st)
       \/ SentByEndpoint(s) \/ ClientPings(s) \/ ClientGarbles(s)
       \/ \E topics \in SUBSET (Topics \cup {ALL}) :
            ClientSubscribes(s, topics) \/ ClientUnsubscribes(s, topics)
       \/ PeerGoes(s) \/ EndpointEnds(s)
  \/ \E b \in Casts :
       \/ \E st \in {"market", "orders"}, t \in Topics : Broadcast(b, st, t)
       \/ BroadcastTelemetry(b)
       \/ \E s \in Sockets : Delivered(b, s) \/ Undelivered(b, s)

StreamingSpec == StreamingInit /\ [][StreamingNext]_streamingVars
-----------------------------------------------------------------------------
(* Properties.                                                              *)

(* Every variable keeps its type, and only clients that are entered have    *)
(* subscriptions.                                                           *)
StreamingTypeOK ==
  /\ endpoint \in [Sockets -> [wait : Waits, stream : Streams]]
  /\ lost \subseteq Sockets /\ active \subseteq Sockets
  /\ subscriptions \in [Sockets -> SUBSET Channels]
  /\ members \in [Channels -> SUBSET Sockets]
  /\ cast \in [Casts -> [stream : Streams, todo : SUBSET Sockets,
                         stale : SUBSET Sockets, next : SUBSET {ALL}]]
  /\ steady \in [Casts -> SUBSET Sockets] /\ served \in [Casts -> SUBSET Sockets]

(* The manager's two directories never disagree, whichever of a client's    *)
(* endpoint and the broadcasts removes it first, and while its endpoint goes *)
(* on serving a client that a broadcast has removed.                        *)
DirectoriesAgree ==
  /\ \A c \in Channels : members[c] = {s \in active : c \in subscriptions[s]}
  /\ \A s \in Sockets \ active : subscriptions[s] = {}

(* One bad client does not cost another its message: when a broadcast is    *)
(* over it was sent to every client that listened to its topic or to ALL    *)
(* all along and whose connection still stands.                             *)
SteadyListenersServed ==
  \A b \in Casts : cast[b] = Quiet =>
    \A s \in steady[b] : s \in served[b] \/ s \in lost \/ endpoint[s].wait = "closed"
=============================================================================
