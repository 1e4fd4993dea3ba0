--------------------------- MODULE Services_proofs ---------------------------
(***************************************************************************)
(* Proofs about the services that share no state: the streams, the strategy  *)
(* sandbox, the accounts, the webhook's guard, the notifications and the     *)
(* uploads of sheets, and the types of all of them together.                *)
(***************************************************************************)
EXTENDS MCServices, Strategy_proofs

-----------------------------------------------------------------------------
(* The streams.                                                             *)

(* What the proof needs of the types.                                       *)
Directory ==
  /\ active \subseteq Sockets
  /\ subscriptions \in [Sockets -> SUBSET Channels]
  /\ members \in [Channels -> SUBSET Sockets]

Endpoints ==
  /\ endpoint \in [Sockets -> [wait : Waits, stream : Streams]]
  /\ \A s \in Sockets : endpoint[s].wait = "unopened" => s \notin active

StreamInv == Directory /\ Endpoints /\ DirectoriesAgree

(* Every operation of the manager keeps its directories in agreement.        *)
LEMMA EnterKeeps ==
  ASSUME Directory, DirectoriesAgree, NEW s \in Sockets, s \notin active, Enter(s)
  PROVE  Directory' /\ DirectoriesAgree'
<1>1. subscriptions[s] = {} /\ subscriptions' = subscriptions
  BY DEF Directory, DirectoriesAgree, Enter
<1>2. Directory'
  BY <1>1 DEF Directory, Enter
<1>3. \A c \in Channels : members'[c] = {x \in active' : c \in subscriptions'[x]}
  BY <1>1 DEF Directory, DirectoriesAgree, Enter
<1>4. QED
  BY <1>1, <1>2, <1>3 DEF DirectoriesAgree, Directory, Enter

LEMMA LeaveKeeps ==
  ASSUME Directory, DirectoriesAgree, NEW S \in SUBSET Sockets, Leave(S)
  PROVE  Directory' /\ DirectoriesAgree' /\ active' \subseteq active
<1>1. Directory'
  BY DEF Directory, Leave, MembersWithout
<1>2. \A c \in Channels : members'[c] = {x \in active' : c \in subscriptions'[x]}
  BY DEF Directory, DirectoriesAgree, Leave, MembersWithout
<1>3. \A x \in Sockets \ active' : subscriptions'[x] = {}
  BY DEF Directory, DirectoriesAgree, Leave
<1>4. QED
  BY <1>1, <1>2, <1>3 DEF DirectoriesAgree, Leave

LEMMA SubscribeKeeps ==
  ASSUME Directory, DirectoriesAgree, NEW s \in Sockets, NEW chs \in SUBSET Channels,
         Subscribe(s, chs)
  PROVE  Directory' /\ DirectoriesAgree' /\ active' = active
<1>1. CASE s \in active
  <2>1. Directory' /\ active' = active
    BY <1>1 DEF Directory, Subscribe
  <2>2. \A c \in Channels : members'[c] = {x \in active' : c \in subscriptions'[x]}
    BY <1>1 DEF Directory, DirectoriesAgree, Subscribe
  <2>3. \A x \in Sockets \ active' : subscriptions'[x] = {}
    BY <1>1 DEF Directory, DirectoriesAgree, Subscribe
  <2>4. QED
    BY <2>1, <2>2, <2>3 DEF DirectoriesAgree
<1>2. CASE s \notin active
  BY <1>2 DEF Directory, DirectoriesAgree, Subscribe
<1>3. QED
  BY <1>1, <1>2

LEMMA UnsubscribeKeeps ==
  ASSUME Directory, DirectoriesAgree, NEW s \in Sockets, NEW chs \in SUBSET Channels,
         Unsubscribe(s, chs)
  PROVE  Directory' /\ DirectoriesAgree' /\ active' = active
<1>1. CASE s \in active
  <2>1. Directory' /\ active' = active
    BY <1>1 DEF Directory, Unsubscribe
  <2>2. \A c \in Channels : members'[c] = {x \in active' : c \in subscriptions'[x]}
    BY <1>1 DEF Directory, DirectoriesAgree, Unsubscribe
  <2>3. \A x \in Sockets \ active' : subscriptions'[x] = {}
    BY <1>1 DEF Directory, DirectoriesAgree, Unsubscribe
  <2>4. QED
    BY <2>1, <2>2, <2>3 DEF DirectoriesAgree
<1>2. CASE s \notin active
  BY <1>2 DEF Directory, DirectoriesAgree, Unsubscribe
<1>3. QED
  BY <1>1, <1>2

(* A step of an endpoint that keeps its stream and does not unopen it.       *)
LEMMA WaitingKeeps ==
  ASSUME Endpoints, NEW s \in Sockets, NEW w \in Waits \ {"unopened"}, Waiting(s, w),
         active' \subseteq active
  PROVE  Endpoints'
BY DEF Endpoints, Waiting, Waits

LEMMA EndpointStepKeeps ==
  ASSUME StreamInv, NEW s \in Sockets,
         \/ \E st \in Streams : OpenSocket(s, st)
         \/ SentByEndpoint(s) \/ ClientPings(s) \/ ClientGarbles(s)
         \/ \E topics \in SUBSET (Topics \cup {ALL}) :
              ClientSubscribes(s, topics) \/ ClientUnsubscribes(s, topics)
         \/ PeerGoes(s) \/ EndpointEnds(s)
  PROVE  StreamInv'
<1>1. ASSUME NEW st \in Streams, OpenSocket(s, st)
      PROVE  StreamInv'
  <2>1. s \notin active
    BY <1>1 DEF StreamInv, Endpoints, OpenSocket
  <2>2. Directory' /\ DirectoriesAgree'
    BY <1>1, <2>1, EnterKeeps DEF StreamInv, OpenSocket
  <2>3. Endpoints'
    BY <1>1 DEF StreamInv, Endpoints, OpenSocket, Enter, Waits
  <2>4. QED
    BY <2>2, <2>3 DEF StreamInv
<1>2. CASE SentByEndpoint(s) \/ ClientPings(s)
  <2>1. \E w \in Waits \ {"unopened"} : Waiting(s, w)
    BY <1>2 DEF SentByEndpoint, ClientPings, Waits
  <2>2. UNCHANGED <<active, subscriptions, members>>
    BY <1>2 DEF SentByEndpoint, ClientPings
  <2>3. Endpoints'
    BY <2>1, <2>2, WaitingKeeps DEF StreamInv
  <2>4. QED
    BY <2>2, <2>3 DEF StreamInv, Directory, DirectoriesAgree
<1>3. CASE ClientGarbles(s)
  <2>1. CASE endpoint[s].stream = "telemetry"
    BY <1>3, <2>1 DEF ClientGarbles, StreamInv, Directory, Endpoints, DirectoriesAgree
  <2>2. CASE endpoint[s].stream # "telemetry"
    <3>1. Leave({s}) /\ Waiting(s, "closed")
      BY <1>3, <2>2 DEF ClientGarbles
    <3>2. Directory' /\ DirectoriesAgree' /\ active' \subseteq active
      BY <3>1, LeaveKeeps DEF StreamInv
    <3>3. QED
      BY <3>1, <3>2, WaitingKeeps DEF StreamInv, Waits
  <2>3. QED
    BY <2>1, <2>2
<1>4. ASSUME NEW topics \in SUBSET (Topics \cup {ALL}), ClientSubscribes(s, topics)
      PROVE  StreamInv'
  <2>1. endpoint[s].stream \in {"market", "orders"}
    BY <1>4 DEF ClientSubscribes, StreamInv, Endpoints, Streams
  <2>2. Requested(endpoint[s].stream, topics) \in SUBSET Channels
    BY <2>1 DEF Requested, Channels
  <2>3. Directory' /\ DirectoriesAgree' /\ active' = active
    BY <1>4, <2>2, SubscribeKeeps DEF ClientSubscribes, StreamInv
  <2>4. Endpoints'
    BY <1>4, <2>3, WaitingKeeps DEF ClientSubscribes, StreamInv, Waits
  <2>5. QED
    BY <2>3, <2>4 DEF StreamInv
<1>5. ASSUME NEW topics \in SUBSET (Topics \cup {ALL}), ClientUnsubscribes(s, topics)
      PROVE  StreamInv'
  <2>1. {"market"} \X topics \in SUBSET Channels
    BY DEF Channels
  <2>2. Directory' /\ DirectoriesAgree' /\ active' = active
    BY <1>5, <2>1, UnsubscribeKeeps DEF ClientUnsubscribes, StreamInv
  <2>3. Endpoints'
    BY <1>5, <2>2, WaitingKeeps DEF ClientUnsubscribes, StreamInv, Waits
  <2>4. QED
    BY <2>2, <2>3 DEF StreamInv
<1>6. CASE PeerGoes(s)
  BY <1>6 DEF PeerGoes, StreamInv, Directory, Endpoints, DirectoriesAgree
<1>7. CASE EndpointEnds(s)
  <2>1. Leave({s}) /\ Waiting(s, "closed")
    BY <1>7 DEF EndpointEnds
  <2>2. Directory' /\ DirectoriesAgree' /\ active' \subseteq active
    BY <2>1, LeaveKeeps DEF StreamInv
  <2>3. QED
    BY <2>1, <2>2, WaitingKeeps DEF StreamInv, Waits
<1>8. QED
  BY <1>1, <1>2, <1>3, <1>4, <1>5, <1>6, <1>7

(* A broadcast that goes on removes some clients at most.                    *)
LEMMA GoesOnKeeps ==
  ASSUME StreamInv, NEW b \in Casts, NEW s \in Sockets, NEW stale \in SUBSET Sockets,
         GoesOn(b, s, stale), UNCHANGED endpoint
  PROVE  StreamInv'
<1>1. CASE UNCHANGED <<active, subscriptions, members>>
  BY <1>1 DEF StreamInv, Directory, Endpoints, DirectoriesAgree
<1>2. CASE Leave(stale)
  <2>1. Directory' /\ DirectoriesAgree' /\ active' \subseteq active
    BY <1>2, LeaveKeeps DEF StreamInv
  <2>2. QED
    BY <2>1 DEF StreamInv, Endpoints
<1>3. QED
  BY <1>1, <1>2 DEF GoesOn

(* Broadcasts are to clients, and only those of a topic go on to ALL.        *)
Recipients ==
  /\ cast \in [Casts -> [stream : Streams, todo : SUBSET Sockets,
                         stale : SUBSET Sockets, next : SUBSET {ALL}]]
  /\ \A b \in Casts : cast[b].next # {} => cast[b].stream \in {"market", "orders"}

(* The inductive invariant.                                                 *)
StreamingInv == StreamInv /\ Recipients

LEMMA ListenersAreRecipients ==
  ASSUME NEW m \in [Channels -> SUBSET Sockets], NEW st \in {"market", "orders"},
         NEW topics \in SUBSET (Topics \cup {ALL})
  PROVE  /\ Listeners(m, st, topics) \in [stream : Streams, todo : SUBSET Sockets,
                                          stale : SUBSET Sockets, next : SUBSET {ALL}]
         /\ Listeners(m, st, topics).stream \in {"market", "orders"}
<1> DEFINE withAny == {t \in topics : m[<<st, t>>] # {}}
           t == IF withAny = {ALL} THEN ALL ELSE CHOOSE x \in withAny : x # ALL
<1>1. CASE withAny = {}
  BY <1>1 DEF Listeners, Quiet, Streams
<1>2. CASE withAny # {}
  <2>1. t \in withAny
    <3>1. CASE withAny = {ALL}
      BY <3>1
    <3>2. CASE withAny # {ALL}
      <4>1. \E x \in withAny : x # ALL
        BY <1>2, <3>2
      <4>2. QED
        BY <3>2, <4>1
    <3>3. QED
      BY <3>1, <3>2
  <2>2. <<st, t>> \in Channels
    BY <2>1 DEF Channels
  <2>3. m[<<st, t>>] \in SUBSET Sockets
    BY <2>2
  <2>4. Listeners(m, st, topics) =
          [stream |-> st, todo |-> m[<<st, t>>], stale |-> {},
           next |-> IF t = ALL THEN {} ELSE {ALL}]
    BY <1>2 DEF Listeners
  <2>5. (IF t = ALL THEN {} ELSE {ALL}) \in SUBSET {ALL}
    BY Zenon
  <2>6. st \in Streams
    BY DEF Streams
  <2> HIDE DEF t
  <2>7. QED
    BY <2>3, <2>4, <2>5, <2>6
<1>3. QED
  BY <1>1, <1>2

LEMMA GoesOnToRecipients ==
  ASSUME StreamingInv, NEW b \in Casts, NEW s \in Sockets, NEW stale \in SUBSET Sockets,
         GoesOn(b, s, stale)
  PROVE  Recipients'
<1> DEFINE Cast == [stream : Streams, todo : SUBSET Sockets,
                    stale : SUBSET Sockets, next : SUBSET {ALL}]
<1>1. cast[b] \in Cast
  BY DEF StreamingInv, Recipients
<1>2. CASE cast[b].todo \ {s} # {}
  <2>1. cast' = [cast EXCEPT ![b] = [cast[b] EXCEPT !.todo = cast[b].todo \ {s}, !.stale = stale]]
    BY <1>1, <1>2 DEF GoesOn, StreamingInv, Recipients
  <2>2. [cast[b] EXCEPT !.todo = cast[b].todo \ {s}, !.stale = stale] \in Cast
    BY <1>1
  <2>3. QED
    BY <1>1, <2>1, <2>2 DEF StreamingInv, Recipients
<1>3. CASE cast[b].todo \ {s} = {}
  <2>1. CASE cast[b].next = {}
    <3>1. cast' = [cast EXCEPT ![b] = Quiet]
      BY <1>3, <2>1 DEF GoesOn
    <3>2. Quiet \in Cast /\ Quiet.next = {}
      BY DEF Quiet, Streams
    <3>3. QED
      BY <3>1, <3>2 DEF StreamingInv, Recipients
  <2>2. CASE cast[b].next # {}
    <3> DEFINE new == Listeners(MembersWithout(stale), cast[b].stream, cast[b].next)
    <3>1. cast' = [cast EXCEPT ![b] = new]
      BY <1>3, <2>2 DEF GoesOn
    <3>2. MembersWithout(stale) \in [Channels -> SUBSET Sockets]
      BY DEF MembersWithout, StreamingInv, StreamInv, Directory
    <3>3. cast[b].stream \in {"market", "orders"} /\ cast[b].next \in SUBSET (Topics \cup {ALL})
      BY <1>1, <2>2 DEF StreamingInv, Recipients
    <3>4. new \in Cast /\ new.stream \in {"market", "orders"}
      BY <3>2, <3>3, ListenersAreRecipients
    <3> HIDE DEF new
    <3>5. QED
      BY <3>1, <3>4 DEF StreamingInv, Recipients
  <2>3. QED
    BY <2>1, <2>2
<1>4. QED
  BY <1>2, <1>3

LEMMA InitStreams == StreamingInit => StreamingInv
BY DEF StreamingInit, StreamingInv, StreamInv, Directory, Endpoints, DirectoriesAgree,
       Recipients, Waits, Streams, Quiet

LEMMA StreamsStep == StreamingInv /\ [StreamingNext]_streamingVars => StreamingInv'
<1> SUFFICES ASSUME StreamingInv, [StreamingNext]_streamingVars
             PROVE  StreamingInv'
  OBVIOUS
<1>1. ASSUME NEW s \in Sockets,
             \/ \E st \in Streams : OpenSocket(s, st)
             \/ SentByEndpoint(s) \/ ClientPings(s) \/ ClientGarbles(s)
             \/ \E topics \in SUBSET (Topics \cup {ALL}) :
                  ClientSubscribes(s, topics) \/ ClientUnsubscribes(s, topics)
             \/ PeerGoes(s) \/ EndpointEnds(s)
      PROVE  StreamingInv'
  <2>1. StreamInv'
    BY <1>1, EndpointStepKeeps DEF StreamingInv
  <2>2. cast' = cast
    BY <1>1 DEF OpenSocket, SentByEndpoint, ClientPings, ClientGarbles, ClientSubscribes,
                ClientUnsubscribes, PeerGoes, EndpointEnds, Waiting
  <2>3. QED
    BY <2>1, <2>2 DEF StreamingInv, Recipients
<1>2. ASSUME NEW b \in Casts, NEW st \in {"market", "orders"}, NEW t \in Topics,
             Broadcast(b, st, t)
      PROVE  StreamingInv'
  <2>1. StreamInv'
    BY <1>2 DEF Broadcast, StreamingInv, StreamInv, Directory, Endpoints, DirectoriesAgree
  <2> DEFINE new == Listeners(members, st, {t, ALL})
  <2>2. cast' = [cast EXCEPT ![b] = new]
    BY <1>2 DEF Broadcast
  <2>3. /\ new \in [stream : Streams, todo : SUBSET Sockets,
                    stale : SUBSET Sockets, next : SUBSET {ALL}]
        /\ new.stream \in {"market", "orders"}
    BY ListenersAreRecipients DEF StreamingInv, StreamInv, Directory
  <2> HIDE DEF new
  <2>4. QED
    BY <2>1, <2>2, <2>3 DEF StreamingInv, Recipients
<1>3. ASSUME NEW b \in Casts, BroadcastTelemetry(b)
      PROVE  StreamingInv'
  <2>1. StreamInv'
    BY <1>3 DEF BroadcastTelemetry, StreamingInv, StreamInv, Directory, Endpoints,
                DirectoriesAgree
  <2> DEFINE clients == {s \in active : endpoint[s].stream = "telemetry"}
             new == [stream |-> "telemetry", todo |-> clients, stale |-> {}, next |-> {}]
  <2>2. cast' = [cast EXCEPT ![b] = new]
    BY <1>3 DEF BroadcastTelemetry
  <2>3. /\ new \in [stream : Streams, todo : SUBSET Sockets,
                    stale : SUBSET Sockets, next : SUBSET {ALL}]
        /\ new.next = {}
    BY DEF StreamingInv, StreamInv, Directory, Streams
  <2> HIDE DEF new
  <2>4. QED
    BY <2>1, <2>2, <2>3 DEF StreamingInv, Recipients
<1>4. ASSUME NEW b \in Casts, NEW s \in Sockets, Delivered(b, s) \/ Undelivered(b, s)
      PROVE  StreamingInv'
  <2>1. PICK stale \in SUBSET Sockets : GoesOn(b, s, stale)
    BY <1>4 DEF Delivered, Undelivered, StreamingInv, Recipients
  <2>2. UNCHANGED endpoint
    BY <1>4 DEF Delivered, Undelivered
  <2>3. QED
    BY <2>1, <2>2, GoesOnKeeps, GoesOnToRecipients DEF StreamingInv
<1>5. CASE UNCHANGED streamingVars
  BY <1>5 DEF streamingVars, StreamingInv, StreamInv, Directory, Endpoints,
              DirectoriesAgree, Recipients
<1>6. QED
  BY <1>1, <1>2, <1>3, <1>4, <1>5 DEF StreamingNext

(* The inductive invariant of the streams.                                  *)
THEOREM StreamingInvariant == StreamingSpec => []StreamingInv
<1>1. QED
  BY InitStreams, StreamsStep, PTL DEF StreamingSpec

(* The manager's two directories agree in every state (connection_manager).  *)
THEOREM StreamsKeepTheirDirectories == StreamingSpec => []DirectoriesAgree
<1>1. StreamingInv => DirectoriesAgree
  BY DEF StreamingInv, StreamInv
<1>2. QED
  BY <1>1, StreamingInvariant, PTL

(* What a broadcast still owes: a steady listener is among the recipients at *)
(* hand, or listens to ALL, which comes next.                               *)
Gone(s) == s \in lost \/ endpoint[s].wait = "closed"

Owed(b, s) ==
  \/ s \in cast[b].todo
  \/ cast[b].next = {ALL} /\ s \in members[<<cast[b].stream, ALL>>]

BroadcastsOwe ==
  /\ steady \in [Casts -> SUBSET Sockets] /\ served \in [Casts -> SUBSET Sockets]
  /\ \A b \in Casts :
       /\ \A s \in cast[b].stale : Gone(s)
       /\ \A s \in steady[b] : s \in served[b] \/ Gone(s) \/ Owed(b, s)

(* A client that leaves takes no other client with it.                      *)
LEMMA LeaveSpares ==
  ASSUME Directory, NEW S \in SUBSET Sockets, NEW c \in Channels, NEW s \in members[c]
  PROVE  s \in MembersWithout(S)[c] \/ s \in S
BY DEF Directory, MembersWithout

(* What comes after everything is there for the broadcast that wants it.    *)
LEMMA NextIsAChannel ==
  ASSUME StreamingInv, NEW b \in Casts, cast[b].next = {ALL}
  PROVE  <<cast[b].stream, ALL>> \in Channels
<1>1. cast[b].stream \in {"market", "orders"}
  BY DEF StreamingInv, Recipients
<1>2. QED
  BY <1>1 DEF Channels

(* The recipients taken first, and those of ALL that come next, are all.    *)
LEMMA ListenersMissNobody ==
  ASSUME NEW m \in [Channels -> SUBSET Sockets], NEW st \in {"market", "orders"},
         NEW t \in Topics \cup {ALL}
  PROVE  /\ Listeners(m, st, {t, ALL}).stale = {}
         /\ \A s \in m[<<st, t>>] \cup m[<<st, ALL>>] :
              \/ s \in Listeners(m, st, {t, ALL}).todo
              \/ /\ Listeners(m, st, {t, ALL}).next = {ALL}
                 /\ Listeners(m, st, {t, ALL}).stream = st
                 /\ s \in m[<<st, ALL>>]
<1> DEFINE withAny == {u \in {t, ALL} : m[<<st, u>>] # {}}
           l == Listeners(m, st, {t, ALL})
<1>1. CASE withAny = {}
  <2>1. l = Quiet
    BY <1>1 DEF Listeners
  <2>2. m[<<st, t>>] = {} /\ m[<<st, ALL>>] = {}
    BY <1>1
  <2>3. QED
    BY <2>1, <2>2 DEF Quiet
<1>2. CASE withAny = {ALL}
  <2>1. l = [stream |-> st, todo |-> m[<<st, ALL>>], stale |-> {}, next |-> {}]
    BY <1>2 DEF Listeners
  <2>2. m[<<st, t>>] # {} => t \in withAny
    OBVIOUS
  <2>3. t = ALL \/ m[<<st, t>>] = {}
    BY <1>2, <2>2
  <2>4. l.stale = {} /\ l.todo = m[<<st, ALL>>]
    BY <2>1
  <2>5. \A s \in m[<<st, t>>] \cup m[<<st, ALL>>] : s \in m[<<st, ALL>>]
    BY <2>3
  <2> HIDE DEF l, withAny
  <2>6. \A s \in m[<<st, t>>] \cup m[<<st, ALL>>] : s \in l.todo
    BY <2>4, <2>5
  <2>7. QED
    BY <2>4, <2>6 DEF l
<1>3. CASE withAny # {} /\ withAny # {ALL}
  <2>1. t \in withAny /\ t # ALL
    BY <1>3
  <2>2. (CHOOSE x \in withAny : x # ALL) = t
    BY <2>1
  <2>3. l = [stream |-> st, todo |-> m[<<st, t>>], stale |-> {}, next |-> {ALL}]
    BY <1>3, <2>1, <2>2 DEF Listeners
  <2>4. l.stale = {} /\ l.todo = m[<<st, t>>] /\ l.next = {ALL} /\ l.stream = st
    BY <2>3, SMTT(30)
  <2> HIDE DEF l, withAny
  <2>5. QED
    BY <2>4 DEF l
<1>4. QED
  BY <1>1, <1>2, <1>3

(* A step of an endpoint frees a broadcast of a listener only if it leaves.  *)
LEMMA EndpointStepOwes ==
  ASSUME StreamingInv, BroadcastsOwe, NEW s \in Sockets,
         \/ \E st \in Streams : OpenSocket(s, st)
         \/ SentByEndpoint(s) \/ ClientPings(s) \/ ClientGarbles(s)
         \/ \E topics \in SUBSET (Topics \cup {ALL}) :
              ClientSubscribes(s, topics) \/ ClientUnsubscribes(s, topics)
         \/ PeerGoes(s) \/ EndpointEnds(s)
  PROVE  BroadcastsOwe'
<1>1. /\ Directory
      /\ endpoint \in [Sockets -> [wait : Waits, stream : Streams]]
      /\ cast \in [Casts -> [stream : Streams, todo : SUBSET Sockets,
                             stale : SUBSET Sockets, next : SUBSET {ALL}]]
  BY DEF StreamingInv, StreamInv, Endpoints, Recipients
<1>2. cast' = cast /\ served' = served /\ lost \subseteq lost'
  BY DEF OpenSocket, SentByEndpoint, ClientPings, ClientGarbles, ClientSubscribes,
         ClientUnsubscribes, PeerGoes, EndpointEnds, Waiting
<1>3. /\ steady' \in [Casts -> SUBSET Sockets]
      /\ \A b \in Casts : steady'[b] \subseteq steady[b]
  BY DEF BroadcastsOwe, OpenSocket, SentByEndpoint, ClientPings, ClientGarbles,
         ClientSubscribes, ClientUnsubscribes, PeerGoes, EndpointEnds
<1>4. \A x \in Sockets : endpoint[x].wait = "closed" => endpoint'[x].wait = "closed"
  BY <1>1 DEF OpenSocket, SentByEndpoint, ClientPings, ClientGarbles, ClientSubscribes,
              ClientUnsubscribes, PeerGoes, EndpointEnds, Waiting
<1>5. \A x \in Sockets : Gone(x) => Gone(x)'
  BY <1>2, <1>4 DEF Gone
<1>6. ASSUME NEW c \in Channels, NEW x \in members[c]
      PROVE  x \in members'[c] \/ Gone(x)' \/ \A b \in Casts : x \notin steady'[b]
  <2>1. CASE UNCHANGED members
    BY <2>1
  <2>2. CASE Leave({s}) /\ Waiting(s, "closed")
    <3>1. members'[c] = MembersWithout({s})[c]
      BY <2>2 DEF Leave
    <3>2. Gone(s)'
      BY <1>1, <2>2 DEF Waiting, Gone
    <3>3. QED
      BY <1>1, <3>1, <3>2, LeaveSpares
  <2>3. ASSUME NEW topics \in SUBSET (Topics \cup {ALL}), ClientSubscribes(s, topics)
        PROVE  x \in members'[c]
    BY <1>1, <2>3 DEF ClientSubscribes, Subscribe, Directory
  <2>4. ASSUME NEW topics \in SUBSET (Topics \cup {ALL}), ClientUnsubscribes(s, topics)
        PROVE  x \in members'[c] \/ \A b \in Casts : x \notin steady'[b]
    <3>1. x # s => x \in members'[c]
      BY <1>1, <2>4 DEF ClientUnsubscribes, Unsubscribe, Directory
    <3>2. \A b \in Casts : s \notin steady'[b]
      BY <2>4 DEF ClientUnsubscribes
    <3>3. QED
      BY <3>1, <3>2
  <2>5. QED
    BY <2>1, <2>2, <2>3, <2>4
       DEF OpenSocket, Enter, SentByEndpoint, ClientPings, ClientGarbles, PeerGoes, EndpointEnds
<1>7. ASSUME NEW b \in Casts
      PROVE  /\ \A x \in cast[b].stale : Gone(x)'
             /\ \A x \in steady'[b] : x \in served[b] \/ Gone(x)' \/ Owed(b, x)'
  <2>1. \A x \in cast[b].stale : Gone(x)'
    BY <1>1, <1>5 DEF BroadcastsOwe
  <2>2. ASSUME NEW x \in steady'[b]
        PROVE  x \in served[b] \/ Gone(x)' \/ Owed(b, x)'
    <3>1. x \in Sockets /\ (x \in served[b] \/ Gone(x) \/ Owed(b, x))
      BY <1>3, <2>2 DEF BroadcastsOwe
    <3>2. CASE cast[b].next = {ALL} /\ x \in members[<<cast[b].stream, ALL>>]
      BY <1>2, <1>6, <2>2, <3>2, NextIsAChannel DEF Owed
    <3>3. QED
      BY <1>2, <1>5, <3>1, <3>2 DEF Owed
  <2>3. QED
    BY <2>1, <2>2
<1>8. QED
  BY <1>2, <1>3, <1>7 DEF BroadcastsOwe

(* With a recipient behind it, a broadcast owes the others as much as before. *)
LEMMA GoingOnOwes ==
  ASSUME StreamingInv, BroadcastsOwe, NEW b \in Casts, NEW s \in cast[b].todo,
         NEW stale \in SUBSET Sockets, GoesOn(b, s, stale),
         UNCHANGED <<endpoint, lost, steady>>,
         \A x \in stale : Gone(x),
         served' \in [Casts -> SUBSET Sockets],
         \A d \in Casts : served[d] \subseteq served'[d],
         s \in served'[b] \/ Gone(s)
  PROVE  BroadcastsOwe'
<1>1. /\ Directory
      /\ cast \in [Casts -> [stream : Streams, todo : SUBSET Sockets,
                             stale : SUBSET Sockets, next : SUBSET {ALL}]]
  BY DEF StreamingInv, StreamInv, Recipients
<1>2. \A x : Gone(x)' <=> Gone(x)
  BY DEF Gone
<1>3. \A c \in Channels : \A x : x \in members[c] => x \in members'[c] \/ Gone(x)
  <2>1. UNCHANGED members \/ Leave(stale)
    BY DEF GoesOn
  <2>2. CASE Leave(stale)
    BY <1>1, <2>2, LeaveSpares DEF Leave
  <2>3. QED
    BY <2>1, <2>2
<1>4. ASSUME NEW d \in Casts, cast'[d] = cast[d]
      PROVE  \A x : Owed(d, x) => Owed(d, x)' \/ Gone(x)
  BY <1>3, <1>4, NextIsAChannel DEF Owed
<1>5. ASSUME NEW d \in Casts \ {b}
      PROVE  cast'[d] = cast[d]
  BY <1>1 DEF GoesOn
<1>6. /\ \A x \in cast'[b].stale : Gone(x)
      /\ \A x : Owed(b, x) => x = s \/ Owed(b, x)' \/ Gone(x)
  <2>1. CASE cast[b].todo \ {s} # {}
    <3>1. /\ cast'[b].todo = cast[b].todo \ {s} /\ cast'[b].stale = stale
          /\ cast'[b].next = cast[b].next /\ cast'[b].stream = cast[b].stream
      BY <1>1, <2>1 DEF GoesOn
    <3>2. QED
      BY <1>3, <3>1, NextIsAChannel DEF Owed
  <2>2. CASE cast[b].todo \ {s} = {} /\ cast[b].next = {}
    <3>1. cast'[b] = Quiet
      BY <1>1, <2>2 DEF GoesOn
    <3>2. QED
      BY <2>2, <3>1 DEF Owed, Quiet
  <2>3. CASE cast[b].todo \ {s} = {} /\ cast[b].next = {ALL}
    <3> DEFINE m == MembersWithout(stale)
               new == Listeners(m, cast[b].stream, {ALL, ALL})
    <3>1. cast'[b] = new
      <4>1. cast' = [cast EXCEPT ![b] = Listeners(m, cast[b].stream, {ALL})]
        BY <2>3 DEF GoesOn
      <4>2. {ALL, ALL} = {ALL}
        OBVIOUS
      <4> HIDE DEF m
      <4>3. cast'[b] = Listeners(m, cast[b].stream, {ALL})
        BY <1>1, <4>1
      <4>4. QED
        BY <4>2, <4>3
    <3>2. m \in [Channels -> SUBSET Sockets]
      BY <1>1 DEF MembersWithout, Directory
    <3>3. cast[b].stream \in {"market", "orders"}
      BY <2>3 DEF StreamingInv, Recipients
    <3> HIDE DEF m
    <3>4. /\ new.stale = {}
          /\ \A x \in m[<<cast[b].stream, ALL>>] : x \in new.todo \/ (new.next = {ALL}
               /\ new.stream = cast[b].stream /\ x \in m[<<cast[b].stream, ALL>>])
      BY <3>2, <3>3, ListenersMissNobody
    <3>5. \A x \in members[<<cast[b].stream, ALL>>] : x \in m[<<cast[b].stream, ALL>>] \/ Gone(x)
      BY <1>1, <2>3, NextIsAChannel, LeaveSpares DEF m
    <3>6. members' = m
      BY <2>3 DEF GoesOn, Leave, m
    <3> HIDE DEF new
    <3>7. QED
      BY <2>3, <3>1, <3>4, <3>5, <3>6 DEF Owed
  <2>4. QED
    BY <1>1, <2>1, <2>2, <2>3
<1>7. ASSUME NEW d \in Casts
      PROVE  /\ \A x \in cast'[d].stale : Gone(x)'
             /\ \A x \in steady'[d] : x \in served'[d] \/ Gone(x)' \/ Owed(d, x)'
  <2>1. /\ \A x \in cast[d].stale : Gone(x)
        /\ \A x \in steady[d] : x \in served[d] \/ Gone(x) \/ Owed(d, x)
        /\ served[d] \subseteq served'[d] /\ steady' = steady
    BY DEF BroadcastsOwe
  <2>2. CASE d = b
    BY <1>2, <1>6, <2>1, <2>2
  <2>3. CASE d # b
    BY <1>2, <1>4, <1>5, <2>1, <2>3
  <2>4. QED
    BY <2>2, <2>3
<1>8. QED
  BY <1>7 DEF BroadcastsOwe

(* A broadcast begins by owing all its listeners.                           *)
LEMMA BroadcastOwes ==
  ASSUME StreamingInv, BroadcastsOwe, NEW b \in Casts,
         \/ \E st \in {"market", "orders"}, t \in Topics : Broadcast(b, st, t)
         \/ BroadcastTelemetry(b)
  PROVE  BroadcastsOwe'
<1>1. /\ members \in [Channels -> SUBSET Sockets] /\ active \subseteq Sockets
      /\ cast \in [Casts -> [stream : Streams, todo : SUBSET Sockets,
                             stale : SUBSET Sockets, next : SUBSET {ALL}]]
  BY DEF StreamingInv, StreamInv, Directory, Recipients
<1>2. /\ endpoint' = endpoint /\ lost' = lost /\ members' = members
      /\ served' = [served EXCEPT ![b] = {}]
  BY DEF Broadcast, BroadcastTelemetry
<1>3. ASSUME NEW new, NEW all \in SUBSET Sockets,
             cast' = [cast EXCEPT ![b] = new], steady' = [steady EXCEPT ![b] = all],
             new.stale = {},
             \A x \in all : x \in new.todo
               \/ (new.next = {ALL} /\ x \in members[<<new.stream, ALL>>])
      PROVE  BroadcastsOwe'
  <2>1. cast'[b] = new /\ steady'[b] = all
    BY <1>1, <1>3 DEF BroadcastsOwe
  <2>2. \A d \in Casts \ {b} : cast'[d] = cast[d] /\ steady'[d] = steady[d] /\ served'[d] = served[d]
    BY <1>1, <1>2, <1>3 DEF BroadcastsOwe
  <2>3. steady' \in [Casts -> SUBSET Sockets] /\ served' \in [Casts -> SUBSET Sockets]
    BY <1>2, <1>3 DEF BroadcastsOwe
  <2>4. \A x : Gone(x)' <=> Gone(x)
    BY <1>2 DEF Gone
  <2>5. \A x \in all : Owed(b, x)'
    BY <1>2, <1>3, <2>1 DEF Owed
  <2>6. \A d \in Casts \ {b} : \A x : Owed(d, x)' <=> Owed(d, x)
    BY <1>2, <2>2 DEF Owed
  <2>7. ASSUME NEW d \in Casts
        PROVE  /\ \A x \in cast'[d].stale : Gone(x)'
               /\ \A x \in steady'[d] : x \in served'[d] \/ Gone(x)' \/ Owed(d, x)'
    <3>1. CASE d = b
      BY <1>3, <2>1, <2>5, <3>1
    <3>2. CASE d # b
      BY <2>2, <2>4, <2>6, <3>2 DEF BroadcastsOwe
    <3>3. QED
      BY <3>1, <3>2
  <2>8. QED
    BY <2>3, <2>7 DEF BroadcastsOwe
<1>4. ASSUME NEW st \in {"market", "orders"}, NEW t \in Topics, Broadcast(b, st, t)
      PROVE  BroadcastsOwe'
  <2> DEFINE new == Listeners(members, st, {t, ALL})
             all == members[<<st, t>>] \cup members[<<st, ALL>>]
  <2>1. cast' = [cast EXCEPT ![b] = new] /\ steady' = [steady EXCEPT ![b] = all]
    BY <1>4 DEF Broadcast
  <2>2. all \in SUBSET Sockets
    BY <1>1 DEF Channels
  <2>3. /\ new.stale = {}
        /\ \A x \in all : x \in new.todo \/ (new.next = {ALL} /\ new.stream = st
                                             /\ x \in members[<<st, ALL>>])
    <3>1. t \in Topics \cup {ALL}
      OBVIOUS
    <3>2. QED
      BY <1>1, <3>1, ListenersMissNobody
  <2> HIDE DEF new, all
  <2>4. QED
    BY <1>3, <2>1, <2>2, <2>3
<1>5. CASE BroadcastTelemetry(b)
  <2> DEFINE all == {s \in active : endpoint[s].stream = "telemetry"}
             new == [stream |-> "telemetry", todo |-> all, stale |-> {}, next |-> {}]
  <2>1. cast' = [cast EXCEPT ![b] = new] /\ steady' = [steady EXCEPT ![b] = all]
    BY <1>5 DEF BroadcastTelemetry
  <2>2. all \in SUBSET Sockets /\ new.stale = {} /\ new.todo = all
    BY <1>1
  <2> HIDE DEF new, all
  <2>3. QED
    BY <1>3, <2>1, <2>2
<1>6. QED
  BY <1>4, <1>5

LEMMA InitOwes == StreamingInit => BroadcastsOwe
BY DEF StreamingInit, BroadcastsOwe, Quiet

LEMMA OwesStep == StreamingInv /\ BroadcastsOwe /\ [StreamingNext]_streamingVars => BroadcastsOwe'
<1> SUFFICES ASSUME StreamingInv, BroadcastsOwe, [StreamingNext]_streamingVars
             PROVE  BroadcastsOwe'
  OBVIOUS
<1>1. ASSUME NEW b \in Casts, NEW s \in Sockets, Delivered(b, s)
      PROVE  BroadcastsOwe'
  <2>1. /\ s \in cast[b].todo /\ GoesOn(b, s, cast[b].stale)
        /\ served' = [served EXCEPT ![b] = @ \cup {s}]
        /\ UNCHANGED <<endpoint, lost, steady>>
    BY <1>1 DEF Delivered
  <2>2. cast[b].stale \in SUBSET Sockets /\ \A x \in cast[b].stale : Gone(x)
    BY DEF StreamingInv, Recipients, BroadcastsOwe
  <2>3. /\ served' \in [Casts -> SUBSET Sockets] /\ s \in served'[b]
        /\ \A d \in Casts : served[d] \subseteq served'[d]
    BY <2>1 DEF BroadcastsOwe
  <2>4. QED
    BY <2>1, <2>2, <2>3, GoingOnOwes
<1>2. ASSUME NEW b \in Casts, NEW s \in Sockets, Undelivered(b, s)
      PROVE  BroadcastsOwe'
  <2>1. /\ s \in cast[b].todo /\ GoesOn(b, s, cast[b].stale \cup {s})
        /\ Gone(s) /\ served' = served /\ UNCHANGED <<endpoint, lost, steady>>
    BY <1>2 DEF Undelivered, Gone
  <2>2. /\ cast[b].stale \cup {s} \in SUBSET Sockets
        /\ \A x \in cast[b].stale \cup {s} : Gone(x)
    BY <2>1 DEF StreamingInv, Recipients, BroadcastsOwe
  <2>3. served' \in [Casts -> SUBSET Sockets] /\ \A d \in Casts : served[d] \subseteq served'[d]
    BY <2>1 DEF BroadcastsOwe
  <2>4. QED
    BY <2>1, <2>2, <2>3, GoingOnOwes
<1>3. CASE UNCHANGED streamingVars
  BY <1>3 DEF streamingVars, BroadcastsOwe, Gone, Owed
<1>4. QED
  BY <1>1, <1>2, <1>3, EndpointStepOwes, BroadcastOwes DEF StreamingNext

(* No client, stale, slow or leaving, costs another one its message          *)
(* (broadcast and its removal of stale clients in connection_manager).       *)
THEOREM SteadyAreServed == StreamingSpec => []SteadyListenersServed
<1>1. BroadcastsOwe => SteadyListenersServed
  <2> SUFFICES ASSUME BroadcastsOwe, NEW b \in Casts, cast[b] = Quiet, NEW s \in steady[b]
               PROVE  s \in served[b] \/ s \in lost \/ endpoint[s].wait = "closed"
    BY DEF SteadyListenersServed
  <2>1. cast[b].todo = {} /\ cast[b].next = {}
    BY DEF Quiet
  <2>2. s \in served[b] \/ Gone(s) \/ Owed(b, s)
    BY DEF BroadcastsOwe
  <2>3. QED
    BY <2>1, <2>2 DEF Gone, Owed
<1>2. QED
  BY InitOwes, OwesStep, <1>1, StreamingInvariant, PTL DEF StreamingSpec

-----------------------------------------------------------------------------
(* The strategy sandbox.                                                    *)

SandboxInv ==
  /\ waiting \in [Calls -> StrategyIds \cup {NoId}]
  /\ tasks \in [StrategyIds -> Calls \cup {NoCall}]
  /\ TasksAreAwaited

LEMMA AnswerKeeps ==
  ASSUME SandboxInv, NEW c \in Calls, NEW result, Pending(c), AnswerCall(c, result)
  PROVE  SandboxInv'
BY SandboxAssumption DEF SandboxInv, TasksAreAwaited, Pending, AnswerCall

LEMMA InitSandbox == SandboxInit => SandboxInv
BY DEF SandboxInit, SandboxInv, TasksAreAwaited

LEMMA SandboxStep == SandboxInv /\ [SandboxNext]_sandboxVars => SandboxInv'
<1> SUFFICES ASSUME SandboxInv, [SandboxNext]_sandboxVars
             PROVE  SandboxInv'
  OBVIOUS
<1>1. CASE UNCHANGED <<waiting, tasks>>
  BY <1>1 DEF SandboxInv, TasksAreAwaited
<1>2. ASSUME NEW c \in Calls, TimeRunsOut(c)
      PROVE  SandboxInv'
  BY <1>2, AnswerKeeps DEF TimeRunsOut
<1>3. ASSUME NEW c \in Calls, NEW i \in StrategyIds, ExecuteIsolated(c, i)
      PROVE  SandboxInv'
  BY <1>3, SandboxAssumption DEF ExecuteIsolated, SandboxInv, TasksAreAwaited, Pending
<1>4. ASSUME NEW c \in Calls, NEW result \in {"success", "error"}, ScriptEnds(c, result)
      PROVE  SandboxInv'
  <2>1. CASE Pending(c)
    BY <1>4, <2>1, AnswerKeeps DEF ScriptEnds
  <2>2. CASE ~Pending(c)
    BY <1>1, <1>4, <2>2 DEF ScriptEnds
  <2>3. QED
    BY <2>1, <2>2
<1>5. QED
  BY <1>1, <1>2, <1>3, <1>4 DEF SandboxNext, ThreadStarts, RejectScript, sandboxVars

(* The runner's table never holds a call that was answered (runner.py), for   *)
(* any number of calls, strategies and threads.                             *)
THEOREM TasksStayAwaited == SandboxSpec => []TasksAreAwaited
<1>1. SandboxInv => TasksAreAwaited
  BY DEF SandboxInv
<1>2. QED
  BY InitSandbox, SandboxStep, <1>1, PTL DEF SandboxSpec

-----------------------------------------------------------------------------
(* The accounts.                                                            *)

AccountsInv ==
  /\ users \in [UserIds -> [box : Boxes, spelling : Spellings, role : Roles] \cup {NoUser}]
  /\ logins \in [Mails -> UserIds \cup {NoOwner}]
  /\ AccountsKeepTheirLogins

LEMMA RegisterKeeps ==
  ASSUME AccountsInv, NEW u \in UserIds, NEW mail \in Mails, NEW role \in Roles,
         RegisterUser(u, mail, role)
  PROVE  AccountsInv'
<1> DEFINE new == [box |-> mail[1], spelling |-> mail[2], role |-> role]
           key == LookedUp(mail)
<1>1. /\ users' = [users EXCEPT ![u] = new] /\ logins' = [logins EXCEPT ![key] = u]
      /\ users[u] = NoUser /\ logins[key] = NoOwner
  BY DEF RegisterUser
<1>2. mail[1] \in Boxes /\ mail[2] \in Spellings /\ mail = <<mail[1], mail[2]>>
  BY DEF Mails
<1>3. key \in Mails
  <2>1. (CHOOSE s \in Spellings : TRUE) \in Spellings
    BY <1>2
  <2>2. QED
    BY <1>2, <2>1 DEF LookedUp, Mails
<1>4. \A s \in Spellings : LookedUp(<<mail[1], s>>) = key
  BY DEF LookedUp
<1> HIDE DEF key
<1>5. ASSUME NEW w \in UserIds, users'[w] # NoUser, NEW s \in Spellings
      PROVE  logins'[LookedUp(<<users'[w].box, s>>)] = w
  <2>1. CASE w = u
    <3>1. users'[w].box = mail[1]
      BY <1>1, <2>1 DEF AccountsInv
    <3>2. QED
      BY <1>1, <1>3, <1>4, <2>1, <3>1 DEF AccountsInv
  <2>2. CASE w # u
    <3>1. users'[w] = users[w]
      BY <1>1, <2>2 DEF AccountsInv
    <3>2. logins[LookedUp(<<users[w].box, s>>)] = w
      BY <1>5, <3>1 DEF AccountsInv, AccountsKeepTheirLogins
    <3>3. LookedUp(<<users[w].box, s>>) # key
      BY <1>1, <3>2, AccountsAssumption
    <3>4. logins'[LookedUp(<<users[w].box, s>>)] = logins[LookedUp(<<users[w].box, s>>)]
      <4>1. LookedUp(<<users[w].box, s>>) \in Mails
        <5>1. users[w].box \in Boxes
          BY <1>5, <3>1 DEF AccountsInv
        <5>2. (CHOOSE x \in Spellings : TRUE) \in Spellings
          BY <1>2
        <5>3. QED
          BY <5>1, <5>2 DEF LookedUp, Mails
      <4>2. QED
        BY <1>1, <3>3, <4>1 DEF AccountsInv
    <3>5. QED
      BY <3>1, <3>2, <3>4
  <2>3. QED
    BY <2>1, <2>2
<1>6. QED
  BY <1>1, <1>2, <1>3, <1>5 DEF AccountsInv, AccountsKeepTheirLogins

LEMMA InitLogins == AccountsInit => AccountsInv
BY DEF AccountsInit, AccountsInv, AccountsKeepTheirLogins

LEMMA LoginsStep == AccountsInv /\ [AccountsNext]_accountVars => AccountsInv'
<1> SUFFICES ASSUME AccountsInv, [AccountsNext]_accountVars
             PROVE  AccountsInv'
  OBVIOUS
<1>1. CASE UNCHANGED <<users, logins>>
  BY <1>1 DEF AccountsInv, AccountsKeepTheirLogins
<1>2. ASSUME NEW u \in UserIds, NEW mail \in Mails, NEW role \in Roles,
             RegisterUser(u, mail, role)
      PROVE  AccountsInv'
  BY <1>2, RegisterKeeps
<1>3. QED
  BY <1>1, <1>2 DEF AccountsNext, Login, RefreshAccess, DayPasses, CreateKey, RevokeKey,
                    StoreCredentials, DeleteCredentials, accountVars

(* No registration takes another account's login (auth_service).             *)
THEOREM LoginsAreKept == AccountsSpec => []AccountsKeepTheirLogins
<1>1. AccountsInv => AccountsKeepTheirLogins
  BY DEF AccountsInv
<1>2. QED
  BY InitLogins, LoginsStep, <1>1, PTL DEF AccountsSpec

-----------------------------------------------------------------------------
(* The webhook's guard.                                                     *)

(* What the guard has let pass was in time, and is no later than what the     *)
(* nonce store remembers, or long past if it remembers nothing.             *)
PassagesRemembered ==
  \A n \in Alerts : \A t \in passages[n] :
    /\ t <= clock
    /\ Distance(t \div 2, stamp[n]) <= Skew
    /\ t <= IF nonces[n] = Never THEN clock - 4 * Skew ELSE nonces[n]

WebhookInv ==
  /\ clock \in Nat
  /\ stamp \in [Alerts -> Nat]
  /\ nonces \in [Alerts -> Nat \cup {Never}]
  /\ passages \in [Alerts -> SUBSET Nat]
  /\ PassagesRemembered
  /\ GuardStopsReplays

(* Two passages that a whole window lies between.                           *)
LEMMA BoundaryReplay ==
  ASSUME NEW t \in Nat, NEW u \in Nat, NEW s \in Nat, t <= u - 4 * Skew,
         Distance(t \div 2, s) <= Skew, Distance(u \div 2, s) <= Skew
  PROVE  s = (t \div 2) + Skew /\ u \div 2 = s + Skew
<1> DEFINE x == t \div 2
           y == u \div 2
<1>1. x \in Nat /\ y \in Nat /\ 2 * x <= t /\ t <= 2 * x + 1 /\ 2 * y <= u /\ u <= 2 * y + 1
  OBVIOUS
<1>2. x <= y - 2 * Skew
  BY <1>1, SourcesAssumption
<1>3. s - x <= Skew /\ y - s <= Skew
  BY <1>1, SourcesAssumption DEF Distance
<1> HIDE DEF x, y
<1>4. s = x + Skew /\ y = s + Skew
  BY <1>1, <1>2, <1>3, SourcesAssumption
<1>5. QED
  BY <1>4 DEF x, y

(* What is forgotten lies a whole window back.                              *)
LEMMA ForgottenIsPast ==
  ASSUME WebhookInv, NEW n \in Alerts, Remembered[n] = Never, NEW t \in passages[n]
  PROVE  t <= clock - 4 * Skew
<1>1. t \in Nat /\ clock \in Nat /\ nonces[n] \in Nat \cup {Never}
  BY DEF WebhookInv
<1>2. t <= IF nonces[n] = Never THEN clock - 4 * Skew ELSE nonces[n]
  BY DEF WebhookInv, PassagesRemembered
<1>3. nonces[n] = Never \/ nonces[n] <= clock - 4 * Skew
  BY <1>1, SourcesAssumption DEF Remembered, Never
<1>4. QED
  BY <1>1, <1>2, <1>3, SourcesAssumption DEF Never

LEMMA RememberedIsEnough ==
  ASSUME WebhookInv, NEW n \in Alerts, NEW t \in passages[n]
  PROVE  /\ Remembered[n] \in Nat \cup {Never}
         /\ t <= IF Remembered[n] = Never THEN clock - 4 * Skew ELSE Remembered[n]
<1>1. CASE Remembered[n] = Never
  BY <1>1, ForgottenIsPast
<1>2. CASE Remembered[n] # Never
  <2>1. Remembered[n] = nonces[n]
    BY <1>2 DEF Remembered
  <2>2. QED
    BY <1>2, <2>1 DEF WebhookInv, PassagesRemembered
<1>3. QED
  BY <1>1, <1>2

LEMMA DeliverKeeps ==
  ASSUME WebhookInv, NEW n \in Alerts, NEW signed \in BOOLEAN, Deliver(n, signed)
  PROVE  WebhookInv'
<1>1. clock' = clock /\ stamp' = stamp /\ clock \in Nat /\ stamp[n] \in Nat
  BY DEF Deliver, WebhookInv
<1>2. Remembered \in [Alerts -> Nat \cup {Never}]
  BY DEF Remembered, WebhookInv
<1>3. CASE Remembered[n] # Never
  <2>1. nonces' = Remembered /\ passages' = passages
    BY <1>3 DEF Deliver
  <2>2. PassagesRemembered'
    <3> SUFFICES ASSUME NEW m \in Alerts, NEW t \in passages[m]
                 PROVE  /\ t <= clock /\ Distance(t \div 2, stamp[m]) <= Skew
                        /\ t <= IF Remembered[m] = Never THEN clock - 4 * Skew ELSE Remembered[m]
      BY <1>1, <2>1 DEF PassagesRemembered, Distance
    <3>1. QED
      BY RememberedIsEnough DEF WebhookInv, PassagesRemembered
  <2>3. QED
    BY <1>1, <1>2, <2>1, <2>2 DEF WebhookInv, GuardStopsReplays
<1>4. CASE Remembered[n] = Never
  <2>1. /\ nonces' = [Remembered EXCEPT ![n] = clock]
        /\ passages' = [passages EXCEPT ![n] = @ \cup {clock}]
    BY <1>4 DEF Deliver
  <2>2. Distance(clock \div 2, stamp[n]) <= Skew
    BY DEF Deliver, InTime
  <2>3. nonces' \in [Alerts -> Nat \cup {Never}] /\ passages' \in [Alerts -> SUBSET Nat]
    BY <1>1, <1>2, <2>1 DEF WebhookInv
  <2>4. PassagesRemembered'
    <3> SUFFICES ASSUME NEW m \in Alerts, NEW t \in passages'[m]
                 PROVE  /\ t <= clock /\ Distance(t \div 2, stamp[m]) <= Skew
                        /\ t <= IF nonces'[m] = Never THEN clock - 4 * Skew ELSE nonces'[m]
      BY <1>1 DEF PassagesRemembered, Distance
    <3>1. CASE m = n
      <4>1. nonces'[n] = clock /\ clock # Never
        BY <1>1, <1>2, <2>1 DEF Never
      <4>2. t = clock \/ t \in passages[n]
        BY <2>1, <3>1 DEF WebhookInv
      <4>3. QED
        BY <1>1, <2>2, <3>1, <4>1, <4>2 DEF WebhookInv, PassagesRemembered
    <3>2. CASE m # n
      <4>1. nonces'[m] = Remembered[m] /\ t \in passages[m]
        BY <1>2, <2>1, <3>2 DEF WebhookInv
      <4>2. QED
        BY <4>1, RememberedIsEnough DEF WebhookInv, PassagesRemembered
    <3>3. QED
      BY <3>1, <3>2
  <2>5. GuardStopsReplays'
    <3> SUFFICES ASSUME NEW m \in Alerts, NEW t \in passages'[m], NEW u \in passages'[m], t < u
                 PROVE  stamp[m] = (t \div 2) + Skew /\ u \div 2 = stamp[m] + Skew
      BY <1>1 DEF GuardStopsReplays
    <3>1. CASE t \in passages[m] /\ u \in passages[m]
      BY <3>1 DEF WebhookInv, GuardStopsReplays
    <3>2. CASE t \notin passages[m]
      <4>1. m = n /\ t = clock
        BY <2>1, <3>2 DEF WebhookInv
      <4>2. u \in passages[n]
        BY <2>1, <4>1, <1>1 DEF WebhookInv
      <4>3. u <= clock /\ u \in Nat
        BY <4>2 DEF WebhookInv, PassagesRemembered
      <4>4. QED
        BY <1>1, <4>1, <4>3
    <3>3. CASE t \in passages[m] /\ u \notin passages[m]
      <4>1. m = n /\ u = clock
        BY <2>1, <3>3 DEF WebhookInv
      <4>2. t <= clock - 4 * Skew
        BY <1>4, <3>3, <4>1, ForgottenIsPast
      <4>3. t \in Nat /\ Distance(t \div 2, stamp[n]) <= Skew
        BY <3>3, <4>1 DEF WebhookInv, PassagesRemembered
      <4>4. QED
        BY <1>1, <2>2, <4>1, <4>2, <4>3, BoundaryReplay
    <3>4. QED
      BY <3>1, <3>2, <3>3
  <2>6. QED
    BY <1>1, <2>3, <2>4, <2>5 DEF WebhookInv
<1>5. QED
  BY <1>3, <1>4

LEMMA InitWebhook == WebhookInit => WebhookInv
<1> SUFFICES ASSUME WebhookInit PROVE WebhookInv
  OBVIOUS
<1>1. Horizon \div 2 \in Nat
  BY SourcesAssumption
<1>2. 0 .. Horizon \div 2 \subseteq Nat
  BY <1>1
<1>3. QED
  BY <1>2 DEF WebhookInit, WebhookInv, PassagesRemembered, GuardStopsReplays, Never

LEMMA WebhookStep == WebhookInv /\ [WebhookNext]_webhookVars => WebhookInv'
<1> SUFFICES ASSUME WebhookInv, [WebhookNext]_webhookVars
             PROVE  WebhookInv'
  OBVIOUS
<1>1. CASE HalfSecond
  <2>1. /\ clock' = clock + 1 /\ clock \in Nat
        /\ stamp' = stamp /\ nonces' = nonces /\ passages' = passages
    BY <1>1 DEF HalfSecond, WebhookInv
  <2>2. PassagesRemembered'
    <3> SUFFICES ASSUME NEW n \in Alerts, NEW t \in passages[n]
                 PROVE  /\ t <= clock + 1 /\ Distance(t \div 2, stamp[n]) <= Skew
                        /\ t <= IF nonces[n] = Never THEN (clock + 1) - 4 * Skew ELSE nonces[n]
      BY <2>1 DEF PassagesRemembered, Distance
    <3>1. /\ t <= clock /\ Distance(t \div 2, stamp[n]) <= Skew
          /\ t <= IF nonces[n] = Never THEN clock - 4 * Skew ELSE nonces[n]
      BY DEF WebhookInv, PassagesRemembered
    <3>2. t \in Nat
      BY DEF WebhookInv
    <3>3. QED
      BY <2>1, <3>1, <3>2, SourcesAssumption
  <2>3. QED
    BY <2>1, <2>2 DEF WebhookInv, GuardStopsReplays
<1>2. ASSUME NEW n \in Alerts, NEW signed \in BOOLEAN, Deliver(n, signed)
      PROVE  WebhookInv'
  BY <1>2, DeliverKeeps
<1>3. CASE UNCHANGED webhookVars
  BY <1>3 DEF webhookVars, WebhookInv, PassagesRemembered, GuardStopsReplays, Distance
<1>4. QED
  BY <1>1, <1>2, <1>3 DEF WebhookNext, RejectAlert

(* The webhook lets one alert pass twice in one case only, the boundary of     *)
(* its window, whatever the skew and however often the alert is delivered.   *)
THEOREM ReplaysAreStopped == WebhookSpec => []GuardStopsReplays
<1>1. WebhookInv => GuardStopsReplays
  BY DEF WebhookInv
<1>2. QED
  BY InitWebhook, WebhookStep, <1>1, PTL DEF WebhookSpec

-----------------------------------------------------------------------------
(* The notifications.  What an alert's channels still have coming is held by *)
(* the broadcast under way: the log and the channels whose turn has not come *)
(* cover the expected.                                                       *)

USE NotificationsAssumption

AlertTyped ==
  \/ alert = NoAlert
  \/ /\ alert = [severity |-> alert.severity, todo |-> alert.todo]
     /\ alert.severity \in Severities
     /\ alert.todo \in Seq(AllChannels) /\ alert.todo # <<>>

AlertsTyped ==
  /\ registry \in Seq(AllChannels) /\ Range(registry) \subseteq created
  /\ created \subseteq AllChannels
  /\ setting \in [AllChannels -> Setting]
  /\ initialized \in BOOLEAN
  /\ AlertTyped
  /\ messages \in Seq(Message) /\ Len(messages) <= LogCapacity
  /\ expected \subseteq created /\ logged \subseteq AllChannels

\* Channel c still has its turn in the broadcast under way.
HasItsTurn(c) ==
  alert # NoAlert /\ c \in Range(alert.todo) /\ alert.severity \in setting[c].hears

(* Every expected channel is logged or still has its turn.                   *)
Covered == \A c \in expected : c \in logged \/ HasItsTurn(c)

(* The inductive invariant.                                                  *)
AlertsInv == AlertsTyped /\ Covered

LEMMA ImmediateFacts ==
  ASSUME setting \in [AllChannels -> Setting], NEW chs \in Seq(AllChannels), NEW sev
  PROVE  /\ Immediate(chs, sev) \in Seq(Message)
         /\ \A c \in Range(chs) : sev \in setting[c].hears =>
              \E m \in Range(Immediate(chs, sev)) : m.channel = c
<1> DEFINE keep == {c \in AllChannels : sev \in setting[c].hears}
           chosen == Only(chs, keep)
           out == Immediate(chs, sev)
<1>1. chosen \in Seq(AllChannels) /\ Range(chosen) = Range(chs) \cap keep
  <2> HIDE DEF keep
  <2> QED BY OnlyFacts
<1>2. out = [i \in 1 .. Len(chosen) |->
               [channel |-> chosen[i], read |-> FALSE,
                delivered |-> chosen[i] = InApp /\ setting[chosen[i]].enabled]]
  BY DEF Immediate
<1>3. \A i \in 1 .. Len(chosen) : chosen[i] \in AllChannels /\ out[i] \in Message
  <2> SUFFICES ASSUME NEW i \in 1 .. Len(chosen) PROVE chosen[i] \in AllChannels /\ out[i] \in Message
    OBVIOUS
  <2> HIDE DEF chosen, out
  <2>1. chosen[i] \in AllChannels
    BY <1>1
  <2>2. (chosen[i] = InApp /\ setting[chosen[i]].enabled) \in BOOLEAN
    OBVIOUS
  <2> QED BY <1>2, <2>1, <2>2 DEF Message
<1>4. out \in Seq(Message)
  <2>1. Len(chosen) \in Nat
    BY <1>1
  <2> HIDE DEF chosen, out
  <2> QED BY <1>2, <1>3, <2>1
<1>5. ASSUME NEW c \in Range(chs), sev \in setting[c].hears
      PROVE  \E m \in Range(out) : m.channel = c
  <2>1. Range(chs) \subseteq AllChannels
    BY DEF Range
  <2>2. c \in Range(chosen)
    BY <1>1, <1>5, <2>1
  <2> HIDE DEF chosen, out
  <2>3. PICK i \in 1 .. Len(chosen) : chosen[i] = c
    BY <1>1, <2>2 DEF Range
  <2>4. i \in DOMAIN out /\ out[i].channel = c
    BY <1>2, <2>3
  <2> QED BY <2>4 DEF Range
<1> QED
  BY <1>4, <1>5

LEMMA RangeOfConcat ==
  ASSUME NEW T, NEW s \in Seq(T), NEW u \in Seq(T)
  PROVE  Range(s) \subseteq Range(s \o u) /\ Range(u) \subseteq Range(s \o u)
<1> DEFINE w == s \o u
<1>1. \A i \in 1 .. Len(s) : w[i] = s[i] /\ i \in DOMAIN w
  OBVIOUS
<1>2. \A i \in 1 .. Len(u) : w[Len(s) + i] = u[i] /\ Len(s) + i \in DOMAIN w
  OBVIOUS
<1> HIDE DEF w
<1>3. DOMAIN s = 1 .. Len(s) /\ DOMAIN u = 1 .. Len(u)
  OBVIOUS
<1>4. Range(s) \subseteq Range(w)
  BY <1>1, <1>3 DEF Range
<1>5. Range(u) \subseteq Range(w)
  BY <1>2, <1>3 DEF Range
<1> QED BY <1>4, <1>5 DEF w

LEMMA SavedTyped ==
  ASSUME messages \in Seq(Message), NEW new \in Seq(Message)
  PROVE  Saved(new) \in Seq(Message) /\ Len(Saved(new)) <= LogCapacity
<1> DEFINE all == Reverse(new) \o messages
           k == IF Len(all) < LogCapacity THEN Len(all) ELSE LogCapacity
<1>1. Reverse(new) \in Seq(Message)
  BY DEF Reverse
<1>2. all \in Seq(Message)
  <2> DEFINE r == Reverse(new)
  <2>1. r \in Seq(Message)
    BY <1>1
  <2> HIDE DEF r
  <2>2. r \o messages \in Seq(Message)
    BY <2>1
  <2> QED BY <2>2 DEF r
<1> HIDE DEF all
<1>3. k \in Nat /\ k <= Len(all) /\ k <= LogCapacity
  BY <1>2 DEF all
<1> HIDE DEF k
<1>4. SubSeq(all, 1, k) \in Seq(Message) /\ Len(SubSeq(all, 1, k)) = k
  BY <1>2, <1>3
<1> QED
  BY <1>3, <1>4 DEF Saved, all, k

LEMMA LoopFacts ==
  ASSUME setting \in [AllChannels -> Setting], messages \in Seq(Message),
         NEW sent \in Seq(Message), NEW todo \in Seq(AllChannels), NEW sev \in Severities,
         NEW before \in SUBSET AllChannels, Loop(sent, todo, sev, before)
  PROVE  /\ messages' \in Seq(Message) /\ Len(messages') <= LogCapacity
         /\ logged' \subseteq AllChannels /\ before \subseteq logged' /\ AlertTyped'
         /\ \A m \in Range(sent) : m.channel \in logged'
         /\ \A c \in Range(todo) : sev \in setting[c].hears =>
              \/ c \in logged'
              \/ alert' # NoAlert /\ alert'.severity = sev /\ c \in Range(alert'.todo)
<1> DEFINE posts == {i \in 1 .. Len(todo) : Posted(todo[i], sev)}
           stop  == IF posts = {} THEN Len(todo) + 1 ELSE Min(posts)
           first == SubSeq(todo, 1, stop - 1)
           rest  == SubSeq(todo, stop, Len(todo))
           out   == Immediate(first, sev)
           new   == sent \o out
<1>1. /\ messages' = Saved(new)
      /\ logged' = before \cup {m.channel : m \in Range(new)}
      /\ alert' = IF posts = {} THEN NoAlert ELSE [severity |-> sev, todo |-> rest]
  BY DEF Loop
<1>2. /\ stop \in 1 .. Len(todo) + 1
      /\ posts = {} => stop = Len(todo) + 1
      /\ posts # {} => stop \in 1 .. Len(todo)
  <2>1. posts # {} => Min(posts) \in posts
    <3> posts \in SUBSET Nat
      OBVIOUS
    <3> HIDE DEF posts
    <3> QED BY LeastExists
  <2> QED BY <2>1
<1> HIDE DEF posts, stop
<1>3. first \in Seq(AllChannels) /\ \A i \in 1 .. stop - 1 : i \in DOMAIN first /\ first[i] = todo[i]
  BY <1>2
<1>4. /\ rest \in Seq(AllChannels)
      /\ \A i \in stop .. Len(todo) : (i - stop) + 1 \in DOMAIN rest /\ rest[(i - stop) + 1] = todo[i]
  BY <1>2
<1>5. posts # {} => rest # <<>>
  <2> SUFFICES ASSUME posts # {} PROVE rest # <<>>
    OBVIOUS
  <2>1. stop \in stop .. Len(todo) /\ (stop - stop) + 1 = 1
    BY <1>2
  <2>2. 1 \in DOMAIN rest
    <3> HIDE DEF rest
    <3> QED BY <1>4, <2>1
  <2> HIDE DEF rest
  <2> QED BY <2>2
<1> HIDE DEF first, rest
<1>6. /\ out \in Seq(Message)
      /\ \A c \in Range(first) : sev \in setting[c].hears => \E m \in Range(out) : m.channel = c
  BY <1>3, ImmediateFacts
<1> HIDE DEF out
<1>7. new \in Seq(Message) /\ Range(sent) \subseteq Range(new) /\ Range(out) \subseteq Range(new)
  BY <1>6, RangeOfConcat
<1> HIDE DEF new
<1>8. messages' \in Seq(Message) /\ Len(messages') <= LogCapacity
  BY <1>1, <1>7, SavedTyped
<1>9. logged' \subseteq AllChannels /\ before \subseteq logged'
  <2>1. \A m \in Range(new) : m.channel \in AllChannels
    <3>1. \A i \in DOMAIN new : new[i] \in Message
      BY <1>7
    <3>2. \A m \in Message : m.channel \in AllChannels
      BY DEF Message
    <3> QED BY <3>1, <3>2 DEF Range
  <2> QED BY <1>1, <2>1
<1>10. AlertTyped'
  BY <1>1, <1>4, <1>5 DEF AlertTyped
<1>11. \A m \in Range(sent) : m.channel \in logged'
  BY <1>1, <1>7
<1>12. ASSUME NEW c \in Range(todo), sev \in setting[c].hears, c \notin logged'
       PROVE  alert' # NoAlert /\ alert'.severity = sev /\ c \in Range(alert'.todo)
  <2>1. PICK i \in 1 .. Len(todo) : todo[i] = c
    BY DEF Range
  <2>2. ~(i \in 1 .. stop - 1)
    <3> SUFFICES ASSUME i \in 1 .. stop - 1 PROVE FALSE
      OBVIOUS
    <3>1. c \in Range(first)
      BY <1>3, <2>1 DEF Range
    <3>2. PICK m \in Range(out) : m.channel = c
      BY <1>6, <1>12, <3>1
    <3> QED BY <1>1, <1>7, <1>12, <3>2
  <2>3. posts # {} /\ i \in stop .. Len(todo)
    BY <1>2, <2>1, <2>2
  <2>4. c \in Range(rest)
    BY <1>4, <2>1, <2>3 DEF Range
  <2>5. alert' = [severity |-> sev, todo |-> rest] /\ rest # <<>>
    BY <1>1, <1>5, <2>3
  <2>6. alert'.todo = rest /\ alert'.severity = sev /\ alert'.todo # NoAlert.todo
    BY <2>5 DEF NoAlert
  <2> QED BY <2>4, <2>6
<1> QED
  BY <1>8, <1>9, <1>10, <1>11, <1>12

LEMMA SeededFacts ==
  ASSUME AlertsTyped
  PROVE  Seeded \in Seq(AllChannels) /\ Range(registry) \subseteq Range(Seeded)
<1>1. InApp \in AllChannels
  BY DEF AllChannels
<1>2. Append(registry, InApp) \in Seq(AllChannels)
  BY <1>1 DEF AlertsTyped
<1>3. Range(registry) \subseteq Range(Append(registry, InApp))
  BY <1>1 DEF AlertsTyped, Range
<1> QED
  BY <1>2, <1>3 DEF Seeded, AlertsTyped

LEMMA InitializeTyped ==
  ASSUME AlertsTyped, Initialize
  PROVE  /\ registry' \in Seq(AllChannels) /\ Range(registry') \subseteq created'
         /\ created' \subseteq AllChannels /\ created \subseteq created' /\ initialized' \in BOOLEAN
<1>1. Range(Seeded) \subseteq AllChannels
  BY SeededFacts DEF Range
<1> QED
  BY <1>1, SeededFacts DEF Initialize, AlertsTyped

LEMMA RegistryCovers ==
  ASSUME AlertsInv, NEW c \in AllChannels,
         \/ ListChannels
         \/ \E hears \in SUBSET Severities, valid \in BOOLEAN : RegisterChannel(c, hears, valid)
         \/ DeleteChannel(c)
         \/ \E new \in Setting : UpdateChannel(c, new)
  PROVE  AlertsInv'
<1> USE DEF AlertsInv
<1>1. CASE ListChannels
  BY <1>1, InitializeTyped DEF ListChannels, AlertsTyped, AlertTyped, Covered, HasItsTurn
<1>2. ASSUME NEW hears \in SUBSET Severities, NEW valid \in BOOLEAN, RegisterChannel(c, hears, valid)
      PROVE  AlertsInv'
  <2>1. /\ registry' \in Seq(AllChannels) /\ Range(registry') \subseteq created'
        /\ created' \subseteq AllChannels /\ created \subseteq created'
    <3>1. Range(Append(registry, c)) \subseteq Range(registry) \cup {c}
      BY DEF Range, AlertsTyped
    <3> QED BY <1>2, <3>1 DEF RegisterChannel, AlertsTyped
  <2>2. setting' \in [AllChannels -> Setting] /\ \A d \in AllChannels \ {c} : setting'[d] = setting[d]
    BY <1>2 DEF RegisterChannel, AlertsTyped, Setting
  <2>3. /\ UNCHANGED <<initialized, alert, messages, expected, logged>> /\ c \notin expected
        /\ expected \subseteq AllChannels
    BY <1>2 DEF RegisterChannel, AlertsTyped
  <2> QED
    BY <2>1, <2>2, <2>3 DEF AlertsTyped, AlertTyped, Covered, HasItsTurn
<1>3. CASE DeleteChannel(c)
  <2>1. registry' = Only(registry, AllChannels \ {c})
    BY <1>3 DEF DeleteChannel
  <2>2. registry' \in Seq(AllChannels) /\ Range(registry') \subseteq Range(registry)
    BY <2>1, OnlyFacts DEF AlertsTyped
  <2>3. /\ UNCHANGED <<setting, created, initialized, alert, messages, logged>>
        /\ expected' = expected \ {c}
    BY <1>3 DEF DeleteChannel
  <2> QED
    BY <2>2, <2>3 DEF AlertsTyped, AlertTyped, Covered, HasItsTurn
<1>4. ASSUME NEW new \in Setting, UpdateChannel(c, new)
      PROVE  AlertsInv'
  BY <1>4 DEF UpdateChannel, AlertsTyped, AlertTyped, Covered, HasItsTurn
<1> QED
  BY <1>1, <1>2, <1>3, <1>4

LEMMA BroadcastCovers ==
  ASSUME AlertsInv, NEW sev \in Severities, NEW kinds \in SUBSET AllChannels,
         BroadcastAlert(sev, kinds)
  PROVE  AlertsInv'
<1> DEFINE keep == {c \in kinds : setting[c].enabled}
           todo == Only(Seeded, keep)
<1>1. AlertsTyped /\ Initialize /\ Loop(<<>>, todo, sev, {})
      /\ expected' = {c \in Range(todo) : sev \in setting[c].hears} /\ setting' = setting
  BY DEF BroadcastAlert, AlertsInv
<1>2. Seeded \in Seq(AllChannels)
  BY <1>1, SeededFacts
<1>3. todo \in Seq(AllChannels) /\ Range(todo) \subseteq Range(Seeded)
  <2> HIDE DEF keep
  <2> QED BY <1>2, OnlyFacts
<1> HIDE DEF todo
<1>4. /\ messages' \in Seq(Message) /\ Len(messages') <= LogCapacity
      /\ logged' \subseteq AllChannels /\ AlertTyped'
      /\ \A c \in Range(todo) : sev \in setting[c].hears =>
              \/ c \in logged'
              \/ alert' # NoAlert /\ alert'.severity = sev /\ c \in Range(alert'.todo)
  <2>1. <<>> \in Seq(Message) /\ {} \in SUBSET AllChannels
    OBVIOUS
  <2>2. setting \in [AllChannels -> Setting] /\ messages \in Seq(Message)
    BY <1>1 DEF AlertsTyped
  <2> QED BY <1>1, <1>3, <2>1, <2>2, LoopFacts
<1>5. /\ registry' \in Seq(AllChannels) /\ Range(registry') \subseteq created'
      /\ created' \subseteq AllChannels /\ initialized' \in BOOLEAN
  BY <1>1, InitializeTyped
<1>6. expected' \subseteq created'
  BY <1>1, <1>3 DEF Initialize
<1>7. AlertsTyped'
  BY <1>1, <1>4, <1>5, <1>6 DEF AlertsTyped
<1>8. Covered'
  BY <1>1, <1>4 DEF Covered, HasItsTurn
<1> QED
  BY <1>7, <1>8 DEF AlertsInv

LEMMA PostCovers ==
  ASSUME AlertsInv, NEW ok \in BOOLEAN, PostEnds(ok)
  PROVE  AlertsInv'
<1> DEFINE chs == alert.todo  sev == alert.severity
           posted == [channel |-> Head(chs), delivered |-> ok, read |-> FALSE]
<1>1. /\ AlertsTyped /\ Covered /\ alert # NoAlert
      /\ Loop(<<posted>>, Tail(chs), sev, logged)
      /\ UNCHANGED <<registry, setting, created, initialized, expected>>
  BY DEF PostEnds, AlertsInv
<1>2. chs \in Seq(AllChannels) /\ chs # <<>> /\ sev \in Severities
  BY <1>1 DEF AlertsTyped, AlertTyped
<1> HIDE DEF chs, sev
<1>3. /\ Tail(chs) \in Seq(AllChannels) /\ Head(chs) \in AllChannels
      /\ \A c \in Range(chs) : c = Head(chs) \/ c \in Range(Tail(chs))
  <2>1. /\ Tail(chs) \in Seq(AllChannels) /\ Head(chs) \in AllChannels /\ Head(chs) = chs[1]
        /\ Len(chs) \in Nat /\ DOMAIN chs = 1 .. Len(chs) /\ DOMAIN Tail(chs) = 1 .. Len(chs) - 1
        /\ \A i \in 1 .. Len(chs) - 1 : Tail(chs)[i] = chs[i + 1]
    BY <1>2
  <2>2. ASSUME NEW c \in Range(chs), c # Head(chs) PROVE c \in Range(Tail(chs))
    <3>1. PICK i \in 1 .. Len(chs) : chs[i] = c
      BY <2>1 DEF Range
    <3>2. i # 1
      BY <2>1, <2>2, <3>1
    <3>3. i - 1 \in 1 .. Len(chs) - 1 /\ Tail(chs)[i - 1] = c
      BY <2>1, <3>1, <3>2
    <3> QED BY <2>1, <3>3 DEF Range
  <2> QED BY <2>1, <2>2
<1>4. <<posted>> \in Seq(Message) /\ \E m \in Range(<<posted>>) : m.channel = Head(chs)
  <2>1. posted \in Message /\ posted.channel = Head(chs)
    BY <1>3 DEF Message
  <2> HIDE DEF posted
  <2>2. <<posted>>[1] = posted /\ 1 \in DOMAIN <<posted>>
    OBVIOUS
  <2> QED BY <2>1, <2>2 DEF Range
<1> HIDE DEF posted
<1>5. /\ messages' \in Seq(Message) /\ Len(messages') <= LogCapacity
      /\ logged' \subseteq AllChannels /\ logged \subseteq logged' /\ AlertTyped'
      /\ Head(chs) \in logged'
      /\ \A c \in Range(Tail(chs)) : sev \in setting[c].hears =>
              \/ c \in logged'
              \/ alert' # NoAlert /\ alert'.severity = sev /\ c \in Range(alert'.todo)
  <2>1. /\ setting \in [AllChannels -> Setting] /\ messages \in Seq(Message)
        /\ logged \in SUBSET AllChannels
    BY <1>1 DEF AlertsTyped
  <2>2. Tail(chs) \in Seq(AllChannels) /\ <<posted>> \in Seq(Message)
    BY <1>3, <1>4
  <2>3. /\ messages' \in Seq(Message) /\ Len(messages') <= LogCapacity
        /\ logged' \subseteq AllChannels /\ logged \subseteq logged' /\ AlertTyped'
        /\ \A m \in Range(<<posted>>) : m.channel \in logged'
        /\ \A c \in Range(Tail(chs)) : sev \in setting[c].hears =>
              \/ c \in logged'
              \/ alert' # NoAlert /\ alert'.severity = sev /\ c \in Range(alert'.todo)
    BY <1>1, <1>2, <2>1, <2>2, LoopFacts
  <2> QED BY <1>4, <2>3
<1>6. AlertsTyped'
  BY <1>1, <1>5 DEF AlertsTyped
<1>7. Covered'
  <2> SUFFICES ASSUME NEW c \in expected PROVE c \in logged' \/ HasItsTurn(c)'
    BY <1>1 DEF Covered
  <2>1. c \in logged \/ (c \in Range(chs) /\ sev \in setting[c].hears)
    BY <1>1 DEF Covered, HasItsTurn, chs, sev
  <2> QED
    BY <1>1, <1>3, <1>5, <2>1 DEF HasItsTurn
<1> QED
  BY <1>6, <1>7 DEF AlertsInv

LEMMA MarkCovers ==
  ASSUME AlertsInv, NEW i \in DOMAIN messages, MarkRead(i)
  PROVE  AlertsInv'
<1>1. messages' \in Seq(Message) /\ Len(messages') = Len(messages)
  <2>1. messages \in Seq(Message) /\ messages[i] \in Message
    BY DEF AlertsInv, AlertsTyped
  <2> DEFINE m == [messages[i] EXCEPT !.read = TRUE]
  <2>2. m \in Message
    BY <2>1 DEF Message
  <2>3. messages' = [messages EXCEPT ![i] = m]
    BY DEF MarkRead
  <2> HIDE DEF m
  <2> QED BY <2>1, <2>2, <2>3
<1> QED
  BY <1>1 DEF MarkRead, AlertsInv, AlertsTyped, AlertTyped, Covered, HasItsTurn

LEMMA InitAlerts == NotificationsInit => AlertsInv
<1> SUFFICES ASSUME NotificationsInit PROVE AlertsInv
  OBVIOUS
<1>1. <<>> \in Seq(AllChannels) /\ <<>> \in Seq(Message) /\ Range(<<>>) = {} /\ Len(<<>>) = 0
  BY DEF Range
<1>2. Default \in Setting
  BY DEF Default, Setting
<1> QED
  <2> USE DEF NotificationsInit
  <2>1. /\ registry \in Seq(AllChannels) /\ Range(registry) \subseteq created
        /\ created \subseteq AllChannels /\ messages \in Seq(Message) /\ Len(messages) <= LogCapacity
    BY <1>1
  <2>2. setting \in [AllChannels -> Setting] /\ initialized \in BOOLEAN
    BY <1>2
  <2>3. AlertTyped /\ expected \subseteq created /\ logged \subseteq AllChannels /\ Covered
    BY DEF AlertTyped, Covered
  <2> QED BY <2>1, <2>2, <2>3 DEF AlertsInv, AlertsTyped

LEMMA AlertsStep == AlertsInv /\ [NotificationsNext]_notificationVars => AlertsInv'
<1>1. ASSUME AlertsInv, UNCHANGED notificationVars PROVE AlertsInv'
  BY <1>1 DEF notificationVars, AlertsInv, AlertsTyped, AlertTyped, Covered, HasItsTurn
<1> SUFFICES ASSUME AlertsInv, NotificationsNext PROVE AlertsInv'
  BY <1>1
<1>2. InApp \in AllChannels /\ HttpChannels \subseteq AllChannels /\ {InApp} \subseteq AllChannels
  BY DEF AllChannels
<1>3. ASSUME NEW sev \in Severities, NEW kinds \in {AllChannels, {InApp}, HttpChannels},
             BroadcastAlert(sev, kinds)
      PROVE  AlertsInv'
  BY <1>2, <1>3, BroadcastCovers
<1>4. ASSUME NEW c \in HttpChannels, NEW hears \in SUBSET Severities, NEW valid \in BOOLEAN,
             RegisterChannel(c, hears, valid)
      PROVE  AlertsInv'
  BY <1>2, <1>4, RegistryCovers
<1>5. ASSUME NEW c \in AllChannels,
             DeleteChannel(c) \/ \E new \in Setting : UpdateChannel(c, new)
      PROVE  AlertsInv'
  BY <1>5, RegistryCovers
<1>6. CASE ListChannels
  BY <1>2, <1>6, RegistryCovers
<1> QED
  BY <1>3, <1>4, <1>5, <1>6, PostCovers, MarkCovers DEF NotificationsNext

LEMMA AlwaysAlerts == NotificationsSpec => []AlertsInv
<1> QED
  BY InitAlerts, AlertsStep, PTL DEF NotificationsSpec

(* Every channel an alert was meant for is logged for it, with its delivery or*)
(* its failure, when the broadcast is over (notification_service).           *)
THEOREM AlertsReach == NotificationsSpec => []AlertsReachEveryChannel
<1>1. AlertsInv => AlertsReachEveryChannel
  BY DEF AlertsInv, Covered, HasItsTurn, AlertsReachEveryChannel
<1> QED
  BY AlwaysAlerts, <1>1, PTL

LEMMA AlertsAreTyped == AlertsInv => NotificationsTypeOK
BY DEF AlertsInv, AlertsTyped, AlertTyped, NotificationsTypeOK

(* Every variable of the notification service keeps its type, and the log its*)
(* capacity.                                                                 *)
THEOREM NotificationsTyped == NotificationsSpec => []NotificationsTypeOK
BY AlwaysAlerts, AlertsAreTyped, PTL

-----------------------------------------------------------------------------
(* The uploads of sheets.  Whatever other uploads do, an upload none of    *)
(* whose rows failed so far has ordered the keys that the rows' places give. *)

\* The key of a file's n-th row, if every row before it was executed.
KeyOf(rows, n) == <<rows[n].symbol, rows[n].quantity, n - 1>>

\* The first n rows have their orders, of the keys given.
Ordered(known, file, n) == \A i \in 1 .. n : KeyOf(ParsedOrders(file), i) \in known

\* How many rows an upload is through.
Through(u) == Len(ParsedOrders(u.file)) - Len(u.rows)

UploadOK(u, known, done) ==
  LET rows == ParsedOrders(u.file)
  IN /\ u \in [rows : Seq(SheetRow), file : Files, executed : Nat, again : BOOLEAN]
     /\ u.rows # <<>>
     /\ Through(u) \in Nat /\ u.rows = SubSeq(rows, Through(u) + 1, Len(rows))
     /\ u.executed <= Through(u)
     /\ u.executed = Through(u) => Ordered(known, u.file, Through(u))
     /\ u.again => u.file \in done /\ u.executed = Through(u)

(* The inductive invariant: every upload is in order, and a file that was    *)
(* completed has the orders of all its rows.                                 *)
SheetsInv ==
  /\ DOMAIN upload = Uploads
  /\ \A b \in Uploads : upload[b] = NoUpload \/ UploadOK(upload[b], rowOrders, complete)
  /\ complete \subseteq Files
  /\ \A file \in complete : Ordered(rowOrders, file, Len(ParsedOrders(file)))

LEMMA ParsedFacts ==
  ASSUME NEW file \in Files
  PROVE  /\ ParsedOrders(file) \in Seq(SheetRow)
         /\ Len(ParsedOrders(file)) \in Nat /\ Len(ParsedOrders(file)) <= Len(file)
<1>1. file \in Seq(SheetRow)
  BY SourcesAssumption
<1>2. /\ ParsedOrders(file) \in Seq(SheetRow)
      /\ Len(ParsedOrders(file)) <= Len(file)
  BY <1>1, OnlyFacts DEF ParsedOrders
<1> QED
  BY <1>2

LEMMA NextRow ==
  ASSUME NEW u, NEW known, NEW done, UploadOK(u, known, done)
  PROVE  LET rows == ParsedOrders(u.file)  k == Through(u)
         IN /\ k + 1 \in 1 .. Len(rows) /\ Head(u.rows) = rows[k + 1]
            /\ Tail(u.rows) \in Seq(SheetRow) /\ Len(Tail(u.rows)) = Len(rows) - (k + 1)
            /\ Tail(u.rows) = SubSeq(rows, k + 2, Len(rows))
<1> DEFINE rows == ParsedOrders(u.file)  k == Through(u)  n == Len(rows)
<1>1. rows \in Seq(SheetRow) /\ n \in Nat
  BY ParsedFacts DEF UploadOK
<1>2. /\ k \in Nat /\ u.rows = SubSeq(rows, k + 1, n) /\ u.rows \in Seq(SheetRow)
      /\ u.rows # <<>> /\ k = n - Len(u.rows)
  BY DEF UploadOK, Through
<1> HIDE DEF rows, k
<1>3. Len(u.rows) \in Nat /\ Len(u.rows) # 0
  <2> DEFINE w == u.rows
  <2>1. w \in Seq(SheetRow) /\ w # <<>>
    BY <1>2
  <2> HIDE DEF w
  <2>2. Len(w) \in Nat /\ Len(w) # 0
    BY <2>1
  <2> QED BY <2>2 DEF w
<1>4. k + 1 \in 1 .. n /\ n \in k + 1 .. n /\ (k + 1) + 1 = k + 2
  BY <1>1, <1>2, <1>3
<1>5. /\ Head(SubSeq(rows, k + 1, n)) = rows[k + 1]
      /\ Tail(SubSeq(rows, k + 1, n)) = SubSeq(rows, (k + 1) + 1, n)
  BY <1>1, <1>4, HeadTailOfSubSeq
<1>6. Tail(u.rows) \in Seq(SheetRow) /\ Len(Tail(u.rows)) = Len(u.rows) - 1
  BY <1>2, HeadTailProperties
<1>7. Len(u.rows) - 1 = n - (k + 1)
  BY <1>1, <1>2, <1>3
<1> QED
  BY <1>2, <1>4, <1>5, <1>6, <1>7 DEF rows, k

\* The order known that a row leads to.
LEMMA OutcomeFacts ==
  ASSUME NEW known, NEW key, NEW out \in Outcomes(known, key)
  PROVE  /\ known \subseteq out.orders /\ out.ok \in BOOLEAN
         /\ out.ok => key \in out.orders
         /\ key \in known => out.orders = known /\ out.ok
<1>1. \/ key \in known /\ out = [orders |-> known, ok |-> TRUE]
      \/ key \notin known /\ out = [orders |-> known, ok |-> FALSE]
      \/ key \notin known /\ out = [orders |-> known \cup {key}, ok |-> TRUE]
      \/ key \notin known /\ out = [orders |-> known \cup {key}, ok |-> FALSE]
  BY DEF Outcomes
<1>2. CASE key \in known /\ out = [orders |-> known, ok |-> TRUE]
  <2>1. out.orders = known /\ out.ok = TRUE
    BY <1>2
  <2> QED BY <1>2, <2>1
<1>3. CASE key \notin known /\ out = [orders |-> known, ok |-> FALSE]
  <2>1. out.orders = known /\ out.ok = FALSE
    BY <1>3
  <2> QED BY <1>3, <2>1
<1>4. CASE key \notin known /\ out = [orders |-> known \cup {key}, ok |-> TRUE]
  <2>1. out.orders = known \cup {key} /\ out.ok = TRUE
    BY <1>4
  <2> QED BY <1>4, <2>1
<1>5. CASE key \notin known /\ out = [orders |-> known \cup {key}, ok |-> FALSE]
  <2>1. out.orders = known \cup {key} /\ out.ok = FALSE
    BY <1>5
  <2> QED BY <1>5, <2>1
<1> QED
  BY <1>1, <1>2, <1>3, <1>4, <1>5

LEMMA UploadStaysOK ==
  ASSUME NEW u, NEW known, NEW done, UploadOK(u, known, done),
         NEW more, known \subseteq more, NEW also, done \subseteq also
  PROVE  UploadOK(u, more, also)
BY DEF UploadOK, Ordered

LEMMA StartsSheet ==
  ASSUME SheetsInv, NEW b \in Uploads, NEW file \in Files, ExecuteSheet(b, file)
  PROVE  SheetsInv'
<1> DEFINE rows == ParsedOrders(file)
           known == file \in complete
           u == [rows |-> rows, file |-> file, executed |-> 0, again |-> known]
<1>1. /\ upload' = [upload EXCEPT ![b] = u] /\ rows # <<>>
      /\ rowOrders' = rowOrders /\ complete' = complete
  BY DEF ExecuteSheet
<1>2. rows \in Seq(SheetRow) /\ Len(rows) \in Nat
  BY ParsedFacts
<1>3. UploadOK(u, rowOrders', complete')
  <2>1. known \in BOOLEAN /\ (known => file \in complete)
    OBVIOUS
  <2>2. /\ u.rows = rows /\ u.file = file /\ u.executed = 0 /\ u.again = known
        /\ u \in [rows : Seq(SheetRow), file : Files, executed : Nat, again : BOOLEAN]
    <3> HIDE DEF rows, known
    <3> QED BY <1>2, <2>1
  <2>3. rows = SubSeq(rows, 0 + 1, Len(rows)) /\ Len(rows) - Len(rows) = 0
    <3> HIDE DEF rows
    <3> QED BY <1>2
  <2> HIDE DEF u
  <2>4. ParsedOrders(u.file) = rows /\ Through(u) = 0
    BY <2>2, <2>3 DEF Through
  <2> HIDE DEF rows, known
  <2>5. Ordered(rowOrders', u.file, Through(u))
    BY <2>4 DEF Ordered
  <2>6. /\ u.rows # <<>> /\ Through(u) \in Nat /\ u.executed <= Through(u)
        /\ u.again => u.file \in complete' /\ u.executed = Through(u)
        /\ u.rows = SubSeq(rows, Through(u) + 1, Len(rows))
    <3>1. u.rows # <<>> /\ Through(u) \in Nat /\ u.executed <= Through(u)
      BY <1>1, <2>2, <2>4
    <3>2. u.again => u.file \in complete' /\ u.executed = Through(u)
      BY <1>1, <2>1, <2>2, <2>4
    <3>3. u.rows = SubSeq(rows, Through(u) + 1, Len(rows))
      BY <2>2, <2>3, <2>4
    <3> QED BY <3>1, <3>2, <3>3
  <2> QED
    BY <2>2, <2>4, <2>5, <2>6 DEF UploadOK
<1>4. \A c \in Uploads \ {b} : upload'[c] = upload[c]
  BY <1>1 DEF SheetsInv
<1>5. upload'[b] = u /\ DOMAIN upload' = Uploads
  BY <1>1 DEF SheetsInv
<1> HIDE DEF u
<1>6. \A c \in Uploads : upload'[c] = NoUpload \/ UploadOK(upload'[c], rowOrders', complete')
  BY <1>1, <1>3, <1>4, <1>5, UploadStaysOK DEF SheetsInv
<1> QED
  BY <1>1, <1>5, <1>6 DEF SheetsInv, Ordered

(* A row executed in its turn leads to its own key, and an upload of a file   *)
(* that was completed before only meets known that are known.                 *)
LEMMA RunsRow ==
  ASSUME SheetsInv, NEW b \in Uploads, ExecuteRow(b)
  PROVE  /\ SheetsInv' /\ (upload[b].again => rowOrders' = rowOrders)
         /\ \A c \in Uploads \ {b} : upload'[c] = upload[c]
<1> DEFINE u == upload[b]  rows == ParsedOrders(u.file)  k == Through(u)  n == Len(rows)
           key == RowKey(Head(u.rows), u.executed, b)  rest == Tail(u.rows)
<1>1. UploadOK(u, rowOrders, complete)
  BY DEF ExecuteRow, SheetsInv, NoUpload
<1>2. PICK out \in Outcomes(rowOrders, key) :
        LET executed == u.executed + (IF out.ok THEN 1 ELSE 0)
        IN /\ rowOrders' = out.orders
           /\ upload' = [upload EXCEPT ![b] =
                IF rest = <<>> THEN NoUpload ELSE [u EXCEPT !.rows = rest, !.executed = executed]]
           /\ complete' = IF rest = <<>> /\ executed = n THEN complete \cup {u.file} ELSE complete
  BY DEF ExecuteRow
<1> DEFINE executed == u.executed + (IF out.ok THEN 1 ELSE 0)
           next == [u EXCEPT !.rows = rest, !.executed = executed]
<1>3. /\ rowOrders \subseteq rowOrders' /\ out.ok \in BOOLEAN
      /\ out.ok => key \in rowOrders'
      /\ key \in rowOrders => rowOrders' = rowOrders /\ out.ok
  <2> HIDE DEF key
  <2> QED BY <1>2, OutcomeFacts
<1>4. /\ k \in Nat /\ n \in Nat /\ k + 1 \in 1 .. n /\ Head(u.rows) = rows[k + 1]
      /\ rest \in Seq(SheetRow) /\ Len(rest) = n - (k + 1) /\ rest = SubSeq(rows, k + 2, n)
  BY <1>1, NextRow, ParsedFacts DEF UploadOK
<1>5. /\ u.file \in Files /\ u.executed \in Nat /\ u.executed <= k /\ u.again \in BOOLEAN
      /\ u.executed = k => Ordered(rowOrders, u.file, k)
      /\ u.again => u.file \in complete /\ u.executed = k
      /\ u \in [rows : Seq(SheetRow), file : Files, executed : Nat, again : BOOLEAN]
  BY <1>1 DEF UploadOK
<1>6. u.executed = k => key = KeyOf(rows, k + 1)
  <2> SUFFICES ASSUME u.executed = k PROVE key = KeyOf(rows, k + 1)
    OBVIOUS
  <2> DEFINE r == Head(u.rows)
  <2>1. key = <<r.symbol, r.quantity, k>> /\ r = rows[k + 1] /\ (k + 1) - 1 = k
    BY <1>4 DEF RowKey
  <2> HIDE DEF key, r, rows, k
  <2> QED BY <2>1 DEF KeyOf
<1>7. u.again => key \in rowOrders
  BY <1>4, <1>5, <1>6 DEF SheetsInv, Ordered
<1> HIDE DEF key
<1>8. executed \in Nat /\ executed <= k + 1
  BY <1>3, <1>4, <1>5, SMTT(30)
<1>9. executed = k + 1 => Ordered(rowOrders', u.file, k + 1)
  <2> SUFFICES ASSUME executed = k + 1, NEW i \in 1 .. k + 1
               PROVE  KeyOf(rows, i) \in rowOrders'
    BY DEF Ordered
  <2>1. u.executed = k /\ out.ok
    BY <1>3, <1>4, <1>5, SMTT(30)
  <2>2. CASE i = k + 1
    BY <1>3, <1>6, <2>1, <2>2
  <2>3. CASE i # k + 1
    <3>1. i \in 1 .. k
      BY <1>4, <2>3
    <3> QED BY <1>3, <1>5, <2>1, <3>1 DEF Ordered
  <2> QED BY <2>2, <2>3
<1>10. u.again => executed = k + 1 /\ u.file \in complete
  BY <1>3, <1>4, <1>5, <1>7
<1>11. complete \subseteq complete' /\ complete' \subseteq Files
  BY <1>2, <1>5 DEF SheetsInv
<1>12. \A file \in complete' : Ordered(rowOrders', file, Len(ParsedOrders(file)))
  <2> SUFFICES ASSUME NEW file \in complete'
               PROVE  Ordered(rowOrders', file, Len(ParsedOrders(file)))
    OBVIOUS
  <2>1. CASE file \in complete
    BY <1>3, <2>1 DEF SheetsInv, Ordered
  <2>2. CASE file \notin complete
    <3>1. file = u.file /\ rest = <<>> /\ executed = n
      BY <1>2, <2>2
    <3>2. n = k + 1
      <4>1. Len(rest) = 0
        <5>1. Len(<<>>) = 0
          OBVIOUS
        <5> HIDE DEF rest
        <5> QED BY <3>1, <5>1
      <4> HIDE DEF rest, rows, k
      <4> QED BY <1>4, <4>1
    <3> QED BY <1>9, <3>1, <3>2
  <2> QED BY <2>1, <2>2
<1>13. rest # <<>> => UploadOK(next, rowOrders', complete')
  <2> SUFFICES ASSUME rest # <<>> PROVE UploadOK(next, rowOrders', complete')
    OBVIOUS
  <2> HIDE DEF rest, executed
  <2>1. /\ next.rows = rest /\ next.file = u.file /\ next.executed = executed
        /\ next.again = u.again
        /\ next \in [rows : Seq(SheetRow), file : Files, executed : Nat, again : BOOLEAN]
    <3> HIDE DEF u
    <3> QED BY <1>4, <1>5, <1>8
  <2> HIDE DEF next, u
  <2>2. Through(next) = k + 1
    <3>1. Through(next) = n - Len(rest)
      BY <2>1 DEF Through
    <3> HIDE DEF rows, k, n
    <3> QED BY <1>4, <3>1
  <2>3. /\ next.executed <= Through(next) /\ next.executed \in Nat /\ Through(next) \in Nat
        /\ next.rows = SubSeq(rows, Through(next) + 1, n)
    <3>1. (k + 1) + 1 = k + 2
      BY <1>4
    <3> HIDE DEF rows, k, n
    <3> QED BY <1>4, <1>8, <2>1, <2>2, <3>1
  <2>4. /\ next.executed = Through(next) => Ordered(rowOrders', next.file, Through(next))
        /\ next.again => next.file \in complete' /\ next.executed = Through(next)
    BY <1>9, <1>10, <1>11, <2>1, <2>2
  <2>5. ParsedOrders(next.file) = rows
    BY <2>1
  <2> QED
    BY <1>4, <1>5, <2>1, <2>3, <2>4, <2>5 DEF UploadOK
<1>14. /\ upload'[b] = IF rest = <<>> THEN NoUpload ELSE next
       /\ DOMAIN upload' = Uploads /\ \A c \in Uploads \ {b} : upload'[c] = upload[c]
  <2> HIDE DEF rest
  <2> QED BY <1>2 DEF SheetsInv
<1> HIDE DEF next, rest
<1>15. \A c \in Uploads : upload'[c] = NoUpload \/ UploadOK(upload'[c], rowOrders', complete')
  BY <1>3, <1>11, <1>13, <1>14, UploadStaysOK DEF SheetsInv
<1> QED
  BY <1>3, <1>7, <1>11, <1>12, <1>14, <1>15 DEF SheetsInv

LEMMA InitSheets == SheetsInit => SheetsInv
BY DEF SheetsInit, SheetsInv

LEMMA SheetsStep == SheetsInv /\ [SheetsNext]_sheetsVars => SheetsInv'
<1>1. ASSUME SheetsInv, UNCHANGED sheetsVars PROVE SheetsInv'
  BY <1>1 DEF sheetsVars, SheetsInv, UploadOK, Ordered
<1> QED
  BY <1>1, StartsSheet, RunsRow DEF SheetsNext

(* A sheet whose rows all had their orders adds none when it is uploaded     *)
(* again (execute_sheets_orders), whatever other uploads run meanwhile.      *)
THEOREM UploadsMayRepeat == SheetsSpec => UploadsRepeatable
<1>1. SheetsInv /\ [SheetsNext]_sheetsVars =>
        [\A b \in Uploads : upload[b].again /\ upload'[b] # upload[b]
                              => rowOrders' = rowOrders]_sheetsVars
  <2> SUFFICES ASSUME SheetsInv, SheetsNext, NEW b \in Uploads, upload[b].again,
                      upload'[b] # upload[b]
               PROVE  rowOrders' = rowOrders
    OBVIOUS
  <2>1. ASSUME NEW c \in Uploads, ExecuteRow(c) PROVE rowOrders' = rowOrders
    BY <2>1, RunsRow
  <2>2. ASSUME NEW c \in Uploads, NEW file \in Files, ExecuteSheet(c, file)
        PROVE  rowOrders' = rowOrders
    BY <2>2 DEF ExecuteSheet
  <2> QED
    BY <2>1, <2>2 DEF SheetsNext
<1> QED
  BY InitSheets, SheetsStep, <1>1, PTL DEF SheetsSpec, UploadsRepeatable

-----------------------------------------------------------------------------
(* The types of all the services together.  Each service's invariant goes    *)
(* with the types that its own properties did not need.                     *)

StreamsTyped == StreamingInv /\ BroadcastsOwe /\ lost \subseteq Sockets

LEMMA InitStreamsTyped == StreamingInit => StreamsTyped
<1>1. StreamingInit => lost \subseteq Sockets
  BY DEF StreamingInit
<1> QED
  BY <1>1, InitStreams, InitOwes DEF StreamsTyped

LEMMA StreamsTypedStep == StreamsTyped /\ [StreamingNext]_streamingVars => StreamsTyped'
<1> SUFFICES ASSUME StreamsTyped, [StreamingNext]_streamingVars
             PROVE  lost' \subseteq Sockets
  BY StreamsStep, OwesStep DEF StreamsTyped
<1>1. CASE lost' = lost
  BY <1>1 DEF StreamsTyped
<1>2. ASSUME NEW s \in Sockets, PeerGoes(s) PROVE lost' \subseteq Sockets
  BY <1>2 DEF PeerGoes, StreamsTyped
<1>3. ASSUME NEW s \in Sockets, NEW topics \in SUBSET (Topics \cup {ALL}),
             ClientSubscribes(s, topics) \/ ClientUnsubscribes(s, topics)
      PROVE  lost' = lost
  BY <1>3 DEF ClientSubscribes, ClientUnsubscribes, Waiting
<1>4. ASSUME NEW s \in Sockets,
             \/ \E st \in Streams : OpenSocket(s, st)
             \/ SentByEndpoint(s) \/ ClientPings(s) \/ ClientGarbles(s) \/ EndpointEnds(s)
      PROVE  lost' = lost
  BY <1>4 DEF OpenSocket, SentByEndpoint, ClientPings, ClientGarbles, EndpointEnds, Waiting
<1>5. ASSUME NEW b \in Casts,
             \/ \E st \in {"market", "orders"}, t \in Topics : Broadcast(b, st, t)
             \/ BroadcastTelemetry(b)
             \/ \E s \in Sockets : Delivered(b, s) \/ Undelivered(b, s)
      PROVE  lost' = lost
  BY <1>5 DEF Broadcast, BroadcastTelemetry, Delivered, Undelivered
<1> QED
  BY <1>1, <1>2, <1>3, <1>4, <1>5 DEF StreamingNext, streamingVars

LEMMA StreamsAreTyped == StreamsTyped => StreamingTypeOK
BY DEF StreamsTyped, StreamingInv, StreamInv, Directory, Endpoints, Recipients, BroadcastsOwe,
       StreamingTypeOK

(* The sandbox, with its queue of scripts and its answers.                   *)
SandboxTyped ==
  /\ SandboxInv
  /\ queue \in Seq(Calls) /\ running \subseteq Calls
  /\ answer \in [Calls -> Answers]

LEMMA InitSandboxTyped == SandboxInit => SandboxTyped
<1>1. <<>> \in Seq(Calls)
  OBVIOUS
<1>2. SandboxInit => queue \in Seq(Calls) /\ running \subseteq Calls /\ answer \in [Calls -> Answers]
  BY <1>1 DEF SandboxInit, Answers
<1> QED
  BY <1>2, InitSandbox DEF SandboxTyped

LEMMA SandboxTypedStep == SandboxTyped /\ [SandboxNext]_sandboxVars => SandboxTyped'
<1> DEFINE Rest == queue \in Seq(Calls) /\ running \subseteq Calls /\ answer \in [Calls -> Answers]
<1> SUFFICES ASSUME SandboxTyped, [SandboxNext]_sandboxVars PROVE Rest'
  BY SandboxStep DEF SandboxTyped
<1>1. Rest
  BY DEF SandboxTyped
<1>2. CASE UNCHANGED sandboxVars
  BY <1>1, <1>2 DEF sandboxVars
<1>3. CASE ThreadStarts
  <2>1. Head(queue) \in Calls /\ Tail(queue) \in Seq(Calls)
    BY <1>1, <1>3 DEF ThreadStarts
  <2> QED
    BY <1>1, <1>3, <2>1 DEF ThreadStarts
<1>4. ASSUME NEW c \in Calls, RejectScript(c) \/ TimeRunsOut(c) PROVE Rest'
  BY <1>1, <1>4 DEF RejectScript, TimeRunsOut, AnswerCall, Answers
<1>5. ASSUME NEW c \in Calls, NEW i \in StrategyIds, ExecuteIsolated(c, i) PROVE Rest'
  <2>1. Append(queue, c) \in Seq(Calls)
    BY <1>1
  <2> QED
    BY <1>1, <1>5, <2>1 DEF ExecuteIsolated, Answers
<1>6. ASSUME NEW c \in Calls, NEW result \in {"success", "error"}, ScriptEnds(c, result) PROVE Rest'
  BY <1>1, <1>6 DEF ScriptEnds, AnswerCall, Answers
<1> QED
  BY <1>2, <1>3, <1>4, <1>5, <1>6 DEF SandboxNext

LEMMA SandboxIsTyped == SandboxTyped => SandboxTypeOK
BY DEF SandboxTyped, SandboxInv, SandboxTypeOK

\* A message of a webhook is an order only once it has passed the guard.
WebhookTyped == WebhookInv /\ clock <= Horizon /\ alerted \subseteq Alerts

LEMMA InitWebhookTyped == WebhookInit => WebhookTyped
<1>1. WebhookInit => clock <= Horizon /\ alerted \subseteq Alerts
  BY SourcesAssumption DEF WebhookInit
<1> QED
  BY <1>1, InitWebhook DEF WebhookTyped

LEMMA WebhookTypedStep == WebhookTyped /\ [WebhookNext]_webhookVars => WebhookTyped'
<1> DEFINE Rest == clock <= Horizon /\ alerted \subseteq Alerts
<1> SUFFICES ASSUME WebhookTyped, [WebhookNext]_webhookVars PROVE Rest'
  BY WebhookStep DEF WebhookTyped
<1>1. Rest /\ clock \in Nat
  BY DEF WebhookTyped, WebhookInv
<1>2. CASE UNCHANGED webhookVars
  BY <1>1, <1>2 DEF webhookVars
<1>3. CASE HalfSecond
  BY <1>1, <1>3, SourcesAssumption DEF HalfSecond
<1>4. ASSUME NEW n \in Alerts, NEW signed \in BOOLEAN, Deliver(n, signed) PROVE Rest'
  <2>1. clock' = clock
    BY <1>4 DEF Deliver
  <2>2. alerted' \subseteq alerted \cup {n}
    <3>1. alerted' = alerted \/ \E out \in Outcomes(alerted, n) : alerted' = out.orders
      BY <1>4 DEF Deliver
    <3> QED
      BY <3>1 DEF Outcomes
  <2> QED
    BY <1>1, <2>1, <2>2
<1> QED
  BY <1>2, <1>3, <1>4 DEF WebhookNext, RejectAlert

(* The bridge's state is of the words it is set to.                          *)
BridgeTyped ==
  /\ bridge \in {"DISCONNECTED", "CONNECTED", "HEARTBEAT_TIMEOUT"}
  /\ terminals \subseteq Terminals
  /\ heard \in {"never", "lately", "long ago"}
  /\ commanded \in {"none", "sent", "refused"}

LEMMA InitBridge == BridgeInit => BridgeTyped
BY DEF BridgeInit, BridgeTyped

LEMMA BridgeStep == BridgeTyped /\ [BridgeNext]_bridgeVars => BridgeTyped'
BY SourcesAssumption
   DEF BridgeTyped, BridgeNext, bridgeVars, BridgeConnect, BridgeDisconnect, DispatchCommand,
       ProcessInbound, ThirtySecondsPass, GetBridgeStatus

\* What is left of an upload and what it executed make up no more than its file.
LEMMA SourcesAreTyped == WebhookTyped /\ BridgeTyped /\ SheetsInv => SourcesTypeOK
<1> SUFFICES ASSUME WebhookTyped, BridgeTyped, SheetsInv PROVE SourcesTypeOK
  OBVIOUS
<1>1. clock \in 0 .. Horizon
  BY SourcesAssumption DEF WebhookTyped, WebhookInv
<1>2. ASSUME NEW b \in Uploads
      PROVE  /\ upload[b].file \in Files \cup {<<>>} /\ upload[b].executed \in Nat
             /\ Len(upload[b].rows) + upload[b].executed <= Len(upload[b].file)
  <2>1. CASE upload[b] = NoUpload
    <3>1. /\ upload[b].file = <<>> /\ upload[b].executed = 0 /\ upload[b].rows = <<>>
      BY <2>1 DEF NoUpload
    <3> QED
      BY <3>1
  <2>2. CASE UploadOK(upload[b], rowOrders, complete)
    <3> DEFINE u == upload[b]
               all == Len(ParsedOrders(u.file))
    <3>1. /\ u.file \in Files /\ u.executed \in Nat /\ u.rows \in Seq(SheetRow)
          /\ u.executed <= Through(u)
      BY <2>2 DEF UploadOK
    <3>2. Through(u) = all - Len(u.rows)
      BY DEF Through
    <3>3. all \in Nat /\ all <= Len(u.file)
      BY <3>1, ParsedFacts
    <3>4. Len(u.rows) \in Nat /\ Len(u.file) \in Nat
      BY <3>1, SourcesAssumption
    <3> HIDE DEF all
    <3> QED
      BY <3>1, <3>2, <3>3, <3>4
  <2> QED
    BY <2>1, <2>2 DEF SheetsInv
<1> QED
  BY <1>1, <1>2 DEF SourcesTypeOK, WebhookTyped, WebhookInv, BridgeTyped, SheetsInv

IssuedToken == [user : UserIds, kind : {"access", "refresh"}, expires : Nat]
ApiKey == [owner : UserIds \cup {NoOwner}, active : BOOLEAN, expires : Nat, used : Nat]

(* The accounts, with their tokens, keys and credentials.                    *)
AccountsTyped ==
  /\ AccountsInv
  /\ tokens \subseteq IssuedToken
  /\ keys \in [Keys -> ApiKey]
  /\ vault \subseteq UserIds \X Brokers
  /\ day \in 0 .. LastDay

LEMMA InitAccountsTyped == AccountsInit => AccountsTyped
<1> SUFFICES ASSUME AccountsInit PROVE AccountsTyped
  OBVIOUS
<1>1. keys \in [Keys -> ApiKey]
  BY DEF AccountsInit, ApiKey
<1>2. day \in 0 .. LastDay
  BY AccountsAssumption DEF AccountsInit
<1> QED
  BY <1>1, <1>2, InitLogins DEF AccountsTyped, AccountsInit

LEMMA StampedTyped ==
  ASSUME AccountsTyped, NEW via
  PROVE  Stamped(via) \in [Keys -> ApiKey]
<1>1. day \in Nat
  BY AccountsAssumption DEF AccountsTyped
<1>2. CASE via \in Keys
  <2>1. keys[via] \in ApiKey
    BY <1>2 DEF AccountsTyped
  <2>2. [keys[via] EXCEPT !.used = day] \in ApiKey
    BY <1>1, <2>1 DEF ApiKey
  <2>3. Stamped(via) = [keys EXCEPT ![via] = [keys[via] EXCEPT !.used = day]]
    BY <1>2 DEF Stamped
  <2> QED
    BY <2>2, <2>3 DEF AccountsTyped
<1>3. CASE via \notin Keys
  BY <1>3 DEF Stamped, AccountsTyped
<1> QED
  BY <1>2, <1>3

LEMMA AccountsTypedStep == AccountsTyped /\ [AccountsNext]_accountVars => AccountsTyped'
<1> DEFINE Rest == /\ tokens \subseteq IssuedToken /\ keys \in [Keys -> ApiKey]
                   /\ vault \subseteq UserIds \X Brokers /\ day \in 0 .. LastDay
<1> SUFFICES ASSUME AccountsTyped, [AccountsNext]_accountVars PROVE Rest'
  BY LoginsStep DEF AccountsTyped
<1>1. Rest /\ day \in Nat /\ LastDay + 1 \in Nat
  BY AccountsAssumption DEF AccountsTyped
<1>2. ASSUME NEW u \in UserIds
      PROVE  {Token(u, "access", AccessLife), Token(u, "refresh", RefreshLife)} \subseteq IssuedToken
  BY <1>1, AccountsAssumption DEF Token, IssuedToken
<1>3. CASE UNCHANGED <<tokens, keys, vault, day>>
  BY <1>1, <1>3
<1>4. ASSUME NEW mail \in Mails, Login(mail) PROVE Rest'
  <2> DEFINE u == logins[LookedUp(mail)]
  <2>1. u \in UserIds
    <3>1. mail[1] \in Boxes /\ mail[2] \in Spellings
      BY DEF Mails
    <3>2. (CHOOSE s \in Spellings : TRUE) \in Spellings
      BY <3>1
    <3>3. LookedUp(mail) \in Mails
      BY <3>1, <3>2 DEF LookedUp, Mails
    <3> QED
      BY <1>4, <3>3 DEF Login, AccountsTyped, AccountsInv
  <2>2. /\ tokens' = tokens \cup {Token(u, "access", AccessLife), Token(u, "refresh", RefreshLife)}
        /\ UNCHANGED <<keys, vault, day>>
    BY <1>4 DEF Login
  <2> HIDE DEF u
  <2>3. {Token(u, "access", AccessLife), Token(u, "refresh", RefreshLife)} \subseteq IssuedToken
    BY <1>2, <2>1
  <2> QED
    BY <1>1, <2>2, <2>3
<1>5. ASSUME NEW t \in tokens, RefreshAccess(t) PROVE Rest'
  <2>1. t.user \in UserIds
    BY <1>1 DEF IssuedToken
  <2>2. Token(t.user, "access", AccessLife) \in IssuedToken
    BY <1>2, <2>1
  <2> QED
    BY <1>1, <1>5, <2>2 DEF RefreshAccess
<1>6. CASE DayPasses
  BY <1>1, <1>6, AccountsAssumption DEF DayPasses
<1>7. ASSUME NEW via \in tokens \cup Keys, NEW u \in UserIds, NEW k \in Keys,
             NEW expires \in {day, NoExpiry}, CreateKey(via, u, k, expires)
      PROVE  Rest'
  <2>1. expires \in Nat
    BY <1>1 DEF NoExpiry
  <2>2. [owner |-> u, active |-> TRUE, expires |-> expires, used |-> 0] \in ApiKey
    BY <2>1 DEF ApiKey
  <2>3. keys' \in [Keys -> ApiKey]
    BY <1>7, <2>2, StampedTyped DEF CreateKey
  <2> QED
    BY <1>1, <1>7, <2>3 DEF CreateKey
<1>8. ASSUME NEW via \in tokens \cup Keys, NEW u \in UserIds, NEW k \in Keys, RevokeKey(via, u, k)
      PROVE  Rest'
  <2> DEFINE before == Stamped(via)
  <2>1. before \in [Keys -> ApiKey]
    BY StampedTyped
  <2>2. keys' = [before EXCEPT ![k].active = FALSE] /\ UNCHANGED <<tokens, vault, day>>
    BY <1>8 DEF RevokeKey
  <2> HIDE DEF before
  <2>3. [before[k] EXCEPT !.active = FALSE] \in ApiKey
    BY <2>1 DEF ApiKey
  <2> QED
    BY <1>1, <2>1, <2>2, <2>3
<1>9. ASSUME NEW via \in tokens \cup Keys, NEW u \in UserIds, NEW b \in Brokers,
             StoreCredentials(via, u, b) \/ DeleteCredentials(via, u, b)
      PROVE  Rest'
  BY <1>1, <1>9, StampedTyped DEF StoreCredentials, DeleteCredentials
<1> QED
  BY <1>3, <1>4, <1>5, <1>6, <1>7, <1>8, <1>9 DEF AccountsNext, accountVars, RegisterUser

LEMMA AccountsAreTyped == AccountsTyped => AccountsTypeOK
BY DEF AccountsTyped, AccountsInv, AccountsTypeOK, IssuedToken, ApiKey

(* A service that takes no step keeps its invariant.                        *)
ServicesInv ==
  /\ StreamsTyped /\ AlertsInv /\ SandboxTyped
  /\ WebhookTyped /\ BridgeTyped /\ SheetsInv
  /\ RuntimeInv /\ BacktestInv /\ AccountsTyped

LEMMA EachServiceSteps ==
  Next =>
    /\ [StreamingNext]_streamingVars /\ [NotificationsNext]_notificationVars
    /\ [SandboxNext]_sandboxVars /\ [WebhookNext]_webhookVars /\ [BridgeNext]_bridgeVars
    /\ [SheetsNext]_sheetsVars /\ [StrategyNext]_strategyVars
    /\ [BacktestNext]_backtestVars /\ [AccountsNext]_accountVars
BY DEF Next, Others

LEMMA UnchangedServices ==
  UNCHANGED vars =>
    UNCHANGED <<streamingVars, notificationVars, sandboxVars, webhookVars, bridgeVars,
                sheetsVars, strategyVars, backtestVars, accountVars>>
BY DEF vars

LEMMA ServicesStep == ServicesInv /\ [Next]_vars => ServicesInv'
BY EachServiceSteps, UnchangedServices, StreamsTypedStep, AlertsStep, SandboxTypedStep,
   WebhookTypedStep, BridgeStep, SheetsStep, RunsStep, BacktestStep, AccountsTypedStep
   DEF ServicesInv

(* Every service keeps the types of its variables, for any clients, channels, *)
(* scripts, alerts, sheets, strategies, candles and users.                  *)
THEOREM ServicesTyped == Spec => []ServicesTypeOK
<1>1. Init => ServicesInv
  BY InitStreamsTyped, InitAlerts, InitSandboxTyped, InitWebhookTyped, InitBridge, InitSheets,
     InitRuns, InitBacktest, InitAccountsTyped
     DEF Init, ServicesInv
<1>2. ServicesInv => ServicesTypeOK
  BY StreamsAreTyped, AlertsAreTyped, SandboxIsTyped, SourcesAreTyped, RunsTyped,
     BacktestIsTyped, AccountsAreTyped
     DEF ServicesInv, ServicesTypeOK
<1> QED
  BY <1>1, ServicesStep, <1>2, PTL DEF Spec
=============================================================================
