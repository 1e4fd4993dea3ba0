--------------------------- MODULE LiveTrading_proofs ---------------------------
(***************************************************************************)
(* Proofs about LiveTrading: its safety invariants, by one inductive         *)
(* invariant, and that halting a session is final.                          *)
(***************************************************************************)
EXTENDS LiveTrading, TLAPS

(* A suspended request that is to open a session was cleared, and its broker *)
(* is certified: the verdict of the checks stays good enough until it is     *)
(* used.                                                                    *)
VerdictsStand ==
  \A r \in Requests :
    Pending(r) /\ request[r].opens => r \in cleared /\ request[r].broker \in certified

IInv ==
  /\ TypeOK
  /\ OneActivePerStrategy
  /\ OpenedWhenCleared
  /\ SessionsCertified
  /\ VerdictsStand

\* The state changes of sessions and requests, action by action, leave only
\* these to the invariant.
QuietStep ==
  /\ request' = request
  /\ live' = live
  /\ certified \subseteq certified'
  /\ cleared' = Noted

(* The invariant holds in the initial states.                               *)
LEMMA InitIInv == Init => IInv
<1> SUFFICES ASSUME Init PROVE IInv
  OBVIOUS
<1> USE LiveTradingAssumption DEF Init
<1>1. TypeOK
  BY DEF TypeOK, LinkStates, Pending
<1>2. OneActivePerStrategy /\ OpenedWhenCleared /\ SessionsCertified
  BY DEF OneActivePerStrategy, OpenedWhenCleared, SessionsCertified
<1>3. VerdictsStand
  BY DEF VerdictsStand, Pending
<1>4. QED
  BY <1>1, <1>2, <1>3 DEF IInv

(* Actions that touch neither a session nor a request, and revoke no         *)
(* certification, keep everything but the types of what they change.        *)
LEMMA QuietKeeps ==
  ASSUME IInv, QuietStep
  PROVE  /\ OneActivePerStrategy' /\ OpenedWhenCleared' /\ SessionsCertified'
         /\ VerdictsStand'
<1> USE DEF IInv, QuietStep
<1>1. cleared \subseteq cleared'
  BY DEF Noted
<1>2. OneActivePerStrategy'
  BY DEF OneActivePerStrategy
<1>3. OpenedWhenCleared' /\ SessionsCertified'
  BY <1>1 DEF OpenedWhenCleared, SessionsCertified, TypeOK, LiveSessions
<1>4. VerdictsStand'
  BY <1>1 DEF VerdictsStand, Pending, TypeOK, PendingRequests
<1>5. QED
  BY <1>2, <1>3, <1>4

(* Concluding a request keeps the invariant when its verdict stands.        *)
LEMMA ConcludeKeeps ==
  ASSUME IInv, NEW r \in Requests, NEW q \in PendingRequests,
         live[r] = NoSession, Conclude(r, q),
         q.opens => r \in cleared' /\ q.broker \in certified,
         \A r1 \in Requests \ {r} : r1 \in cleared => r1 \in cleared',
         certified' = certified
  PROVE  /\ request' \in [Requests -> PendingRequests \cup {NoRequest}]
         /\ live' \in [Requests -> LiveSessions \cup {NoSession}]
         /\ \A r1 \in Requests : Pending(r1)' => live'[r1] = NoSession
         /\ OneActivePerStrategy' /\ OpenedWhenCleared' /\ SessionsCertified'
         /\ VerdictsStand'
<1> USE LiveTradingAssumption DEF IInv, Conclude
<1>t. /\ request \in [Requests -> PendingRequests \cup {NoRequest}]
      /\ live \in [Requests -> LiveSessions \cup {NoSession}]
      /\ \A r1 \in Requests : Pending(r1) => live[r1] = NoSession
  BY DEF TypeOK
<1>1. /\ request' = [request EXCEPT ![r] = NoRequest]
      /\ \/ live' = live
         \/ /\ q.opens /\ ~HasActive(q.strategy)
            /\ \E tier \in Tiers :
                 live' = [live EXCEPT ![r] = [strategy |-> q.strategy, broker |-> q.broker,
                                              tier |-> tier, state |-> "ACTIVE"]]
  OBVIOUS
<1>2. request' \in [Requests -> PendingRequests \cup {NoRequest}]
  BY <1>1, <1>t
<1>3. VerdictsStand'
  <2> SUFFICES ASSUME NEW r1 \in Requests, Pending(r1)', request'[r1].opens
               PROVE  r1 \in cleared' /\ request'[r1].broker \in certified'
    BY DEF VerdictsStand
  <2>1. r1 # r /\ request'[r1] = request[r1]
    BY <1>1, <1>t DEF Pending
  <2>2. r1 \in cleared /\ request[r1].broker \in certified
    BY <2>1 DEF VerdictsStand, Pending
  <2>3. QED
    BY <2>1, <2>2
<1>4. CASE live' = live
  <2>1. \A r1 \in Requests : Pending(r1)' => live'[r1] = NoSession
    BY <1>4, <1>1, <1>t DEF Pending
  <2>2. OneActivePerStrategy'
    BY <1>4 DEF OneActivePerStrategy
  <2>3. OpenedWhenCleared' /\ SessionsCertified'
    BY <1>4 DEF OpenedWhenCleared, SessionsCertified
  <2>4. QED
    BY <1>2, <1>3, <1>4, <1>t, <2>1, <2>2, <2>3
<1>5. ASSUME q.opens, ~HasActive(q.strategy), NEW tier \in Tiers,
             live' = [live EXCEPT ![r] = [strategy |-> q.strategy, broker |-> q.broker,
                                          tier |-> tier, state |-> "ACTIVE"]]
      PROVE  /\ live' \in [Requests -> LiveSessions \cup {NoSession}]
             /\ \A r1 \in Requests : Pending(r1)' => live'[r1] = NoSession
             /\ OneActivePerStrategy' /\ OpenedWhenCleared' /\ SessionsCertified'
  <2> DEFINE opened == [strategy |-> q.strategy, broker |-> q.broker,
                        tier |-> tier, state |-> "ACTIVE"]
  <2>1. opened \in LiveSessions /\ opened # NoSession
    BY DEF LiveSessions, PendingRequests
  <2>2. live'[r] = opened /\ \A r1 \in Requests \ {r} : live'[r1] = live[r1]
    BY <1>5, <1>t
  <2>3. live' \in [Requests -> LiveSessions \cup {NoSession}]
    BY <1>5, <1>t, <2>1
  <2>4. \A r1 \in Requests : Pending(r1)' => live'[r1] = NoSession
    BY <1>1, <1>t, <2>2 DEF Pending
  <2>5. OneActivePerStrategy'
    <3>1. opened.strategy = q.strategy
      OBVIOUS
    <3> HIDE DEF opened
    <3>2. \A r1 \in Requests : live[r1] # NoSession /\ live[r1].state = "ACTIVE"
            => live[r1].strategy # q.strategy
      BY <1>5 DEF HasActive
    <3>3. QED
      BY <2>2, <3>1, <3>2 DEF OneActivePerStrategy
  <2>6. OpenedWhenCleared'
    BY <1>5, <2>2 DEF OpenedWhenCleared
  <2>7. SessionsCertified'
    <3>1. opened.broker = q.broker
      OBVIOUS
    <3> HIDE DEF opened
    <3>2. QED
      BY <1>5, <2>2, <3>1 DEF SessionsCertified
  <2>8. QED
    BY <2>3, <2>4, <2>5, <2>6, <2>7
<1>6. QED
  BY <1>1, <1>2, <1>3, <1>4, <1>5

(* Connecting the broker for a request, and concluding it where no further   *)
(* suspension follows, keeps the invariant.                                 *)
LEMMA DialKeeps ==
  ASSUME IInv, NEW r \in Requests, NEW q \in PendingRequests,
         live[r] = NoSession, Dial(r, q),
         q.opens => r \in cleared' /\ q.broker \in certified,
         \A r1 \in Requests \ {r} : r1 \in cleared => r1 \in cleared',
         certified' = certified
  PROVE  /\ link' \in [Brokers -> LinkStates]
         /\ request' \in [Requests -> PendingRequests \cup {NoRequest}]
         /\ live' \in [Requests -> LiveSessions \cup {NoSession}]
         /\ \A r1 \in Requests : Pending(r1)' => live'[r1] = NoSession
         /\ OneActivePerStrategy' /\ OpenedWhenCleared' /\ SessionsCertified'
         /\ VerdictsStand'
<1> USE LiveTradingAssumption
<1>t. /\ link \in [Brokers -> LinkStates]
      /\ request \in [Requests -> PendingRequests \cup {NoRequest}]
      /\ live \in [Requests -> LiveSessions \cup {NoSession}]
      /\ \A r1 \in Requests : Pending(r1) => live[r1] = NoSession
  BY DEF IInv, TypeOK
<1>1. link' \in [Brokers -> LinkStates]
  BY <1>t DEF Dial, LinkStates
<1>2. CASE Conclude(r, q)
  BY <1>1, <1>2, ConcludeKeeps
<1>3. CASE /\ request' = [request EXCEPT ![r] = [q EXCEPT !.at = "connect"]]
           /\ live' = live
  <2> DEFINE moved == [q EXCEPT !.at = "connect"]
  <2>1. /\ moved \in PendingRequests
        /\ moved.opens = q.opens /\ moved.broker = q.broker
    BY DEF PendingRequests
  <2> HIDE DEF moved
  <2>2. request'[r] = moved /\ \A r1 \in Requests \ {r} : request'[r1] = request[r1]
    BY <1>3, <1>t DEF moved
  <2>3. request' \in [Requests -> PendingRequests \cup {NoRequest}]
    BY <1>3, <1>t, <2>1 DEF moved
  <2>4. \A r1 \in Requests : Pending(r1)' => live'[r1] = NoSession
    BY <1>3, <1>t, <2>2 DEF Pending
  <2>5. OneActivePerStrategy'
    BY <1>3 DEF IInv, OneActivePerStrategy
  <2>6. OpenedWhenCleared' /\ SessionsCertified'
    BY <1>3 DEF IInv, OpenedWhenCleared, SessionsCertified
  <2>7. VerdictsStand'
    <3> SUFFICES ASSUME NEW r1 \in Requests, Pending(r1)', request'[r1].opens
                 PROVE  r1 \in cleared' /\ request'[r1].broker \in certified'
      BY DEF VerdictsStand
    <3>1. CASE r1 = r
      BY <3>1, <2>1, <2>2
    <3>2. CASE r1 # r
      <4>1. request'[r1] = request[r1]
        BY <3>2, <2>2
      <4>2. r1 \in cleared /\ request[r1].broker \in certified
        BY <4>1 DEF IInv, VerdictsStand, Pending
      <4>3. QED
        BY <3>2, <4>1, <4>2
    <3>3. QED
      BY <3>1, <3>2
  <2>8. QED
    BY <1>1, <1>3, <1>t, <2>3, <2>4, <2>5, <2>6, <2>7
<1>4. QED
  BY <1>2, <1>3 DEF Dial

(* A step that changes no session or request and keeps the types of the      *)
(* rest keeps the invariant.                                                *)
LEMMA QuietIInv ==
  ASSUME IInv, QuietStep,
         promoted' \subseteq Strategies, certified' \subseteq Brokers,
         opening' \subseteq Brokers, auditing' \subseteq Brokers,
         link' \in [Brokers -> LinkStates],
         locked' \in BOOLEAN, feed' \in {"EMPTY", "STALE", "HEALTHY"}
  PROVE  IInv'
<1>1. cleared' \subseteq Requests
  BY DEF QuietStep, Noted, IInv, TypeOK
<1>2. TypeOK'
  BY <1>1 DEF QuietStep, IInv, TypeOK, Pending
<1>3. QED
  BY <1>2, QuietKeeps DEF IInv

(* The adapters' and the other services' steps are quiet and keep types.    *)
LEMMA EnvironmentKeeps ==
  ASSUME IInv,
         \/ \E b \in Brokers : ConnectNow(b) \/ ConnectBegins(b) \/ ConnectEnds(b) \/ Disconnect(b)
         \/ \E b \in Brokers : AuditBegins(b) \/ AuditEnds(b)
         \/ PromotionStep \/ SwitchStep \/ FeedStep
  PROVE  IInv'
<1> USE DEF QuietStep, world, adapters
<1>t. /\ promoted \subseteq Strategies /\ certified \subseteq Brokers
      /\ opening \subseteq Brokers /\ auditing \subseteq Brokers
      /\ link \in [Brokers -> LinkStates]
      /\ locked \in BOOLEAN /\ feed \in {"EMPTY", "STALE", "HEALTHY"}
  BY DEF IInv, TypeOK
<1>1. ASSUME NEW b \in Brokers, ConnectNow(b) PROVE IInv'
  BY <1>1, <1>t, QuietIInv DEF ConnectNow, LinkStates
<1>2. ASSUME NEW b \in Brokers, ConnectBegins(b) PROVE IInv'
  BY <1>2, <1>t, QuietIInv DEF ConnectBegins, LinkStates
<1>3. ASSUME NEW b \in Brokers, ConnectEnds(b) PROVE IInv'
  BY <1>3, <1>t, QuietIInv DEF ConnectEnds, LinkStates
<1>4. ASSUME NEW b \in Brokers, Disconnect(b) PROVE IInv'
  BY <1>4, <1>t, QuietIInv DEF Disconnect, LinkStates
<1>5. ASSUME NEW b \in Brokers, AuditBegins(b) PROVE IInv'
  BY <1>5, <1>t, QuietIInv DEF AuditBegins, LinkStates
<1>6. ASSUME NEW b \in Brokers, AuditEnds(b) PROVE IInv'
  BY <1>6, <1>t, QuietIInv DEF AuditEnds, LinkStates
<1>7. CASE PromotionStep
  BY <1>7, <1>t, QuietIInv DEF PromotionStep
<1>8. CASE SwitchStep
  BY <1>8, <1>t, QuietIInv DEF SwitchStep
<1>9. CASE FeedStep
  BY <1>9, <1>t, QuietIInv DEF FeedStep
<1>10. QED
  BY <1>1, <1>2, <1>3, <1>4, <1>5, <1>6, <1>7, <1>8, <1>9

(* A session that stays, of the same strategy and broker and not activated   *)
(* again, keeps the invariant: scaling and halting.                         *)
LEMMA SessionChangeKeeps ==
  ASSUME IInv, NEW r \in Requests, live[r] # NoSession, NEW session \in LiveSessions,
         session.strategy = live[r].strategy, session.broker = live[r].broker,
         session.state = "ACTIVE" => live[r].state = "ACTIVE",
         live' = [live EXCEPT ![r] = session],
         UNCHANGED <<world, adapters, request>>, cleared' = Noted
  PROVE  IInv'
<1> USE LiveTradingAssumption
<1>t. /\ live \in [Requests -> LiveSessions \cup {NoSession}]
      /\ request' = request /\ certified' = certified
      /\ \A r1 \in Requests : Pending(r1) => live[r1] = NoSession
  BY DEF IInv, TypeOK, adapters
<1>1. /\ session # NoSession
      /\ live'[r] = session /\ \A r1 \in Requests \ {r} : live'[r1] = live[r1]
  BY <1>t
<1>2. cleared \subseteq cleared' /\ cleared' \subseteq Requests
  BY DEF Noted, IInv, TypeOK
<1>3. TypeOK'
  <2>1. live' \in [Requests -> LiveSessions \cup {NoSession}]
    BY <1>t
  <2>2. \A r1 \in Requests : Pending(r1)' => live'[r1] = NoSession
    BY <1>t, <1>1 DEF Pending
  <2>3. QED
    BY <1>2, <2>1, <2>2 DEF IInv, TypeOK, world, adapters
<1>4. OneActivePerStrategy'
  BY <1>1 DEF IInv, OneActivePerStrategy
<1>5. OpenedWhenCleared' /\ SessionsCertified'
  BY <1>1, <1>2, <1>t DEF IInv, OpenedWhenCleared, SessionsCertified
<1>6. VerdictsStand'
  BY <1>2, <1>t DEF IInv, VerdictsStand, Pending
<1>7. QED
  BY <1>3, <1>4, <1>5, <1>6 DEF IInv

(* Every step keeps the invariant.                                          *)
LEMMA NextIInv == IInv /\ [Next]_vars => IInv'
<1> SUFFICES ASSUME IInv, [Next]_vars PROVE IInv'
  OBVIOUS
<1> USE LiveTradingAssumption
<1>t. /\ promoted \subseteq Strategies /\ certified \subseteq Brokers
      /\ opening \subseteq Brokers /\ auditing \subseteq Brokers
      /\ link \in [Brokers -> LinkStates]
      /\ locked \in BOOLEAN /\ feed \in {"EMPTY", "STALE", "HEALTHY"}
      /\ request \in [Requests -> PendingRequests \cup {NoRequest}]
      /\ live \in [Requests -> LiveSessions \cup {NoSession}]
      /\ cleared \subseteq Requests
      /\ \A r \in Requests : Pending(r) => live[r] = NoSession
  BY DEF IInv, TypeOK
<1>n. cleared \subseteq Noted /\ Noted \subseteq Requests
  BY <1>t DEF Noted
<1>1. ASSUME NEW r \in Requests, NEW s \in Strategies, NEW b \in Brokers,
             NEW activate \in BOOLEAN, Begin(r, s, b, activate)
      PROVE  IInv'
  <2> DEFINE q == [at |-> "broadcast", strategy |-> s, broker |-> b,
                   opens |-> activate /\ ChecksPass(s, b)]
  <2>1. q \in PendingRequests
    BY DEF PendingRequests, ChecksPass
  <2>2. q.broker = b /\ (q.opens => ChecksPass(s, b))
    OBVIOUS
  <2>3. IF feed = "HEALTHY" THEN Dial(r, q)
        ELSE request' = [request EXCEPT ![r] = q] /\ link' = link /\ live' = live
    BY <1>1 DEF Begin
  <2> HIDE DEF q
  <2>4. /\ live[r] = NoSession /\ certified' = certified
        /\ cleared' = IF ChecksPass(s, b) THEN Noted \cup {r} ELSE Noted \ {r}
        /\ promoted' = promoted /\ locked' = locked /\ feed' = feed
        /\ opening' = opening /\ auditing' = auditing
    BY <1>1 DEF Begin, world
  <2>5. \A r1 \in Requests \ {r} : r1 \in cleared => r1 \in cleared'
    BY <2>4, <1>n
  <2>6. q.opens => r \in cleared' /\ q.broker \in certified
    BY <2>2, <2>4 DEF ChecksPass
  <2>7. cleared' \subseteq Requests
    BY <2>4, <1>n
  <2>8. CASE feed = "HEALTHY"
    <3>1. Dial(r, q)
      BY <2>3, <2>8
    <3>2. /\ link' \in [Brokers -> LinkStates]
          /\ request' \in [Requests -> PendingRequests \cup {NoRequest}]
          /\ live' \in [Requests -> LiveSessions \cup {NoSession}]
          /\ \A r1 \in Requests : Pending(r1)' => live'[r1] = NoSession
          /\ OneActivePerStrategy' /\ OpenedWhenCleared' /\ SessionsCertified'
          /\ VerdictsStand'
      BY <2>1, <2>4, <2>5, <2>6, <3>1, DialKeeps
    <3>3. TypeOK'
      BY <3>2, <2>4, <2>7, <1>t DEF TypeOK
    <3>4. QED
      BY <3>2, <3>3 DEF IInv
  <2>9. CASE feed # "HEALTHY"
    <3>1. /\ request'[r] = q /\ \A r1 \in Requests \ {r} : request'[r1] = request[r1]
          /\ request' \in [Requests -> PendingRequests \cup {NoRequest}]
      BY <2>1, <2>3, <2>9, <1>t
    <3>2. link' = link /\ live' = live
      BY <2>3, <2>9
    <3>3. TypeOK'
      <4>1. \A r1 \in Requests : Pending(r1)' => live'[r1] = NoSession
        BY <3>1, <3>2, <2>4, <1>t DEF Pending
      <4>2. QED
        BY <4>1, <3>1, <3>2, <2>4, <2>7, <1>t DEF TypeOK
    <3>4. OneActivePerStrategy'
      BY <3>2 DEF IInv, OneActivePerStrategy
    <3>5. OpenedWhenCleared' /\ SessionsCertified'
      BY <3>2, <2>4, <2>5 DEF IInv, OpenedWhenCleared, SessionsCertified
    <3>6. VerdictsStand'
      <4> SUFFICES ASSUME NEW r1 \in Requests, Pending(r1)', request'[r1].opens
                   PROVE  r1 \in cleared' /\ request'[r1].broker \in certified'
        BY DEF VerdictsStand
      <4>1. CASE r1 = r
        BY <4>1, <3>1, <2>4, <2>6
      <4>2. CASE r1 # r
        <5>1. request'[r1] = request[r1]
          BY <4>2, <3>1
        <5>2. r1 \in cleared /\ request[r1].broker \in certified
          BY <5>1 DEF IInv, VerdictsStand, Pending
        <5>3. QED
          BY <4>2, <5>1, <5>2, <2>4, <2>5
      <4>3. QED
        BY <4>1, <4>2
    <3>7. QED
      BY <3>3, <3>4, <3>5, <3>6 DEF IInv
  <2>10. QED
    BY <2>8, <2>9
<1>2. ASSUME NEW r \in Requests, BroadcastDone(r) PROVE IInv'
  <2>1. /\ Pending(r) /\ Dial(r, request[r]) /\ cleared' = Noted
        /\ promoted' = promoted /\ locked' = locked /\ feed' = feed
        /\ certified' = certified /\ opening' = opening /\ auditing' = auditing
    BY <1>2 DEF BroadcastDone, world
  <2>2. request[r] \in PendingRequests /\ live[r] = NoSession
    BY <2>1, <1>t DEF Pending
  <2>3. request[r].opens => r \in cleared' /\ request[r].broker \in certified
    BY <2>1, <1>n DEF IInv, VerdictsStand
  <2>4. \A r1 \in Requests \ {r} : r1 \in cleared => r1 \in cleared'
    BY <2>1, <1>n
  <2>5. /\ link' \in [Brokers -> LinkStates]
        /\ request' \in [Requests -> PendingRequests \cup {NoRequest}]
        /\ live' \in [Requests -> LiveSessions \cup {NoSession}]
        /\ \A r1 \in Requests : Pending(r1)' => live'[r1] = NoSession
        /\ OneActivePerStrategy' /\ OpenedWhenCleared' /\ SessionsCertified'
        /\ VerdictsStand'
    BY <2>1, <2>2, <2>3, <2>4, DialKeeps
  <2>6. TypeOK'
    BY <2>1, <2>5, <1>t, <1>n DEF TypeOK
  <2>7. QED
    BY <2>5, <2>6 DEF IInv
<1>3. ASSUME NEW r \in Requests, ConnectDone(r) PROVE IInv'
  <2>1. /\ Pending(r) /\ Conclude(r, request[r]) /\ cleared' = Noted
        /\ link' = [link EXCEPT ![Paper] = "AUTHENTICATED"]
        /\ promoted' = promoted /\ locked' = locked /\ feed' = feed
        /\ certified' = certified /\ opening' = opening /\ auditing' = auditing
    BY <1>3 DEF ConnectDone, world
  <2>2. request[r] \in PendingRequests /\ live[r] = NoSession
    BY <2>1, <1>t DEF Pending
  <2>3. request[r].opens => r \in cleared' /\ request[r].broker \in certified
    BY <2>1, <1>n DEF IInv, VerdictsStand
  <2>4. \A r1 \in Requests \ {r} : r1 \in cleared => r1 \in cleared'
    BY <2>1, <1>n
  <2>5. /\ request' \in [Requests -> PendingRequests \cup {NoRequest}]
        /\ live' \in [Requests -> LiveSessions \cup {NoSession}]
        /\ \A r1 \in Requests : Pending(r1)' => live'[r1] = NoSession
        /\ OneActivePerStrategy' /\ OpenedWhenCleared' /\ SessionsCertified'
        /\ VerdictsStand'
    BY <2>1, <2>2, <2>3, <2>4, ConcludeKeeps
  <2>6. link' \in [Brokers -> LinkStates]
    BY <2>1, <1>t DEF LinkStates
  <2>7. TypeOK'
    BY <2>1, <2>5, <2>6, <1>t, <1>n DEF TypeOK
  <2>8. QED
    BY <2>5, <2>7 DEF IInv
<1>4. ASSUME NEW r \in Requests, Halt(r) PROVE IInv'
  <2> DEFINE session == [live[r] EXCEPT !.state = "HALTED"]
  <2>1. live[r] # NoSession /\ live[r] \in LiveSessions
    BY <1>4, <1>t DEF Halt
  <2>2. /\ session \in LiveSessions /\ session.state = "HALTED"
        /\ session.strategy = live[r].strategy /\ session.broker = live[r].broker
    BY <2>1 DEF LiveSessions
  <2>3. /\ live' = [live EXCEPT ![r] = session]
        /\ UNCHANGED <<world, adapters, request>> /\ cleared' = Noted
    BY <1>4, <1>t DEF Halt
  <2> HIDE DEF session
  <2>4. QED
    BY <2>1, <2>2, <2>3, SessionChangeKeeps
<1>5. ASSUME NEW r \in Requests, NEW tier \in Tiers, AdjustScalingTier(r, tier) PROVE IInv'
  <2> DEFINE session == [live[r] EXCEPT !.tier = tier]
  <2>1. live[r] # NoSession /\ live[r] \in LiveSessions
    BY <1>5, <1>t DEF AdjustScalingTier
  <2>2. /\ session \in LiveSessions /\ session.state = live[r].state
        /\ session.strategy = live[r].strategy /\ session.broker = live[r].broker
    BY <2>1 DEF LiveSessions
  <2>3. /\ live' = [live EXCEPT ![r] = session]
        /\ UNCHANGED <<world, adapters, request>> /\ cleared' = Noted
    BY <1>5, <1>t DEF AdjustScalingTier
  <2> HIDE DEF session
  <2>4. QED
    BY <2>1, <2>2, <2>3, SessionChangeKeeps
<1>6. CASE UNCHANGED vars
  <2>1. UNCHANGED <<promoted, certified, link, opening, auditing, locked, feed,
                    request, live, cleared>>
    BY <1>6 DEF vars
  <2>2. TypeOK'
    BY <2>1, <1>t DEF TypeOK, Pending
  <2>3. QED
    BY <2>1, <2>2 DEF IInv, OneActivePerStrategy, OpenedWhenCleared, SessionsCertified,
                      VerdictsStand, Pending
<1>7. QED
  BY <1>1, <1>2, <1>3, <1>4, <1>5, <1>6, EnvironmentKeeps DEF Next

(* The inductive invariant holds in every reachable state.                  *)
THEOREM Inductive == Spec => []IInv
<1>1. QED
  BY InitIInv, NextIInv, PTL DEF Spec

(* The live trading service keeps its types, for any strategies, brokers,    *)
(* requests and tiers.                                                      *)
THEOREM TypeCorrect == Spec => []TypeOK
<1>1. IInv => TypeOK
  BY DEF IInv
<1>2. QED
  BY <1>1, Inductive, PTL

(* A strategy never has two active sessions, whatever requests overlap.     *)
THEOREM OneActive == Spec => []OneActivePerStrategy
<1>1. IInv => OneActivePerStrategy
  BY DEF IInv
<1>2. QED
  BY <1>1, Inductive, PTL

(* Every session was opened by a request during which all the checks held    *)
(* at once.                                                                 *)
THEOREM Vetted == Spec => []OpenedWhenCleared
<1>1. IInv => OpenedWhenCleared
  BY DEF IInv
<1>2. QED
  BY <1>1, Inductive, PTL

(* The broker of a session is certified for as long as the session exists.  *)
THEOREM Certified == Spec => []SessionsCertified
<1>1. IInv => SessionsCertified
  BY DEF IInv
<1>2. QED
  BY <1>1, Inductive, PTL

(* A halted session never changes again.                                    *)
THEOREM HaltIsFinal == Spec => HaltedForever
<1>1. IInv /\ [Next]_vars =>
        [\A r \in Requests : live[r] # NoSession /\ live[r].state = "HALTED" => live'[r] = live[r]]_vars
  <2> SUFFICES ASSUME IInv, Next, NEW r \in Requests, live[r] # NoSession,
                      live[r].state = "HALTED"
               PROVE  live'[r] = live[r]
    BY DEF vars
  <2>t. /\ live \in [Requests -> LiveSessions \cup {NoSession}]
        /\ request \in [Requests -> PendingRequests \cup {NoRequest}]
        /\ live[r] \in LiveSessions
        /\ \A r1 \in Requests : Pending(r1) => live[r1] = NoSession
    BY DEF IInv, TypeOK
  <2>c. ASSUME NEW r1 \in Requests \ {r}, NEW q, Dial(r1, q) \/ Conclude(r1, q)
        PROVE  live'[r] = live[r]
    BY <2>c, <2>t DEF Dial, Conclude
  <2>1. ASSUME NEW r1 \in Requests, NEW s \in Strategies, NEW b \in Brokers,
               NEW activate \in BOOLEAN, Begin(r1, s, b, activate)
        PROVE  live'[r] = live[r]
    <3>1. r1 # r
      BY <2>1 DEF Begin
    <3>2. CASE feed = "HEALTHY"
      BY <2>1, <2>c, <3>1, <3>2 DEF Begin
    <3>3. CASE feed # "HEALTHY"
      BY <2>1, <3>3 DEF Begin
    <3>4. QED
      BY <3>2, <3>3
  <2>2. ASSUME NEW r1 \in Requests, BroadcastDone(r1) \/ ConnectDone(r1)
        PROVE  live'[r] = live[r]
    <3>1. r1 # r
      BY <2>2, <2>t DEF BroadcastDone, ConnectDone
    <3>2. QED
      BY <2>2, <2>c, <3>1 DEF BroadcastDone, ConnectDone
  <2>3. ASSUME NEW r1 \in Requests, Halt(r1) PROVE live'[r] = live[r]
    <3>1. CASE r1 = r
      <4>1. [live[r] EXCEPT !.state = "HALTED"] = live[r]
        BY <2>t DEF LiveSessions
      <4>2. QED
        BY <2>3, <2>t, <3>1, <4>1 DEF Halt
    <3>2. CASE r1 # r
      BY <2>3, <2>t, <3>2 DEF Halt
    <3>3. QED
      BY <3>1, <3>2
  <2>4. ASSUME NEW r1 \in Requests, NEW tier \in Tiers, AdjustScalingTier(r1, tier)
        PROVE  live'[r] = live[r]
    BY <2>4, <2>t DEF AdjustScalingTier
  <2>5. CASE \/ \E b \in Brokers : ConnectNow(b) \/ ConnectBegins(b) \/ ConnectEnds(b) \/ Disconnect(b)
             \/ \E b \in Brokers : AuditBegins(b) \/ AuditEnds(b)
             \/ PromotionStep \/ SwitchStep \/ FeedStep
    BY <2>5 DEF ConnectNow, ConnectBegins, ConnectEnds, Disconnect, AuditBegins, AuditEnds,
                PromotionStep, SwitchStep, FeedStep
  <2>6. QED
    BY <2>1, <2>2, <2>3, <2>4, <2>5 DEF Next
<1>2. QED
  BY <1>1, Inductive, PTL DEF Spec, HaltedForever
=============================================================================
