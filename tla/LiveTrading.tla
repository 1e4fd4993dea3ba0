------------------------------ MODULE LiveTrading ------------------------------
(***************************************************************************)
(* The live trading service: preflight, activation, scaling and halt of      *)
(* live sessions, with what they depend on: the strategies in the last        *)
(* stage of promotion, the certification and session of the broker adapters,  *)
(* the kill switch, and the health of the market data.                      *)
(*                                                                          *)
(* The preflight suspends at two places only: in the telemetry broadcast     *)
(* when the feed is empty or stale, and in the paper adapter's connect().    *)
(* Stage, certification and kill switch are read before both, in one step.   *)
(* The session is looked up and saved after both, in one step again.         *)
(***************************************************************************)
EXTENDS Naturals, FiniteSets

CONSTANTS
  Strategies, Brokers,
  Paper,        \* the paper adapter: connects in two steps, certified from the start
  Requests,     \* preflight and activation requests; a session has its request's id
  Tiers,        \* ScalingTier
  NoRequest, NoSession,
  MaxBrokerCalls   \* bound: connections and audits in progress

VARIABLES
  promoted,     \* strategies whose promotion_stage is LIVE_TRADING
  certified,    \* brokers whose adapter is_certified
  link,         \* broker -> session state of its adapter
  opening,      \* brokers with a user's connect() in progress
  auditing,     \* brokers with a certification audit in progress
  locked,       \* the kill switch is active
  feed,         \* EMPTY, STALE or HEALTHY
  request,      \* the requests that are suspended, where, and whether they open a
                \* session (an activation whose checks 1 to 4 passed)
  live,         \* the live sessions
  cleared       \* history: requests during which all of checks 1 to 4 held at once

adapters == <<certified, link, opening, auditing>>
world == <<promoted, locked, feed>>
vars == <<promoted, certified, link, opening, auditing, locked, feed,
          request, live, cleared>>

LinkStates == {"DISCONNECTED", "CONNECTING", "CONNECTED", "AUTHENTICATED", "ERROR"}
PendingRequests ==
  [at : {"broadcast", "connect"}, strategy : Strategies, broker : Brokers,
   opens : BOOLEAN]
LiveSessions ==
  [strategy : Strategies, broker : Brokers, tier : Tiers, state : {"ACTIVE", "HALTED"}]

ASSUME LiveTradingAssumption ==
  /\ Paper \in Brokers
  /\ NoRequest \notin PendingRequests
  /\ NoSession \notin LiveSessions
  /\ IsFiniteSet(Brokers) /\ MaxBrokerCalls \in Nat
-----------------------------------------------------------------------------
Connected(b) == link[b] \in {"CONNECTED", "AUTHENTICATED"}

\* Checks 1 to 4: promoted, certified, unlocked, and no stale feed.  A feed
\* that never had a tick has no stale symbol either.
ChecksPass(s, b) ==
  /\ s \in promoted
  /\ b \in certified
  /\ ~locked
  /\ feed # "STALE"

Busy == Cardinality(opening) + Cardinality(auditing) >= MaxBrokerCalls

Pending(r) == request[r] # NoRequest

HasActive(s) ==
  \E r \in Requests : live[r] # NoSession /\ live[r].strategy = s /\ live[r].state = "ACTIVE"

\* History: among the pending requests, those whose checks hold now.
Noted ==
  cleared \cup {r \in Requests : Pending(r) /\ ChecksPass(request[r].strategy, request[r].broker)}

\* Mutant: the request is still suspended after its session was saved.
ConcludeEarly(r, q) ==
  /\ request' = [request EXCEPT ![r] = q]
  /\ live' \in IF q.opens /\ ~HasActive(q.strategy)
               THEN {[live EXCEPT ![r] = [strategy |-> q.strategy, broker |-> q.broker,
                                          tier |-> tier, state |-> "ACTIVE"]] : tier \in Tiers}
               ELSE {live}

\* Mutant: the strategy's active session is not looked up again.
ConcludeUnguarded(r, q) ==
  /\ request' = [request EXCEPT ![r] = NoRequest]
  /\ live' \in IF q.opens
               THEN {[live EXCEPT ![r] = [strategy |-> q.strategy, broker |-> q.broker,
                                          tier |-> tier, state |-> "ACTIVE"]] : tier \in Tiers}
               ELSE {live}

\* The verdict, and for an activation the look-up and the new session, with the
\* scaling tier of the request.
Conclude(r, q) ==
  /\ request' = [request EXCEPT ![r] = NoRequest]
  /\ live' \in IF q.opens /\ ~HasActive(q.strategy)
               THEN {[live EXCEPT ![r] = [strategy |-> q.strategy, broker |-> q.broker,
                                          tier |-> tier, state |-> "ACTIVE"]] : tier \in Tiers}
               ELSE {live}

\* Check 5 with mock credentials, which every adapter accepts.  It connects a
\* disconnected adapter whatever the other checks said.
Dial(r, q) ==
  \/ /\ Connected(q.broker)
     /\ Conclude(r, q)
     /\ UNCHANGED link
  \/ /\ ~Connected(q.broker)
     /\ q.broker # Paper
     /\ link' = [link EXCEPT ![q.broker] = "AUTHENTICATED"]
     /\ Conclude(r, q)
  \/ /\ ~Connected(q.broker)
     /\ q.broker = Paper
     /\ link' = [link EXCEPT ![Paper] = "CONNECTED"]
     /\ request' = [request EXCEPT ![r] = [q EXCEPT !.at = "connect"]]
     /\ UNCHANGED live
-----------------------------------------------------------------------------
Init ==
  /\ promoted = {}
  /\ certified = {Paper}
  /\ link = [b \in Brokers |-> "DISCONNECTED"]
  /\ opening = {}
  /\ auditing = {}
  /\ locked = FALSE
  /\ feed = "EMPTY"
  /\ request = [r \in Requests |-> NoRequest]
  /\ live = [r \in Requests |-> NoSession]
  /\ cleared = {}

\* Mutant: the checks' verdict is forgotten at the suspension.
BeginUnchecked(r, s, b, activate) ==
  /\ ~Pending(r) /\ live[r] = NoSession
  /\ LET q == [at |-> "broadcast", strategy |-> s, broker |-> b,
               opens |-> activate]
     IN IF feed = "HEALTHY" THEN Dial(r, q)
        ELSE request' = [request EXCEPT ![r] = q] /\ UNCHANGED <<link, live>>
  /\ cleared' = IF ChecksPass(s, b) THEN Noted \cup {r} ELSE Noted \ {r}
  /\ UNCHANGED <<world, certified, opening, auditing>>

\* run_preflight_check, alone or for activate_live_session, up to its first
\* suspension.
Begin(r, s, b, activate) ==
  /\ ~Pending(r) /\ live[r] = NoSession
  /\ LET q == [at |-> "broadcast", strategy |-> s, broker |-> b,
               opens |-> activate /\ ChecksPass(s, b)]
     IN IF feed = "HEALTHY" THEN Dial(r, q)
        ELSE request' = [request EXCEPT ![r] = q] /\ UNCHANGED <<link, live>>
  /\ cleared' = IF ChecksPass(s, b) THEN Noted \cup {r} ELSE Noted \ {r}
  /\ UNCHANGED <<world, certified, opening, auditing>>

BroadcastDone(r) ==
  /\ Pending(r) /\ request[r].at = "broadcast"
  /\ Dial(r, request[r])
  /\ cleared' = Noted
  /\ UNCHANGED <<world, certified, opening, auditing>>

\* Mutant: the handshake needs the state it left.
ConnectDoneIfConnected(r) ==
  /\ Pending(r) /\ request[r].at = "connect"
  /\ link[Paper] = "CONNECTED"
  /\ link' = [link EXCEPT ![Paper] = "AUTHENTICATED"]
  /\ Conclude(r, request[r])
  /\ cleared' = Noted
  /\ UNCHANGED <<world, certified, opening, auditing>>

\* The paper adapter's handshake ends: AUTHENTICATED, whatever happened since.
ConnectDone(r) ==
  /\ Pending(r) /\ request[r].at = "connect"
  /\ link' = [link EXCEPT ![Paper] = "AUTHENTICATED"]
  /\ Conclude(r, request[r])
  /\ cleared' = Noted
  /\ UNCHANGED <<world, certified, opening, auditing>>

\* Mutant: the state of the session is not looked at.
AdjustAnySession(r, tier) ==
  /\ live[r] # NoSession
  /\ live' = [live EXCEPT ![r].tier = tier]
  /\ UNCHANGED <<world, adapters, request>> /\ cleared' = Noted

AdjustScalingTier(r, tier) ==
  /\ live[r] # NoSession /\ live[r].state = "ACTIVE"
  /\ live' = [live EXCEPT ![r].tier = tier]
  /\ UNCHANGED <<world, adapters, request>> /\ cleared' = Noted

\* In any state of the session.
Halt(r) ==
  /\ live[r] # NoSession
  /\ live' = [live EXCEPT ![r].state = "HALTED"]
  /\ UNCHANGED <<world, adapters, request>> /\ cleared' = Noted
-----------------------------------------------------------------------------
(* The adapters' sessions and certification.                                *)

\* A user's connect(): the adapter without suspension is done at once; the
\* paper adapter and a Zerodha with real credentials wait for the network.
ConnectNow(b) ==
  /\ b # Paper
  /\ link' = [link EXCEPT ![b] = "AUTHENTICATED"]
  /\ UNCHANGED <<world, certified, opening, auditing, request, live>> /\ cleared' = Noted

ConnectBegins(b) ==
  /\ b \notin opening /\ ~Busy
  /\ opening' = opening \cup {b}
  /\ link' = [link EXCEPT ![b] = IF b = Paper THEN "CONNECTED" ELSE "CONNECTING"]
  /\ UNCHANGED <<world, certified, auditing, request, live>> /\ cleared' = Noted

ConnectEnds(b) ==
  /\ b \in opening
  /\ opening' = opening \ {b}
  /\ \E outcome \in IF b = Paper THEN {"AUTHENTICATED"} ELSE {"AUTHENTICATED", "ERROR"} :
       link' = [link EXCEPT ![b] = outcome]
  /\ UNCHANGED <<world, certified, auditing, request, live>> /\ cleared' = Noted

Disconnect(b) ==
  /\ link' = [link EXCEPT ![b] = "DISCONNECTED"]
  /\ UNCHANGED <<world, certified, opening, auditing, request, live>> /\ cleared' = Noted

\* An audit connects the adapter, tries an order, and disconnects it.
AuditBegins(b) ==
  /\ b \notin auditing /\ ~Busy
  /\ auditing' = auditing \cup {b}
  /\ link' = [link EXCEPT ![b] = IF b = Paper THEN "CONNECTED" ELSE "AUTHENTICATED"]
  /\ UNCHANGED <<world, certified, opening, request, live>> /\ cleared' = Noted

\* Mutant: a failed audit takes the certification away.
AuditDecides(b) ==
  /\ b \in auditing
  /\ auditing' = auditing \ {b}
  /\ link' = [link EXCEPT ![b] = "DISCONNECTED"]
  /\ certified' \in {certified \cup {b}, certified \ {b}}
  /\ UNCHANGED <<world, opening, request, live>> /\ cleared' = Noted

\* A passed audit certifies; a failed one leaves an earlier certification.
AuditEnds(b) ==
  /\ b \in auditing
  /\ auditing' = auditing \ {b}
  /\ link' = [link EXCEPT ![b] = "DISCONNECTED"]
  /\ certified' \in {certified \cup {b}, certified}
  /\ UNCHANGED <<world, opening, request, live>> /\ cleared' = Noted

(* The other services.                                                      *)

\* An operator grants the last stage; a backtest, a paper session or an approval
\* takes it away again.
PromotionStep ==
  /\ \E s \in Strategies : promoted' \in {promoted \cup {s}, promoted \ {s}} \ {promoted}
  /\ UNCHANGED <<adapters, locked, feed, request, live>> /\ cleared' = Noted

SwitchStep ==
  /\ locked' = ~locked
  /\ UNCHANGED <<promoted, adapters, feed, request, live>> /\ cleared' = Noted

\* A tick that is late or in time, or ageing; a symbol is never forgotten.
FeedStep ==
  /\ feed' \in {"STALE", "HEALTHY"} \ {feed}
  /\ UNCHANGED <<promoted, adapters, locked, request, live>> /\ cleared' = Noted

Next ==
  \/ \E r \in Requests, s \in Strategies, b \in Brokers, activate \in BOOLEAN :
       Begin(r, s, b, activate)
  \/ \E r \in Requests : BroadcastDone(r) \/ ConnectDone(r) \/ Halt(r)
  \/ \E r \in Requests, tier \in Tiers : AdjustScalingTier(r, tier)
  \/ \E b \in Brokers : ConnectNow(b) \/ ConnectBegins(b) \/ ConnectEnds(b) \/ Disconnect(b)
  \/ \E b \in Brokers : AuditBegins(b) \/ AuditEnds(b)
  \/ PromotionStep \/ SwitchStep \/ FeedStep

Spec == Init /\ [][Next]_vars

\* The event loop resumes every suspended request.
Fairness == \A r \in Requests : WF_vars(BroadcastDone(r)) /\ WF_vars(ConnectDone(r))

FairSpec == Spec /\ Fairness
-----------------------------------------------------------------------------
(* Properties.                                                              *)

(* Every variable keeps its type, and a request that has a session is over. *)
TypeOK ==
  /\ promoted \subseteq Strategies
  /\ certified \subseteq Brokers /\ opening \subseteq Brokers /\ auditing \subseteq Brokers
  /\ link \in [Brokers -> LinkStates]
  /\ locked \in BOOLEAN /\ feed \in {"EMPTY", "STALE", "HEALTHY"}
  /\ request \in [Requests -> PendingRequests \cup {NoRequest}]
  /\ live \in [Requests -> LiveSessions \cup {NoSession}]
  /\ cleared \subseteq Requests
  /\ \A r \in Requests : Pending(r) => live[r] = NoSession

(* One active session per strategy, however many activations are suspended   *)
(* at once: the look-up comes after the last suspension.                    *)
OneActivePerStrategy ==
  \A r1, r2 \in Requests :
    /\ live[r1] # NoSession /\ live[r1].state = "ACTIVE"
    /\ live[r2] # NoSession /\ live[r2].state = "ACTIVE"
    /\ live[r1].strategy = live[r2].strategy
    => r1 = r2

(* No session is opened without a moment, during its activation, at which    *)
(* the strategy was promoted, the broker certified, the switch released and  *)
(* the feed not stale, all at once.                                         *)
OpenedWhenCleared == \A r \in Requests : live[r] # NoSession => r \in cleared

(* A session's broker is certified, at its activation and ever after, though *)
(* certification is read before the suspensions and audited at any time.    *)
SessionsCertified == \A r \in Requests : live[r] # NoSession => live[r].broker \in certified

(* A halted session is over: it is not activated again, nor scaled.         *)
HaltedForever ==
  [][\A r \in Requests : live[r] # NoSession /\ live[r].state = "HALTED" => live'[r] = live[r]]_vars

(* Every request is answered: the broadcast and the handshake end.          *)
RequestsAnswered == \A r \in Requests : Pending(r) ~> ~Pending(r)
=============================================================================
