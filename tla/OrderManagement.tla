--------------------------- MODULE OrderManagement ---------------------------
(***************************************************************************)
(* One backend process of the platform: the order service, the pre-trade    *)
(* risk engine with its kill switch, the in-memory repositories and the     *)
(* broker adapters an order is routed to.                                   *)
(*                                                                          *)
(* The process is one asyncio event loop.  A handler runs without           *)
(* interruption up to an await that really suspends, so an action is a      *)
(* maximal segment between two such points: the in-memory repositories and  *)
(* uncontended locks never suspend; the HTTP calls of a live adapter, and a *)
(* put on a full order-update queue, do.  Broadcasts to web sockets also    *)
(* suspend, but no handler changes state after one.                         *)
(*                                                                          *)
(* An order is named by the submit call that created it (order_id is a      *)
(* fresh uuid per call), and its immutable fields are those of the call's   *)
(* request.                                                                 *)
(***************************************************************************)
EXTENDS PreTradeRisk, Positions, FiniteSetsExt

CONSTANTS
  Calls,         \* invocations of submit_order
  NoCall,
  Cancels,       \* invocations of cancel_order
  Accounts, Keys, Strategies,
  Symbols,       \* upper-case symbols
  Spellings,     \* symbols as clients write them, Symbols included
  UpperOf,       \* str.upper, from Spellings to Symbols
  Requests,      \* the order requests clients send
  NoRequest,
  Brokers,       \* registered adapters
  Kind,          \* of an adapter: the paper broker, Zerodha built as a
                 \* sandbox, Zerodha, or one of those that fill at once
                 \* (Binance, Angel One, Interactive Brokers)
  Configs,       \* risk limits an administrator may save
  DefaultLimits,
  NoTarget,      \* the target of a global kill switch, None in the code
  KillScopes,    \* [level, target] of the kill switches operators trigger
  InitialCash,   \* of the paper broker
  PaperPrice,    \* what it fills an order without a limit price at
  MaxUpdates,    \* maxsize of an adapter's order-update queue
  TrialSymbol,   \* the symbol of the certification audit's trial order
  Audited        \* the adapters administrators certify

VARIABLES
  pc,         \* submit call: idle, placing, blocked, done or raised
  req,        \* submit call -> its request
  answer,     \* submit call -> the order it returned
  orders,     \* repository: order id -> [status, filled, bid]
  byKey,      \* repository: (account, idempotency key) -> order id
  positions,  \* repository: (account, symbol) -> Position
  limits,     \* risk engine: the limits
  ks,         \* risk engine: the kill switch
  window,     \* risk engine: evaluations counted in the last second
  feed,       \* latest tick of a symbol: none, fresh or stale (over 3000 ms)
  exchange,   \* what the live broker knows of an order routed by HTTP
  paper,      \* the paper broker's cash and positions
  updates,    \* broker -> length of its order-update queue
  online,     \* broker -> Zerodha has an HTTP client, or the session of an
              \* adapter that fills at once is up; FALSE for the others
  cancels,    \* cancel call -> [pc, order]
  pageSwitch  \* the kill switch in the copy of the configuration that an
              \* open risk page holds

\* History, for the properties only.
VARIABLES
  admitted,   \* order -> the limits it was admitted under
  revived,    \* orders that left a terminal status
  skipped,    \* orders open when a saved page engaged the kill switch
  trials      \* trial orders the paper broker has filled

serviceVars == <<pc, req, answer, orders, byKey, positions>>
riskVars    == <<limits, ks, window, pageSwitch>>
brokerVars  == <<exchange, paper, updates, online>>
history     == <<admitted, revived, skipped, trials>>
vars == <<serviceVars, riskVars, brokerVars, feed, cancels, history>>
-----------------------------------------------------------------------------
Request == [key : Keys, acct : Accounts, strategy : Strategies, broker : STRING,
            sym : Spellings, side : Sides, qty : Nat \ {0}, price : Nat]
Limits == [stp : BOOLEAN, maxOpen : Nat \ {0}, maxRate : Nat \ {0}]
\* The statuses that occur, and "NONE" for an order id not in the repository.
Statuses ==
  {"NONE", "PENDING_SUBMISSION", "SUBMITTED", "FILLED", "CANCELLED", "REJECTED"}
Terminal == {"FILLED", "CANCELLED", "REJECTED"}
\* bid: the broker's order id is known
Order == [status : Statuses, filled : Nat, bid : BOOLEAN]
NoOrder == [status |-> "NONE", filled |-> 0, bid |-> FALSE]
Targets == Accounts \cup Strategies \cup Spellings \cup {NoTarget}
Scope == [level : Levels, target : Targets]
KillSwitch == [active : BOOLEAN, level : Levels, target : Targets]

Kinds == {"paper", "sandbox", "http", "instant"}

SwitchOff == [active |-> FALSE, level |-> "GLOBAL", target |-> NoTarget]
SwitchOn(scope) ==
  [active |-> TRUE, level |-> scope.level, target |-> scope.target]

ASSUME OrderManagementAssumption ==
  /\ IsFiniteSet(Calls) /\ NoCall \notin Calls
  /\ IsFiniteSet(Accounts)
  /\ NoRequest \notin Requests
  /\ Requests \subseteq Request
  /\ Symbols \subseteq Spellings
  /\ UpperOf \in [Spellings -> Symbols]
  /\ \A s \in Symbols : UpperOf[s] = s
  /\ Kind \in [Brokers -> Kinds]
  /\ Brokers \subseteq STRING
  /\ Configs \subseteq Limits
  /\ DefaultLimits \in Limits
  /\ KillScopes \subseteq Scope
  /\ InitialCash \in Nat /\ PaperPrice \in Nat
  /\ MaxUpdates \in Nat
  /\ TrialSymbol \in Symbols
  /\ Audited \subseteq Brokers
-----------------------------------------------------------------------------
KeyOf(r) == <<r.acct, r.key>>
Slot(r)  == <<r.acct, UpperOf[r.sym]>>   \* the position an order moves

HasOrder(c) == orders[c].status # "NONE"
IsTerminal(c) == orders[c].status \in Terminal
IsOpen(c) == HasOrder(c) /\ ~IsTerminal(c)

\* list_open_orders, as the risk engine sees it
OpenOrders(acct) ==
  {[id |-> c, sym |-> UpperOf[req[c].sym], side |-> req[c].side,
    price |-> req[c].price] : c \in {d \in Calls : IsOpen(d) /\ req[d].acct = acct}}

Allowed(r) == RiskAllows(ks, limits, window, OpenOrders(r.acct), r)

NewOrder == [status |-> "PENDING_SUBMISSION", filled |-> 0, bid |-> FALSE]

\* What _process_execution_report writes into the order.
Reported(status, filled) == [status |-> status, filled |-> filled, bid |-> TRUE]

\* Mutant: the key of a rejected order may be used again.
UnseenOrRejected(r) ==
  byKey[KeyOf(r)] \in {NoCall} \cup {c \in Calls : orders[c].status = "REJECTED"}

\* Mutant: the key of an order that is over may be used again.
UnseenOrTerminal(r) ==
  byKey[KeyOf(r)] \in {NoCall} \cup {c \in Calls : IsTerminal(c)}

\* get_by_idempotency_key finds no order
Unseen(r) == byKey[KeyOf(r)] = NoCall

\* Mutant: one update too many fits.
QueueOverfull(b) == updates[b] > MaxUpdates

QueueFull(b) == updates[b] >= MaxUpdates
Emit(b) ==
  IF QueueFull(b) THEN UNCHANGED updates ELSE updates' = [updates EXCEPT ![b] = @ + 1]

\* Does Zerodha call its broker?  Without an HTTP client, which it gets when
\* it connects with credentials, it acknowledges by itself like a sandbox.
Dials(b) == Kind[b] = "http" /\ online[b]
Acknowledges(b) == Kind[b] = "sandbox" \/ (Kind[b] = "http" /\ ~online[b])

Init ==
  /\ pc = [c \in Calls |-> "idle"]
  /\ req = [c \in Calls |-> NoRequest]
  /\ answer = [c \in Calls |-> NoCall]
  /\ orders = [c \in Calls |-> NoOrder]
  /\ byKey = [k \in Accounts \X Keys |-> NoCall]
  /\ positions = [s \in Accounts \X Symbols |-> NoPosition]
  /\ limits = DefaultLimits
  /\ ks = SwitchOff
  /\ window = 0
  /\ feed = [s \in Symbols |-> "none"]
  /\ exchange = [c \in Calls |-> "none"]
  /\ paper = [cash |-> InitialCash, pos |-> [s \in Symbols |-> NoPosition]]
  /\ updates = [b \in Brokers |-> 0]
  /\ online = [b \in Brokers |-> FALSE]
  /\ cancels = [k \in Cancels |-> [pc |-> "idle", order |-> NoCall]]
  /\ pageSwitch = SwitchOff
  /\ admitted = [c \in Calls |-> DefaultLimits]
  /\ revived = {}
  /\ skipped = {}
  /\ trials = 0
-----------------------------------------------------------------------------
(* submit_order, up to its first suspension.                                *)

\* An order of this account and key is known: it is the answer.
SubmitDuplicate(c, r) ==
  /\ pc[c] = "idle"
  /\ ~Unseen(r)
  /\ pc' = [pc EXCEPT ![c] = "done"]
  /\ req' = [req EXCEPT ![c] = r]
  /\ answer' = [answer EXCEPT ![c] = byKey[KeyOf(r)]]
  /\ UNCHANGED <<orders, byKey, positions, riskVars, brokerVars, feed, cancels, history>>

\* Refused before an order exists: stale market data (not even evaluated), a
\* failed risk check, or no such adapter.
SubmitRefused(c, r) ==
  /\ pc[c] = "idle"
  /\ Unseen(r)
  /\ \/ /\ feed[UpperOf[r.sym]] # "fresh"
        /\ UNCHANGED window
     \/ /\ feed[UpperOf[r.sym]] = "fresh"
        /\ ~Allowed(r) \/ r.broker \notin Brokers
        /\ window' = CountEvaluation(ks, limits, window, r)
  /\ pc' = [pc EXCEPT ![c] = "raised"]
  /\ req' = [req EXCEPT ![c] = r]
  /\ UNCHANGED <<answer, orders, byKey, positions, limits, ks, pageSwitch,
                 brokerVars, feed, cancels, history>>

\* What the segment does to every order it admits, whatever the adapter.
Admit(c, r) ==
  /\ pc[c] = "idle"
  /\ Unseen(r)
  /\ feed[UpperOf[r.sym]] = "fresh"
  /\ Allowed(r)
  /\ r.broker \in Brokers
  /\ req' = [req EXCEPT ![c] = r]
  /\ byKey' = [byKey EXCEPT ![KeyOf(r)] = c]
  /\ window' = CountEvaluation(ks, limits, window, r)
  /\ admitted' = [admitted EXCEPT ![c] = limits]
  /\ UNCHANGED <<limits, ks, pageSwitch, online, feed, cancels, revived, skipped, trials>>

\* The report is put on the adapter's queue and returned, and the order
\* service books it; on a full queue the call never comes back, since nothing
\* consumes the queue, and the order stays as the adapter left it.
Answered(c, r, order) ==
  /\ pc' = [pc EXCEPT ![c] = IF QueueFull(r.broker) THEN "blocked" ELSE "done"]
  /\ answer' = [answer EXCEPT ![c] = IF QueueFull(r.broker) THEN @ ELSE c]
  /\ orders' = [orders EXCEPT ![c] = order]
  /\ Emit(r.broker)

\* A live adapter sends an HTTP request and suspends.
SubmitHttp(c, r) ==
  /\ Admit(c, r)
  /\ Dials(r.broker)
  /\ pc' = [pc EXCEPT ![c] = "placing"]
  /\ orders' = [orders EXCEPT ![c] = NewOrder]
  /\ exchange' = [exchange EXCEPT ![c] = "transit"]
  /\ UNCHANGED <<answer, positions, paper, updates>>

\* A sandboxed live adapter acknowledges at once and never fills.
SubmitSandbox(c, r) ==
  /\ Admit(c, r)
  /\ Acknowledges(r.broker)
  /\ Answered(c, r, IF QueueFull(r.broker) THEN NewOrder ELSE Reported("SUBMITTED", 0))
  /\ UNCHANGED <<positions, exchange, paper>>

Cost(r) == r.qty * (IF r.price > 0 THEN r.price ELSE PaperPrice)
Funded(r) == r.side = "SELL" \/ Cost(r) <= paper.cash

\* The paper broker fills at once; it marks the order filled itself, before
\* the queue, so a blocked call leaves an order FILLED and not in positions.
SubmitPaperFill(c, r) ==
  /\ Admit(c, r)
  /\ Kind[r.broker] = "paper"
  /\ Funded(r)
  /\ paper' = [cash |-> paper.cash - Sign(r.side) * Cost(r),
               pos  |-> [paper.pos EXCEPT ![UpperOf[r.sym]] = PaperFill(@, r.side, r.qty)]]
  /\ Answered(c, r, Reported("FILLED", r.qty))
  /\ positions' = IF QueueFull(r.broker) THEN positions
                  ELSE [positions EXCEPT ![Slot(r)] = ApplyFill(@, r.side, r.qty)]
  /\ UNCHANGED exchange

SubmitPaperReject(c, r) ==
  /\ Admit(c, r)
  /\ Kind[r.broker] = "paper"
  /\ ~Funded(r)
  /\ Answered(c, r, IF QueueFull(r.broker) THEN NewOrder ELSE Reported("REJECTED", 0))
  /\ UNCHANGED <<positions, exchange, paper>>

\* Binance, Angel One and Interactive Brokers fill at once, in books of their
\* own; the service books the fill like any other, when the report comes back.
SubmitInstantFill(c, r) ==
  /\ Admit(c, r)
  /\ Kind[r.broker] = "instant" /\ online[r.broker]
  /\ Answered(c, r, IF QueueFull(r.broker) THEN NewOrder ELSE Reported("FILLED", r.qty))
  /\ positions' = IF QueueFull(r.broker) THEN positions
                  ELSE [positions EXCEPT ![Slot(r)] = ApplyFill(@, r.side, r.qty)]
  /\ UNCHANGED <<exchange, paper>>

\* Without a session they refuse, and submit_order passes that on.
SubmitInstantFails(c, r) ==
  /\ Admit(c, r)
  /\ Kind[r.broker] = "instant" /\ ~online[r.broker]
  /\ pc' = [pc EXCEPT ![c] = "raised"]
  /\ orders' = [orders EXCEPT ![c] = [NewOrder EXCEPT !.status = "REJECTED"]]
  /\ UNCHANGED <<answer, positions, exchange, paper, updates>>
-----------------------------------------------------------------------------
(* The sessions of the adapters, and the certification audit, which places  *)
(* its trial order on the adapter itself: the order service has no record   *)
(* of it, and neither the kill switch nor the feed is asked.                *)

\* Zerodha has its HTTP client from here on, whatever the broker answers.
Connect(b) ==
  /\ Kind[b] \in {"http", "instant"}
  /\ online' = [online EXCEPT ![b] = TRUE]
  /\ UNCHANGED <<serviceVars, riskVars, exchange, paper, updates, feed, cancels, history>>

Disconnect(b) ==
  /\ online[b]
  /\ online' = [online EXCEPT ![b] = FALSE]
  /\ UNCHANGED <<serviceVars, riskVars, exchange, paper, updates, feed, cancels, history>>

\* BUY 1 at the market, refused without the money for it.
TrialOnPaper(b) ==
  /\ Kind[b] = "paper"
  /\ IF PaperPrice <= paper.cash
     THEN /\ paper' = [cash |-> paper.cash - PaperPrice,
                       pos  |-> [paper.pos EXCEPT ![TrialSymbol] = PaperFill(@, "BUY", 1)]]
          /\ trials' = trials + 1
     ELSE UNCHANGED <<paper, trials>>
  /\ Emit(b)
  /\ UNCHANGED <<serviceVars, riskVars, exchange, online, feed, cancels,
                 admitted, revived, skipped>>

\* Acknowledged by Zerodha or its broker.  What the broker does with it is of
\* no call here; the audit's closing disconnect, if any, is Disconnect.
TrialOnZerodha(b) ==
  /\ Kind[b] \in {"sandbox", "http"}
  /\ Emit(b)
  /\ UNCHANGED <<serviceVars, riskVars, exchange, paper, online, feed, cancels, history>>

\* The audit connects, trades and disconnects, unless the queue stops it.
TrialElsewhere(b) ==
  /\ Kind[b] = "instant"
  /\ Emit(b)
  /\ online' = [online EXCEPT ![b] = QueueFull(b)]
  /\ UNCHANGED <<serviceVars, riskVars, exchange, paper, feed, cancels, history>>
-----------------------------------------------------------------------------
(* The live broker, and submit_order after its HTTP call.                   *)

ExchangeAccepts(c) ==
  /\ exchange[c] = "transit"
  /\ exchange' = [exchange EXCEPT ![c] = "resting"]
  /\ UNCHANGED <<serviceVars, riskVars, paper, updates, online, feed, cancels, history>>

ExchangeRefuses(c) ==
  /\ exchange[c] = "transit"
  /\ exchange' = [exchange EXCEPT ![c] = "refused"]
  /\ UNCHANGED <<serviceVars, riskVars, paper, updates, online, feed, cancels, history>>

\* The service is not told: nothing polls or consumes later updates.
ExchangeFills(c) ==
  /\ exchange[c] = "resting"
  /\ exchange' = [exchange EXCEPT ![c] = "filled"]
  /\ UNCHANGED <<serviceVars, riskVars, paper, updates, online, feed, cancels, history>>

\* The acknowledgement overwrites whatever the order has become meanwhile.
PlaceReplies(c) ==
  /\ pc[c] = "placing"
  /\ exchange[c] \in {"resting", "filled"}
  /\ Answered(c, req[c],
              IF QueueFull(req[c].broker) THEN orders[c] ELSE Reported("SUBMITTED", 0))
  /\ revived' = IF IsTerminal(c) /\ ~QueueFull(req[c].broker)
                THEN revived \cup {c} ELSE revived
  /\ UNCHANGED <<req, byKey, positions, riskVars, exchange, paper, online, feed,
                 cancels, admitted, skipped, trials>>

\* Refused, or no answer within the client's timeout: the request may have
\* reached the broker, or may still reach it.
PlaceFails(c) ==
  /\ pc[c] = "placing"
  /\ pc' = [pc EXCEPT ![c] = "raised"]
  /\ orders' = [orders EXCEPT ![c].status = "REJECTED"]
  /\ UNCHANGED <<req, answer, byKey, positions, riskVars, brokerVars, feed,
                 cancels, history>>
-----------------------------------------------------------------------------
(* cancel_order.  A terminal or unknown order returns without a change.     *)

\* No broker order id yet, or an adapter that answers at once.
CancelNow(k, c) ==
  /\ cancels[k].pc = "idle"
  /\ IsOpen(c)
  /\ ~orders[c].bid \/ ~Dials(req[c].broker)
  /\ cancels' = [cancels EXCEPT ![k] = [pc |-> "done", order |-> c]]
  /\ orders' = [orders EXCEPT ![c].status = "CANCELLED"]
  /\ UNCHANGED <<pc, req, answer, byKey, positions, riskVars, brokerVars, feed, history>>

CancelHttp(k, c) ==
  /\ cancels[k].pc = "idle"
  /\ IsOpen(c)
  /\ orders[c].bid /\ Dials(req[c].broker)
  /\ cancels' = [cancels EXCEPT ![k] = [pc |-> "deleting", order |-> c]]
  /\ UNCHANGED <<serviceVars, riskVars, brokerVars, feed, history>>

ExchangeCancels(k) ==
  /\ cancels[k].pc = "deleting"
  /\ exchange[cancels[k].order] = "resting"
  /\ exchange' = [exchange EXCEPT ![cancels[k].order] = "cancelled"]
  /\ UNCHANGED <<serviceVars, riskVars, paper, updates, online, feed, cancels, history>>

\* Mutant: when the delete fails, the order is restored as open.
CancelRestores(k) ==
  /\ cancels[k].pc = "deleting"
  /\ cancels' = [cancels EXCEPT ![k].pc = "done"]
  /\ orders' = [orders EXCEPT ![cancels[k].order].status =
                  IF exchange[cancels[k].order] = "cancelled" THEN "CANCELLED"
                  ELSE "SUBMITTED"]
  /\ UNCHANGED <<pc, req, answer, byKey, positions, riskVars, brokerVars, feed, history>>

\* Success and failure of the HTTP call both end in CANCELLED.
CancelReturns(k) ==
  /\ cancels[k].pc = "deleting"
  /\ cancels' = [cancels EXCEPT ![k].pc = "done"]
  /\ orders' = [orders EXCEPT ![cancels[k].order].status = "CANCELLED"]
  /\ UNCHANGED <<pc, req, answer, byKey, positions, riskVars, brokerVars, feed, history>>
-----------------------------------------------------------------------------
(* The risk service: kill switch, limits, dry run, sliding window.          *)

\* Mutant: only the orders a broker has acknowledged.
SweptIfAcknowledged(c) == IsOpen(c) /\ orders[c].bid

\* Every order that is not terminal is marked cancelled, whatever the scope
\* of the switch; no broker is called.
SweptByHalt(c) == IsOpen(c)

ActivateKillSwitch(scope) ==
  /\ ks' = SwitchOn(scope)
  /\ orders' = [c \in Calls |->
                  IF SweptByHalt(c) THEN [orders[c] EXCEPT !.status = "CANCELLED"]
                  ELSE orders[c]]
  /\ UNCHANGED <<pc, req, answer, byKey, positions, limits, window, pageSwitch,
                 brokerVars, feed, cancels, history>>

\* Without the guard, only a stutter more.
DeactivateKillSwitch ==
  /\ ks.active
  /\ ks' = SwitchOff
  /\ UNCHANGED <<serviceVars, limits, window, pageSwitch, brokerVars, feed, cancels, history>>

\* The risk page reads the configuration once ...
PageLoads ==
  /\ pageSwitch' = ks
  /\ UNCHANGED <<serviceVars, limits, ks, window, brokerVars, feed, cancels, history>>

\* ... and saves all of it, its copy of the kill switch included.
UpdateConfig(newLimits) ==
  /\ limits' = newLimits
  /\ ks' = pageSwitch
  /\ skipped' = IF pageSwitch.active THEN skipped \cup {c \in Calls : IsOpen(c)} ELSE skipped
  /\ UNCHANGED <<serviceVars, window, pageSwitch, brokerVars, feed, cancels, admitted, revived,
                 trials>>

\* The dry-run endpoint evaluates, and is counted, without submitting.
DryRun(r) ==
  /\ window' = CountEvaluation(ks, limits, window, r)
  /\ UNCHANGED <<serviceVars, limits, ks, pageSwitch, brokerVars, feed, cancels, history>>

\* Time passes: some of the counted evaluations leave the window.
WindowSlides ==
  /\ \E n \in 0 .. window - 1 : window' = n
  /\ UNCHANGED <<serviceVars, limits, ks, pageSwitch, brokerVars, feed, cancels, history>>

\* The feed as StalenessGuard describes it: a late tick is stale at once.
TickArrives(s) ==
  /\ \E f \in {"fresh", "stale"} : feed' = [feed EXCEPT ![s] = f]
  /\ UNCHANGED <<serviceVars, riskVars, brokerVars, cancels, history>>

TickAges(s) ==
  /\ feed[s] = "fresh"
  /\ feed' = [feed EXCEPT ![s] = "stale"]
  /\ UNCHANGED <<serviceVars, riskVars, brokerVars, cancels, history>>
-----------------------------------------------------------------------------
Submit(c, r) ==
  \/ SubmitDuplicate(c, r) \/ SubmitRefused(c, r)
  \/ SubmitHttp(c, r) \/ SubmitSandbox(c, r)
  \/ SubmitPaperFill(c, r) \/ SubmitPaperReject(c, r)
  \/ SubmitInstantFill(c, r) \/ SubmitInstantFails(c, r)

Trial(b) == TrialOnPaper(b) \/ TrialOnZerodha(b) \/ TrialElsewhere(b)

Sessions ==
  \/ \E b \in Brokers : Connect(b) \/ Disconnect(b)
  \/ \E b \in Audited : Trial(b)

Exchange(c) == ExchangeAccepts(c) \/ ExchangeRefuses(c) \/ ExchangeFills(c)

Cancel(k) ==
  \/ \E c \in Calls : CancelNow(k, c) \/ CancelHttp(k, c)
  \/ ExchangeCancels(k) \/ CancelReturns(k)

Operate ==
  \/ \E scope \in KillScopes : ActivateKillSwitch(scope)
  \/ DeactivateKillSwitch \/ PageLoads
  \/ \E l \in Configs : UpdateConfig(l)

Environment ==
  \/ \E r \in Requests : DryRun(r)
  \/ WindowSlides
  \/ \E s \in Symbols : TickArrives(s) \/ TickAges(s)

Next ==
  \/ \E c \in Calls, r \in Requests : Submit(c, r)
  \/ \E c \in Calls : Exchange(c) \/ PlaceReplies(c) \/ PlaceFails(c)
  \/ \E k \in Cancels : Cancel(k)
  \/ Sessions
  \/ Operate
  \/ Environment

Spec == Init /\ [][Next]_vars

\* An HTTP call returns: the client was created with a timeout.
Fairness ==
  /\ \A c \in Calls : WF_vars(PlaceReplies(c) \/ PlaceFails(c))
  /\ \A k \in Cancels : WF_vars(CancelReturns(k))

FairSpec == Spec /\ Fairness
-----------------------------------------------------------------------------
(* Properties.                                                              *)

(* Every variable keeps its type.                                           *)
TypeOK ==
  /\ pc \in [Calls -> {"idle", "placing", "blocked", "done", "raised"}]
  /\ req \in [Calls -> Requests \cup {NoRequest}]
  /\ answer \in [Calls -> Calls \cup {NoCall}]
  /\ orders \in [Calls -> Order]
  /\ byKey \in [Accounts \X Keys -> Calls \cup {NoCall}]
  /\ positions \in [Accounts \X Symbols -> Position]
  /\ limits \in Configs \cup {DefaultLimits}
  /\ ks \in KillSwitch
  /\ window \in Nat
  /\ feed \in [Symbols -> {"none", "fresh", "stale"}]
  /\ exchange \in [Calls -> {"none", "transit", "resting", "filled", "cancelled", "refused"}]
  /\ paper \in [cash : Nat, pos : [Symbols -> Position]]
  /\ updates \in [Brokers -> 0 .. MaxUpdates]
  /\ online \in [Brokers -> BOOLEAN]
  /\ cancels \in [Cancels -> [pc : {"idle", "deleting", "done"}, order : Calls \cup {NoCall}]]
  /\ pageSwitch \in KillSwitch
  /\ admitted \in [Calls -> Configs \cup {DefaultLimits}]
  /\ revived \subseteq Calls
  /\ skipped \subseteq Calls
  /\ trials \in Nat

(* Idempotency as the brokers see it: of all the calls that carry one        *)
(* account and key, retries included, at most one ever makes an order or     *)
(* reaches the live broker, whatever is in flight, rejected or timed out.    *)
OneOrderPerKey ==
  \A c, d \in Calls :
    /\ HasOrder(c) \/ exchange[c] # "none"
    /\ HasOrder(d) \/ exchange[d] # "none"
    /\ KeyOf(req[c]) = KeyOf(req[d])
    => c = d

(* Idempotency as the clients see it: calls of one account and key that are  *)
(* answered are answered with the same order.                                *)
SameKeySameAnswer ==
  \A c, d \in Calls :
    /\ answer[c] # NoCall /\ answer[d] # NoCall
    /\ KeyOf(req[c]) = KeyOf(req[d])
    => answer[c] = answer[d]

(* While a kill switch is engaged the service holds no open order that it    *)
(* covers, except one whose HTTP request was in flight when it was cancelled *)
(* and whose acknowledgement overwrote that, and except those open when a    *)
(* stale risk page re-engaged the switch by saving its copy.                 *)
HaltDrains ==
  \A c \in Calls : IsOpen(c) /\ Halts(ks, req[c]) => c \in revived \cup skipped

(* Orders of one account and symbol that stay open since they were admitted, *)
(* written in the repository's spelling.                                     *)
Standing(acct, s) ==
  {c \in Calls : /\ IsOpen(c) /\ c \notin revived
                 /\ req[c].acct = acct /\ req[c].sym = s}

(* Self-trade prevention: two standing orders that were both admitted with   *)
(* the check on are never priced to trade with each other.                   *)
NoSelfCross ==
  \A a \in Accounts, s \in Symbols : \A c, d \in Standing(a, s) :
    /\ admitted[c].stp /\ admitted[d].stp
    /\ req[c].side = "BUY" /\ req[d].side = "SELL"
    /\ req[c].price > 0 /\ req[d].price > 0
    => req[c].price < req[d].price

(* The cap on open orders per symbol: the standing orders of an account and  *)
(* symbol are within a limit one of them was admitted under.                 *)
OpenCap ==
  \A a \in Accounts, s \in Symbols :
    Standing(a, s) # {} =>
      \E c \in Standing(a, s) : Cardinality(Standing(a, s)) <= admitted[c].maxOpen

\* The signed quantity of an account's fills in a symbol, over some calls.
NetFilled(calls, acct, s) ==
  SumFunction([c \in Calls |->
    IF c \in calls /\ HasOrder(c) /\ Slot(req[c]) = <<acct, s>>
    THEN Sign(req[c].side) * orders[c].filled ELSE 0])

\* Calls whose report found the adapter's queue full.
Stuck == {c \in Calls : pc[c] = "blocked"}

(* The position book follows the orders: the net position of every account   *)
(* and symbol is the sum of the filled quantities of its orders, through     *)
(* every open, increase, reduction, flattening and flip; only the fill of a  *)
(* call stuck on a full queue is in an order and not in the book.            *)
PositionsFollowOrders ==
  \A a \in Accounts, s \in Symbols :
    /\ WellFormed(positions[<<a, s>>])
    /\ Signed(positions[<<a, s>>]) = NetFilled(Calls \ Stuck, a, s)

\* Calls whose order went to an adapter with a book of its own.
Elsewhere == {c \in Calls : HasOrder(c) /\ Kind[req[c].broker] = "instant"}

\* What the audits have bought at the paper broker.
Trialled(s) == IF s = TrialSymbol THEN trials ELSE 0

\* What an account should have at the paper broker: its position, with the
\* fills not booked (those of stuck calls), without those of other adapters.
PaperShare(acct, s) ==
  Signed(positions[<<acct, s>>]) + NetFilled(Stuck, acct, s) - NetFilled(Elsewhere, acct, s)

(* The two books agree: the paper broker's net position in a symbol is what  *)
(* the accounts' positions in the service come to, stuck fills included and  *)
(* other adapters' fills left out, and what the audits bought.               *)
BooksAgree ==
  \A s \in Symbols :
    Signed(paper.pos[s]) =
      SumFunction([a \in Accounts |-> PaperShare(a, s)]) + Trialled(s)

(* An order that the broker has answered and that is terminal never changes  *)
(* again: not through a kill switch, a cancel under way, or a late reply.    *)
SettledIsFinal ==
  [][\A c \in Calls : orders[c].bid /\ IsTerminal(c) => orders'[c] = orders[c]]_vars

\* What a client of the gateway is promised; see OrderGateway.
Gateway == INSTANCE OrderGateway WITH
  Slots   <- Accounts \X Keys,
  sent    <- [k \in Accounts \X Keys |-> {c \in Calls : HasOrder(c) /\ KeyOf(req[c]) = k}],
  waiting <- {c \in Calls : pc[c] = "placing"},
  stuck   <- Stuck,
  full    <- \E b \in Brokers : QueueFull(b),
  halted  <- ks.active /\ ks.level = "GLOBAL"

(* The service implements the gateway; and with the client's timeout no      *)
(* dispatched order waits for ever, except at an order-update queue that is  *)
(* full: it is answered in the end or stuck there.                           *)
ImplementsGateway == Gateway!Spec
ImplementsFairGateway == Gateway!FairSpec

-----------------------------------------------------------------------------
(* Claims of the documentation that the code does not keep.                  *)

(* "Immutable terminal states prevent mutating already executed or cancelled *)
(* orders": no step changes the status of a terminal order.                  *)
TerminalIsImmutable ==
  [][\A c \in Calls : IsTerminal(c) => orders'[c].status = orders[c].status]_vars

(* "Automatically cancels all open broker orders across accounts": an order  *)
(* resting at the live broker under the global switch is taken off in the    *)
(* end, or the switch is released, or the broker executes it.                *)
KillSwitchReachesBroker ==
  \A c \in Calls :
    (ks.active /\ ks.level = "GLOBAL" /\ orders[c].bid /\ exchange[c] = "resting")
      ~> (exchange[c] # "resting" \/ ~ks.active)

(* The configuration endpoint updates risk limits, and the deactivate        *)
(* endpoint is what resumes trading: a change of the limits does not release *)
(* an engaged switch.                                                        *)
LimitsKeepTheHalt ==
  [][limits' # limits /\ ks.active => ks'.active]_vars
=============================================================================
