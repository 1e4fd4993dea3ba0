------------------------ MODULE OrderManagement_proofs ------------------------
(***************************************************************************)
(* Theorems about the order path for every set of calls, requests, brokers,  *)
(* limits and kill-switch scopes, and every queue capacity: types, safety,    *)
(* what the two position books add up to, and that the path implements       *)
(* OrderGateway.                                                            *)
(***************************************************************************)
EXTENDS OrderManagement, Aggregates, TLAPS

USE OrderManagementAssumption, NotionalAssumption

(* The quantity and the price of a request give a cost that is a natural.    *)
LEMMA CostNat ==
  ASSUME NEW r \in Requests
  PROVE  Cost(r) \in Nat
<1>1. r.qty \in Nat /\ r.price \in Nat
  BY DEF Request
<1> DEFINE price == IF r.price > 0 THEN r.price ELSE PaperPrice
<1>2. price \in Nat
  BY <1>1
<1> HIDE DEF price
<1>3. \A m, n \in Nat : m * n \in Nat
  BY SMT
<1> QED
  BY <1>1, <1>2, <1>3 DEF Cost, price

LEMMA FillTypes ==
  ASSUME NEW p \in Position, NEW side \in Sides, NEW qty \in Nat
  PROVE  ApplyFill(p, side, qty) \in Position /\ PaperFill(p, side, qty) \in Position
<1>1. Direction(side) \in PositionSides
  BY DEF Direction, PositionSides
<1>2. p.side \in PositionSides /\ p.qty \in Nat /\ "FLAT" \in PositionSides
  BY DEF Position, PositionSides
<1>3. ApplyFill(p, side, qty) \in Position
  BY <1>1, <1>2 DEF ApplyFill, Holding, Position
<1>4. PaperFill(p, side, qty) \in Position
  BY <1>1, <1>2 DEF PaperFill, Holding, Position
<1> QED
  BY <1>3, <1>4
-----------------------------------------------------------------------------
LEMMA StatusTyped ==
  ASSUME NEW o \in Order, NEW s \in {"CANCELLED", "REJECTED"}
  PROVE  [o EXCEPT !.status = s] \in Order
<1>1. s \in Statuses
  BY DEF Statuses
<1> QED
  BY <1>1 DEF Order

LEMMA OffTyped == SwitchOff \in KillSwitch
<1>1. "GLOBAL" \in Levels
  BY DEF Levels
<1>2. NoTarget \in Targets
  BY DEF Targets
<1> QED
  BY <1>1, <1>2 DEF SwitchOff, KillSwitch

LEMMA InitTyped == Init => TypeOK
<1> SUFFICES ASSUME Init PROVE TypeOK
  OBVIOUS
<1>1. NoOrder \in Order /\ NoPosition \in Position /\ SwitchOff \in KillSwitch
  BY OffTyped DEF NoOrder, Order, Statuses, NoPosition, Position, PositionSides
<1>2. /\ pc \in [Calls -> {"idle", "placing", "blocked", "done", "raised"}]
      /\ req \in [Calls -> Requests \cup {NoRequest}]
      /\ answer \in [Calls -> Calls \cup {NoCall}]
      /\ orders \in [Calls -> Order]
      /\ byKey \in [Accounts \X Keys -> Calls \cup {NoCall}]
      /\ positions \in [Accounts \X Symbols -> Position]
  BY <1>1 DEF Init
<1>3. paper \in [cash : Nat, pos : [Symbols -> Position]]
  BY <1>1 DEF Init
<1>4. updates \in [Brokers -> 0 .. MaxUpdates]
  BY DEF Init
<1>5. cancels \in [Cancels -> [pc : {"idle", "deleting", "done"}, order : Calls \cup {NoCall}]]
  BY DEF Init
<1>6. exchange \in [Calls -> {"none", "transit", "resting", "filled", "cancelled", "refused"}]
  BY DEF Init
<1>7. /\ ks \in KillSwitch /\ pageSwitch \in KillSwitch
      /\ limits \in Configs \cup {DefaultLimits} /\ window \in Nat
      /\ feed \in [Symbols -> {"none", "fresh", "stale"}]
      /\ admitted \in [Calls -> Configs \cup {DefaultLimits}]
      /\ revived \subseteq Calls /\ skipped \subseteq Calls /\ trials \in Nat
      /\ online \in [Brokers -> BOOLEAN]
  BY <1>1 DEF Init
<1> QED
  BY <1>2, <1>3, <1>4, <1>5, <1>6, <1>7 DEF TypeOK

LEMMA EmitTyped ==
  ASSUME TypeOK, NEW b, Emit(b)
  PROVE  updates' \in [Brokers -> 0 .. MaxUpdates]
<1>1. updates \in [Brokers -> 0 .. MaxUpdates] /\ MaxUpdates \in Nat
  BY DEF TypeOK
<1>2. CASE QueueFull(b)
  BY <1>1, <1>2 DEF Emit
<1>3. CASE ~QueueFull(b) /\ b \in Brokers
  <2>1. updates[b] + 1 \in 0 .. MaxUpdates
    <3>1. updates[b] \in 0 .. MaxUpdates /\ ~(updates[b] >= MaxUpdates)
      BY <1>1, <1>3 DEF QueueFull
    <3>2. \A m, n \in Nat : n <= m /\ ~(n >= m) => n + 1 \in 0 .. m
      OBVIOUS
    <3> QED
      BY <1>1, <3>1, <3>2
  <2> QED
    BY <1>1, <1>3, <2>1 DEF Emit
<1>4. CASE ~QueueFull(b) /\ b \notin Brokers
  BY <1>1, <1>4 DEF Emit
<1> QED
  BY <1>2, <1>3, <1>4

LEMMA AnsweredTyped ==
  ASSUME TypeOK, NEW c \in Calls, NEW r, NEW o \in Order, Answered(c, r, o)
  PROVE  /\ pc' \in [Calls -> {"idle", "placing", "blocked", "done", "raised"}]
         /\ answer' \in [Calls -> Calls \cup {NoCall}]
         /\ orders' \in [Calls -> Order]
         /\ updates' \in [Brokers -> 0 .. MaxUpdates]
<1>1. /\ pc \in [Calls -> {"idle", "placing", "blocked", "done", "raised"}]
      /\ answer \in [Calls -> Calls \cup {NoCall}]
      /\ orders \in [Calls -> Order]
      /\ updates \in [Brokers -> 0 .. MaxUpdates]
      /\ MaxUpdates \in Nat
  BY DEF TypeOK
<1>2. pc' \in [Calls -> {"idle", "placing", "blocked", "done", "raised"}]
  BY <1>1 DEF Answered
<1>3. answer' \in [Calls -> Calls \cup {NoCall}]
  BY <1>1 DEF Answered
<1>4. orders' \in [Calls -> Order]
  BY <1>1 DEF Answered
<1>5. updates' \in [Brokers -> 0 .. MaxUpdates]
  BY EmitTyped DEF Answered
<1> QED
  BY <1>2, <1>3, <1>4, <1>5

LEMMA SubmitTyped ==
  ASSUME TypeOK, NEW c \in Calls, NEW r \in Requests, Submit(c, r)
  PROVE  TypeOK'
<1> USE DEF TypeOK, riskVars, brokerVars, history
<1>1. /\ r \in Request
      /\ KeyOf(r) \in Accounts \X Keys
      /\ CountEvaluation(ks, limits, window, r) \in Nat
  BY DEF Request, KeyOf, CountEvaluation
<1>2. CASE SubmitDuplicate(c, r)
  BY <1>1, <1>2 DEF SubmitDuplicate
<1>3. CASE SubmitRefused(c, r)
  BY <1>1, <1>3 DEF SubmitRefused
<1>4. CASE Admit(c, r)
  <2>1. \A o \in Order : Answered(c, r, o) =>
          /\ pc' \in [Calls -> {"idle", "placing", "blocked", "done", "raised"}]
          /\ answer' \in [Calls -> Calls \cup {NoCall}]
          /\ orders' \in [Calls -> Order]
          /\ updates' \in [Brokers -> 0 .. MaxUpdates]
    BY AnsweredTyped
  <2>2. /\ NewOrder \in Order
        /\ Reported("SUBMITTED", 0) \in Order
        /\ Reported("REJECTED", 0) \in Order
        /\ Reported("FILLED", r.qty) \in Order
    BY <1>1 DEF NewOrder, Reported, Order, Statuses, Request
  <2>3. /\ req' \in [Calls -> Requests \cup {NoRequest}]
        /\ byKey' \in [Accounts \X Keys -> Calls \cup {NoCall}]
        /\ window' \in Nat
        /\ admitted' \in [Calls -> Configs \cup {DefaultLimits}]
        /\ UNCHANGED <<limits, ks, pageSwitch, online, feed, cancels, revived, skipped, trials>>
    BY <1>1, <1>4 DEF Admit
  <2>4. CASE SubmitHttp(c, r)
    BY <2>2, <2>3, <2>4 DEF SubmitHttp
  <2>5. CASE SubmitSandbox(c, r)
    BY <2>1, <2>2, <2>3, <2>5 DEF SubmitSandbox
  <2>6. CASE SubmitPaperReject(c, r)
    BY <2>1, <2>2, <2>3, <2>6 DEF SubmitPaperReject
  <2>7. CASE SubmitPaperFill(c, r)
    <3>1. r.side \in Sides /\ r.qty \in Nat /\ Slot(r) \in Accounts \X Symbols
          /\ UpperOf[r.sym] \in Symbols
      BY <1>1 DEF Request, Slot
    <3>2. positions' \in [Accounts \X Symbols -> Position]
      BY <2>7, <3>1, FillTypes DEF SubmitPaperFill
    <3>3. paper.cash - Sign(r.side) * Cost(r) \in Nat
      BY <2>7, <3>1, CostNat DEF SubmitPaperFill, Funded, Sign, Sides
    <3>4. [paper.pos EXCEPT ![UpperOf[r.sym]] = PaperFill(@, r.side, r.qty)]
            \in [Symbols -> Position]
      BY <3>1, FillTypes
    <3>5. paper' \in [cash : Nat, pos : [Symbols -> Position]]
      BY <2>7, <3>3, <3>4 DEF SubmitPaperFill
    <3>6. UNCHANGED exchange
      BY <2>7 DEF SubmitPaperFill
    <3>7. Answered(c, r, Reported("FILLED", r.qty))
      BY <2>7 DEF SubmitPaperFill
    <3> QED
      BY <2>1, <2>2, <2>3, <3>2, <3>5, <3>6, <3>7
  <2>8. CASE SubmitInstantFill(c, r)
    <3>1. r.side \in Sides /\ r.qty \in Nat /\ Slot(r) \in Accounts \X Symbols
      BY <1>1 DEF Request, Slot
    <3>2. positions' \in [Accounts \X Symbols -> Position]
      BY <2>8, <3>1, FillTypes DEF SubmitInstantFill
    <3>3. UNCHANGED <<exchange, paper>>
      BY <2>8 DEF SubmitInstantFill
    <3>4. PICK o \in Order : Answered(c, r, o)
      BY <2>2, <2>8 DEF SubmitInstantFill
    <3> QED
      BY <2>1, <2>3, <3>2, <3>3, <3>4
  <2>9. CASE SubmitInstantFails(c, r)
    <3>1. [NewOrder EXCEPT !.status = "REJECTED"] \in Order
      BY <2>2, StatusTyped
    <3> QED
      BY <2>3, <2>9, <3>1 DEF SubmitInstantFails
  <2> QED
    BY <1>4, <2>4, <2>5, <2>6, <2>7, <2>8, <2>9, Submit(c, r), <1>2, <1>3 DEF Submit
<1> QED
  BY <1>2, <1>3, <1>4
     DEF Submit, SubmitHttp, SubmitSandbox, SubmitPaperFill, SubmitPaperReject, SubmitInstantFill, SubmitInstantFails

LEMMA BrokerTyped ==
  ASSUME TypeOK, NEW c \in Calls, Exchange(c) \/ PlaceReplies(c) \/ PlaceFails(c)
  PROVE  TypeOK'
<1> USE DEF TypeOK, serviceVars, riskVars, brokerVars, history
<1>1. CASE ExchangeAccepts(c)
  BY <1>1 DEF ExchangeAccepts
<1>2. CASE ExchangeRefuses(c)
  BY <1>2 DEF ExchangeRefuses
<1>3. CASE ExchangeFills(c)
  BY <1>3 DEF ExchangeFills
<1>4. CASE PlaceReplies(c)
  <2>1. PICK o \in Order : Answered(c, req[c], o)
    BY <1>4 DEF PlaceReplies, Reported, Order, Statuses
  <2>2. /\ pc' \in [Calls -> {"idle", "placing", "blocked", "done", "raised"}]
        /\ answer' \in [Calls -> Calls \cup {NoCall}]
        /\ orders' \in [Calls -> Order]
        /\ updates' \in [Brokers -> 0 .. MaxUpdates]
    BY <2>1, AnsweredTyped
  <2>4. revived' \subseteq Calls
    BY <1>4 DEF PlaceReplies
  <2>5. UNCHANGED <<req, byKey, positions, riskVars, exchange, paper, online, feed,
                    cancels, admitted, skipped, trials>>
    BY <1>4 DEF PlaceReplies
  <2> QED
    BY <2>2, <2>4, <2>5
<1>5. CASE PlaceFails(c)
  BY <1>5, StatusTyped DEF PlaceFails
<1> QED
  BY <1>1, <1>2, <1>3, <1>4, <1>5 DEF Exchange

LEMMA CancelTyped ==
  ASSUME TypeOK, NEW k \in Cancels, Cancel(k)
  PROVE  TypeOK'
<1> USE DEF TypeOK, serviceVars, riskVars, brokerVars, history
<1>1. ASSUME NEW c \in Calls, CancelNow(k, c)
      PROVE  TypeOK'
  BY <1>1, StatusTyped DEF CancelNow
<1>2. ASSUME NEW c \in Calls, CancelHttp(k, c)
      PROVE  TypeOK'
  BY <1>2 DEF CancelHttp
<1>3. CASE ExchangeCancels(k)
  BY <1>3 DEF ExchangeCancels
<1>4. CASE CancelReturns(k)
  <2>1. orders' \in [Calls -> Order]
    BY <1>4, StatusTyped DEF CancelReturns
  <2>2. cancels' \in [Cancels -> [pc : {"idle", "deleting", "done"}, order : Calls \cup {NoCall}]]
    BY <1>4 DEF CancelReturns
  <2> QED
    BY <1>4, <2>1, <2>2 DEF CancelReturns
<1> QED
  BY <1>1, <1>2, <1>3, <1>4 DEF Cancel

LEMMA OperateTyped ==
  ASSUME TypeOK, Operate
  PROVE  TypeOK'
<1> USE DEF TypeOK, serviceVars, riskVars, brokerVars, history
<1>1. ASSUME NEW scope \in KillScopes, ActivateKillSwitch(scope)
      PROVE  TypeOK'
  <2>1. ks' \in KillSwitch
    BY <1>1 DEF ActivateKillSwitch, SwitchOn, KillSwitch, Scope
  <2>2. orders' \in [Calls -> Order]
    BY <1>1, StatusTyped DEF ActivateKillSwitch
  <2> QED
    BY <1>1, <2>1, <2>2 DEF ActivateKillSwitch
<1>2. CASE DeactivateKillSwitch
  BY <1>2, OffTyped DEF DeactivateKillSwitch
<1>3. CASE PageLoads
  BY <1>3 DEF PageLoads
<1>4. ASSUME NEW l \in Configs, UpdateConfig(l)
      PROVE  TypeOK'
  BY <1>4 DEF UpdateConfig
<1> QED
  BY <1>1, <1>2, <1>3, <1>4 DEF Operate

LEMMA EnvironmentTyped ==
  ASSUME TypeOK, Environment
  PROVE  TypeOK'
<1> USE DEF TypeOK, serviceVars, riskVars, brokerVars, history
<1>1. ASSUME NEW r \in Requests, DryRun(r)
      PROVE  TypeOK'
  BY <1>1 DEF DryRun, CountEvaluation
<1>2. CASE WindowSlides
  BY <1>2 DEF WindowSlides
<1>3. ASSUME NEW s \in Symbols, TickArrives(s) \/ TickAges(s)
      PROVE  TypeOK'
  BY <1>3 DEF TickArrives, TickAges
<1> QED
  BY <1>1, <1>2, <1>3 DEF Environment

\* What sessions and audits leave alone.
LEMMA SessionsSteps ==
  ASSUME Sessions
  PROVE  UNCHANGED <<serviceVars, riskVars, exchange, feed, cancels, admitted, revived, skipped>>
BY DEF Sessions, Connect, Disconnect, Trial, TrialOnPaper, TrialOnZerodha, TrialElsewhere, history

LEMMA SessionsTyped ==
  ASSUME TypeOK, Sessions
  PROVE  TypeOK'
<1>1. UNCHANGED <<serviceVars, riskVars, exchange, feed, cancels, admitted, revived, skipped>>
  BY SessionsSteps
<1> DEFINE Typed == /\ updates' \in [Brokers -> 0 .. MaxUpdates]
                    /\ online' \in [Brokers -> BOOLEAN]
                    /\ paper' \in [cash : Nat, pos : [Symbols -> Position]]
                    /\ trials' \in Nat
<1>2. Typed
  <2>1. ASSUME NEW b \in Brokers, Connect(b) \/ Disconnect(b)
        PROVE  Typed
    BY <2>1 DEF Connect, Disconnect, TypeOK, history
  <2>2. ASSUME NEW b \in Audited, TrialOnPaper(b)
        PROVE  Typed
    <3>1. updates' \in [Brokers -> 0 .. MaxUpdates] /\ online' = online
      BY <2>2, EmitTyped DEF TrialOnPaper
    <3>2. CASE PaperPrice <= paper.cash
      <4>1. paper.cash - PaperPrice \in Nat
        BY <3>2 DEF TypeOK
      <4>2. [paper.pos EXCEPT ![TrialSymbol] = PaperFill(@, "BUY", 1)] \in [Symbols -> Position]
        BY FillTypes DEF TypeOK, Sides
      <4> QED
        BY <2>2, <3>1, <3>2, <4>1, <4>2 DEF TrialOnPaper, TypeOK
    <3>3. CASE ~(PaperPrice <= paper.cash)
      BY <2>2, <3>1, <3>3 DEF TrialOnPaper, TypeOK
    <3> QED
      BY <3>2, <3>3
  <2>3. ASSUME NEW b \in Audited, TrialOnZerodha(b) \/ TrialElsewhere(b)
        PROVE  Typed
    <3>1. updates' \in [Brokers -> 0 .. MaxUpdates]
      BY <2>3, EmitTyped DEF TrialOnZerodha, TrialElsewhere
    <3>0. QueueFull(b) \in BOOLEAN
      BY DEF QueueFull
    <3>2. online' \in [Brokers -> BOOLEAN]
      BY <2>3, <3>0 DEF TrialOnZerodha, TrialElsewhere, TypeOK
    <3> QED
      BY <2>3, <3>1, <3>2 DEF TrialOnZerodha, TrialElsewhere, TypeOK, history
  <2> QED
    BY <2>1, <2>2, <2>3 DEF Sessions, Trial
<1> QED
  BY <1>1, <1>2 DEF TypeOK, serviceVars, riskVars

LEMMA StepTyped == TypeOK /\ [Next]_vars => TypeOK'
<1> SUFFICES ASSUME TypeOK, [Next]_vars PROVE TypeOK'
  OBVIOUS
<1>1. CASE UNCHANGED vars
  BY <1>1 DEF TypeOK, vars, serviceVars, riskVars, brokerVars, history
<1> QED
  BY <1>1, SubmitTyped, BrokerTyped, CancelTyped, SessionsTyped, OperateTyped, EnvironmentTyped
     DEF Next

(* Every state of every instance has the declared types: no counter goes     *)
(* below zero, no update queue exceeds its capacity and the paper broker's   *)
(* cash never becomes negative.                                              *)
THEOREM TypeCorrect == Spec => []TypeOK
BY InitTyped, StepTyped, PTL DEF Spec

-----------------------------------------------------------------------------
(* Safety.  The state the invariants mention does not determine what the     *)
(* calls in flight will do to it, so none of them is inductive; Keyed and    *)
(* Deletions add what is.                                                    *)

\* How the stages of a call, its order, its key and its answer hang together.
Keyed ==
  \A c \in Calls :
    /\ pc[c] = "idle" => ~HasOrder(c) /\ answer[c] = NoCall
    /\ pc[c] # "idle" => req[c] \in Requests
    /\ pc[c] = "placing" => HasOrder(c) /\ ~orders[c].bid /\ req[c].broker \in Brokers
    /\ exchange[c] # "none" => HasOrder(c)
    /\ HasOrder(c) => byKey[KeyOf(req[c])] = c
    /\ answer[c] # NoCall => answer[c] = byKey[KeyOf(req[c])]

\* The order of a cancel whose HTTP call is out: acknowledged, and open or
\* swept by a kill switch or another cancel.
Deletions ==
  \A k \in Cancels : cancels[k].pc = "deleting" =>
    /\ cancels[k].order \in Calls
    /\ orders[cancels[k].order].bid
    /\ orders[cancels[k].order].status \notin {"NONE", "FILLED", "REJECTED"}

Linked == TypeOK /\ Keyed /\ Deletions
-----------------------------------------------------------------------------
LEMMA InitLinked == Init => Keyed /\ Deletions
BY DEF Init, Keyed, Deletions, HasOrder, NoOrder

LEMMA SubmitLinked ==
  ASSUME Linked, NEW c \in Calls, NEW r \in Requests, Submit(c, r)
  PROVE  Keyed' /\ Deletions'
<1> USE DEF Linked, TypeOK, riskVars, brokerVars, history
<1>0. KeyOf(r) \in Accounts \X Keys
  BY DEF KeyOf, Request
<1>1. CASE SubmitDuplicate(c, r)
  <2>1. Keyed'
    BY <1>0, <1>1 DEF SubmitDuplicate, Keyed, HasOrder
  <2>2. Deletions'
    BY <1>1 DEF SubmitDuplicate, Deletions
  <2> QED
    BY <2>1, <2>2
<1>2. CASE SubmitRefused(c, r)
  <2>1. Keyed'
    BY <1>2 DEF SubmitRefused, Keyed, HasOrder
  <2>2. Deletions'
    BY <1>2 DEF SubmitRefused, Deletions
  <2> QED
    BY <2>1, <2>2
<1>3. CASE Admit(c, r)
  <2>1. /\ pc[c] = "idle" /\ ~HasOrder(c) /\ answer[c] = NoCall
        /\ byKey[KeyOf(r)] = NoCall /\ r.broker \in Brokers
        /\ req' = [req EXCEPT ![c] = r]
        /\ byKey' = [byKey EXCEPT ![KeyOf(r)] = c]
        /\ cancels' = cancels
    BY <1>3 DEF Admit, Unseen, Keyed
  <2>2. PICK o \in Order, p \in {"placing", "blocked", "done", "raised"},
            a \in {NoCall, c} :
          /\ orders' = [orders EXCEPT ![c] = o] /\ o.status # "NONE"
          /\ pc' = [pc EXCEPT ![c] = p]
          /\ answer' = [answer EXCEPT ![c] = a]
          /\ p = "placing" => ~o.bid
          /\ exchange' = exchange \/ exchange' = [exchange EXCEPT ![c] = "transit"]
    <3>1. /\ NewOrder \in Order /\ Reported("SUBMITTED", 0) \in Order
          /\ Reported("REJECTED", 0) \in Order /\ Reported("FILLED", r.qty) \in Order
      BY DEF NewOrder, Reported, Order, Statuses, Request
    <3>2. CASE SubmitHttp(c, r)
      <4>1. /\ orders' = [orders EXCEPT ![c] = NewOrder]
            /\ pc' = [pc EXCEPT ![c] = "placing"]
            /\ answer' = [answer EXCEPT ![c] = NoCall]
            /\ exchange' = [exchange EXCEPT ![c] = "transit"]
        BY <2>1, <3>2 DEF SubmitHttp
      <4>2. NewOrder.status # "NONE" /\ ~NewOrder.bid
        BY DEF NewOrder
      <4> QED
        BY <3>1, <4>1, <4>2
    <3>3. ASSUME NEW o \in Order, o.status # "NONE", Answered(c, r, o), exchange' = exchange
          PROVE  /\ orders' = [orders EXCEPT ![c] = o]
                 /\ \E p \in {"blocked", "done"} : pc' = [pc EXCEPT ![c] = p]
                 /\ \E a \in {NoCall, c} : answer' = [answer EXCEPT ![c] = a]
      BY <2>1, <3>3 DEF Answered
    <3>4. CASE SubmitSandbox(c, r)
      <4>1. PICK o \in Order : o.status # "NONE" /\ Answered(c, r, o)
        BY <3>1, <3>4 DEF SubmitSandbox, NewOrder, Reported
      <4>2. exchange' = exchange
        BY <3>4 DEF SubmitSandbox
      <4> QED
        BY <3>3, <4>1, <4>2
    <3>5. CASE SubmitPaperFill(c, r)
      <4>1. PICK o \in Order : o.status # "NONE" /\ Answered(c, r, o)
        BY <3>1, <3>5 DEF SubmitPaperFill, Reported
      <4>2. exchange' = exchange
        BY <3>5 DEF SubmitPaperFill
      <4> QED
        BY <3>3, <4>1, <4>2
    <3>6. CASE SubmitPaperReject(c, r)
      <4>1. PICK o \in Order : o.status # "NONE" /\ Answered(c, r, o)
        BY <3>1, <3>6 DEF SubmitPaperReject, NewOrder, Reported
      <4>2. exchange' = exchange
        BY <3>6 DEF SubmitPaperReject
      <4> QED
        BY <3>3, <4>1, <4>2
    <3>7. CASE SubmitInstantFill(c, r)
      <4>1. PICK o \in Order : o.status # "NONE" /\ Answered(c, r, o)
        BY <3>1, <3>7 DEF SubmitInstantFill, NewOrder, Reported
      <4>2. exchange' = exchange
        BY <3>7 DEF SubmitInstantFill
      <4> QED
        BY <3>3, <4>1, <4>2
    <3>8. CASE SubmitInstantFails(c, r)
      <4> DEFINE o == [NewOrder EXCEPT !.status = "REJECTED"]
      <4>1. o \in Order /\ o.status # "NONE"
        BY <3>1, StatusTyped DEF NewOrder
      <4>2. /\ orders' = [orders EXCEPT ![c] = o] /\ pc' = [pc EXCEPT ![c] = "raised"]
            /\ answer' = [answer EXCEPT ![c] = NoCall] /\ exchange' = exchange
        BY <2>1, <3>8 DEF SubmitInstantFails
      <4> HIDE DEF o
      <4> QED
        BY <4>1, <4>2
    <3>9. ~SubmitDuplicate(c, r) /\ ~SubmitRefused(c, r)
      BY <1>3 DEF Admit, SubmitDuplicate, SubmitRefused
    <3> QED
      BY <3>2, <3>4, <3>5, <3>6, <3>7, <3>8, <3>9 DEF Submit
  <2>3. Keyed'
    <3> SUFFICES ASSUME NEW d \in Calls
                 PROVE  /\ pc'[d] = "idle" => ~HasOrder(d)' /\ answer'[d] = NoCall
                        /\ pc'[d] # "idle" => req'[d] \in Requests
                        /\ pc'[d] = "placing" => HasOrder(d)' /\ ~orders'[d].bid /\ req'[d].broker \in Brokers
                        /\ exchange'[d] # "none" => HasOrder(d)'
                        /\ HasOrder(d)' => byKey'[KeyOf(req'[d])] = d
                        /\ answer'[d] # NoCall => answer'[d] = byKey'[KeyOf(req'[d])]
      BY DEF Keyed, HasOrder, KeyOf
    <3>1. CASE d = c
      BY <1>0, <2>1, <2>2, <3>1 DEF Keyed, HasOrder
    <3>2. CASE d # c
      <4>1. /\ orders'[d] = orders[d] /\ pc'[d] = pc[d] /\ answer'[d] = answer[d]
            /\ req'[d] = req[d] /\ exchange'[d] = exchange[d]
        BY <2>1, <2>2, <3>2
      <4>2. byKey[KeyOf(req[d])] # NoCall => byKey'[KeyOf(req[d])] = byKey[KeyOf(req[d])]
        BY <1>0, <2>1
      <4> QED
        BY <3>2, <4>1, <4>2 DEF Keyed, HasOrder
    <3> QED
      BY <3>1, <3>2
  <2>4. Deletions'
    BY <2>1, <2>2 DEF Deletions, HasOrder
  <2> QED
    BY <2>3, <2>4
<1> QED
  BY <1>1, <1>2, <1>3
     DEF Submit, SubmitHttp, SubmitSandbox, SubmitPaperFill, SubmitPaperReject, SubmitInstantFill, SubmitInstantFails

LEMMA BrokerLinked ==
  ASSUME Linked, NEW c \in Calls, Exchange(c) \/ PlaceReplies(c) \/ PlaceFails(c)
  PROVE  Keyed' /\ Deletions'
<1> USE DEF Linked, TypeOK, serviceVars, riskVars, brokerVars, history
<1>1. CASE Exchange(c)
  <2>1. /\ UNCHANGED <<serviceVars, cancels>>
        /\ \A d \in Calls : exchange'[d] # "none" => exchange[d] # "none"
    BY <1>1 DEF Exchange, ExchangeAccepts, ExchangeRefuses, ExchangeFills
  <2> QED
    BY <2>1 DEF Keyed, Deletions, HasOrder, KeyOf
<1>2. ASSUME pc[c] = "placing",
             NEW p \in {"blocked", "done", "raised"}, NEW a \in {answer[c], c}, NEW o \in Order,
             pc' = [pc EXCEPT ![c] = p],
             answer' = [answer EXCEPT ![c] = a],
             orders' = [orders EXCEPT ![c] = o], o.status # "NONE",
             UNCHANGED <<req, byKey, exchange, cancels>>
      PROVE  Keyed' /\ Deletions'
  <2>1. Keyed'
    <3> SUFFICES ASSUME NEW d \in Calls
                 PROVE  /\ pc'[d] = "idle" => ~HasOrder(d)' /\ answer'[d] = NoCall
                        /\ pc'[d] # "idle" => req'[d] \in Requests
                        /\ pc'[d] = "placing" => HasOrder(d)' /\ ~orders'[d].bid /\ req'[d].broker \in Brokers
                        /\ exchange'[d] # "none" => HasOrder(d)'
                        /\ HasOrder(d)' => byKey'[KeyOf(req'[d])] = d
                        /\ answer'[d] # NoCall => answer'[d] = byKey'[KeyOf(req'[d])]
      BY DEF Keyed, HasOrder, KeyOf
    <3>1. CASE d = c
      BY <1>2, <3>1 DEF Keyed, HasOrder
    <3>2. CASE d # c
      BY <1>2, <3>2 DEF Keyed, HasOrder
    <3> QED
      BY <3>1, <3>2
  <2>2. \A k \in Cancels : cancels[k].pc = "deleting" => cancels[k].order # c
    BY <1>2 DEF Keyed, Deletions
  <2>3. Deletions'
    BY <1>2, <2>2 DEF Deletions
  <2> QED
    BY <2>1, <2>3
<1>3. CASE PlaceReplies(c)
  <2>1. pc[c] = "placing" /\ HasOrder(c) /\ orders[c] \in Order
    BY <1>3 DEF PlaceReplies, Keyed
  <2>2. PICK o \in Order : o.status # "NONE" /\ Answered(c, req[c], o)
    BY <1>3, <2>1 DEF PlaceReplies, Reported, Order, Statuses, HasOrder
  <2>3. PICK p \in {"blocked", "done"}, a \in {answer[c], c} :
          /\ orders' = [orders EXCEPT ![c] = o]
          /\ pc' = [pc EXCEPT ![c] = p]
          /\ answer' = [answer EXCEPT ![c] = a]
    BY <2>2 DEF Answered
  <2>4. UNCHANGED <<req, byKey, exchange, cancels>>
    BY <1>3 DEF PlaceReplies
  <2>5. o.status # "NONE" /\ pc[c] = "placing" /\ p \in {"blocked", "done", "raised"}
    BY <2>1, <2>2
  <2> HIDE DEF Linked, TypeOK, serviceVars, riskVars, brokerVars, history
  <2> QED
    BY <1>2, <2>3, <2>4, <2>5
<1>4. CASE PlaceFails(c)
  <2> DEFINE o == [orders[c] EXCEPT !.status = "REJECTED"]
  <2>1. o \in Order /\ o.status # "NONE"
    BY StatusTyped DEF Order
  <2>2. /\ pc[c] = "placing"
        /\ pc' = [pc EXCEPT ![c] = "raised"]
        /\ answer' = [answer EXCEPT ![c] = answer[c]]
        /\ orders' = [orders EXCEPT ![c] = o]
        /\ UNCHANGED <<req, byKey, exchange, cancels>>
    BY <1>4 DEF PlaceFails
  <2> HIDE DEF o
  <2> QED
    BY <1>2, <2>1, <2>2
<1> QED
  BY <1>1, <1>3, <1>4

LEMMA CancelLinked ==
  ASSUME Linked, NEW k \in Cancels, Cancel(k)
  PROVE  Keyed' /\ Deletions'
<1> USE DEF Linked, TypeOK, serviceVars, riskVars, brokerVars, history
<1>1. ASSUME NEW c \in Calls, HasOrder(c), orders' = [orders EXCEPT ![c].status = "CANCELLED"],
             UNCHANGED <<pc, req, answer, byKey, exchange>>
      PROVE  Keyed'
  <2>1. /\ \A d \in Calls : HasOrder(d)' <=> HasOrder(d)
        /\ \A d \in Calls : orders'[d].bid = orders[d].bid
    BY <1>1 DEF HasOrder, Order
  <2> QED
    BY <1>1, <2>1 DEF Keyed, KeyOf
<1>2. ASSUME NEW c \in Calls, CancelNow(k, c)
      PROVE  Keyed' /\ Deletions'
  <2>1. Keyed'
    BY <1>1, <1>2 DEF CancelNow, IsOpen
  <2>2. Deletions'
    BY <1>2 DEF CancelNow, Deletions, Order
  <2> QED
    BY <2>1, <2>2
<1>3. ASSUME NEW c \in Calls, CancelHttp(k, c)
      PROVE  Keyed' /\ Deletions'
  <2>1. Keyed'
    BY <1>3 DEF CancelHttp, Keyed, HasOrder, KeyOf
  <2>2. Deletions'
    BY <1>3 DEF CancelHttp, Deletions, IsOpen, IsTerminal, HasOrder, Terminal
  <2> QED
    BY <2>1, <2>2
<1>4. CASE ExchangeCancels(k)
  BY <1>4 DEF ExchangeCancels, Keyed, Deletions, HasOrder, KeyOf
<1>5. CASE CancelReturns(k)
  <2>1. cancels[k].order \in Calls /\ HasOrder(cancels[k].order)
    BY <1>5 DEF CancelReturns, Deletions, HasOrder
  <2>2. Keyed'
    BY <1>1, <1>5, <2>1 DEF CancelReturns
  <2>3. Deletions'
    BY <1>5 DEF CancelReturns, Deletions, Order
  <2> QED
    BY <2>2, <2>3
<1> QED
  BY <1>2, <1>3, <1>4, <1>5 DEF Cancel

LEMMA OperateLinked ==
  ASSUME Linked, Operate
  PROVE  Keyed' /\ Deletions'
<1> USE DEF Linked, TypeOK, serviceVars, riskVars, brokerVars, history
<1>1. ASSUME NEW scope \in KillScopes, ActivateKillSwitch(scope)
      PROVE  Keyed' /\ Deletions'
  <2>1. \A c \in Calls :
          /\ HasOrder(c)' <=> HasOrder(c)
          /\ orders'[c].bid = orders[c].bid
          /\ orders'[c].status = orders[c].status \/ orders'[c].status = "CANCELLED"
    BY <1>1 DEF ActivateKillSwitch, SweptByHalt, IsOpen, HasOrder, Order
  <2>2. UNCHANGED <<pc, req, answer, byKey, exchange, cancels>>
    BY <1>1 DEF ActivateKillSwitch
  <2>3. Keyed'
    BY <2>1, <2>2 DEF Keyed, KeyOf
  <2>4. Deletions'
    BY <2>1, <2>2 DEF Deletions
  <2> QED
    BY <2>3, <2>4
<1>2. Operate => UNCHANGED <<serviceVars, exchange, cancels>>
              \/ \E scope \in KillScopes : ActivateKillSwitch(scope)
  BY DEF Operate, DeactivateKillSwitch, PageLoads, UpdateConfig
<1>3. CASE UNCHANGED <<serviceVars, exchange, cancels>>
  BY <1>3 DEF Keyed, Deletions, HasOrder, KeyOf
<1> QED
  BY <1>1, <1>2, <1>3

LEMMA StepLinked == Linked /\ [Next]_vars => Linked'
<1> SUFFICES ASSUME Linked, [Next]_vars PROVE Keyed' /\ Deletions'
  BY StepTyped DEF Linked
<1>1. CASE Sessions \/ Environment \/ UNCHANGED vars
  <2>1. UNCHANGED <<serviceVars, exchange, cancels>>
    BY <1>1, SessionsSteps DEF Environment, DryRun, WindowSlides, TickArrives, TickAges,
                vars, serviceVars, brokerVars
  <2> QED
    BY <2>1 DEF Linked, serviceVars, Keyed, Deletions, HasOrder, KeyOf
<1> QED
  BY <1>1, SubmitLinked, BrokerLinked, CancelLinked, OperateLinked DEF Next

LEMMA AlwaysLinked == Spec => []Linked
<1>1. Init => Linked
  BY InitTyped, InitLinked DEF Linked
<1> QED
  BY <1>1, StepLinked, PTL DEF Spec
-----------------------------------------------------------------------------
(* Of all the calls with one account and idempotency key, however many       *)
(* retries there are and wherever they were interrupted, at most one makes   *)
(* an order or reaches the live broker (submit_order's first lookup).        *)
THEOREM Idempotent == Spec => []OneOrderPerKey
<1>1. Linked => OneOrderPerKey
  BY DEF Linked, Keyed, OneOrderPerKey
<1> QED
  BY <1>1, AlwaysLinked, PTL

(* All the answers to calls with one account and key name the same order.    *)
THEOREM RetriesAgree == Spec => []SameKeySameAnswer
<1>1. Linked => SameKeySameAnswer
  BY DEF Linked, Keyed, SameKeySameAnswer
<1> QED
  BY <1>1, AlwaysLinked, PTL
-----------------------------------------------------------------------------
\* A step that leaves the orders alone, or touches one call's.
LEMMA TouchesOne ==
  ASSUME Linked, [Next]_vars
  PROVE  \/ orders' = orders
         \/ \E c \in Calls, r \in Requests : Submit(c, r) /\ Admit(c, r)
         \/ \E c \in Calls : PlaceReplies(c) \/ PlaceFails(c)
         \/ \E k \in Cancels, c \in Calls : CancelNow(k, c)
         \/ \E k \in Cancels : CancelReturns(k)
         \/ \E scope \in KillScopes : ActivateKillSwitch(scope)
<1>1. ASSUME NEW c \in Calls, NEW r \in Requests, Submit(c, r)
      PROVE  orders' = orders \/ Admit(c, r)
  BY <1>1 DEF Submit, SubmitDuplicate, SubmitRefused, SubmitHttp, SubmitSandbox,
              SubmitPaperFill, SubmitPaperReject, SubmitInstantFill, SubmitInstantFails
<1>2. ASSUME NEW c \in Calls, Exchange(c)
      PROVE  orders' = orders
  BY <1>2 DEF Exchange, ExchangeAccepts, ExchangeRefuses, ExchangeFills, serviceVars
<1>3. ASSUME NEW k \in Cancels, Cancel(k)
      PROVE  orders' = orders \/ CancelReturns(k) \/ \E c \in Calls : CancelNow(k, c)
  BY <1>3 DEF Cancel, CancelHttp, ExchangeCancels, serviceVars
<1>4. ASSUME Operate
      PROVE  orders' = orders \/ \E scope \in KillScopes : ActivateKillSwitch(scope)
  BY <1>4 DEF Operate, DeactivateKillSwitch, PageLoads, UpdateConfig, serviceVars
<1>5. Environment => orders' = orders
  BY DEF Environment, DryRun, WindowSlides, TickArrives, TickAges, serviceVars
<1>6. Sessions \/ UNCHANGED vars => orders' = orders
  BY SessionsSteps DEF vars, serviceVars
<1> QED
  BY <1>1, <1>2, <1>3, <1>4, <1>5, <1>6 DEF Next

\* What an admission does to its own order and to the others.
LEMMA AdmitTouches ==
  ASSUME Linked, NEW c \in Calls, NEW r \in Requests, Submit(c, r), Admit(c, r)
  PROVE  \A d \in Calls : d # c => orders'[d] = orders[d]
BY DEF Linked, TypeOK, Submit, SubmitDuplicate, SubmitRefused, SubmitHttp, SubmitSandbox,
       SubmitPaperFill, SubmitPaperReject, SubmitInstantFill, SubmitInstantFails, Answered, Admit

(* An order that its broker has answered and that is over is final: neither  *)
(* a late acknowledgement, nor a cancel whose HTTP call was out when the     *)
(* kill switch swept the order, nor the switch itself changes it.            *)
THEOREM SettledForever == Spec => SettledIsFinal
<1>1. ASSUME Linked, [Next]_vars, NEW c \in Calls, orders[c].bid, IsTerminal(c)
      PROVE  orders'[c] = orders[c]
  <2>1. orders[c] \in Order /\ HasOrder(c) /\ pc[c] \notin {"idle", "placing"}
    BY <1>1 DEF Linked, TypeOK, Keyed, IsTerminal, Terminal, HasOrder
  <2>2. ASSUME NEW d \in Calls, NEW r \in Requests, Submit(d, r), Admit(d, r)
        PROVE  orders'[c] = orders[c]
    BY <1>1, <2>1, <2>2, AdmitTouches DEF Admit
  <2>3. ASSUME NEW d \in Calls, PlaceReplies(d) \/ PlaceFails(d)
        PROVE  orders'[c] = orders[c]
    <3>1. pc[d] = "placing"
      BY <2>3 DEF PlaceReplies, PlaceFails
    <3>2. \A e \in Calls : e # d => orders'[e] = orders[e]
      BY <1>1, <2>3 DEF PlaceReplies, PlaceFails, Answered, Linked, TypeOK
    <3> QED
      BY <2>1, <3>1, <3>2
  <2>4. ASSUME NEW k \in Cancels, NEW d \in Calls, CancelNow(k, d)
        PROVE  orders'[c] = orders[c]
    BY <1>1, <2>4 DEF CancelNow, IsOpen, Linked, TypeOK
  <2>5. ASSUME NEW k \in Cancels, CancelReturns(k)
        PROVE  orders'[c] = orders[c]
    <3>1. CASE cancels[k].order = c
      <4>1. orders[c].status = "CANCELLED"
        BY <1>1, <2>5, <3>1 DEF CancelReturns, Linked, Deletions, IsTerminal, Terminal
      <4> QED
        BY <1>1, <2>1, <2>5, <3>1, <4>1 DEF CancelReturns, Linked, TypeOK, Order
    <3>2. CASE cancels[k].order # c
      BY <1>1, <2>5, <3>2 DEF CancelReturns, Linked, TypeOK
    <3> QED
      BY <3>1, <3>2
  <2>6. ASSUME NEW scope \in KillScopes, ActivateKillSwitch(scope)
        PROVE  orders'[c] = orders[c]
    BY <1>1, <2>6 DEF ActivateKillSwitch, SweptByHalt, IsOpen
  <2> QED
    BY <1>1, <2>2, <2>3, <2>4, <2>5, <2>6, TouchesOne
<1>2. Linked /\ [Next]_vars =>
        [\A c \in Calls : orders[c].bid /\ IsTerminal(c) => orders'[c] = orders[c]]_vars
  BY <1>1
<1> QED
  BY <1>2, AlwaysLinked, PTL DEF Spec, SettledIsFinal
-----------------------------------------------------------------------------
\* What an order that is open, and was never revived, owes to the past: it
\* was the same before the step, or the step has just admitted it.
LEMMA OpenBefore ==
  ASSUME Linked, [Next]_vars, NEW c \in Calls, IsOpen(c)', c \notin revived'
  PROVE  \/ /\ IsOpen(c) /\ c \notin revived
            /\ req'[c] = req[c] /\ admitted'[c] = admitted[c]
         \/ \E r \in Requests : Submit(c, r) /\ Admit(c, r)
<1> USE DEF Linked, TypeOK
<1>1. ASSUME NEW d \in Calls, NEW r \in Requests, Submit(d, r)
      PROVE  \/ d = c /\ Admit(c, r)
             \/ /\ IsOpen(c) /\ c \notin revived
                /\ req'[c] = req[c] /\ admitted'[c] = admitted[c]
  <2>1. CASE d = c /\ Admit(c, r)
    BY <2>1
  <2>2. CASE d # c /\ Admit(d, r)
    <3>1. orders'[c] = orders[c]
      BY <1>1, <2>2, AdmitTouches
    <3> QED
      BY <2>2, <3>1 DEF Admit, IsOpen, HasOrder, IsTerminal
  <2>3. CASE SubmitDuplicate(d, r) \/ SubmitRefused(d, r)
    <3>1. /\ UNCHANGED <<orders, history>> /\ pc[d] = "idle"
          /\ req' = [req EXCEPT ![d] = r]
      BY <2>3 DEF SubmitDuplicate, SubmitRefused
    <3>2. IsOpen(c) /\ c \notin revived /\ admitted'[c] = admitted[c]
      BY <3>1 DEF history, IsOpen, HasOrder, IsTerminal
    <3>3. d # c
      BY <3>1, <3>2 DEF Keyed, IsOpen
    <3> QED
      BY <3>1, <3>2, <3>3
  <2> QED
    BY <1>1, <2>1, <2>2, <2>3
       DEF Submit, SubmitHttp, SubmitSandbox, SubmitPaperFill, SubmitPaperReject, SubmitInstantFill, SubmitInstantFails
<1>2. ASSUME NEW d \in Calls, PlaceReplies(d)
      PROVE  IsOpen(c) /\ c \notin revived
  <2>1. CASE d # c \/ QueueFull(req[d].broker)
    BY <1>2, <2>1 DEF PlaceReplies, Answered, IsOpen, HasOrder, IsTerminal
  <2>2. CASE d = c /\ ~QueueFull(req[d].broker)
    BY <1>2, <2>2 DEF PlaceReplies, Keyed, IsOpen
  <2> QED
    BY <2>1, <2>2
<1>3. ASSUME NEW d \in Calls, PlaceFails(d)
      PROVE  IsOpen(c) /\ c \notin revived
  <2>1. d # c
    BY <1>3 DEF PlaceFails, IsOpen, IsTerminal, Terminal, Order
  <2> QED
    BY <1>3, <2>1 DEF PlaceFails, IsOpen, HasOrder, IsTerminal, history
<1>4. ASSUME NEW k \in Cancels, Cancel(k)
      PROVE  IsOpen(c) /\ c \notin revived
  <2>1. orders'[c] = orders[c] \/ orders'[c].status = "CANCELLED"
    BY <1>4 DEF Cancel, CancelNow, CancelHttp, ExchangeCancels, CancelReturns, serviceVars, Order
  <2>2. revived' = revived
    BY <1>4 DEF Cancel, CancelNow, CancelHttp, ExchangeCancels, CancelReturns, history
  <2> QED
    BY <2>1, <2>2 DEF IsOpen, HasOrder, IsTerminal, Terminal
<1>5. ASSUME Sessions \/ Operate \/ Environment \/ UNCHANGED vars
      PROVE  IsOpen(c) /\ c \notin revived
  <2>1. orders'[c] = orders[c] \/ orders'[c].status = "CANCELLED"
    BY <1>5, SessionsSteps DEF Operate, ActivateKillSwitch, DeactivateKillSwitch, PageLoads, UpdateConfig,
                Environment, DryRun, WindowSlides, TickArrives, TickAges, vars, serviceVars, Order
  <2>2. revived' = revived
    BY <1>5, SessionsSteps DEF Operate, ActivateKillSwitch, DeactivateKillSwitch, PageLoads, UpdateConfig,
                Environment, DryRun, WindowSlides, TickArrives, TickAges, vars, history
  <2> QED
    BY <2>1, <2>2 DEF IsOpen, HasOrder, IsTerminal, Terminal
<1>6. ASSUME NEW d \in Calls, Exchange(d)
      PROVE  IsOpen(c) /\ c \notin revived
  BY <1>6 DEF Exchange, ExchangeAccepts, ExchangeRefuses, ExchangeFills, serviceVars, history,
              IsOpen, HasOrder, IsTerminal
<1>7. \/ \E d \in Calls, r \in Requests : Submit(d, r)
      \/ UNCHANGED <<req, admitted>>
  BY SessionsSteps DEF Next, Exchange, ExchangeAccepts, ExchangeRefuses, ExchangeFills, PlaceReplies,
         PlaceFails, Cancel, CancelNow, CancelHttp, ExchangeCancels, CancelReturns,
         Operate, ActivateKillSwitch, DeactivateKillSwitch, PageLoads, UpdateConfig,
         Environment, DryRun, WindowSlides, TickArrives, TickAges, vars, serviceVars, history
<1> QED
  BY <1>1, <1>2, <1>3, <1>4, <1>5, <1>6, <1>7 DEF Next
-----------------------------------------------------------------------------
LEMMA SwitchSteps ==
  ASSUME [Next]_vars
  PROVE  \/ ks' = ks /\ skipped \subseteq skipped'
         \/ \E scope \in KillScopes : ActivateKillSwitch(scope)
         \/ DeactivateKillSwitch
         \/ \E l \in Configs : UpdateConfig(l)
<1>1. ASSUME NEW c \in Calls, NEW r \in Requests, Submit(c, r)
      PROVE  ks' = ks /\ skipped' = skipped
  BY <1>1 DEF Submit, SubmitDuplicate, SubmitRefused, SubmitHttp, SubmitSandbox,
              SubmitPaperFill, SubmitPaperReject, SubmitInstantFill, SubmitInstantFails, Admit, riskVars, history
<1>2. ASSUME NEW c \in Calls, Exchange(c) \/ PlaceReplies(c) \/ PlaceFails(c)
      PROVE  ks' = ks /\ skipped' = skipped
  BY <1>2 DEF Exchange, ExchangeAccepts, ExchangeRefuses, ExchangeFills, PlaceReplies,
              PlaceFails, riskVars, history
<1>3. ASSUME NEW k \in Cancels, Cancel(k)
      PROVE  ks' = ks /\ skipped' = skipped
  BY <1>3 DEF Cancel, CancelNow, CancelHttp, ExchangeCancels, CancelReturns, riskVars, history
<1>4. Sessions \/ Environment \/ PageLoads \/ UNCHANGED vars => ks' = ks /\ skipped' = skipped
  BY SessionsSteps DEF Environment, DryRun, WindowSlides, TickArrives, TickAges, PageLoads,
         vars, riskVars, history
<1> QED
  BY <1>1, <1>2, <1>3, <1>4 DEF Next, Operate

(* While a kill switch is engaged, every open order it covers is one whose   *)
(* late acknowledgement overwrote the cancellation, or was open when a saved *)
(* configuration, rather than the activation, engaged the switch.            *)
THEOREM HaltHolds == Spec => []HaltDrains
<1>1. Init => HaltDrains
  BY DEF Init, HaltDrains, Halts, SwitchOff
<1>2. Linked /\ HaltDrains /\ [Next]_vars => HaltDrains'
  <2> SUFFICES ASSUME Linked, HaltDrains, [Next]_vars,
                      NEW c \in Calls, IsOpen(c)', Halts(ks', req'[c]), c \notin revived'
               PROVE  c \in skipped'
    BY DEF HaltDrains, Halts
  <2>1. ASSUME NEW r \in Requests, Admit(c, r)
        PROVE  FALSE
    <3>1. ks' = ks /\ req'[c] = r /\ ~Halts(ks, r)
      BY <2>1 DEF Admit, Allowed, RiskAllows, Linked, TypeOK
    <3> QED
      BY <3>1
  <2>2. IsOpen(c) /\ c \notin revived /\ req'[c] = req[c]
    BY <2>1, OpenBefore
  <2>3. CASE ks' = ks /\ skipped \subseteq skipped'
    BY <2>2, <2>3 DEF HaltDrains
  <2>4. ASSUME NEW scope \in KillScopes, ActivateKillSwitch(scope)
        PROVE  FALSE
    BY <2>2, <2>4 DEF ActivateKillSwitch, SweptByHalt, IsOpen, HasOrder, IsTerminal, Terminal,
                      Linked, TypeOK, Order
  <2>5. CASE DeactivateKillSwitch
    BY <2>5 DEF DeactivateKillSwitch, SwitchOff, Halts
  <2>6. ASSUME NEW l \in Configs, UpdateConfig(l)
        PROVE  c \in skipped'
    BY <2>2, <2>6 DEF UpdateConfig, Halts
  <2> QED
    BY <2>3, <2>4, <2>5, <2>6, SwitchSteps
<1> QED
  BY <1>1, <1>2, AlwaysLinked, PTL DEF Spec

(* Self-trade prevention holds between any two orders of one account and     *)
(* symbol that were admitted with it and stay open, whichever was first and  *)
(* whatever the other limits were in between.                                *)
THEOREM NoSelfTrade == Spec => []NoSelfCross
<1>1. Init => NoSelfCross
  BY DEF Init, NoSelfCross, Standing, IsOpen, HasOrder, NoOrder
<1>2. Linked /\ NoSelfCross /\ [Next]_vars => NoSelfCross'
  <2> SUFFICES ASSUME Linked, NoSelfCross, [Next]_vars,
                      NEW a \in Accounts, NEW s \in Symbols,
                      NEW c \in Calls, NEW d \in Calls,
                      IsOpen(c)', c \notin revived', req'[c].acct = a, req'[c].sym = s,
                      IsOpen(d)', d \notin revived', req'[d].acct = a, req'[d].sym = s,
                      admitted'[c].stp, admitted'[d].stp,
                      req'[c].side = "BUY", req'[d].side = "SELL",
                      req'[c].price > 0, req'[d].price > 0
               PROVE  req'[c].price < req'[d].price
    BY DEF NoSelfCross, Standing, IsOpen, HasOrder, IsTerminal
  <2>1. c # d
    OBVIOUS
  <2> DEFINE Old(e) == /\ IsOpen(e) /\ e \notin revived
                       /\ req'[e] = req[e] /\ admitted'[e] = admitted[e]
             New(e) == \E r \in Requests : Submit(e, r) /\ Admit(e, r)
  <2>2. (Old(c) \/ New(c)) /\ (Old(d) \/ New(d))
    BY OpenBefore
  <2>3. ASSUME NEW e \in {c, d}, New(e)
        PROVE  \A f \in {c, d} \ {e} : Old(f)
    <3> SUFFICES ASSUME NEW f \in {c, d} \ {e} PROVE Old(f)
      OBVIOUS
    <3>1. orders'[f] = orders[f]
      BY <2>3, AdmitTouches
    <3>2. HasOrder(f)
      BY <3>1 DEF IsOpen, HasOrder
    <3>3. ~New(f)
      BY <3>2 DEF Linked, Keyed, Admit
    <3> QED
      BY <2>2, <3>3
  <2>4. ASSUME NEW e \in {c, d}, New(e), NEW f \in {c, d} \ {e}, Old(f)
        PROVE  ~Crosses(req'[e], [id |-> f, sym |-> s, side |-> req'[f].side,
                                  price |-> req'[f].price])
    <3>1. PICK r \in Requests : Admit(e, r)
      BY <2>4
    <3>2. req'[e] = r /\ admitted'[e] = limits /\ Allowed(r) /\ r.acct = a
      BY <3>1 DEF Admit, Linked, TypeOK
    <3>3. [id |-> f, sym |-> s, side |-> req'[f].side, price |-> req'[f].price]
            \in OpenOrders(a)
      BY <2>4 DEF OpenOrders
    <3>4. limits.stp
      BY <3>2
    <3> QED
      BY <3>2, <3>3, <3>4 DEF Allowed, RiskAllows
  <2>5. req'[c] \in Request /\ req'[d] \in Request
    <3>1. req'[c] \in Requests /\ req'[d] \in Requests
      BY StepLinked DEF Linked, Keyed, IsOpen
    <3> QED
      BY <3>1
  <2>6. CASE Old(c) /\ Old(d)
    BY <2>6 DEF NoSelfCross, Standing
  <2>7. CASE New(c)
    BY <2>1, <2>3, <2>4, <2>5, <2>7 DEF Crosses, Request
  <2>8. CASE New(d)
    BY <2>1, <2>3, <2>4, <2>5, <2>8 DEF Crosses, Request
  <2> QED
    BY <2>2, <2>6, <2>7, <2>8
<1> QED
  BY <1>1, <1>2, AlwaysLinked, PTL DEF Spec
-----------------------------------------------------------------------------
\* OpenCap is not inductive: the order whose limits witness it may be closed.
\* What is holds of every part of the standing orders, the last admitted of a
\* part being its witness.
CapOfParts ==
  \A a \in Accounts, s \in Symbols : \A part \in SUBSET Standing(a, s) :
    part # {} => \E c \in part : Cardinality(part) <= admitted[c].maxOpen

\* The engine counts the open orders of a symbol; no set of calls that have
\* such orders is larger than its count.
LEMMA CountsAll ==
  ASSUME NEW a \in Accounts, NEW s \in Symbols,
         NEW part \in SUBSET {c \in Calls : IsOpen(c) /\ req[c].acct = a /\ req[c].sym = s}
  PROVE  /\ IsFiniteSet(part)
         /\ Cardinality({o \in OpenOrders(a) : o.sym = s}) \in Nat
         /\ Cardinality(part) \in Nat
         /\ Cardinality(part) <= Cardinality({o \in OpenOrders(a) : o.sym = s})
<1> DEFINE D == {d \in Calls : IsOpen(d) /\ req[d].acct = a}
           Rec(d) == [id |-> d, sym |-> UpperOf[req[d].sym], side |-> req[d].side,
                      price |-> req[d].price]
           g == [d \in D |-> Rec(d)]
           O == {o \in OpenOrders(a) : o.sym = s}
           f == [d \in part |-> Rec(d)]
<1>1. IsFiniteSet(D) /\ IsFiniteSet(part)
  BY FS_Subset
<1>2. g \in Surjection(D, OpenOrders(a))
  BY DEF Surjection, OpenOrders
<1>3. IsFiniteSet(OpenOrders(a))
  BY <1>1, <1>2, FS_Surjection
<1>4. IsFiniteSet(O)
  BY <1>3, FS_Subset
<1>5. f \in Injection(part, O)
  <2>1. \A d \in part : f[d] \in O
    BY DEF OpenOrders
  <2>2. \A d, e \in part : f[d] = f[e] => d = e
    OBVIOUS
  <2> QED
    BY <2>1, <2>2 DEF Injection, IsInjective
<1> HIDE DEF D, g, O, f
<1>6. Cardinality(part) <= Cardinality(O)
  BY <1>4, <1>5, FS_Injection
<1> QED
  BY <1>1, <1>4, <1>6, FS_CardinalityType DEF O

(* The standing orders of an account and symbol are never more than a limit  *)
(* that was in force when one of them was admitted, whatever limits were     *)
(* saved and whichever orders were cancelled in between.                     *)
THEOREM CapHolds == Spec => []OpenCap
<1>1. Init => CapOfParts
  <2> SUFFICES ASSUME Init, NEW a \in Accounts, NEW s \in Symbols
               PROVE  Standing(a, s) = {}
    BY DEF CapOfParts
  <2> QED
    BY DEF Init, Standing, IsOpen, HasOrder, NoOrder
<1>2. Linked /\ CapOfParts /\ [Next]_vars => CapOfParts'
  <2> SUFFICES ASSUME Linked, CapOfParts, [Next]_vars,
                      NEW a \in Accounts, NEW s \in Symbols,
                      NEW part \in SUBSET Calls, part # {},
                      \A c \in part : /\ IsOpen(c)' /\ c \notin revived'
                                      /\ req'[c].acct = a /\ req'[c].sym = s
               PROVE  \E c \in part : Cardinality(part) <= admitted'[c].maxOpen
    BY DEF CapOfParts, Standing, IsOpen, HasOrder, IsTerminal
  <2> DEFINE Old(e) == /\ IsOpen(e) /\ e \notin revived
                       /\ req'[e] = req[e] /\ admitted'[e] = admitted[e]
             New(e) == \E r \in Requests : Submit(e, r) /\ Admit(e, r)
  <2>1. \A c \in part : Old(c) \/ New(c)
    BY OpenBefore
  <2>2. CASE \A c \in part : Old(c)
    <3>1. part \in SUBSET Standing(a, s)
      BY <2>2 DEF Standing
    <3> QED
      BY <2>2, <3>1 DEF CapOfParts
  <2>3. ASSUME NEW c \in part, New(c)
        PROVE  Cardinality(part) <= admitted'[c].maxOpen
    <3> DEFINE rest == part \ {c}
    <3>1. \A d \in rest : Old(d)
      <4> SUFFICES ASSUME NEW d \in rest PROVE Old(d)
        OBVIOUS
      <4>1. HasOrder(d)
        BY <2>3, AdmitTouches DEF IsOpen, HasOrder
      <4>2. ~New(d)
        BY <4>1 DEF Linked, Keyed, Admit
      <4> QED
        BY <2>1, <4>2
    <3>2. PICK r \in Requests : Admit(c, r)
      BY <2>3
    <3>3. /\ r.acct = a /\ r.sym = s /\ admitted'[c] = limits /\ Allowed(r)
          /\ limits \in Limits
      BY <3>2 DEF Admit, Linked, TypeOK
    <3>4. Cardinality({o \in OpenOrders(a) : o.sym = s}) < limits.maxOpen
      BY <3>3 DEF Allowed, RiskAllows, BelowOpenCap
    <3>5. rest \in SUBSET {d \in Calls : IsOpen(d) /\ req[d].acct = a /\ req[d].sym = s}
      BY <3>1
    <3> HIDE DEF rest
    <3>6. /\ IsFiniteSet(rest)
          /\ Cardinality({o \in OpenOrders(a) : o.sym = s}) \in Nat
          /\ Cardinality(rest) \in Nat
          /\ Cardinality(rest) <= Cardinality({o \in OpenOrders(a) : o.sym = s})
      BY <3>5, CountsAll
    <3>7. part = rest \cup {c} /\ c \notin rest
      BY DEF rest
    <3>8. Cardinality(part) = Cardinality(rest) + 1
      BY <3>6, <3>7, FS_AddElement
    <3>9. limits.maxOpen \in Nat
      BY <3>3 DEF Limits
    <3> QED
      BY <3>3, <3>4, <3>6, <3>8, <3>9
  <2> QED
    BY <2>1, <2>2, <2>3
<1>3. CapOfParts => OpenCap
  BY DEF CapOfParts, OpenCap
<1> QED
  BY <1>1, <1>2, <1>3, AlwaysLinked, PTL DEF Spec

-----------------------------------------------------------------------------
(* The two books.  What a fill adds to a position, and what it adds to the sum*)
(* of the fills, is the same signed quantity; a report that finds the paper  *)
(* adapter's queue full is booked at the broker alone, a fill of another     *)
(* adapter in the service alone, an audit's at the paper broker alone.       *)

\* What a call's order contributes to the sums over free calls, over stuck
\* calls and over those whose order went to another adapter.
Share(calls, c, a, s) ==
  IF c \in calls /\ HasOrder(c) /\ Slot(req[c]) = <<a, s>>
  THEN Sign(req[c].side) * orders[c].filled ELSE 0

FreeShare(c, a, s)  == Share(Calls \ Stuck, c, a, s)
StuckShare(c, a, s) == Share(Stuck, c, a, s)
OtherShare(c, a, s) == Share(Elsewhere, c, a, s)

\* A call under way has filled nothing yet.
Unfilled == \A c \in Calls : pc[c] = "placing" => orders[c].filled = 0

PaperWellFormed == \A s \in Symbols : WellFormed(paper.pos[s])

Booked == Unfilled /\ PaperWellFormed /\ PositionsFollowOrders /\ BooksAgree

LEMMA SignedQty ==
  ASSUME NEW side \in Sides, NEW qty \in Nat
  PROVE  Sign(side) * qty \in Int /\ (qty = 0 => Sign(side) * qty = 0)
BY DEF Sign, Sides

LEMMA SignedTyped ==
  ASSUME NEW p, WellFormed(p)
  PROVE  Signed(p) \in Int
BY DEF WellFormed, Position, Signed

(* Each of the two position books adds the signed quantity of a fill,        *)
(* whatever it does to the side: _update_position_from_fill and the paper    *)
(* broker's own code agree on the net position.                              *)
LEMMA FillMoves ==
  ASSUME NEW p, WellFormed(p), NEW side \in Sides, NEW qty \in Nat \ {0}
  PROVE  /\ WellFormed(ApplyFill(p, side, qty)) /\ WellFormed(PaperFill(p, side, qty))
         /\ Signed(ApplyFill(p, side, qty)) = Signed(p) + Sign(side) * qty
         /\ Signed(PaperFill(p, side, qty)) = Signed(p) + Sign(side) * qty
<1>1. /\ p.side \in {"NONE", "LONG", "SHORT", "FLAT"} /\ p.qty \in Nat
      /\ (p.qty = 0) <=> (p.side \in {"NONE", "FLAT"})
  BY DEF WellFormed, Position, PositionSides
<1>2. ASSUME NEW q, q \in {ApplyFill(p, side, qty), PaperFill(p, side, qty)}
      PROVE  /\ q = CASE p.side = "NONE" -> Holding(Direction(side), qty)
                      [] p.side = Direction(side) -> Holding(p.side, p.qty + qty)
                      [] p.side # "NONE" /\ p.side # Direction(side) /\ p.qty > qty ->
                           Holding(p.side, p.qty - qty)
                      [] p.side # "NONE" /\ p.side # Direction(side) /\ p.qty = qty ->
                           Holding("FLAT", 0)
                      [] p.side # "NONE" /\ p.side # Direction(side) /\ qty > p.qty ->
                           Holding(Direction(side), qty - p.qty)
  BY <1>1, <1>2 DEF ApplyFill, PaperFill, Direction, Holding
<1>3. ASSUME NEW q, q \in {ApplyFill(p, side, qty), PaperFill(p, side, qty)}
      PROVE  /\ q.side \in PositionSides /\ q.qty \in Nat /\ q = [side |-> q.side, qty |-> q.qty]
             /\ (q.qty = 0) <=> (q.side \in {"NONE", "FLAT"})
             /\ Signed(q) = Signed(p) + Sign(side) * qty
  BY <1>1, <1>2, <1>3 DEF Direction, Holding, Signed, Sign, Sides, PositionSides
<1> QED
  BY <1>3 DEF WellFormed, Position

LEMMA SharesTyped ==
  ASSUME TypeOK, Keyed, NEW c \in Calls, NEW a, NEW s
  PROVE  /\ FreeShare(c, a, s) \in Int /\ StuckShare(c, a, s) \in Int
         /\ OtherShare(c, a, s) \in Int
<1>1. orders[c].filled \in Nat
  BY DEF TypeOK, Order
<1>2. HasOrder(c) => req[c].side \in Sides
  BY DEF Keyed, Request
<1>3. HasOrder(c) => Sign(req[c].side) * orders[c].filled \in Int
  BY <1>1, <1>2, SignedQty
<1> QED
  BY <1>3 DEF FreeShare, StuckShare, OtherShare, Share

LEMMA SharesTypedNext ==
  ASSUME TypeOK', Keyed', NEW c \in Calls, NEW a, NEW s
  PROVE  /\ FreeShare(c, a, s)' \in Int /\ StuckShare(c, a, s)' \in Int
         /\ OtherShare(c, a, s)' \in Int
<1>1. orders'[c].filled \in Nat
  BY DEF TypeOK, Order
<1>2. HasOrder(c)' => req'[c].side \in Sides
  BY DEF Keyed, Request
<1>3. HasOrder(c)' => Sign(req'[c].side) * orders'[c].filled \in Int
  BY <1>1, <1>2, SignedQty
<1> QED
  BY <1>3 DEF FreeShare, StuckShare, OtherShare, Share

LEMMA NetSums ==
  ASSUME NEW a, NEW s
  PROVE  /\ NetFilled(Calls \ Stuck, a, s) =
              SumFunctionOnSet([c \in Calls |-> FreeShare(c, a, s)], Calls)
         /\ NetFilled(Stuck, a, s) =
              SumFunctionOnSet([c \in Calls |-> StuckShare(c, a, s)], Calls)
         /\ NetFilled(Elsewhere, a, s) =
              SumFunctionOnSet([c \in Calls |-> OtherShare(c, a, s)], Calls)
         /\ NetFilled(Calls \ Stuck, a, s)' =
              SumFunctionOnSet([c \in Calls |-> FreeShare(c, a, s)'], Calls)
         /\ NetFilled(Stuck, a, s)' =
              SumFunctionOnSet([c \in Calls |-> StuckShare(c, a, s)'], Calls)
         /\ NetFilled(Elsewhere, a, s)' =
              SumFunctionOnSet([c \in Calls |-> OtherShare(c, a, s)'], Calls)
BY DEF NetFilled, FreeShare, StuckShare, OtherShare, Share, SumFunction

LEMMA NetTyped ==
  ASSUME TypeOK, Keyed, NEW a, NEW s
  PROVE  /\ NetFilled(Calls \ Stuck, a, s) \in Int /\ NetFilled(Stuck, a, s) \in Int
         /\ NetFilled(Elsewhere, a, s) \in Int
<1> DEFINE F == [d \in Calls |-> FreeShare(d, a, s)]
           G == [d \in Calls |-> StuckShare(d, a, s)]
           H == [d \in Calls |-> OtherShare(d, a, s)]
<1>1. \A c \in Calls : F[c] \in Int /\ G[c] \in Int /\ H[c] \in Int
  BY SharesTyped
<1>2. /\ NetFilled(Calls \ Stuck, a, s) = SumFunctionOnSet(F, Calls)
      /\ NetFilled(Stuck, a, s) = SumFunctionOnSet(G, Calls)
      /\ NetFilled(Elsewhere, a, s) = SumFunctionOnSet(H, Calls)
  BY DEF NetFilled, FreeShare, StuckShare, OtherShare, Share, SumFunction
<1> HIDE DEF F, G, H
<1>3. SumFunctionOnSet(F, Calls) \in Int
  BY <1>1, SumUnfolds
<1>4. SumFunctionOnSet(G, Calls) \in Int
  BY <1>1, SumUnfolds
<1>5. SumFunctionOnSet(H, Calls) \in Int
  BY <1>1, SumUnfolds
<1> QED
  BY <1>2, <1>3, <1>4, <1>5

\* The part of call c in the sums is what it was.
Stays(c) == \A a \in Accounts, s \in Symbols :
  /\ FreeShare(c, a, s)' = FreeShare(c, a, s)
  /\ StuckShare(c, a, s)' = StuckShare(c, a, s)
  /\ OtherShare(c, a, s)' = OtherShare(c, a, s)

LEMMA NetStays ==
  ASSUME TypeOK, Keyed, \A c \in Calls : Stays(c), NEW a \in Accounts, NEW s \in Symbols
  PROVE  /\ NetFilled(Calls \ Stuck, a, s)' = NetFilled(Calls \ Stuck, a, s)
         /\ NetFilled(Stuck, a, s)' = NetFilled(Stuck, a, s)
         /\ NetFilled(Elsewhere, a, s)' = NetFilled(Elsewhere, a, s)
<1> DEFINE F == [d \in Calls |-> FreeShare(d, a, s)]
           G == [d \in Calls |-> StuckShare(d, a, s)]
           H == [d \in Calls |-> OtherShare(d, a, s)]
           FF == [d \in Calls |-> FreeShare(d, a, s)']
           GG == [d \in Calls |-> StuckShare(d, a, s)']
           HH == [d \in Calls |-> OtherShare(d, a, s)']
<1>1. FF = F /\ GG = G /\ HH = H
  BY DEF Stays
<1>2. /\ NetFilled(Calls \ Stuck, a, s) = SumFunctionOnSet(F, Calls)
      /\ NetFilled(Stuck, a, s) = SumFunctionOnSet(G, Calls)
      /\ NetFilled(Elsewhere, a, s) = SumFunctionOnSet(H, Calls)
      /\ NetFilled(Calls \ Stuck, a, s)' = SumFunctionOnSet(FF, Calls)
      /\ NetFilled(Stuck, a, s)' = SumFunctionOnSet(GG, Calls)
      /\ NetFilled(Elsewhere, a, s)' = SumFunctionOnSet(HH, Calls)
  BY DEF NetFilled, FreeShare, StuckShare, OtherShare, Share, SumFunction
<1> QED
  BY <1>1, <1>2

LEMMA NetMoves ==
  ASSUME TypeOK, Keyed, TypeOK', Keyed', NEW c \in Calls, \A d \in Calls \ {c} : Stays(d),
         NEW a \in Accounts, NEW s \in Symbols,
         FreeShare(c, a, s) = 0, StuckShare(c, a, s) = 0, OtherShare(c, a, s) = 0
  PROVE  /\ NetFilled(Calls \ Stuck, a, s)' = NetFilled(Calls \ Stuck, a, s) + FreeShare(c, a, s)'
         /\ NetFilled(Stuck, a, s)' = NetFilled(Stuck, a, s) + StuckShare(c, a, s)'
         /\ NetFilled(Elsewhere, a, s)' = NetFilled(Elsewhere, a, s) + OtherShare(c, a, s)'
<1> DEFINE F == [d \in Calls |-> FreeShare(d, a, s)]
           G == [d \in Calls |-> StuckShare(d, a, s)]
           H == [d \in Calls |-> OtherShare(d, a, s)]
           FF == [d \in Calls |-> FreeShare(d, a, s)']
           GG == [d \in Calls |-> StuckShare(d, a, s)']
           HH == [d \in Calls |-> OtherShare(d, a, s)']
<1>1. /\ \A d \in Calls : F[d] \in Int /\ FF[d] \in Int
      /\ \A d \in Calls : G[d] \in Int /\ GG[d] \in Int
      /\ \A d \in Calls : H[d] \in Int /\ HH[d] \in Int
  BY SharesTyped, SharesTypedNext
<1>2. \A d \in Calls \ {c} : FF[d] = F[d] /\ GG[d] = G[d] /\ HH[d] = H[d]
  BY DEF Stays
<1>3. /\ NetFilled(Calls \ Stuck, a, s) = SumFunctionOnSet(F, Calls)
      /\ NetFilled(Stuck, a, s) = SumFunctionOnSet(G, Calls)
      /\ NetFilled(Elsewhere, a, s) = SumFunctionOnSet(H, Calls)
      /\ NetFilled(Calls \ Stuck, a, s)' = SumFunctionOnSet(FF, Calls)
      /\ NetFilled(Stuck, a, s)' = SumFunctionOnSet(GG, Calls)
      /\ NetFilled(Elsewhere, a, s)' = SumFunctionOnSet(HH, Calls)
  BY DEF NetFilled, FreeShare, StuckShare, OtherShare, Share, SumFunction
<1>4. /\ F[c] = 0 /\ FF[c] = FreeShare(c, a, s)'
      /\ G[c] = 0 /\ GG[c] = StuckShare(c, a, s)'
      /\ H[c] = 0 /\ HH[c] = OtherShare(c, a, s)'
  OBVIOUS
<1> HIDE DEF F, G, H, FF, GG, HH
<1>5. ASSUME NEW f, NEW ff, \A d \in Calls : f[d] \in Int /\ ff[d] \in Int,
             \A d \in Calls \ {c} : ff[d] = f[d], f[c] = 0
      PROVE  SumFunctionOnSet(ff, Calls) = SumFunctionOnSet(f, Calls) + ff[c]
  <2>1. SumFunctionOnSet(ff, Calls) = SumFunctionOnSet(f, Calls) - f[c] + ff[c]
    BY <1>5, SumChanges
  <2>2. SumFunctionOnSet(f, Calls) \in Int
    BY <1>5, SumUnfolds
  <2>3. ff[c] \in Int
    BY <1>5
  <2> QED
    BY <1>5, <2>1, <2>2, <2>3
<1>6. SumFunctionOnSet(FF, Calls) = SumFunctionOnSet(F, Calls) + FF[c]
  BY <1>1, <1>2, <1>4, <1>5
<1>7. SumFunctionOnSet(GG, Calls) = SumFunctionOnSet(G, Calls) + GG[c]
  BY <1>1, <1>2, <1>4, <1>5
<1>8. SumFunctionOnSet(HH, Calls) = SumFunctionOnSet(H, Calls) + HH[c]
  BY <1>1, <1>2, <1>4, <1>5
<1> QED
  BY <1>3, <1>4, <1>6, <1>7, <1>8

LEMMA PaperShareTyped ==
  ASSUME TypeOK, Keyed, PositionsFollowOrders, NEW a \in Accounts, NEW s \in Symbols
  PROVE  PaperShare(a, s) \in Int
<1>1. Signed(positions[<<a, s>>]) \in Int
  BY SignedTyped DEF PositionsFollowOrders
<1>2. NetFilled(Stuck, a, s) \in Int /\ NetFilled(Elsewhere, a, s) \in Int
  BY NetTyped
<1> QED
  BY <1>1, <1>2 DEF PaperShare

(* A step that moves no share and no position leaves the service's book as    *)
(* it was, and its part of the paper broker's.                               *)
LEMMA SharesStay ==
  ASSUME TypeOK, Keyed, PositionsFollowOrders, \A c \in Calls : Stays(c),
         positions' = positions
  PROVE  /\ PositionsFollowOrders'
         /\ \A s \in Symbols : SumFunction([a \in Accounts |-> PaperShare(a, s)])'
                              = SumFunction([a \in Accounts |-> PaperShare(a, s)])
<1>1. PositionsFollowOrders'
  <2> SUFFICES ASSUME NEW a \in Accounts, NEW s \in Symbols
               PROVE  /\ WellFormed(positions'[<<a, s>>])
                      /\ Signed(positions'[<<a, s>>]) = NetFilled(Calls \ Stuck, a, s)'
    BY DEF PositionsFollowOrders
  <2> QED
    BY NetStays DEF PositionsFollowOrders
<1>2. ASSUME NEW a \in Accounts, NEW s \in Symbols
      PROVE  PaperShare(a, s)' = PaperShare(a, s)
  BY NetStays DEF PaperShare
<1>3. ASSUME NEW s \in Symbols
      PROVE  [a \in Accounts |-> PaperShare(a, s)'] = [a \in Accounts |-> PaperShare(a, s)]
  BY <1>2
<1> QED
  BY <1>1, <1>3

LEMMA StillBooked ==
  ASSUME TypeOK, Keyed, PositionsFollowOrders, BooksAgree, \A c \in Calls : Stays(c),
         positions' = positions, paper' = paper, trials' = trials
  PROVE  PositionsFollowOrders' /\ BooksAgree'
<1>1. \A s \in Symbols : Trialled(s)' = Trialled(s)
  BY DEF Trialled
<1> QED
  BY <1>1, SharesStay DEF BooksAgree

\* Call c has no order, or an order without a fill.
Empty(c) == ~HasOrder(c) \/ orders[c].filled = 0

LEMMA EmptyShares ==
  ASSUME TypeOK, Keyed, NEW c \in Calls, Empty(c), NEW a, NEW s
  PROVE  /\ FreeShare(c, a, s) = 0 /\ StuckShare(c, a, s) = 0
         /\ OtherShare(c, a, s) = 0
<1>1. HasOrder(c) => req[c].side \in Sides /\ orders[c].filled = 0
  BY DEF Keyed, Request, Empty
<1>2. HasOrder(c) => Sign(req[c].side) * orders[c].filled = 0
  BY <1>1, SignedQty
<1> QED
  BY <1>2 DEF FreeShare, StuckShare, OtherShare, Share

LEMMA EmptySharesNext ==
  ASSUME TypeOK', Keyed', NEW c \in Calls, Empty(c)', NEW a, NEW s
  PROVE  /\ FreeShare(c, a, s)' = 0 /\ StuckShare(c, a, s)' = 0
         /\ OtherShare(c, a, s)' = 0
<1>1. HasOrder(c)' => req'[c].side \in Sides /\ orders'[c].filled = 0
  BY DEF Keyed, Request, Empty
<1>2. HasOrder(c)' => Sign(req'[c].side) * orders'[c].filled = 0
  BY <1>1, SignedQty
<1> QED
  BY <1>2 DEF FreeShare, StuckShare, OtherShare, Share

\* Call c keeps its order's fill, and is stuck only if it was.
Keeps(c) ==
  /\ HasOrder(c)' = HasOrder(c) /\ orders'[c].filled = orders[c].filled
  /\ req'[c] = req[c] /\ (pc'[c] = "blocked") = (pc[c] = "blocked")

LEMMA EmptyStays ==
  ASSUME TypeOK, Keyed, TypeOK', Keyed', NEW c \in Calls,
         Keeps(c) \/ (Empty(c) /\ Empty(c)')
  PROVE  Stays(c)
<1>1. CASE Keeps(c)
  BY <1>1 DEF Keeps, Stays, FreeShare, StuckShare, OtherShare, Share, Stuck, Elsewhere,
                 Slot, HasOrder
<1>2. CASE Empty(c) /\ Empty(c)'
  BY <1>2, EmptyShares, EmptySharesNext DEF Stays
<1> QED
  BY <1>1, <1>2

\* A step that moves neither a fill nor a position.
Quiet ==
  /\ positions' = positions /\ paper' = paper /\ trials' = trials
  /\ \A c \in Calls : /\ Keeps(c) \/ (Empty(c) /\ Empty(c)')
                      /\ pc'[c] = "placing" => orders'[c].filled = 0

LEMMA QuietStep ==
  ASSUME TypeOK, Keyed, TypeOK', Keyed', Booked, Quiet
  PROVE  Booked'
<1> USE DEF Quiet
<1>1. \A c \in Calls : Stays(c)
  BY EmptyStays
<1>2. PositionsFollowOrders' /\ BooksAgree'
  BY <1>1, StillBooked DEF Booked
<1>3. PaperWellFormed'
  BY DEF Booked, PaperWellFormed
<1> QED
  BY <1>2, <1>3 DEF Booked, Unfilled

(* An order filled at once, by the paper broker or by another adapter.  The  *)
(* paper broker's book moves by its own fill, whether booked or stuck; the    *)
(* fill of another adapter is in the service's book and in OtherShare.       *)
LEMMA FillBooked ==
  ASSUME TypeOK, Keyed, TypeOK', Keyed', Booked,
         NEW c \in Calls, NEW r \in Requests, Admit(c, r), trials' = trials,
         Answered(c, r, Reported("FILLED", r.qty)),
         positions' = IF QueueFull(r.broker) THEN positions
                      ELSE [positions EXCEPT ![Slot(r)] = ApplyFill(@, r.side, r.qty)],
         Kind[r.broker] = "instant" => ~QueueFull(r.broker) /\ paper' = paper,
         Kind[r.broker] # "instant" =>
           paper'.pos = [paper.pos EXCEPT ![UpperOf[r.sym]] = PaperFill(@, r.side, r.qty)]
  PROVE  Booked'
<1> DEFINE ra == r.acct  rs == UpperOf[r.sym]  moved == Sign(r.side) * r.qty
           full == QueueFull(r.broker)  other == Kind[r.broker] = "instant"
           atPaper == IF other THEN 0 ELSE moved
<1>1. /\ ra \in Accounts /\ rs \in Symbols /\ Slot(r) = <<ra, rs>>
      /\ r.side \in Sides /\ r.qty \in Nat \ {0}
  BY DEF Request, Slot
<1>2. moved \in Int /\ atPaper \in Int
  BY <1>1, SignedQty
<1>3. /\ pc[c] = "idle" /\ ~HasOrder(c) /\ req'[c] = r
      /\ \A d \in Calls \ {c} : req'[d] = req[d]
  BY DEF Admit, Keyed, TypeOK
<1>4. /\ orders' = [orders EXCEPT ![c] = Reported("FILLED", r.qty)]
      /\ pc' = [pc EXCEPT ![c] = IF full THEN "blocked" ELSE "done"]
      /\ positions' = IF full THEN positions
                      ELSE [positions EXCEPT ![<<ra, rs>>] = ApplyFill(@, r.side, r.qty)]
      /\ paper'.pos = IF other THEN paper.pos
                      ELSE [paper.pos EXCEPT ![rs] = PaperFill(@, r.side, r.qty)]
  BY <1>1 DEF Answered
<1>5. \A d \in Calls \ {c} : Stays(d)
  <2> SUFFICES ASSUME NEW d \in Calls \ {c} PROVE Keeps(d)
    BY EmptyStays
  <2>1. orders'[d] = orders[d] /\ pc'[d] = pc[d] /\ req'[d] = req[d]
    BY <1>3, <1>4 DEF TypeOK
  <2> QED
    BY <2>1 DEF Keeps, HasOrder
<1>6. \A a \in Accounts, s \in Symbols :
        /\ FreeShare(c, a, s) = 0 /\ StuckShare(c, a, s) = 0 /\ OtherShare(c, a, s) = 0
        /\ FreeShare(c, a, s)' = IF ~full /\ a = ra /\ s = rs THEN moved ELSE 0
        /\ StuckShare(c, a, s)' = IF full /\ a = ra /\ s = rs THEN moved ELSE 0
        /\ OtherShare(c, a, s)' = IF other /\ a = ra /\ s = rs THEN moved ELSE 0
  <2>1. /\ HasOrder(c)' /\ orders'[c].filled = r.qty /\ Slot(req'[c]) = <<ra, rs>>
        /\ pc'[c] = "blocked" <=> full
    <3>1. orders'[c] = Reported("FILLED", r.qty)
      BY <1>4 DEF TypeOK
    <3>2. pc'[c] = IF full THEN "blocked" ELSE "done"
      BY <1>4 DEF TypeOK
    <3>3. HasOrder(c)' /\ orders'[c].filled = r.qty
      BY <3>1 DEF HasOrder, Reported
    <3>4. Slot(req'[c]) = <<ra, rs>>
      BY <1>1, <1>3
    <3>5. pc'[c] = "blocked" <=> full
      BY <3>2
    <3> QED
      BY <3>3, <3>4, <3>5
  <2> QED
    <3>1. c \in Elsewhere' <=> other
      BY <1>3, <2>1 DEF Elsewhere, HasOrder
    <3> QED
      BY <1>3, <2>1, <3>1 DEF FreeShare, StuckShare, OtherShare, Share, Stuck, Slot
<1>7. \A a \in Accounts, s \in Symbols :
        /\ NetFilled(Calls \ Stuck, a, s)' =
             NetFilled(Calls \ Stuck, a, s) + IF ~full /\ a = ra /\ s = rs THEN moved ELSE 0
        /\ NetFilled(Stuck, a, s)' =
             NetFilled(Stuck, a, s) + IF full /\ a = ra /\ s = rs THEN moved ELSE 0
        /\ NetFilled(Elsewhere, a, s)' =
             NetFilled(Elsewhere, a, s) + IF other /\ a = ra /\ s = rs THEN moved ELSE 0
  <2> SUFFICES ASSUME NEW a \in Accounts, NEW s \in Symbols
               PROVE  /\ NetFilled(Calls \ Stuck, a, s)' =
                           NetFilled(Calls \ Stuck, a, s)
                           + IF ~full /\ a = ra /\ s = rs THEN moved ELSE 0
                      /\ NetFilled(Stuck, a, s)' =
                           NetFilled(Stuck, a, s)
                           + IF full /\ a = ra /\ s = rs THEN moved ELSE 0
                      /\ NetFilled(Elsewhere, a, s)' =
                           NetFilled(Elsewhere, a, s)
                           + IF other /\ a = ra /\ s = rs THEN moved ELSE 0
    OBVIOUS
  <2>1. /\ FreeShare(c, a, s) = 0 /\ StuckShare(c, a, s) = 0 /\ OtherShare(c, a, s) = 0
        /\ FreeShare(c, a, s)' = IF ~full /\ a = ra /\ s = rs THEN moved ELSE 0
        /\ StuckShare(c, a, s)' = IF full /\ a = ra /\ s = rs THEN moved ELSE 0
        /\ OtherShare(c, a, s)' = IF other /\ a = ra /\ s = rs THEN moved ELSE 0
    BY <1>6
  <2>2. /\ NetFilled(Calls \ Stuck, a, s)' = NetFilled(Calls \ Stuck, a, s) + FreeShare(c, a, s)'
        /\ NetFilled(Stuck, a, s)' = NetFilled(Stuck, a, s) + StuckShare(c, a, s)'
        /\ NetFilled(Elsewhere, a, s)' = NetFilled(Elsewhere, a, s) + OtherShare(c, a, s)'
    BY <1>5, <2>1, NetMoves
  <2> HIDE DEF full, moved, other
  <2> QED
    BY <2>1, <2>2
<1>8. \A a \in Accounts, s \in Symbols :
        /\ WellFormed(positions'[<<a, s>>])
        /\ Signed(positions'[<<a, s>>]) =
             Signed(positions[<<a, s>>]) + IF ~full /\ a = ra /\ s = rs THEN moved ELSE 0
  <2> SUFFICES ASSUME NEW a \in Accounts, NEW s \in Symbols
               PROVE  /\ WellFormed(positions'[<<a, s>>])
                      /\ Signed(positions'[<<a, s>>]) =
                           Signed(positions[<<a, s>>])
                           + IF ~full /\ a = ra /\ s = rs THEN moved ELSE 0
    OBVIOUS
  <2>0. positions \in [Accounts \X Symbols -> Position]
    BY DEF TypeOK
  <2> DEFINE p == positions[<<a, s>>]
  <2>1. WellFormed(p) /\ Signed(p) \in Int
    BY SignedTyped DEF Booked, PositionsFollowOrders
  <2>2. CASE ~full /\ a = ra /\ s = rs
    <3>1. positions'[<<a, s>>] = ApplyFill(p, r.side, r.qty)
      BY <1>1, <1>4, <2>0, <2>2
    <3> HIDE DEF p
    <3>2. /\ WellFormed(ApplyFill(p, r.side, r.qty))
          /\ Signed(ApplyFill(p, r.side, r.qty)) = Signed(p) + moved
      BY <1>1, <2>1, FillMoves
    <3> QED
      BY <2>2, <3>1, <3>2 DEF p
  <2>3. CASE ~(~full /\ a = ra /\ s = rs)
    <3>1. positions'[<<a, s>>] = p
      BY <1>1, <1>4, <2>0, <2>3
    <3> HIDE DEF p
    <3> QED
      BY <2>1, <2>3, <3>1 DEF p
  <2> QED
    BY <2>2, <2>3
<1>9. \A s \in Symbols :
        /\ WellFormed(paper'.pos[s])
        /\ Signed(paper'.pos[s]) = Signed(paper.pos[s]) + IF s = rs THEN atPaper ELSE 0
  <2> SUFFICES ASSUME NEW s \in Symbols
               PROVE  /\ WellFormed(paper'.pos[s])
                      /\ Signed(paper'.pos[s]) =
                           Signed(paper.pos[s]) + IF s = rs THEN atPaper ELSE 0
    OBVIOUS
  <2> DEFINE p == paper.pos[s]
  <2>1. WellFormed(p) /\ Signed(p) \in Int
    BY SignedTyped DEF Booked, PaperWellFormed
  <2>2. CASE s = rs /\ ~other
    <3>1. paper'.pos[s] = PaperFill(p, r.side, r.qty)
      BY <1>4, <2>2 DEF TypeOK
    <3> HIDE DEF p
    <3>2. /\ WellFormed(PaperFill(p, r.side, r.qty))
          /\ Signed(PaperFill(p, r.side, r.qty)) = Signed(p) + moved
      BY <1>1, <2>1, FillMoves
    <3> QED
      BY <2>2, <3>1, <3>2 DEF p
  <2>3. CASE s # rs \/ other
    <3>1. paper'.pos[s] = p
      BY <1>4, <2>3 DEF TypeOK
    <3> HIDE DEF p
    <3> QED
      BY <2>1, <2>3, <3>1 DEF p
  <2> QED
    BY <2>2, <2>3
<1>10. PositionsFollowOrders'
  <2> SUFFICES ASSUME NEW a \in Accounts, NEW s \in Symbols
               PROVE  /\ WellFormed(positions'[<<a, s>>])
                      /\ Signed(positions'[<<a, s>>]) = NetFilled(Calls \ Stuck, a, s)'
    BY DEF PositionsFollowOrders
  <2>1. Signed(positions[<<a, s>>]) = NetFilled(Calls \ Stuck, a, s)
    BY DEF Booked, PositionsFollowOrders
  <2>2. NetFilled(Calls \ Stuck, a, s)' =
          NetFilled(Calls \ Stuck, a, s) + IF ~full /\ a = ra /\ s = rs THEN moved ELSE 0
    BY <1>7
  <2>3. /\ WellFormed(positions'[<<a, s>>])
        /\ Signed(positions'[<<a, s>>]) =
             Signed(positions[<<a, s>>]) + IF ~full /\ a = ra /\ s = rs THEN moved ELSE 0
    BY <1>8
  <2> HIDE DEF full, moved
  <2> QED
    BY <2>1, <2>2, <2>3
<1>11. BooksAgree'
  <2> SUFFICES ASSUME NEW s \in Symbols
               PROVE  Signed(paper'.pos[s]) =
                        SumFunction([a \in Accounts |-> PaperShare(a, s)'])
                        + Trialled(s)'
    BY DEF BooksAgree
  <2> DEFINE F == [a \in Accounts |-> PaperShare(a, s)]
             G == [a \in Accounts |-> PaperShare(a, s)']
  <2>1. Signed(paper.pos[s]) = SumFunctionOnSet(F, Accounts) + Trialled(s)
    BY DEF Booked, BooksAgree, SumFunction
  <2>2. \A a \in Accounts : F[a] \in Int
    BY PaperShareTyped DEF Booked
  <2>3. \A a \in Accounts : G[a] = F[a] + IF a = ra /\ s = rs THEN atPaper ELSE 0
    <3> SUFFICES ASSUME NEW a \in Accounts
                 PROVE  PaperShare(a, s)' =
                          PaperShare(a, s) + IF a = ra /\ s = rs THEN atPaper ELSE 0
      OBVIOUS
    <3>1. /\ Signed(positions[<<a, s>>]) \in Int
          /\ NetFilled(Stuck, a, s) \in Int /\ NetFilled(Elsewhere, a, s) \in Int
      BY SignedTyped, NetTyped DEF Booked, PositionsFollowOrders
    <3>2. /\ Signed(positions'[<<a, s>>]) =
               Signed(positions[<<a, s>>]) + IF ~full /\ a = ra /\ s = rs THEN moved ELSE 0
          /\ NetFilled(Stuck, a, s)' =
               NetFilled(Stuck, a, s) + IF full /\ a = ra /\ s = rs THEN moved ELSE 0
          /\ NetFilled(Elsewhere, a, s)' =
               NetFilled(Elsewhere, a, s) + IF other /\ a = ra /\ s = rs THEN moved ELSE 0
      BY <1>7, <1>8
    <3>3. other => ~full
      OBVIOUS
    <3>4. /\ PaperShare(a, s) = Signed(positions[<<a, s>>]) + NetFilled(Stuck, a, s)
                                - NetFilled(Elsewhere, a, s)
          /\ PaperShare(a, s)' = Signed(positions'[<<a, s>>]) + NetFilled(Stuck, a, s)'
                                 - NetFilled(Elsewhere, a, s)'
      BY DEF PaperShare
    <3>5. atPaper = IF other THEN 0 ELSE moved
      OBVIOUS
    <3> HIDE DEF moved, full, other, atPaper
    <3> QED
      BY <1>2, <3>1, <3>2, <3>3, <3>4, <3>5
  <2>4. SumFunction(G) = SumFunctionOnSet(G, Accounts)
    BY DEF SumFunction
  <2>5. SumFunctionOnSet(G, Accounts) =
          SumFunctionOnSet(F, Accounts) + IF s = rs THEN atPaper ELSE 0
    <3> HIDE DEF F, G, atPaper
    <3>1. SumFunctionOnSet(F, Accounts) \in Int
      BY <2>2, SumUnfolds
    <3>2. CASE s # rs
      <4>1. \A a \in Accounts : F[a] \in Int /\ G[a] = F[a]
        BY <2>2, <2>3, <3>2
      <4>2. SumFunctionOnSet(G, Accounts) = SumFunctionOnSet(F, Accounts)
        BY <4>1, SumAgrees
      <4> QED
        BY <3>1, <3>2, <4>2
    <3>3. CASE s = rs
      <4>1. /\ \A a \in Accounts : F[a] \in Int /\ G[a] \in Int
            /\ \A a \in Accounts \ {ra} : G[a] = F[a]
        BY <1>2, <2>2, <2>3
      <4>2. SumFunctionOnSet(G, Accounts) = SumFunctionOnSet(F, Accounts) - F[ra] + G[ra]
        BY <1>1, <4>1, SumChanges
      <4>3. G[ra] = F[ra] + atPaper /\ F[ra] \in Int
        BY <1>1, <2>2, <2>3, <3>3
      <4> QED
        BY <1>2, <3>1, <3>3, <4>2, <4>3
    <3> QED
      BY <3>2, <3>3
  <2>6. Signed(paper'.pos[s]) = Signed(paper.pos[s]) + IF s = rs THEN atPaper ELSE 0
    BY <1>9
  <2>7. Trialled(s)' = Trialled(s) /\ Trialled(s) \in Int
    BY DEF Trialled, TypeOK
  <2>8. SumFunctionOnSet(F, Accounts) \in Int
    <3> HIDE DEF F
    <3> QED
      BY <2>2, SumUnfolds
  <2>9. SumFunctionOnSet(G, Accounts) = SumFunction([a \in Accounts |-> PaperShare(a, s)'])
    BY <2>4
  <2> HIDE DEF F, G, atPaper
  <2> QED
    BY <1>2, <2>1, <2>5, <2>6, <2>7, <2>8, <2>9
<1>12. Unfilled'
  BY <1>4 DEF Booked, Unfilled, TypeOK
<1> QED
  BY <1>9, <1>10, <1>11, <1>12 DEF Booked, PaperWellFormed

LEMMA PaperFillBooked ==
  ASSUME TypeOK, Keyed, TypeOK', Keyed', Booked,
         NEW c \in Calls, NEW r \in Requests, SubmitPaperFill(c, r)
  PROVE  Booked'
BY FillBooked DEF SubmitPaperFill, Admit

LEMMA InstantFillBooked ==
  ASSUME TypeOK, Keyed, TypeOK', Keyed', Booked,
         NEW c \in Calls, NEW r \in Requests, SubmitInstantFill(c, r), ~QueueFull(r.broker)
  PROVE  Booked'
BY FillBooked DEF SubmitInstantFill, Admit

(* The audit's trial order moves the paper broker's book alone.              *)
LEMMA TrialBooked ==
  ASSUME Linked, Linked', Booked, NEW b \in Audited, TrialOnPaper(b), PaperPrice <= paper.cash
  PROVE  Booked'
<1> USE DEF Linked
<1>1. /\ UNCHANGED <<positions, orders, pc, req>>
      /\ paper'.pos = [paper.pos EXCEPT ![TrialSymbol] = PaperFill(@, "BUY", 1)]
      /\ trials' = trials + 1
  BY DEF TrialOnPaper, serviceVars
<1>2. \A c \in Calls : Stays(c)
  BY <1>1, EmptyStays DEF Keeps, HasOrder
<1>3. /\ PositionsFollowOrders'
      /\ \A s \in Symbols : SumFunction([a \in Accounts |-> PaperShare(a, s)])'
                           = SumFunction([a \in Accounts |-> PaperShare(a, s)])
  BY <1>1, <1>2, SharesStay DEF Booked
<1>4. ASSUME NEW s \in Symbols
      PROVE  /\ WellFormed(paper'.pos[s])
             /\ Signed(paper'.pos[s]) =
                  Signed(paper.pos[s]) + IF s = TrialSymbol THEN 1 ELSE 0
  <2>1. WellFormed(paper.pos[s]) /\ Signed(paper.pos[s]) \in Int
    BY SignedTyped DEF Booked, PaperWellFormed
  <2>2. CASE s = TrialSymbol
    <3>1. paper'.pos[s] = PaperFill(paper.pos[s], "BUY", 1)
      BY <1>1, <2>2 DEF TypeOK
    <3>2. "BUY" \in Sides /\ Sign("BUY") * 1 = 1 /\ 1 \in Nat \ {0}
      BY DEF Sides, Sign
    <3> QED
      BY <2>1, <2>2, <3>1, <3>2, FillMoves
  <2>3. CASE s # TrialSymbol
    <3>1. paper'.pos[s] = paper.pos[s]
      BY <1>1, <2>3 DEF TypeOK
    <3> QED
      BY <2>1, <2>3, <3>1
  <2> QED
    BY <2>2, <2>3
<1>5. BooksAgree'
  <2> SUFFICES ASSUME NEW s \in Symbols
               PROVE  Signed(paper'.pos[s]) =
                        SumFunction([a \in Accounts |-> PaperShare(a, s)])' + Trialled(s)'
    BY DEF BooksAgree
  <2> DEFINE sum == SumFunction([a \in Accounts |-> PaperShare(a, s)])
  <2>1. Signed(paper.pos[s]) = sum + Trialled(s) /\ sum' = sum
    BY <1>3 DEF Booked, BooksAgree
  <2>2. /\ Trialled(s)' = Trialled(s) + IF s = TrialSymbol THEN 1 ELSE 0
        /\ Trialled(s) \in Int
    BY <1>1 DEF Trialled, TypeOK
  <2>3. sum \in Int
    <3> DEFINE F == [a \in Accounts |-> PaperShare(a, s)]
    <3>1. \A a \in Accounts : F[a] \in Int
      BY PaperShareTyped DEF Booked
    <3>2. sum = SumFunctionOnSet(F, Accounts)
      BY DEF SumFunction
    <3> HIDE DEF F, sum
    <3> QED
      BY <3>1, <3>2, SumUnfolds
  <2> HIDE DEF sum
  <2> QED
    BY <1>4, <2>1, <2>2, <2>3 DEF sum
<1> QED
  BY <1>1, <1>3, <1>4, <1>5 DEF Booked, Unfilled, PaperWellFormed

LEMMA SubmitBooked ==
  ASSUME Linked, Linked', Booked, NEW c \in Calls, NEW r \in Requests, Submit(c, r),
         ~SubmitPaperFill(c, r), ~(SubmitInstantFill(c, r) /\ ~QueueFull(r.broker))
  PROVE  Quiet
<1> USE DEF Linked, TypeOK, riskVars, brokerVars, history
<1>1. pc[c] = "idle" /\ Empty(c)
  BY DEF Submit, SubmitDuplicate, SubmitRefused, SubmitHttp, SubmitSandbox,
         SubmitPaperReject, SubmitInstantFill, SubmitInstantFails, Admit, Keyed, Empty
<1>2. /\ positions' = positions /\ paper' = paper /\ trials' = trials
      /\ \A d \in Calls \ {c} : orders'[d] = orders[d] /\ pc'[d] = pc[d] /\ req'[d] = req[d]
      /\ orders'[c] = orders[c] \/ orders'[c].filled = 0
  <2>1. CASE SubmitDuplicate(c, r)
    BY <2>1 DEF SubmitDuplicate
  <2>2. CASE SubmitRefused(c, r)
    BY <2>2 DEF SubmitRefused
  <2>3. CASE SubmitHttp(c, r)
    BY <2>3 DEF SubmitHttp, Admit, NewOrder
  <2>4. CASE SubmitSandbox(c, r)
    BY <2>4 DEF SubmitSandbox, Answered, Admit, NewOrder, Reported
  <2>5. CASE SubmitPaperReject(c, r)
    BY <2>5 DEF SubmitPaperReject, Answered, Admit, NewOrder, Reported
  <2>6. CASE SubmitInstantFill(c, r) /\ QueueFull(r.broker)
    BY <2>6 DEF SubmitInstantFill, Answered, Admit, NewOrder
  <2>7. CASE SubmitInstantFails(c, r)
    BY <2>7 DEF SubmitInstantFails, Admit, NewOrder
  <2> QED
    BY <2>1, <2>2, <2>3, <2>4, <2>5, <2>6, <2>7 DEF Submit
<1>3. pc'[c] = "placing" => orders'[c].filled = 0
  BY DEF Submit, SubmitDuplicate, SubmitRefused, SubmitHttp, SubmitSandbox, NewOrder,
         SubmitPaperReject, SubmitInstantFill, SubmitInstantFails, Admit, Answered
<1>4. Empty(c)'
  BY <1>1, <1>2 DEF Empty, HasOrder
<1>5. \A d \in Calls \ {c} : Keeps(d)
  BY <1>2 DEF Keeps, HasOrder
<1>6. \A d \in Calls \ {c} : pc'[d] = "placing" => orders'[d].filled = 0
  BY <1>2 DEF Booked, Unfilled
<1> QED
  BY <1>1, <1>2, <1>3, <1>4, <1>5, <1>6 DEF Quiet

\* A step that leaves the calls alone, and the orders but for their status.
LEMMA StatusOnly ==
  ASSUME Linked, Linked', Booked,
         positions' = positions, paper' = paper, trials' = trials, pc' = pc, req' = req,
         \A c \in Calls : \/ orders'[c] = orders[c]
                          \/ /\ orders'[c].filled = orders[c].filled
                             /\ HasOrder(c) /\ HasOrder(c)'
  PROVE  Quiet
BY DEF Quiet, Keeps, HasOrder, Booked, Unfilled

LEMMA BrokerBooked ==
  ASSUME Linked, Linked', Booked, NEW c \in Calls,
         Exchange(c) \/ PlaceReplies(c) \/ PlaceFails(c)
  PROVE  Quiet
<1> USE DEF Linked, TypeOK, riskVars, brokerVars, serviceVars, history
<1>1. CASE Exchange(c)
  BY <1>1, StatusOnly DEF Exchange, ExchangeAccepts, ExchangeRefuses, ExchangeFills
<1>2. CASE PlaceReplies(c) \/ PlaceFails(c)
  <2>1. orders[c].filled = 0
    BY <1>2 DEF PlaceReplies, PlaceFails, Booked, Unfilled
  <2>2. /\ positions' = positions /\ paper' = paper /\ trials' = trials
        /\ \A d \in Calls \ {c} : orders'[d] = orders[d] /\ pc'[d] = pc[d] /\ req'[d] = req[d]
        /\ orders'[c].filled = 0
    <3>1. CASE PlaceReplies(c)
      BY <2>1, <3>1 DEF PlaceReplies, Answered, Reported
    <3>2. CASE PlaceFails(c)
      BY <2>1, <3>2 DEF PlaceFails, Order
    <3> QED
      BY <1>2, <3>1, <3>2
  <2>3. Empty(c) /\ Empty(c)'
    BY <2>1, <2>2 DEF Empty
  <2>4. \A d \in Calls \ {c} : Keeps(d)
    BY <2>2 DEF Keeps, HasOrder
  <2>5. \A d \in Calls \ {c} : pc'[d] = "placing" => orders'[d].filled = 0
    BY <2>2 DEF Booked, Unfilled
  <2> QED
    BY <2>2, <2>3, <2>4, <2>5 DEF Quiet
<1> QED
  BY <1>1, <1>2

LEMMA CancelBooked ==
  ASSUME Linked, Linked', Booked, NEW k \in Cancels, Cancel(k)
  PROVE  Quiet
<1> USE DEF Linked, TypeOK, riskVars, brokerVars, serviceVars, history
<1>1. ASSUME NEW c \in Calls, CancelNow(k, c)
      PROVE  Quiet
  <2>1. \A d \in Calls : \/ orders'[d] = orders[d]
                         \/ /\ orders'[d].filled = orders[d].filled
                            /\ HasOrder(d) /\ HasOrder(d)'
    BY <1>1 DEF CancelNow, IsOpen, HasOrder, Order
  <2> QED
    BY <1>1, <2>1, StatusOnly DEF CancelNow
<1>2. ASSUME NEW c \in Calls, CancelHttp(k, c)
      PROVE  Quiet
  BY <1>2, StatusOnly DEF CancelHttp
<1>3. CASE ExchangeCancels(k)
  BY <1>3, StatusOnly DEF ExchangeCancels
<1>4. CASE CancelReturns(k)
  <2>1. \A d \in Calls : \/ orders'[d] = orders[d]
                         \/ /\ orders'[d].filled = orders[d].filled
                            /\ HasOrder(d) /\ HasOrder(d)'
    BY <1>4 DEF CancelReturns, Deletions, HasOrder, Order
  <2> QED
    BY <1>4, <2>1, StatusOnly DEF CancelReturns
<1> QED
  BY <1>1, <1>2, <1>3, <1>4 DEF Cancel

LEMMA OperateBooked ==
  ASSUME Linked, Linked', Booked, Operate
  PROVE  Quiet
<1> USE DEF Linked, TypeOK, riskVars, brokerVars, serviceVars, history
<1>1. ASSUME NEW scope \in KillScopes, ActivateKillSwitch(scope)
      PROVE  Quiet
  <2>1. \A d \in Calls : \/ orders'[d] = orders[d]
                         \/ /\ orders'[d].filled = orders[d].filled
                            /\ HasOrder(d) /\ HasOrder(d)'
    BY <1>1 DEF ActivateKillSwitch, SweptByHalt, IsOpen, HasOrder, Order
  <2> QED
    BY <1>1, <2>1, StatusOnly DEF ActivateKillSwitch
<1>2. CASE DeactivateKillSwitch \/ PageLoads
  BY <1>2, StatusOnly DEF DeactivateKillSwitch, PageLoads
<1>3. ASSUME NEW l \in Configs, UpdateConfig(l)
      PROVE  Quiet
  BY <1>3, StatusOnly DEF UpdateConfig
<1> QED
  BY <1>1, <1>2, <1>3 DEF Operate

LEMMA EnvironmentBooked ==
  ASSUME Linked, Linked', Booked, Environment \/ UNCHANGED vars
  PROVE  Quiet
<1> USE DEF vars, riskVars, brokerVars, serviceVars, history
<1>1. /\ positions' = positions /\ paper' = paper /\ trials' = trials
      /\ pc' = pc /\ req' = req /\ orders' = orders
  BY DEF Environment, DryRun, WindowSlides, TickArrives, TickAges
<1> QED
  BY <1>1, StatusOnly

LEMMA SessionsBooked ==
  ASSUME Linked, Linked', Booked, Sessions
  PROVE  Booked' \/ Quiet
<1>1. UNCHANGED serviceVars
  BY SessionsSteps
<1>2. CASE \E b \in Audited : TrialOnPaper(b) /\ PaperPrice <= paper.cash
  BY <1>2, TrialBooked
<1>3. CASE paper' = paper /\ trials' = trials
  BY <1>1, <1>3, StatusOnly DEF serviceVars
<1> QED
  BY <1>2, <1>3 DEF Sessions, Connect, Disconnect, Trial, TrialOnPaper, TrialOnZerodha,
                    TrialElsewhere, history

LEMMA StepBooked == Linked /\ Linked' /\ Booked /\ [Next]_vars => Booked'
<1> SUFFICES ASSUME Linked, Linked', Booked, [Next]_vars PROVE Booked'
  OBVIOUS
<1>1. TypeOK /\ Keyed /\ TypeOK' /\ Keyed'
  BY DEF Linked
<1>2. ASSUME NEW c \in Calls, NEW r \in Requests,
             SubmitPaperFill(c, r) \/ (SubmitInstantFill(c, r) /\ ~QueueFull(r.broker))
      PROVE  Booked'
  BY <1>1, <1>2, PaperFillBooked, InstantFillBooked
<1>3. CASE Quiet
  BY <1>1, <1>3, QuietStep
<1> QED
  BY <1>2, <1>3, SubmitBooked, BrokerBooked, CancelBooked, SessionsBooked, OperateBooked,
     EnvironmentBooked DEF Next

LEMMA InitBooked == Init => Booked
<1> SUFFICES ASSUME Init PROVE Booked
  OBVIOUS
<1>1. TypeOK /\ Keyed
  BY InitTyped, InitLinked
<1>2. \A c \in Calls : Empty(c)
  BY DEF Init, Empty, HasOrder, NoOrder
<1>3. WellFormed(NoPosition) /\ Signed(NoPosition) = 0
  BY DEF WellFormed, NoPosition, Position, PositionSides, Signed
<1>4. ASSUME NEW a, NEW s
      PROVE  /\ NetFilled(Calls \ Stuck, a, s) = 0 /\ NetFilled(Stuck, a, s) = 0
             /\ NetFilled(Elsewhere, a, s) = 0
  <2> DEFINE F == [d \in Calls |-> FreeShare(d, a, s)]
             G == [d \in Calls |-> StuckShare(d, a, s)]
             H == [d \in Calls |-> OtherShare(d, a, s)]
  <2>1. \A c \in Calls : F[c] = 0 /\ G[c] = 0 /\ H[c] = 0
    BY <1>1, <1>2, EmptyShares
  <2>2. /\ NetFilled(Calls \ Stuck, a, s) = SumFunctionOnSet(F, Calls)
        /\ NetFilled(Stuck, a, s) = SumFunctionOnSet(G, Calls)
        /\ NetFilled(Elsewhere, a, s) = SumFunctionOnSet(H, Calls)
    BY DEF NetFilled, FreeShare, StuckShare, OtherShare, Share, SumFunction
  <2> HIDE DEF F, G, H
  <2> QED
    BY <2>1, <2>2, SumZero
<1>5. PositionsFollowOrders
  BY <1>3, <1>4 DEF Init, PositionsFollowOrders
<1>6. BooksAgree
  <2> SUFFICES ASSUME NEW s \in Symbols
               PROVE  Signed(paper.pos[s]) =
                        SumFunction([a \in Accounts |-> PaperShare(a, s)]) + Trialled(s)
    BY DEF BooksAgree
  <2> DEFINE F == [a \in Accounts |-> PaperShare(a, s)]
  <2>1. \A a \in Accounts : F[a] = 0
    BY <1>3, <1>4 DEF Init, PaperShare
  <2>2. SumFunction(F) = SumFunctionOnSet(F, Accounts)
    BY DEF SumFunction
  <2>3. Signed(paper.pos[s]) = 0 /\ Trialled(s) = 0
    BY <1>3 DEF Init, Trialled
  <2> HIDE DEF F
  <2>4. SumFunctionOnSet(F, Accounts) = 0
    BY <2>1, SumZero
  <2> QED
    BY <2>2, <2>3, <2>4 DEF F
<1>7. Unfilled /\ PaperWellFormed
  BY <1>3 DEF Init, Unfilled, PaperWellFormed
<1> QED
  BY <1>5, <1>6, <1>7 DEF Booked

LEMMA AlwaysBooked == Spec => []Booked
BY InitBooked, StepBooked, AlwaysLinked, PTL DEF Spec

(* The position book follows the orders in every instance. *)
THEOREM PositionsAddUp == Spec => []PositionsFollowOrders
BY AlwaysBooked, PTL DEF Booked

(* The paper broker's book and the service's positions agree in every        *)
(* instance, once the audits' trial orders, the fills at other adapters and  *)
(* those of calls stuck on a full queue are accounted for.                   *)
THEOREM TwoBooksAgree == Spec => []BooksAgree
BY AlwaysBooked, PTL DEF Booked

-----------------------------------------------------------------------------
(* The order path implements OrderGateway: safety of the refinement.         *)

\* The refinement mapping, as OrderManagement gives it to Gateway.
Sent    == [k \in Accounts \X Keys |-> {c \in Calls : HasOrder(c) /\ KeyOf(req[c]) = k}]
Waiting == {c \in Calls : pc[c] = "placing"}
Full    == \E b \in Brokers : QueueFull(b)
Halted  == ks.active /\ ks.level = "GLOBAL"

LEMMA InitMaps == Init => Gateway!Init
<1> SUFFICES ASSUME Init PROVE Gateway!Init
  OBVIOUS
<1>1. Sent = [k \in Accounts \X Keys |-> {}]
  BY DEF Init, Sent, HasOrder, NoOrder
<1>2. Waiting = {}
  BY DEF Init, Waiting
<1>3. Halted = FALSE
  BY DEF Init, Halted, SwitchOff
<1>4. Stuck = {}
  BY DEF Init, Stuck
<1>5. Full \in BOOLEAN
  BY DEF Full
<1> QED
  BY <1>1, <1>2, <1>3, <1>4, <1>5 DEF Gateway!Init, Sent, Waiting, Full, Halted

\* Nothing is ever taken off a queue, so one that is full stays full.
LEMMA FullStays ==
  ASSUME Linked, [Next]_vars
  PROVE  Full => Full'
<1> USE DEF Linked, TypeOK
<1>1. ASSUME NEW b, Emit(b) \/ updates' = updates, NEW e \in Brokers, QueueFull(e)
      PROVE  QueueFull(e)'
  <2>1. CASE updates' = updates
    BY <1>1, <2>1 DEF QueueFull
  <2>2. CASE Emit(b) /\ e = b
    BY <1>1, <2>2 DEF Emit, QueueFull
  <2>3. CASE Emit(b) /\ e # b
    <3>1. updates'[e] = updates[e]
      BY <2>3 DEF Emit
    <3> QED
      BY <1>1, <3>1 DEF QueueFull
  <2> QED
    BY <1>1, <2>1, <2>2, <2>3
<1>2. \E b : Emit(b) \/ updates' = updates
  <2>1. ASSUME NEW c \in Calls, NEW r \in Requests, Submit(c, r)
        PROVE  Emit(r.broker) \/ updates' = updates
    BY <2>1 DEF Submit, SubmitDuplicate, SubmitRefused, SubmitHttp, SubmitSandbox,
                SubmitPaperFill, SubmitPaperReject, SubmitInstantFill, SubmitInstantFails,
                Answered, brokerVars
  <2>2. ASSUME NEW c \in Calls, Exchange(c) \/ PlaceReplies(c) \/ PlaceFails(c)
        PROVE  Emit(req[c].broker) \/ updates' = updates
    BY <2>2 DEF Exchange, ExchangeAccepts, ExchangeRefuses, ExchangeFills, PlaceReplies,
                PlaceFails, Answered, brokerVars
  <2>3. ASSUME NEW k \in Cancels, Cancel(k)
        PROVE  updates' = updates
    BY <2>3 DEF Cancel, CancelNow, CancelHttp, ExchangeCancels, CancelReturns, brokerVars
  <2>4. ASSUME Sessions
        PROVE  \E b : Emit(b) \/ updates' = updates
    BY <2>4 DEF Sessions, Connect, Disconnect, Trial, TrialOnPaper, TrialOnZerodha, TrialElsewhere
  <2>5. Operate \/ Environment \/ UNCHANGED vars => updates' = updates
    BY DEF Operate, ActivateKillSwitch, DeactivateKillSwitch, PageLoads, UpdateConfig,
           Environment, DryRun, WindowSlides, TickArrives, TickAges, vars, brokerVars
  <2> HIDE DEF Linked, TypeOK
  <2> QED
    BY <2>1, <2>2, <2>3, <2>4, <2>5 DEF Next
<1> HIDE DEF Linked, TypeOK
<1> QED
  BY <1>1, <1>2 DEF Full

\* A full queue is what stops a call.
LEMMA StuckIfFull ==
  ASSUME NEW b \in Brokers, QueueFull(b)
  PROVE  Full
BY DEF Full

\* An admission is the dispatch of its key.
LEMMA AdmitSends ==
  ASSUME Linked, [Next]_vars, NEW c \in Calls, NEW r \in Requests, Submit(c, r), Admit(c, r)
  PROVE  Gateway!Send(KeyOf(r), c)
<1> USE DEF Linked, TypeOK
<1>1. /\ KeyOf(r) \in Accounts \X Keys
      /\ pc[c] = "idle" /\ ~HasOrder(c)
      /\ byKey[KeyOf(r)] = NoCall
      /\ ks' = ks /\ req' = [req EXCEPT ![c] = r] /\ ~Halts(ks, r)
  BY DEF Admit, Unseen, Keyed, Allowed, RiskAllows, KeyOf, Request
<1>2. ~Halted
  BY <1>1 DEF Halts, Halted
<1>3. Sent[KeyOf(r)] = {}
  BY <1>1 DEF Sent, Keyed
<1>4. \A k \in Accounts \X Keys : c \notin Sent[k]
  BY <1>1 DEF Sent
<1>5. HasOrder(c)'
  BY DEF Submit, SubmitDuplicate, SubmitRefused, Admit, SubmitHttp, SubmitSandbox,
         SubmitPaperFill, SubmitPaperReject, SubmitInstantFill, SubmitInstantFails, Answered, HasOrder, NewOrder, Reported
<1>6. \A d \in Calls : d # c => orders'[d] = orders[d]
  BY AdmitTouches
<1>7. Sent' = [Sent EXCEPT ![KeyOf(r)] = {c}]
  <2>1. \A d \in Calls, k \in Accounts \X Keys :
          HasOrder(d)' /\ KeyOf(req[d])' = k
            <=> IF d = c THEN k = KeyOf(r) ELSE HasOrder(d) /\ KeyOf(req[d]) = k
    BY <1>1, <1>5, <1>6 DEF HasOrder, KeyOf
  <2>2. \A k \in Accounts \X Keys :
          {d \in Calls : HasOrder(d) /\ KeyOf(req[d]) = k}'
            = IF k = KeyOf(r) THEN {c} ELSE {d \in Calls : HasOrder(d) /\ KeyOf(req[d]) = k}
    BY <1>1, <1>3, <2>1 DEF Sent
  <2>3. KeyOf(r) \in Accounts \X Keys
    BY <1>1
  <2> HIDE DEF Linked, TypeOK
  <2>4. Sent' = [k \in Accounts \X Keys |-> IF k = KeyOf(r) THEN {c} ELSE Sent[k]]
    BY <2>2 DEF Sent
  <2> QED
    BY <2>3, <2>4 DEF Sent
<1>8. \/ Waiting' = Waiting /\ Stuck' = Stuck
      \/ Waiting' = Waiting \cup {c} /\ Stuck' = Stuck
      \/ Full /\ Waiting' = Waiting /\ Stuck' = Stuck \cup {c}
  <2>1. \/ \E p \in {"placing", "done", "raised"} : pc' = [pc EXCEPT ![c] = p]
        \/ QueueFull(r.broker) /\ pc' = [pc EXCEPT ![c] = "blocked"]
    BY DEF Submit, SubmitDuplicate, SubmitRefused, Admit, SubmitHttp, SubmitSandbox,
           SubmitPaperFill, SubmitPaperReject, SubmitInstantFill, SubmitInstantFails, Answered
  <2>2. QueueFull(r.broker) => Full
    BY StuckIfFull DEF Admit
  <2> QED
    BY <1>1, <2>1, <2>2 DEF Waiting, Stuck
<1>9. Halted' = Halted
  BY <1>1 DEF Halted
<1>10. Full' \in {Full, TRUE}
  BY FullStays DEF Full
<1> HIDE DEF Linked, TypeOK
<1> QED
  BY <1>2, <1>3, <1>4, <1>7, <1>8, <1>9, <1>10
     DEF Gateway!Send, Gateway!MayFill, Sent, Waiting, Full, Halted

\* The reply to a call, good or bad, is the answer to its waiting, unless it
\* meets a full queue.
LEMMA ReplyAnswers ==
  ASSUME Linked, [Next]_vars, NEW c \in Calls, PlaceReplies(c) \/ PlaceFails(c)
  PROVE  Gateway!Answer(c) \/ Gateway!Stick(c)
<1> USE DEF Linked, TypeOK
<1>1. pc[c] = "placing" /\ HasOrder(c)
  BY DEF PlaceReplies, PlaceFails, Keyed
<1>2. /\ HasOrder(c)' /\ \A d \in Calls : d # c => orders'[d] = orders[d]
      /\ UNCHANGED <<req, ks>>
  BY <1>1 DEF PlaceReplies, PlaceFails, Answered, HasOrder, Reported, riskVars, Order
<1>3. \/ \E p \in {"done", "raised"} : pc' = [pc EXCEPT ![c] = p]
      \/ /\ QueueFull(req[c].broker) /\ updates' = updates
         /\ pc' = [pc EXCEPT ![c] = "blocked"]
  BY DEF PlaceReplies, PlaceFails, Answered, Emit
<1>4. Sent' = Sent
  <2>1. \A d \in Calls : HasOrder(d)' <=> HasOrder(d)
    BY <1>1, <1>2 DEF HasOrder
  <2>2. \A k \in Accounts \X Keys :
          {d \in Calls : HasOrder(d) /\ KeyOf(req[d]) = k}'
            = {d \in Calls : HasOrder(d) /\ KeyOf(req[d]) = k}
    BY <1>2, <2>1 DEF KeyOf
  <2> QED
    BY <2>2 DEF Sent
<1>5. c \in Waiting /\ Waiting' = Waiting \ {c}
  BY <1>1, <1>3 DEF Waiting
<1>6. Halted' = Halted
  BY <1>2 DEF Halted
<1>7. \/ Stuck' = Stuck
      \/ Stuck' = Stuck \cup {c} /\ QueueFull(req[c].broker) /\ updates' = updates
  BY <1>1, <1>3 DEF Stuck
<1>8. Full' \in {Full, TRUE}
  BY FullStays DEF Full
<1>9. CASE Stuck' = Stuck
  <2> HIDE DEF Linked, TypeOK
  <2> QED
    BY <1>4, <1>5, <1>6, <1>8, <1>9
       DEF Gateway!Answer, Gateway!MayFill, Sent, Waiting, Full, Halted
<1>10. CASE Stuck' = Stuck \cup {c} /\ QueueFull(req[c].broker) /\ updates' = updates
  <2>1. req[c].broker \in Brokers
    BY <1>1 DEF Keyed
  <2>2. Full
    BY <1>10, <2>1, StuckIfFull
  <2>3. Full' = Full
    BY <1>10 DEF Full, QueueFull
  <2> HIDE DEF Linked, TypeOK
  <2> QED
    BY <1>4, <1>5, <1>6, <1>10, <2>2, <2>3 DEF Gateway!Stick, Sent, Waiting, Full, Halted
<1> QED
  BY <1>7, <1>9, <1>10

\* Every other step is a stutter, switches the halt or, an audit's, may fill a
\* queue.
LEMMA OthersSwitch ==
  ASSUME Linked, [Next]_vars,
         ~\E c \in Calls, r \in Requests : Submit(c, r) /\ Admit(c, r),
         ~\E c \in Calls : PlaceReplies(c) \/ PlaceFails(c)
  PROVE  [Gateway!Next]_(Gateway!vars)
<1> USE DEF Linked, TypeOK
<1>1. \/ UNCHANGED <<pc, req>>
      \/ \E c \in Calls, r \in Requests, p \in {"done", "raised"} :
           /\ pc[c] = "idle"
           /\ pc' = [pc EXCEPT ![c] = p]
           /\ req' = [req EXCEPT ![c] = r]
  <2>1. ASSUME NEW c \in Calls, NEW r \in Requests, Submit(c, r)
        PROVE  \E p \in {"done", "raised"} :
                 pc[c] = "idle" /\ pc' = [pc EXCEPT ![c] = p] /\ req' = [req EXCEPT ![c] = r]
    BY <2>1 DEF Submit, SubmitDuplicate, SubmitRefused, SubmitHttp, SubmitSandbox,
                SubmitPaperFill, SubmitPaperReject, SubmitInstantFill, SubmitInstantFails
  <2>2. ASSUME NEW c \in Calls, Exchange(c)
        PROVE  UNCHANGED <<pc, req>>
    BY <2>2 DEF Exchange, ExchangeAccepts, ExchangeRefuses, ExchangeFills, serviceVars
  <2>3. ASSUME NEW k \in Cancels, Cancel(k)
        PROVE  UNCHANGED <<pc, req>>
    BY <2>3 DEF Cancel, CancelNow, CancelHttp, ExchangeCancels, CancelReturns, serviceVars
  <2>4. Sessions \/ Operate \/ Environment \/ UNCHANGED vars => UNCHANGED <<pc, req>>
    BY SessionsSteps DEF Operate, ActivateKillSwitch, DeactivateKillSwitch, PageLoads, UpdateConfig,
           Environment, DryRun, WindowSlides, TickArrives, TickAges, vars, serviceVars
  <2>5. CASE \E c \in Calls, r \in Requests : Submit(c, r)
    BY <2>1, <2>5
  <2>6. CASE ~\E c \in Calls, r \in Requests : Submit(c, r)
    <3> HIDE DEF Linked, TypeOK
    <3> QED
      BY <2>2, <2>3, <2>4, <2>6 DEF Next
  <2> QED
    BY <2>5, <2>6
<1>2. \A c \in Calls : HasOrder(c) => req'[c] = req[c]
  BY <1>1 DEF Keyed
<1>3. \A c \in Calls : HasOrder(c)' <=> HasOrder(c)
  <2>1. ASSUME NEW k \in Cancels, NEW c \in Calls, CancelNow(k, c)
        PROVE  \A d \in Calls : HasOrder(d)' <=> HasOrder(d)
    BY <2>1 DEF CancelNow, IsOpen, HasOrder, Order
  <2>2. ASSUME NEW k \in Cancels, CancelReturns(k)
        PROVE  \A d \in Calls : HasOrder(d)' <=> HasOrder(d)
    BY <2>2 DEF CancelReturns, Deletions, HasOrder, Order
  <2>3. ASSUME NEW scope \in KillScopes, ActivateKillSwitch(scope)
        PROVE  \A d \in Calls : HasOrder(d)' <=> HasOrder(d)
    BY <2>3 DEF ActivateKillSwitch, SweptByHalt, IsOpen, HasOrder, Order
  <2> QED
    BY <2>1, <2>2, <2>3, TouchesOne DEF HasOrder
<1>4. Waiting' = Waiting
  BY <1>1 DEF Waiting
<1>5. Sent' = Sent
  <2>1. \A k \in Accounts \X Keys :
          {d \in Calls : HasOrder(d) /\ KeyOf(req[d]) = k}'
            = {d \in Calls : HasOrder(d) /\ KeyOf(req[d]) = k}
    BY <1>2, <1>3 DEF KeyOf
  <2> QED
    BY <2>1 DEF Sent
<1>6. Stuck' = Stuck
  BY <1>1 DEF Stuck
<1>7. Halted' = Halted \/ Halted' = ~Halted
  BY DEF Halted
<1>8. Full' = Full \/ (Full' = TRUE /\ Halted' = Halted)
  <2>1. ASSUME NEW c \in Calls, NEW r \in Requests, Submit(c, r)
        PROVE  updates' = updates
    BY <2>1 DEF Submit, SubmitDuplicate, SubmitRefused, SubmitHttp, SubmitSandbox, SubmitPaperFill,
                SubmitPaperReject, SubmitInstantFill, SubmitInstantFails, brokerVars
  <2>2. ASSUME NEW c \in Calls, Exchange(c)
        PROVE  updates' = updates
    BY <2>2 DEF Exchange, ExchangeAccepts, ExchangeRefuses, ExchangeFills
  <2>3. ASSUME NEW k \in Cancels, Cancel(k)
        PROVE  updates' = updates
    BY <2>3 DEF Cancel, CancelNow, CancelHttp, ExchangeCancels, CancelReturns, brokerVars
  <2>4. Operate \/ Environment \/ UNCHANGED vars => updates' = updates
    BY DEF Operate, ActivateKillSwitch, DeactivateKillSwitch, PageLoads, UpdateConfig,
           Environment, DryRun, WindowSlides, TickArrives, TickAges, vars, brokerVars
  <2>5. Sessions => Halted' = Halted
    BY SessionsSteps DEF Halted, riskVars
  <2>6. updates' = updates => Full' = Full
    BY DEF Full, QueueFull
  <2>7. Full => Full'
    BY FullStays
  <2> HIDE DEF Linked, TypeOK
  <2>8. updates' = updates \/ Sessions
    BY <2>1, <2>2, <2>3, <2>4 DEF Next
  <2>9. Full \in BOOLEAN /\ Full' \in BOOLEAN
    BY DEF Full
  <2> QED
    BY <2>5, <2>6, <2>7, <2>8, <2>9
<1> HIDE DEF Linked, TypeOK
<1> QED
  BY <1>4, <1>5, <1>6, <1>7, <1>8
     DEF Gateway!Next, Gateway!Fill, Gateway!Switch, Gateway!vars, Sent, Waiting, Full, Halted

LEMMA StepMaps == Linked /\ [Next]_vars => [Gateway!Next]_(Gateway!vars)
<1>1. ASSUME NEW c \in Calls, NEW r \in Requests, Gateway!Send(KeyOf(r), c)
      PROVE  Gateway!Next
  BY <1>1 DEF Gateway!Next, KeyOf, Request
<1>2. ASSUME NEW c \in Calls, Gateway!Answer(c) \/ Gateway!Stick(c)
      PROVE  Gateway!Next
  BY <1>2 DEF Gateway!Next
<1> QED
  BY <1>1, <1>2, AdmitSends, ReplyAnswers, OthersSwitch

(* Whatever brokers, retries, cancels and risk officers do, a client sees a  *)
(* gateway that dispatches a key once, never while trading is halted,        *)
(* answers only those who wait, and loses one for good at a full queue only. *)
THEOREM GatewayImplemented == Spec => ImplementsGateway
BY InitMaps, StepMaps, AlwaysLinked, PTL DEF Spec, ImplementsGateway, Gateway!Spec
=============================================================================
