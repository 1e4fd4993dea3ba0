---------------------------- MODULE Promotion_proofs ----------------------------
(***************************************************************************)
(* Proofs about Promotion: its types, that its gate is only ever bypassed,   *)
(* and that it implements the register of stages.                           *)
(***************************************************************************)
EXTENDS Promotion, TLAPS

(* No paper session ever closes a trade.                                    *)
NoTrades == \A p \in PaperSessions : Started(p) => paper[p].trades = 0

(* The inductive invariant: without trades the gate is never passed.        *)
IInv == TypeOK /\ NoTrades /\ OnlyBypassesApprove

(* What the operations make of a session is a session without trades.       *)
LEMMA TickOfSession ==
  ASSUME NEW session \in Sessions, session.trades = 0
  PROVE  OnTick(session) \in Sessions /\ OnTick(session).trades = 0
         /\ OnTick(session).strategy = session.strategy
<1>1. TradesOn(Dispatched) = 0
  BY DEF TradesOn, Dispatched
<1>2. session.trades + TradesOn(Dispatched) = 0
  BY <1>1
<1>3. CASE session.account = "small"
  <2>1. OnTick(session) = [session EXCEPT !.trades = 0, !.deep = TRUE]
    BY <1>2, <1>3 DEF OnTick
  <2>2. QED
    BY <2>1 DEF Sessions
<1>4. CASE session.account # "small"
  <2>1. OnTick(session) = [session EXCEPT !.trades = 0]
    BY <1>2, <1>4 DEF OnTick, Sessions
  <2>2. QED
    BY <2>1 DEF Sessions
<1>5. QED
  BY <1>3, <1>4

LEMMA DayOfSession ==
  ASSUME NEW session \in Sessions, session.days < MinDays
  PROVE  /\ [session EXCEPT !.days = @ + 1] \in Sessions
         /\ [session EXCEPT !.days = @ + 1].trades = session.trades
         /\ [session EXCEPT !.days = @ + 1].strategy = session.strategy
BY PromotionAssumption DEF Sessions

LEMMA StatusOfSession ==
  ASSUME NEW session \in Sessions, NEW status \in {"PAUSED", "STOPPED"}
  PROVE  /\ [session EXCEPT !.status = status] \in Sessions
         /\ [session EXCEPT !.status = status].trades = session.trades
         /\ [session EXCEPT !.status = status].strategy = session.strategy
BY DEF Sessions

(* The operations on a started session keep it started, of the same          *)
(* strategy, and without trades.                                            *)
SessionsKept ==
  /\ paper' \in [PaperSessions -> Sessions \cup {NoSession}]
  /\ \A p \in PaperSessions :
       /\ Started(p)' <=> Started(p)
       /\ Started(p) => paper'[p].strategy = paper[p].strategy /\ paper'[p].trades = 0

LEMMA StatusKeeps ==
  ASSUME IInv, NEW p \in PaperSessions, NEW status \in {"PAUSED", "STOPPED"},
         SetStatus(p, status)
  PROVE  SessionsKept
<1> DEFINE changed == [paper[p] EXCEPT !.status = status]
<1>1. paper \in [PaperSessions -> Sessions \cup {NoSession}] /\ paper[p] \in Sessions
  BY DEF IInv, TypeOK, SetStatus, Started
<1>2. /\ changed \in Sessions /\ changed.trades = paper[p].trades
      /\ changed.strategy = paper[p].strategy
  BY <1>1, StatusOfSession
<1>3. paper' = [paper EXCEPT ![p] = changed]
  BY <1>1 DEF SetStatus
<1> HIDE DEF changed
<1>4. QED
  BY <1>1, <1>2, <1>3, PromotionAssumption DEF IInv, NoTrades, SessionsKept, Started

LEMMA TickKeeps ==
  ASSUME IInv, NEW sym \in Symbols, ProcessMarketTick(sym)
  PROVE  SessionsKept
<1>1. paper \in [PaperSessions -> Sessions \cup {NoSession}]
  BY DEF IInv, TypeOK
<1>2. ASSUME NEW p \in PaperSessions
      PROVE  \/ ~Started(p) /\ paper'[p] = NoSession
             \/ /\ Started(p) /\ paper'[p] \in Sessions
                /\ paper'[p].strategy = paper[p].strategy /\ paper'[p].trades = 0
  <2>1. paper'[p] = IF Receives(paper[p], sym) THEN OnTick(paper[p]) ELSE paper[p]
    BY DEF ProcessMarketTick
  <2>2. CASE Started(p)
    <3>1. paper[p] \in Sessions /\ paper[p].trades = 0
      BY <2>2, <1>1 DEF Started, IInv, NoTrades
    <3>2. QED
      BY <2>1, <2>2, <3>1, TickOfSession
  <2>3. CASE ~Started(p)
    BY <2>1, <2>3 DEF Started, Receives
  <2>4. QED
    BY <2>2, <2>3
<1>3. DOMAIN paper' = PaperSessions /\ paper' = [p \in PaperSessions |-> paper'[p]]
  BY DEF ProcessMarketTick
<1>4. QED
  BY <1>2, <1>3, PromotionAssumption DEF SessionsKept, Started

LEMMA DayKeeps ==
  ASSUME IInv, DayPasses
  PROVE  SessionsKept
<1>1. paper \in [PaperSessions -> Sessions \cup {NoSession}]
  BY DEF IInv, TypeOK
<1>2. ASSUME NEW p \in PaperSessions
      PROVE  \/ ~Started(p) /\ paper'[p] = NoSession
             \/ /\ Started(p) /\ paper'[p] \in Sessions
                /\ paper'[p].strategy = paper[p].strategy /\ paper'[p].trades = 0
  <2>1. paper'[p] = IF Started(p) /\ paper[p].days < MinDays
                    THEN [paper[p] EXCEPT !.days = @ + 1] ELSE paper[p]
    BY DEF DayPasses
  <2>2. CASE Started(p)
    <3>1. paper[p] \in Sessions /\ paper[p].trades = 0
      BY <2>2, <1>1 DEF Started, IInv, NoTrades
    <3>2. QED
      BY <2>1, <2>2, <3>1, DayOfSession
  <2>3. CASE ~Started(p)
    BY <2>1, <2>3 DEF Started
  <2>4. QED
    BY <2>2, <2>3
<1>3. DOMAIN paper' = PaperSessions /\ paper' = [p \in PaperSessions |-> paper'[p]]
  BY DEF DayPasses
<1>4. QED
  BY <1>2, <1>3, PromotionAssumption DEF SessionsKept, Started

(* Steps that keep the sessions, and the stages' and other types, keep the   *)
(* invariant.                                                               *)
LEMMA KeptIInv ==
  ASSUME IInv, SessionsKept \/ paper' = paper,
         stage' \in [Strategies -> Stages], backtests' \subseteq Results,
         approvals' \subseteq BOOLEAN, FALSE \notin approvals'
  PROVE  IInv'
<1>1. TypeOK'
  BY DEF IInv, TypeOK, SessionsKept
<1>2. NoTrades'
  BY DEF IInv, NoTrades, SessionsKept, Started
<1>3. QED
  BY <1>1, <1>2 DEF IInv, OnlyBypassesApprove

LEMMA InitIInv == Init => IInv
BY DEF Init, IInv, TypeOK, NoTrades, OnlyBypassesApprove, Started, Stages

(* Every step keeps the invariant.  A paper session without trades does not  *)
(* pass the gate, so an approval is a bypass.                               *)
LEMMA NextIInv == IInv /\ [Next]_vars => IInv'
<1> SUFFICES ASSUME IInv, [Next]_vars PROVE IInv'
  OBVIOUS
<1> USE PromotionAssumption
<1>t. /\ stage \in [Strategies -> Stages] /\ backtests \subseteq Results
      /\ paper \in [PaperSessions -> Sessions \cup {NoSession}]
      /\ approvals \subseteq BOOLEAN /\ FALSE \notin approvals
  BY DEF IInv, TypeOK, OnlyBypassesApprove
<1>1. ASSUME NEW s \in Strategies, CreateStrategy(s) PROVE IInv'
  <2>1. stage' \in [Strategies -> Stages]
    BY <1>1, <1>t DEF CreateStrategy, Stages
  <2>2. QED
    BY <1>1, <1>t, <2>1, KeptIInv DEF CreateStrategy
<1>2. ASSUME NEW s \in Strategies, RunBacktest(s) PROVE IInv'
  <2>1. backtests' \subseteq Results
    BY <1>2, <1>t DEF RunBacktest, Results
  <2>2. QED
    BY <1>2, <1>t, <2>1, KeptIInv DEF RunBacktest
<1>3. ASSUME NEW s \in Strategies, GrantLive(s) PROVE IInv'
  <2>1. stage' \in [Strategies -> Stages]
    BY <1>3, <1>t DEF GrantLive, Stages
  <2>2. QED
    BY <1>3, <1>t, <2>1, KeptIInv DEF GrantLive
<1>4. ASSUME NEW s \in Strategies, NEW result \in backtests, PromoteToBacktested(s, result)
      PROVE  IInv'
  <2>1. stage' \in [Strategies -> Stages]
    BY <1>4, <1>t DEF PromoteToBacktested, Stages
  <2>2. QED
    BY <1>4, <1>t, <2>1, KeptIInv DEF PromoteToBacktested
<1>5. ASSUME NEW p \in PaperSessions, NEW s \in Strategies, NEW account \in Accounts,
             NEW symbols \in Watchlists, StartSession(p, s, account, symbols)
      PROVE  IInv'
  <2> DEFINE session == [strategy |-> s, account |-> account, symbols |-> symbols,
                         status |-> "ACTIVE", days |-> 0, trades |-> 0, deep |-> FALSE]
  <2>1. session \in Sessions /\ session.trades = 0
    BY DEF Sessions
  <2> HIDE DEF session
  <2>2. paper' = [paper EXCEPT ![p] = session]
    BY <1>5 DEF StartSession, session
  <2>3. stage' \in [Strategies -> Stages] /\ backtests' = backtests /\ approvals' = approvals
    BY <1>5, <1>t DEF StartSession, Stages
  <2>4. TypeOK'
    BY <1>t, <2>1, <2>2, <2>3 DEF TypeOK
  <2>5. NoTrades'
    BY <1>t, <2>1, <2>2 DEF IInv, NoTrades, Started
  <2>6. QED
    BY <1>t, <2>3, <2>4, <2>5 DEF IInv, OnlyBypassesApprove
<1>6. ASSUME NEW p \in PaperSessions, PauseSession(p) \/ StopSession(p) PROVE IInv'
  <2>1. SessionsKept
    BY <1>6, StatusKeeps DEF PauseSession, StopSession
  <2>2. UNCHANGED <<stage, backtests, approvals>>
    BY <1>6 DEF PauseSession, StopSession, SetStatus
  <2>3. QED
    BY <1>t, <2>1, <2>2, KeptIInv
<1>7. ASSUME NEW p \in PaperSessions, NEW bypass \in BOOLEAN, PromoteToHumanApproval(p, bypass)
      PROVE  IInv'
  <2>1. bypass = TRUE
    <3>1. paper[p] \in Sessions /\ paper[p].trades = 0
      BY <1>7, <1>t DEF PromoteToHumanApproval, IInv, NoTrades, Started
    <3>2. ~GatePassed(paper[p])
      BY <3>1 DEF GatePassed
    <3>3. QED
      BY <1>7, <3>2 DEF PromoteToHumanApproval
  <2>2. stage' \in [Strategies -> Stages]
    BY <1>7, <1>t DEF PromoteToHumanApproval, Stages
  <2>3. approvals' \subseteq BOOLEAN /\ FALSE \notin approvals'
    BY <1>7, <1>t, <2>1 DEF PromoteToHumanApproval
  <2>4. QED
    BY <1>7, <1>t, <2>2, <2>3, KeptIInv DEF PromoteToHumanApproval
<1>8. ASSUME NEW sym \in Symbols, ProcessMarketTick(sym) PROVE IInv'
  BY <1>8, <1>t, TickKeeps, KeptIInv DEF ProcessMarketTick
<1>9. CASE DayPasses
  BY <1>9, <1>t, DayKeeps, KeptIInv DEF DayPasses
<1>10. CASE UNCHANGED vars
  BY <1>10, <1>t, KeptIInv DEF vars
<1>11. QED
  BY <1>1, <1>2, <1>3, <1>4, <1>5, <1>6, <1>7, <1>8, <1>9, <1>10 DEF Next

LEMMA Inductive == Spec => []IInv
BY InitIInv, NextIInv, PTL DEF Spec

(* The services that promote strategies keep their types; two of the seven   *)
(* stages are never assigned.                                               *)
THEOREM TypeCorrect == Spec => []TypeOK
<1>1. IInv => TypeOK
  BY DEF IInv
<1>2. QED
  BY <1>1, Inductive, PTL

(* Whatever the gate asks for, if it asks for one trade it is never passed:  *)
(* every approval is a bypass.                                              *)
THEOREM GateOnlyBypassed == Spec => []OnlyBypassesApprove
<1>1. IInv => OnlyBypassesApprove
  BY DEF IInv
<1>2. QED
  BY <1>1, Inductive, PTL

(* A step that moves no stage leaves the set of paper traded strategies,     *)
(* when the sessions stay those of their strategies.                        *)
LEMMA PaperedKept ==
  ASSUME IInv, SessionsKept \/ paper' = paper,
         \A s \in Strategies : Exists(s)' <=> Exists(s)
  PROVE  Papered' = Papered
<1>1. \A s \in Strategies :
        (\E p \in PaperSessions : Started(p) /\ paper[p].strategy = s)' <=>
        (\E p \in PaperSessions : Started(p) /\ paper[p].strategy = s)
  BY DEF SessionsKept, Started
<1>2. QED
  BY <1>1 DEF Papered

(* Every step of the services is a step of the register or leaves it alone.  *)
LEMMA RegisterStep == IInv /\ [Next]_vars => [Register!StageNext]_(Register!stageVars)
<1> SUFFICES ASSUME IInv, [Next]_vars
             PROVE  Register!StageNext \/ (stage' = stage /\ Papered' = Papered)
  BY DEF Register!stageVars
<1> USE PromotionAssumption
<1>t. /\ stage \in [Strategies -> Stages]
      /\ paper \in [PaperSessions -> Sessions \cup {NoSession}]
  BY DEF IInv, TypeOK
<1>1. ASSUME NEW s \in Strategies, CreateStrategy(s) PROVE Register!StageCreate(s)
  <2>1. Papered' = Papered
    BY <1>1, <1>t DEF CreateStrategy, Papered, Exists, Fresh, Started
  <2>2. QED
    BY <1>1, <2>1 DEF Register!StageCreate, Register!Created, CreateStrategy, Exists
<1>2. ASSUME NEW s \in Strategies, RunBacktest(s) PROVE stage' = stage /\ Papered' = Papered
  BY <1>2, PaperedKept DEF RunBacktest, Exists
<1>3. ASSUME NEW s \in Strategies, GrantLive(s) PROVE Register!StageLive(s)
  <2>1. \A s1 \in Strategies : Exists(s1)' <=> Exists(s1)
    BY <1>3, <1>t DEF GrantLive, Exists
  <2>2. Papered' = Papered
    BY <1>3, <2>1, PaperedKept DEF GrantLive
  <2>3. QED
    BY <1>3, <2>2 DEF Register!StageLive, Register!Moved, GrantLive, Exists
<1>4. ASSUME NEW s \in Strategies, NEW result \in backtests, PromoteToBacktested(s, result)
      PROVE  Register!StageBacktested(s)
  <2>1. \A s1 \in Strategies : Exists(s1)' <=> Exists(s1)
    BY <1>4, <1>t DEF PromoteToBacktested, Exists
  <2>2. Papered' = Papered
    BY <1>4, <2>1, PaperedKept DEF PromoteToBacktested
  <2>3. QED
    BY <1>4, <2>2 DEF Register!StageBacktested, Register!Moved, PromoteToBacktested, Exists
<1>5. ASSUME NEW p \in PaperSessions, NEW s \in Strategies, NEW account \in Accounts,
             NEW symbols \in Watchlists, StartSession(p, s, account, symbols)
      PROVE  Register!StagePaper(s) \/ (stage' = stage /\ Papered' = Papered)
  <2>1. /\ paper[p] = NoSession /\ paper'[p] # NoSession /\ paper'[p].strategy = s
        /\ \A p1 \in PaperSessions \ {p} : paper'[p1] = paper[p1]
    <3> DEFINE session == [strategy |-> s, account |-> account, symbols |-> symbols,
                           status |-> "ACTIVE", days |-> 0, trades |-> 0, deep |-> FALSE]
    <3>1. session \in Sessions /\ session.strategy = s
      BY DEF Sessions
    <3> HIDE DEF session
    <3>2. paper' = [paper EXCEPT ![p] = session]
      BY <1>5 DEF StartSession, session
    <3>3. paper[p] = NoSession
      BY <1>5 DEF StartSession, Started
    <3>4. QED
      BY <1>t, <3>1, <3>2, <3>3
  <2>2. CASE Exists(s)
    <3>1. /\ stage' = [stage EXCEPT ![s] = "PAPER_TRADING"]
          /\ \A s1 \in Strategies : Exists(s1)' <=> Exists(s1)
      BY <1>5, <1>t, <2>2 DEF StartSession, Exists
    <3>2. Papered' = Papered \cup {s}
      BY <2>1, <2>2, <3>1 DEF Papered, Started
    <3>3. QED
      BY <2>2, <3>1, <3>2 DEF Register!StagePaper, Register!Moved, Exists
  <2>3. CASE ~Exists(s)
    <3>1. stage' = stage
      BY <1>5, <2>3 DEF StartSession
    <3>2. Papered' = Papered
      BY <2>1, <2>3, <3>1 DEF Papered, Started, Exists
    <3>3. QED
      BY <3>1, <3>2
  <2>4. QED
    BY <2>2, <2>3
<1>6. ASSUME NEW p \in PaperSessions, PauseSession(p) \/ StopSession(p)
      PROVE  stage' = stage /\ Papered' = Papered
  <2>1. SessionsKept
    BY <1>6, StatusKeeps DEF PauseSession, StopSession
  <2>2. stage' = stage
    BY <1>6 DEF PauseSession, StopSession, SetStatus
  <2>3. QED
    BY <2>1, <2>2, PaperedKept DEF Exists
<1>7. ASSUME NEW p \in PaperSessions, NEW bypass \in BOOLEAN, PromoteToHumanApproval(p, bypass)
      PROVE  Register!StageApproved(paper[p].strategy) /\ paper[p].strategy \in Strategies
  <2> DEFINE s == paper[p].strategy
  <2>1. s \in Strategies
    BY <1>7, <1>t DEF PromoteToHumanApproval, Started, Sessions
  <2>2. s \in Papered
    BY <1>7, <2>1 DEF PromoteToHumanApproval, Papered
  <2>3. \A s1 \in Strategies : Exists(s1)' <=> Exists(s1)
    BY <1>7, <1>t, <2>1 DEF PromoteToHumanApproval, Exists
  <2>4. Papered' = Papered
    BY <1>7, <2>3, PaperedKept DEF PromoteToHumanApproval
  <2>5. QED
    BY <1>7, <2>1, <2>2, <2>4
    DEF Register!StageApproved, Register!Moved, PromoteToHumanApproval, Exists
<1>8. ASSUME NEW sym \in Symbols, ProcessMarketTick(sym)
      PROVE  stage' = stage /\ Papered' = Papered
  BY <1>8, TickKeeps, PaperedKept DEF ProcessMarketTick, Exists
<1>9. ASSUME DayPasses PROVE stage' = stage /\ Papered' = Papered
  BY <1>9, DayKeeps, PaperedKept DEF DayPasses, Exists
<1>10. ASSUME UNCHANGED vars PROVE stage' = stage /\ Papered' = Papered
  BY <1>10, PaperedKept DEF vars, Exists
<1>11. QED
  BY <1>1, <1>2, <1>3, <1>4, <1>5, <1>6, <1>7, <1>8, <1>9, <1>10 DEF Next, Register!StageNext

(* The promotion services implement the register of stages.                 *)
THEOREM RegisterImplemented == Spec => ImplementsRegister
<1>1. Init => Register!StageInit
  BY DEF Init, Register!StageInit, Papered, Exists
<1>2. QED
  BY <1>1, RegisterStep, Inductive, PTL DEF Spec, ImplementsRegister, Register!StageSpec
=============================================================================
