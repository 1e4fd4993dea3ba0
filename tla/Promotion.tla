------------------------------- MODULE Promotion -------------------------------
(***************************************************************************)
(* How a strategy is promoted: it is created as a draft, the backtest        *)
(* service moves it on a profitable backtest, the paper trading service      *)
(* moves it when a session starts and when the session's gate is passed (or  *)
(* bypassed).  No service suspends inside an operation here, so each is one  *)
(* step.                                                                    *)
(*                                                                          *)
(* A backtest is reduced to its verdict.  A paper account is reduced to what *)
(* the gate can tell of it: whether its balance is within the drawdown limit *)
(* of the 100000 every session starts its peak from.                        *)
(***************************************************************************)
EXTENDS Naturals

CONSTANTS
  Strategies,
  PaperSessions,   \* ids of paper sessions
  Symbols,
  MinDays,         \* days the gate asks for, and bound: of the days counted
  MinTrades,       \* closed trades the gate asks for
  NoSession

VARIABLES
  stage,       \* strategy -> promotion_stage, "NONE" until it is created
  backtests,   \* the cached results: whose they are, and the verdict
  paper,       \* the paper trading sessions
  approvals    \* history: the bypass flags that approvals were given with

vars == <<stage, backtests, paper, approvals>>

Stages == {"NONE", "DRAFT", "BACKTEST", "PAPER_TRADING", "HUMAN_APPROVAL", "LIVE_TRADING"}
Results == [strategy : Strategies, good : BOOLEAN]
\* The accounts a session may name: one near or above 100000, one far below it,
\* one that does not exist.
Accounts == {"funded", "small", "missing"}
\* The symbols a session is started for.
Watchlists == (SUBSET Symbols) \ {{}}
Sessions ==
  [strategy : Strategies, account : Accounts, symbols : Watchlists,
   status : {"ACTIVE", "PAUSED", "STOPPED"}, days : 0 .. MinDays,
   trades : Nat, deep : BOOLEAN]

ASSUME PromotionAssumption ==
  /\ MinDays \in Nat /\ MinTrades \in Nat \ {0}
  /\ NoSession \notin Sessions
-----------------------------------------------------------------------------
Exists(s) == stage[s] # "NONE"

Started(p) == paper[p] # NoSession

\* Ids are random: a new strategy's id was never used by anyone.
Fresh(s) ==
  /\ \A b \in backtests : b.strategy # s
  /\ \A p \in PaperSessions : Started(p) => paper[p].strategy # s

\* The most trades a built-in strategy closes when one of its hooks is called:
\* both trade in on_bar and inherit an on_tick that does nothing.
TradesOn(hook) == IF hook = "on_bar" THEN 1 ELSE 0

\* Mutant: the engine feeds its strategies with bars.
DispatchedBar == "on_bar"

\* The hook that the engine calls.
Dispatched == "on_tick"

Receives(session, sym) ==
  /\ session # NoSession
  /\ session.status = "ACTIVE"
  /\ sym \in session.symbols
  /\ session.account # "missing"

\* Dispatch to the strategy, then mark to market: nothing is held, so the
\* value is the account's cash.
OnTick(session) ==
  [session EXCEPT !.trades = @ + TradesOn(Dispatched),
                  !.deep = IF session.account = "small" THEN TRUE ELSE @]

GatePassed(session) ==
  /\ session.days >= MinDays
  /\ session.trades >= MinTrades
  /\ ~session.deep
-----------------------------------------------------------------------------
Init ==
  /\ stage = [s \in Strategies |-> "NONE"]
  /\ backtests = {}
  /\ paper = [p \in PaperSessions |-> NoSession]
  /\ approvals = {}

CreateStrategy(s) ==
  /\ ~Exists(s) /\ Fresh(s)
  /\ stage' = [stage EXCEPT ![s] = "DRAFT"]
  /\ UNCHANGED <<backtests, paper, approvals>>

\* An unknown strategy is backtested too, as a placeholder.
RunBacktest(s) ==
  /\ \E good \in BOOLEAN :
       backtests' = backtests \cup {[strategy |-> s, good |-> good]}
  /\ UNCHANGED <<stage, paper, approvals>>

\* Mutant: the stage after the one that was passed is assigned.
PromoteToWalkForward(s, result) ==
  /\ Exists(s)
  /\ result.good
  /\ stage' = [stage EXCEPT ![s] = "WALK_FORWARD_VALIDATION"]
  /\ UNCHANGED <<backtests, paper, approvals>>

\* The result need not be the strategy's own.
PromoteToBacktested(s, result) ==
  /\ Exists(s)
  /\ result.good
  /\ stage' = [stage EXCEPT ![s] = "BACKTEST"]
  /\ UNCHANGED <<backtests, paper, approvals>>

StartSession(p, s, account, symbols) ==
  /\ ~Started(p)
  /\ paper' = [paper EXCEPT ![p] =
       [strategy |-> s, account |-> account, symbols |-> symbols,
        status |-> "ACTIVE", days |-> 0, trades |-> 0, deep |-> FALSE]]
  /\ stage' = IF Exists(s) THEN [stage EXCEPT ![s] = "PAPER_TRADING"] ELSE stage
  /\ UNCHANGED <<backtests, approvals>>

\* Neither looks at the status: a stopped session can be paused.
SetStatus(p, status) ==
  /\ Started(p)
  /\ paper' = [paper EXCEPT ![p].status = status]
  /\ UNCHANGED <<stage, backtests, approvals>>

PauseSession(p) == SetStatus(p, "PAUSED")

StopSession(p) == SetStatus(p, "STOPPED")

ProcessMarketTick(sym) ==
  /\ paper' = [p \in PaperSessions |->
                 IF Receives(paper[p], sym) THEN OnTick(paper[p]) ELSE paper[p]]
  /\ UNCHANGED <<stage, backtests, approvals>>

\* Days count from the start of a session, whatever its status.
DayPasses ==
  /\ paper' = [p \in PaperSessions |->
                 IF Started(p) /\ paper[p].days < MinDays
                   THEN [paper[p] EXCEPT !.days = @ + 1] ELSE paper[p]]
  /\ UNCHANGED <<stage, backtests, approvals>>

\* Mutant: a strategy is approved though its session is another's.
ApproveOther(p, bypass) ==
  /\ Started(p)
  /\ bypass \/ GatePassed(paper[p])
  /\ \E s \in Strategies :
       /\ Exists(s)
       /\ stage' = [stage EXCEPT ![s] = "HUMAN_APPROVAL"]
  /\ approvals' = approvals \cup {bypass}
  /\ UNCHANGED <<backtests, paper>>

PromoteToHumanApproval(p, bypass) ==
  /\ Started(p)
  /\ bypass \/ GatePassed(paper[p])
  /\ Exists(paper[p].strategy)
  /\ stage' = [stage EXCEPT ![paper[p].strategy] = "HUMAN_APPROVAL"]
  /\ approvals' = approvals \cup {bypass}
  /\ UNCHANGED <<backtests, paper>>

\* Not in the services: the tests assign the stage to the entity.
GrantLive(s) ==
  /\ Exists(s)
  /\ stage' = [stage EXCEPT ![s] = "LIVE_TRADING"]
  /\ UNCHANGED <<backtests, paper, approvals>>

Next ==
  \/ \E s \in Strategies : CreateStrategy(s) \/ RunBacktest(s) \/ GrantLive(s)
  \/ \E s \in Strategies, result \in backtests : PromoteToBacktested(s, result)
  \/ \E p \in PaperSessions, s \in Strategies, account \in Accounts, symbols \in Watchlists :
       StartSession(p, s, account, symbols)
  \/ \E p \in PaperSessions : PauseSession(p) \/ StopSession(p)
  \/ \E p \in PaperSessions, bypass \in BOOLEAN : PromoteToHumanApproval(p, bypass)
  \/ \E sym \in Symbols : ProcessMarketTick(sym)
  \/ DayPasses

Spec == Init /\ [][Next]_vars
-----------------------------------------------------------------------------
(* Properties.                                                              *)

(* Every variable keeps its type; of the seven stages, two are never          *)
(* assigned.                                                                *)
TypeOK ==
  /\ stage \in [Strategies -> Stages]
  /\ backtests \subseteq Results
  /\ paper \in [PaperSessions -> Sessions \cup {NoSession}]
  /\ approvals \subseteq BOOLEAN

(* The gate of the paper trading stage cannot be passed: whatever sessions   *)
(* run, for however long and on whatever ticks, a strategy reaches human     *)
(* approval only by a bypass, because no paper session ever trades.         *)
OnlyBypassesApprove == FALSE \notin approvals

\* The strategies with a paper session of their own.
Papered == {s \in Strategies : Exists(s) /\ \E p \in PaperSessions :
              Started(p) /\ paper[p].strategy = s}

(* The services together implement the register of stages that the live      *)
(* trading service reads: approval only after a paper session of the         *)
(* strategy, and live trading by the operator alone.                        *)
Register == INSTANCE PromotionStages WITH papered <- Papered
ImplementsRegister == Register!StageSpec

(* README.md: no strategy may trade live "without first passing              *)
(* Backtesting, Walk-Forward Validation, and Paper Trading.  There is no     *)
(* code path or fast track that skips this."  What could be checked of it    *)
(* before approval: the strategy's own backtest was good and a paper session *)
(* of its own passed the gate.                                              *)
NoFastTrack ==
  \A s \in Strategies :
    stage[s] = "HUMAN_APPROVAL" =>
      /\ [strategy |-> s, good |-> TRUE] \in backtests
      /\ \E p \in PaperSessions : Started(p) /\ paper[p].strategy = s /\ GatePassed(paper[p])
=============================================================================
