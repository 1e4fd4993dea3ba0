------------------------------ MODULE Backtest ------------------------------
(***************************************************************************)
(* The event-driven backtest of one strategy on one symbol: the service     *)
(* gives the engine the candles of the first configured symbol only.  A run  *)
(* does not suspend; it is told here bar by bar, and its strategy is the     *)
(* same code that the strategy runtime executes.                            *)
(*                                                                          *)
(* Prices are multiples of ten, and slippage is a tenth of the price, so     *)
(* that amounts are whole and rounding to cents changes nothing.            *)
(***************************************************************************)
EXTENDS StrategyEngine

CONSTANTS
  Cash,       \* values of initial_cash
  Commission, \* commission_per_order
  MaxCandles, \* bound: candles of a run, 100 in the service
  MaxWindows  \* bound: windows of a walk-forward validation, 4 in the service

ASSUME BacktestAssumption ==
  /\ Closes \subseteq Nat /\ Cash \subseteq Nat /\ Commission \in Nat
  /\ MaxCandles \in Nat /\ MaxWindows \in Nat \ {0}

VARIABLES
  phase,  \* "idle", "running" or "reported"
  tested, \* the strategy instance of the run
  cash,   \* money of the simulated account
  held,   \* quantity of the symbol
  entry,  \* open_positions of the symbol: what was bought at which price
  trades, \* net results of the closed trades
  curve,  \* equity_curve, with the initial cash in front
  peak,   \* highest equity so far
  fall,   \* max_drawdown_dollars
  slices  \* slices of the candles the validation has yet to run

backtestVars == <<phase, tested, cash, held, entry, trades, curve, peak, fall, slices>>

NoEntry == [price |-> 0, qty |-> 0, commission |-> 0]

BacktestInit ==
  /\ phase = "idle" /\ tested = NoInstance
  /\ cash = 0 /\ held = 0 /\ entry = NoEntry
  /\ trades = <<>> /\ curve = <<0>> /\ peak = 0 /\ fall = 0 /\ slices = 0

\* Any source that names no built-in strategy is taken for the EMA strategy.
Backtested(set) == IF set.code = "script" THEN [set EXCEPT !.code = "ema"] ELSE set

\* A run of its own: nothing is left of the one before.
Simulate(set, money) ==
  /\ phase' = "running"
  /\ tested' = [setting |-> set, history |-> <<>>, last |-> Flat]
  /\ cash' = money /\ held' = 0 /\ entry' = NoEntry
  /\ trades' = <<>> /\ curve' = <<money>> /\ peak' = money /\ fall' = 0

RunBacktest(set, money) ==
  /\ phase # "running" /\ set.numbers
  /\ Simulate(Backtested(set), money)
  /\ slices' = 0

\* Every window of the candles is run twice: its older and its newer part.
RunWalkForward(set, money) ==
  /\ phase # "running" /\ set.numbers
  /\ Simulate(Backtested(set), money)
  /\ \E windows \in 1..MaxWindows : slices' = 2 * windows - 1

BuyPrice(close)  == close + close \div 10
SellPrice(close) == close - close \div 10

\* Mutant: a trade is charged the commission of its exit only.
NetOfExit(e, close, qty) == (SellPrice(close) - e.price) * qty - Commission

NetResult(e, close, qty) ==
  (SellPrice(close) - e.price) * qty - (e.commission + Commission)

\* A purchase the cash does not cover is not made, nor tried again.
Buys(qty, close) ==
  LET cost == qty * BuyPrice(close) + Commission
  IN IF cash >= cost
     THEN /\ cash' = cash - cost /\ held' = held + qty
          /\ entry' = [price |-> BuyPrice(close), qty |-> qty, commission |-> Commission]
          /\ UNCHANGED trades
     ELSE UNCHANGED <<cash, held, entry, trades>>

\* Only what is held is sold: the account is never short.
Sells(qty, close) ==
  LET sold == IF held < qty THEN held ELSE qty
  IN IF held > 0
     THEN /\ cash' = cash + sold * SellPrice(close) - Commission
          /\ held' = held - sold /\ entry' = NoEntry
          /\ trades' = IF entry = NoEntry THEN trades
                       ELSE Append(trades, NetResult(entry, close, sold))
     ELSE UNCHANGED <<cash, held, entry, trades>>

\* The bar's orders are filled at its own close, then the equity is taken.
SimulateBar(close) ==
  LET ran == OnBar(tested, close)
      equity == cash' + held' * close
  IN /\ phase = "running" /\ Len(curve) <= MaxCandles /\ ~ran.raised
     /\ tested' = ran.inst
     /\ CASE ran.signal = "BUY" -> Buys(tested.setting.qty, close)
          [] ran.signal = "SELL" -> Sells(tested.setting.qty, close)
          [] OTHER -> UNCHANGED <<cash, held, entry, trades>>
     /\ curve' = Append(curve, equity)
     /\ peak' = IF equity > peak THEN equity ELSE peak
     /\ fall' = IF peak' - equity > fall THEN peak' - equity ELSE fall
     /\ UNCHANGED <<phase, slices>>

\* An exception of the strategy leaves no result.
BacktestRaises(close) ==
  /\ phase = "running" /\ Len(curve) <= MaxCandles /\ OnBar(tested, close).raised
  /\ phase' = "idle"
  /\ UNCHANGED <<tested, cash, held, entry, trades, curve, peak, fall, slices>>

\* The yearly growth, of more than one candle, is a power of final over
\* initial equity.
GrowthDefined == Len(curve) = 2 \/ (curve[1] > 0 /\ Last(curve) >= 0)

\* What the efficiency ratios are made of is left out: nothing reads them.
NextSlice ==
  /\ phase = "running" /\ Len(curve) > 1
  /\ slices > 0 /\ GrowthDefined
  /\ slices' = slices - 1
  /\ Simulate(tested.setting, curve[1])

\* The report is kept, if it can be made; what is still held stays open.
ReportBacktest ==
  /\ phase = "running" /\ Len(curve) > 1
  /\ slices = 0 \/ ~GrowthDefined
  /\ phase' = IF GrowthDefined THEN "reported" ELSE "idle"
  /\ UNCHANGED <<tested, cash, held, entry, trades, curve, peak, fall, slices>>

BacktestNext ==
  \/ \E set \in Settings, money \in Cash : RunBacktest(set, money) \/ RunWalkForward(set, money)
  \/ \E close \in Closes : SimulateBar(close) \/ BacktestRaises(close)
  \/ NextSlice \/ ReportBacktest

BacktestSpec == BacktestInit /\ [][BacktestNext]_backtestVars
-----------------------------------------------------------------------------
(* Properties.                                                              *)

(* Every variable keeps its type.                                           *)
BacktestTypeOK ==
  /\ phase \in {"idle", "running", "reported"}
  /\ tested # NoInstance => tested.setting.code \in {"ema", "rsi"}
  /\ cash \in Int /\ held \in Nat
  /\ entry \in [price : Nat, qty : Nat, commission : Nat]
  /\ trades \in Seq(Int) /\ curve \in Seq(Int) /\ curve # <<>>
  /\ peak \in Nat /\ fall \in Nat
  /\ slices \in 0..(2 * MaxWindows - 1)

(* The report adds up: what the run started with and the net results of its *)
(* closed trades are the cash and the cost of what is still held, and the    *)
(* drawdown is the deepest fall between two points of the equity curve.      *)
BacktestAddsUp ==
  /\ curve[1] + Total(trades) = cash + entry.qty * entry.price + entry.commission
  /\ held = entry.qty
  /\ \A i, j \in 1..Len(curve) : i <= j => curve[i] - curve[j] <= fall
  /\ \E i, j \in 1..Len(curve) : i <= j /\ curve[i] - curve[j] = fall
=============================================================================
