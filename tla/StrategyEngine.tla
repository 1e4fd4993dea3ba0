--------------------------- MODULE StrategyEngine ---------------------------
(***************************************************************************)
(* The strategy runtime: strategies are created, changed, started, stopped  *)
(* and paused by requests, and the closed bars of their symbols make the    *)
(* built-in strategies signal.  No operation suspends, so that each is one  *)
(* step.  A script strategy is asked for every bar as well, but waits for    *)
(* the event loop it blocks and never signals.                              *)
(***************************************************************************)
EXTENDS Integers, Sequences, SequencesExt

CONSTANTS
  Strategies, \* strategy ids
  Settings,   \* source code and parameters of a strategy, see StrategySetting
  Tickers,    \* symbols
  Closes,     \* closing prices
  MaxBars     \* bound: bars a strategy is given between two starts

\* short is fast_period, long is slow_period, or period for the RSI strategy;
\* fewer than one unit to trade is refused by OrderRequest, and parameters
\* that are no numbers by on_start.
StrategySetting ==
  [code : {"ema", "rsi", "script"}, short : Nat, long : Nat, qty : Nat, numbers : BOOLEAN]

ASSUME StrategyAssumption == Settings \subseteq StrategySetting /\ MaxBars \in Nat

VARIABLES
  strategies, \* the entity the service and the engine share
  instances,  \* engine: the instance, with what its context had at the start
  barsSeen,   \* history: closes of the bars since the last start
  signalsOut  \* history: signals handed out since the last start

strategyVars == <<strategies, instances, barsSeen, signalsOut>>

States == {"absent", "INITIALIZED", "RUNNING", "PAUSED", "STOPPED", "ERROR"}
Sides  == {"BUY", "SELL"}
Flat   == "none"

NoSetting == [code |-> "none", short |-> 0, long |-> 0, qty |-> 0, numbers |-> FALSE]

NoInstance == [setting |-> NoSetting, history |-> <<>>, last |-> Flat]

StrategyInit ==
  /\ strategies = [s \in Strategies |->
                     [state |-> "absent", setting |-> NoSetting, symbols |-> {}]]
  /\ instances = [s \in Strategies |-> NoInstance]
  /\ barsSeen = [s \in Strategies |-> <<>>]
  /\ signalsOut = [s \in Strategies |-> <<>>]
-----------------------------------------------------------------------------
(* The built-in strategies.                                                 *)

Total(h) == SumFunction(h)

\* history[-n:], the whole list for n = 0 and for a shorter list.
Latest(h, n) == IF n = 0 \/ n >= Len(h) THEN h ELSE SubSeq(h, Len(h) - n + 1, Len(h))

\* Side of the two simple averages; the fast one leads.
Crossover(h, short, long) ==
  LET fast == Total(Latest(h, short)) * long
      slow == Total(Latest(h, long)) * short
  IN IF Len(h) < long \/ fast = slow THEN Flat ELSE IF fast > slow THEN "BUY" ELSE "SELL"

\* Relative strength over the latest changes against 30 and 70; without a
\* loss it is 100, in a flat market too.
Reversion(h, period) ==
  LET changes == [i \in 1..period |-> h[Len(h) - period + i] - h[Len(h) - period + i - 1]]
      gain == Total(SelectSeq(changes, LAMBDA x : x > 0))
      loss == -Total(SelectSeq(changes, LAMBDA x : x < 0))
  IN IF Len(h) <= period THEN Flat
     ELSE IF loss = 0 \/ 30 * gain > 70 * loss THEN "SELL"
     ELSE IF 70 * gain < 30 * loss THEN "BUY" ELSE Flat

Verdict(set, h) ==
  CASE set.code = "ema" -> Crossover(h, set.short, set.long)
    [] set.code = "rsi" -> Reversion(h, set.long)
    [] OTHER -> Flat

\* An average over no bars is a division by zero, once it is taken.
DividesByZero(set, h) ==
  \/ set.code = "ema" /\ (set.short = 0 \/ set.long = 0) /\ Len(h) >= set.long
  \/ set.code = "rsi" /\ set.long = 0

\* on_bar: instance, signal and whether it raised.  The last signal is noted
\* before the order request is built, which may raise.
OnBar(inst, close) ==
  LET h == Append(inst.history, close)
      asked == inst.setting
  IN IF DividesByZero(asked, h)
     THEN [inst |-> [inst EXCEPT !.history = h], signal |-> Flat, raised |-> TRUE]
     ELSE LET v == Verdict(asked, h)
          IN IF v \in {Flat, inst.last}
             THEN [inst |-> [inst EXCEPT !.history = h], signal |-> Flat, raised |-> FALSE]
             ELSE [inst |-> [inst EXCEPT !.history = h, !.last = v],
                   signal |-> IF asked.qty = 0 THEN Flat ELSE v, raised |-> asked.qty = 0]
-----------------------------------------------------------------------------
(* Requests.                                                                *)

CreateStrategy(s, set, symbols) ==
  /\ strategies[s].state = "absent" /\ symbols # {}
  /\ strategies' = [strategies EXCEPT ![s] =
                      [state |-> "INITIALIZED", setting |-> set, symbols |-> symbols]]
  /\ UNCHANGED <<instances, barsSeen, signalsOut>>

\* A running instance keeps its parameters; its symbols change at once.
UpdateStrategy(s, set, symbols) ==
  /\ strategies[s].state # "absent"
  /\ strategies' = [strategies EXCEPT ![s].setting = set, ![s].symbols = symbols]
  /\ UNCHANGED <<instances, barsSeen, signalsOut>>

\* Mutant: the context of the last run is used again; on_start sets it up.
RestartedContext(s) ==
  [setting |-> strategies[s].setting, history |-> <<>>, last |-> instances[s].last]

\* Every start has a context of its own: also one after a pause.
FreshContext(s) == [setting |-> strategies[s].setting, history |-> <<>>, last |-> Flat]

\* A start that fails leaves the instance of an earlier one.
StartStrategy(s) ==
  LET set == strategies[s].setting
      starts == set.numbers \/ set.code = "script"
  IN /\ strategies[s].state # "absent"
     /\ strategies' = [strategies EXCEPT ![s].state = IF starts THEN "RUNNING" ELSE "ERROR"]
     /\ IF starts
        THEN /\ instances' = [instances EXCEPT ![s] = FreshContext(s)]
             /\ barsSeen' = [barsSeen EXCEPT ![s] = <<>>]
             /\ signalsOut' = [signalsOut EXCEPT ![s] = <<>>]
        ELSE UNCHANGED <<instances, barsSeen, signalsOut>>

\* What an instance that is gone knew is of no interest either.
StopStrategy(s) ==
  /\ strategies[s].state # "absent"
  /\ strategies' = [strategies EXCEPT ![s].state = "STOPPED"]
  /\ instances' = [instances EXCEPT ![s] = NoInstance]
  /\ barsSeen' = [barsSeen EXCEPT ![s] = <<>>]
  /\ signalsOut' = [signalsOut EXCEPT ![s] = <<>>]

\* The instance stays, but only a start, with a new one, ends the pause.
PauseStrategy(s) ==
  /\ strategies[s].state # "absent"
  /\ strategies' = [strategies EXCEPT ![s].state = "PAUSED"]
  /\ UNCHANGED <<instances, barsSeen, signalsOut>>

\* process_bar: every running strategy of the symbol, each for itself.
MarketBar(symbol, close) ==
  LET asked == {s \in Strategies : /\ strategies[s].state = "RUNNING"
                                   /\ symbol \in strategies[s].symbols}
      Ran(s) == OnBar(instances[s], close)
  IN /\ \A s \in asked : Len(barsSeen[s]) < MaxBars
     /\ strategies' = [s \in Strategies |-> IF s \in asked /\ Ran(s).raised
                         THEN [strategies[s] EXCEPT !.state = "ERROR"] ELSE strategies[s]]
     /\ instances' = [s \in Strategies |-> IF s \in asked THEN Ran(s).inst ELSE instances[s]]
     /\ barsSeen' = [s \in Strategies |->
                       IF s \in asked THEN Append(barsSeen[s], close) ELSE barsSeen[s]]
     /\ signalsOut' = [s \in Strategies |-> IF s \in asked /\ Ran(s).signal # Flat
                         THEN Append(signalsOut[s], Ran(s).signal) ELSE signalsOut[s]]

StrategyNext ==
  \/ \E s \in Strategies :
       \/ \E set \in Settings, symbols \in SUBSET Tickers :
            CreateStrategy(s, set, symbols) \/ UpdateStrategy(s, set, symbols)
       \/ StartStrategy(s) \/ StopStrategy(s) \/ PauseStrategy(s)
  \/ \E symbol \in Tickers, close \in Closes : MarketBar(symbol, close)

StrategySpec == StrategyInit /\ [][StrategyNext]_strategyVars
-----------------------------------------------------------------------------
(* Properties.                                                              *)

(* Every variable keeps its type; a running strategy has an instance.        *)
StrategyTypeOK ==
  \A s \in Strategies :
    /\ strategies[s].state \in States /\ strategies[s].symbols \subseteq Tickers
    /\ strategies[s].state # "absent" => strategies[s].setting \in Settings
    /\ instances[s] # NoInstance =>
         /\ instances[s].setting \in Settings
         /\ instances[s].history \in Seq(Closes) /\ instances[s].last \in Sides \cup {Flat}
    /\ strategies[s].state = "RUNNING" => instances[s] # NoInstance
    /\ barsSeen[s] \in Seq(Closes) /\ signalsOut[s] \in Seq(Sides)

\* What the bars of a run call for: the verdict on each, without repetition.
Called(set, bars) ==
  LET called[n \in 0 .. Len(bars)] ==
        IF n = 0 THEN <<>>
        ELSE LET v == Verdict(set, SubSeq(bars, 1, n))
             IN IF v = Flat \/ (called[n - 1] # <<>> /\ Last(called[n - 1]) = v)
                THEN called[n - 1] ELSE Append(called[n - 1], v)
  IN called[Len(bars)]

(* A running strategy has signalled exactly what the bars since its start    *)
(* call for: each turn once and none from before the start, however it was    *)
(* stopped, paused, changed, in error and started again in between.          *)
SignalsFollowTheBars ==
  \A s \in Strategies : strategies[s].state = "RUNNING" =>
    signalsOut[s] = Called(instances[s].setting, barsSeen[s])
=============================================================================
