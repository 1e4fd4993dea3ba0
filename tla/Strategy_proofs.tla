----------------------------- MODULE Strategy_proofs -----------------------------
(***************************************************************************)
(* Proofs about the strategy runtime and the backtests: their types, that a  *)
(* strategy signals what its setting says of the bars it was sent, and that   *)
(* the books of a backtest add up, for any strategies, settings, prices,      *)
(* cash and commission.                                                     *)
(***************************************************************************)
EXTENDS Backtest, Aggregates, SequenceTheorems

-----------------------------------------------------------------------------
(* The runtime.                                                              *)

USE StrategyAssumption

Signals == Sides \cup {Flat}

LEMMA VerdictTyped ==
  ASSUME NEW set, NEW h
  PROVE  Verdict(set, h) \in Signals
<1>1. Crossover(h, set.short, set.long) \in Signals
  BY DEF Crossover, Signals, Sides
<1>2. Reversion(h, set.long) \in Signals
  BY DEF Reversion, Signals, Sides
<1> QED
  BY <1>1, <1>2 DEF Verdict, Signals, Sides

\* The signals of a run after one more verdict.
Turned(sides, v) ==
  IF v = Flat \/ (sides # <<>> /\ Last(sides) = v) THEN sides ELSE Append(sides, v)

LEMMA TurnedTyped ==
  ASSUME NEW sides \in Seq(Sides), NEW v \in Signals
  PROVE  Turned(sides, v) \in Seq(Sides)
BY DEF Turned, Signals

\* The signals of a run, bar by bar.
IsRecord(f, set, bars) ==
  f = [n \in 0 .. Len(bars) |->
         IF n = 0 THEN <<>> ELSE Turned(f[n - 1], Verdict(set, SubSeq(bars, 1, n)))]

LEMMA RecordsAgree ==
  ASSUME NEW set, NEW b \in Seq(Closes), NEW c \in Seq(Closes), NEW N \in Nat,
         N <= Len(b), N <= Len(c),
         \A n \in 1 .. N : SubSeq(b, 1, n) = SubSeq(c, 1, n),
         NEW f, IsRecord(f, set, b), NEW g, IsRecord(g, set, c)
  PROVE  \A n \in 0 .. N : f[n] = g[n]
<1> DEFINE T == {n \in Nat : n <= N => f[n] = g[n]}
<1>0. Len(b) \in Nat /\ Len(c) \in Nat
  OBVIOUS
<1>1. 0 \in T
  BY <1>0 DEF IsRecord
<1>2. ASSUME NEW n \in Nat, n \in T PROVE n + 1 \in T
  <2> SUFFICES ASSUME n + 1 <= N PROVE f[n + 1] = g[n + 1]
    OBVIOUS
  <2>1. f[n + 1] = Turned(f[n], Verdict(set, SubSeq(b, 1, n + 1)))
    <3>1. n + 1 \in 0 .. Len(b) /\ n + 1 # 0 /\ (n + 1) - 1 = n
      BY <1>0
    <3> QED BY <3>1 DEF IsRecord
  <2>2. g[n + 1] = Turned(g[n], Verdict(set, SubSeq(c, 1, n + 1)))
    <3>1. n + 1 \in 0 .. Len(c) /\ n + 1 # 0 /\ (n + 1) - 1 = n
      BY <1>0
    <3> QED BY <3>1 DEF IsRecord
  <2>3. f[n] = g[n] /\ n + 1 \in 1 .. N
    BY <1>2
  <2> QED
    BY <2>1, <2>2, <2>3
<1>3. Nat \subseteq T
  <2> HIDE DEF T
  <2> QED BY <1>1, <1>2, NatInduction0
<1> QED BY <1>3

LEMMA CalledRecord ==
  ASSUME NEW set, NEW bars \in Seq(Closes)
  PROVE  \E f : IsRecord(f, set, bars) /\ f[Len(bars)] = Called(set, bars)
             /\ f \in [0 .. Len(bars) -> Seq(Sides)]
<1> DEFINE N == Len(bars)
           step == [n \in 1 .. N |-> [sides \in Seq(Sides) |->
                      Turned(sides, Verdict(set, SubSeq(bars, 1, n)))]]
<1>1. N \in Nat /\ <<>> \in Seq(Sides)
  OBVIOUS
<1>2. \A n \in 1 .. N : \A sides \in Seq(Sides) : step[n][sides] \in Seq(Sides)
  BY VerdictTyped, TurnedTyped
<1>3. PICK f \in [0 .. N -> Seq(Sides)] :
        f[0] = <<>> /\ \A n \in 1 .. N : f[n] = step[n][f[n - 1]]
  <2> HIDE DEF N, step
  <2>1. Steps(step, N, Seq(Sides))
    BY <1>2 DEF Steps
  <2>2. \E f : IsRun(f, N, Seq(Sides), <<>>, step)
    BY <1>1, <2>1, NatRecursion
  <2> QED BY <2>2 DEF IsRun
<1>4. IsRecord(f, set, bars)
  <2>1. \A n \in 1 .. N : f[n - 1] \in Seq(Sides)
    BY <1>1, <1>3
  <2>2. \A n \in 1 .. N : f[n] = Turned(f[n - 1], Verdict(set, SubSeq(bars, 1, n)))
    BY <1>3, <2>1
  <2> HIDE DEF step
  <2>3. f = [n \in 0 .. N |->
         IF n = 0 THEN <<>> ELSE Turned(f[n - 1], Verdict(set, SubSeq(bars, 1, n)))]
    BY <1>1, <1>3, <2>2
  <2> QED BY <2>3 DEF IsRecord
<1> DEFINE g == CHOOSE g : IsRecord(g, set, bars)
<1>5. IsRecord(g, set, bars)
  BY <1>4
<1>6. Called(set, bars) = g[N]
  BY DEF Called, IsRecord, Turned
<1> HIDE DEF g
<1>7. g[N] = f[N]
  BY <1>1, <1>4, <1>5, RecordsAgree
<1> QED BY <1>3, <1>4, <1>6, <1>7

LEMMA CalledEmpty == \A set : Called(set, <<>>) = <<>>
<1> SUFFICES ASSUME NEW set PROVE Called(set, <<>>) = <<>>
  OBVIOUS
<1>1. <<>> \in Seq(Closes) /\ Len(<<>>) = 0
  OBVIOUS
<1>2. PICK h : IsRecord(h, set, <<>>) /\ h[0] = Called(set, <<>>)
  BY <1>1, CalledRecord
<1> QED BY <1>1, <1>2 DEF IsRecord

LEMMA CalledFacts ==
  ASSUME NEW set, NEW bars \in Seq(Closes), NEW close \in Closes
  PROVE  /\ Called(set, bars) \in Seq(Sides)
         /\ Called(set, Append(bars, close)) =
              Turned(Called(set, bars), Verdict(set, Append(bars, close)))
<1> DEFINE more == Append(bars, close)  N == Len(bars)
<1>1. /\ more \in Seq(Closes) /\ N \in Nat /\ Len(more) = N + 1
      /\ SubSeq(more, 1, N + 1) = more
      /\ \A n \in 1 .. N : SubSeq(bars, 1, n) = SubSeq(more, 1, n)
  OBVIOUS
<1>2. PICK f : IsRecord(f, set, bars) /\ f[N] = Called(set, bars)
               /\ f \in [0 .. N -> Seq(Sides)]
  BY CalledRecord
<1>3. PICK g : IsRecord(g, set, more) /\ g[N + 1] = Called(set, more)
  BY <1>1, CalledRecord
<1>4. f[N] = g[N]
  <2> HIDE DEF more
  <2>1. \A n \in 0 .. N : f[n] = g[n]
    BY <1>1, <1>2, <1>3, RecordsAgree
  <2> QED BY <1>1, <2>1
<1>5. g[N + 1] = Turned(g[N], Verdict(set, SubSeq(more, 1, N + 1)))
  <2> HIDE DEF more
  <2>1. N + 1 \in 0 .. Len(more) /\ N + 1 # 0 /\ (N + 1) - 1 = N
    BY <1>1
  <2> QED BY <1>3, <2>1 DEF IsRecord
<1>6. Called(set, bars) \in Seq(Sides)
  BY <1>1, <1>2
<1>7. Called(set, more) = Turned(Called(set, bars), Verdict(set, more))
  <2> HIDE DEF more
  <2> QED BY <1>1, <1>2, <1>3, <1>4, <1>5
<1> QED
  BY <1>6, <1>7
-----------------------------------------------------------------------------
\* Instances of a strategy with one of the given settings.
InstanceOf(settings) == [setting : settings, history : Seq(Closes), last : Signals]

Instance == InstanceOf(Settings \cup {NoSetting})

RuntimeTyped ==
  /\ strategies \in [Strategies -> [state : States, setting : Settings \cup {NoSetting},
                                    symbols : SUBSET Tickers]]
  /\ instances \in [Strategies -> Instance]
  /\ barsSeen \in [Strategies -> Seq(Closes)]
  /\ signalsOut \in [Strategies -> Seq(Sides)]
  /\ \A s \in Strategies :
       /\ strategies[s].state # "absent" => strategies[s].setting \in Settings
       /\ strategies[s].state = "RUNNING" => instances[s].setting \in Settings
       /\ instances[s].setting = NoSetting => instances[s] = NoInstance

\* What the record of a run says of the strategy's own memory.
LastOfRun(sides) == IF sides = <<>> THEN Flat ELSE Last(sides)

Followed(inst, bars, sides) ==
  /\ inst.history = bars
  /\ sides = Called(inst.setting, bars)
  /\ inst.last = LastOfRun(sides)

(* The inductive invariant of the runtime.                                   *)
RuntimeInv ==
  /\ RuntimeTyped
  /\ \A s \in Strategies : strategies[s].state = "RUNNING" =>
       Followed(instances[s], barsSeen[s], signalsOut[s])

LEMMA NoSettingIsNone == NoSetting \notin Settings
BY DEF NoSetting, StrategySetting

LEMMA OnBarTyped ==
  ASSUME NEW X, NEW inst \in InstanceOf(X), NEW close \in Closes
  PROVE  LET ran == OnBar(inst, close)
         IN /\ ran.inst \in InstanceOf(X) /\ ran.inst.setting = inst.setting
            /\ ran.signal \in Signals /\ ran.raised \in BOOLEAN
<1> DEFINE h == Append(inst.history, close)  v == Verdict(inst.setting, h)
<1>1. h \in Seq(Closes) /\ v \in Signals /\ Flat \in Signals
  BY VerdictTyped DEF InstanceOf, Signals
<1>2. /\ [inst EXCEPT !.history = h] \in InstanceOf(X)
      /\ [inst EXCEPT !.history = h, !.last = v] \in InstanceOf(X)
      /\ [inst EXCEPT !.history = h].setting = inst.setting
      /\ [inst EXCEPT !.history = h, !.last = v].setting = inst.setting
  <2> HIDE DEF h, v
  <2> QED BY <1>1 DEF InstanceOf
<1> HIDE DEF h, v
<1> QED
  BY <1>1, <1>2 DEF OnBar, h, v

(* A bar that did not raise keeps the memory of a run and its record in step. *)
LEMMA OnBarFollows ==
  ASSUME NEW inst \in Instance, NEW close \in Closes, NEW bars \in Seq(Closes),
         NEW sides \in Seq(Sides), Followed(inst, bars, sides),
         ~OnBar(inst, close).raised
  PROVE  LET ran == OnBar(inst, close)
         IN Followed(ran.inst, Append(bars, close),
                     IF ran.signal # Flat THEN Append(sides, ran.signal) ELSE sides)
<1> DEFINE h == Append(bars, close)  set == inst.setting  v == Verdict(set, h)
           ran == OnBar(inst, close)
<1>1. h \in Seq(Closes) /\ v \in Signals /\ inst.history = bars
  BY VerdictTyped DEF Followed
<1>2. Called(set, h) = Turned(sides, v) /\ inst.last = LastOfRun(sides)
  BY CalledFacts DEF Followed
<1>3. ~DividesByZero(set, h)
  BY <1>1 DEF OnBar
<1>4. CASE v \in {Flat, inst.last}
  <2>1. ran = [inst |-> [inst EXCEPT !.history = h], signal |-> Flat, raised |-> FALSE]
    BY <1>1, <1>3, <1>4 DEF OnBar
  <2>2. Turned(sides, v) = sides
    <3> HIDE DEF v, ran
    <3> QED BY <1>2, <1>4 DEF Turned, LastOfRun
  <2>3. /\ ran.inst.history = h /\ ran.inst.setting = set /\ ran.inst.last = inst.last
        /\ ran.signal = Flat
    <3> HIDE DEF v, h, ran
    <3> QED BY <2>1 DEF Instance, InstanceOf
  <2> HIDE DEF v, h, ran, set
  <2>4. Followed(ran.inst, h, sides)
    BY <1>2, <2>2, <2>3 DEF Followed
  <2> QED BY <2>3, <2>4 DEF h, ran
<1>5. CASE v \notin {Flat, inst.last}
  <2>1. set.qty # 0
    BY <1>1, <1>3, <1>5 DEF OnBar
  <2>2. ran = [inst |-> [inst EXCEPT !.history = h, !.last = v], signal |-> v,
               raised |-> FALSE]
    BY <1>1, <1>3, <1>5, <2>1 DEF OnBar
  <2>3. v \in Sides /\ Turned(sides, v) = Append(sides, v)
    <3> HIDE DEF v, ran
    <3> QED BY <1>1, <1>2, <1>5 DEF Turned, LastOfRun, Signals
  <2>4. LastOfRun(Append(sides, v)) = v
    <3> HIDE DEF v
    <3> QED BY <2>3 DEF LastOfRun, Last
  <2>5. /\ ran.inst.history = h /\ ran.inst.setting = set /\ ran.inst.last = v
        /\ ran.signal = v
    <3> HIDE DEF v, h, ran
    <3> QED BY <2>2 DEF Instance, InstanceOf
  <2> HIDE DEF v, h, ran, set
  <2>6. Followed(ran.inst, h, Append(sides, v))
    BY <1>2, <2>3, <2>4, <2>5 DEF Followed
  <2>7. ran.signal # Flat
    BY <1>5, <2>5
  <2> QED BY <2>5, <2>6, <2>7 DEF h, ran
<1> QED
  BY <1>4, <1>5

LEMMA InitRuns == StrategyInit => RuntimeInv
<1>1. <<>> \in Seq(Closes) /\ <<>> \in Seq(Sides)
  OBVIOUS
<1>2. NoInstance \in Instance /\ NoInstance.setting = NoSetting
  BY <1>1 DEF NoInstance, Instance, InstanceOf, Signals
<1> QED
  BY <1>1, <1>2 DEF StrategyInit, RuntimeInv, RuntimeTyped, States

LEMMA ChangeRuns ==
  ASSUME RuntimeInv, NEW s \in Strategies, NEW set \in Settings,
         NEW symbols \in SUBSET Tickers,
         CreateStrategy(s, set, symbols) \/ UpdateStrategy(s, set, symbols)
  PROVE  RuntimeInv'
<1> USE DEF RuntimeInv, RuntimeTyped
<1>1. CASE CreateStrategy(s, set, symbols)
  BY <1>1 DEF CreateStrategy, States, Followed
<1>2. CASE UpdateStrategy(s, set, symbols)
  <2>1. strategies' \in [Strategies -> [state : States, setting : Settings \cup {NoSetting},
                                        symbols : SUBSET Tickers]]
    <3> DEFINE e == strategies[s]
               new == [[e EXCEPT !.setting = set] EXCEPT !.symbols = symbols]
               Entity == [state : States, setting : Settings \cup {NoSetting},
                          symbols : SUBSET Tickers]
    <3>1. strategies \in [Strategies -> Entity]
      OBVIOUS
    <3>2. new \in Entity
      BY <3>1
    <3>3. strategies' = [strategies EXCEPT ![s] = new]
      BY <1>2 DEF UpdateStrategy
    <3> HIDE DEF new, Entity
    <3>4. strategies' \in [Strategies -> Entity]
      BY <3>1, <3>2, <3>3
    <3> QED BY <3>4 DEF Entity
  <2>2. \A t \in Strategies : /\ strategies'[t].state = strategies[t].state
                              /\ strategies'[t].setting \in {set, strategies[t].setting}
    BY <1>2 DEF UpdateStrategy
  <2>3. UNCHANGED <<instances, barsSeen, signalsOut>>
    BY <1>2 DEF UpdateStrategy
  <2> QED BY <2>1, <2>2, <2>3 DEF Followed
<1> QED
  BY <1>1, <1>2

LEMMA SwitchRuns ==
  ASSUME RuntimeInv, NEW s \in Strategies,
         StartStrategy(s) \/ StopStrategy(s) \/ PauseStrategy(s)
  PROVE  RuntimeInv'
<1> USE DEF RuntimeInv, RuntimeTyped
<1>3. CASE StartStrategy(s)
  <2>1. /\ strategies[s].state # "absent" /\ strategies[s].setting \in Settings
        /\ <<>> \in Seq(Closes) /\ <<>> \in Seq(Sides)
    BY <1>3 DEF StartStrategy
  <2> DEFINE fresh == FreshContext(s)
  <2>2. fresh \in Instance /\ fresh.setting \in Settings /\ Followed(fresh, <<>>, <<>>)
    BY <2>1, CalledEmpty DEF FreshContext, Instance, InstanceOf, Signals, Followed, LastOfRun
  <2>3. CASE strategies'[s].state = "RUNNING"
    <3>1. /\ instances' = [instances EXCEPT ![s] = fresh]
          /\ barsSeen' = [barsSeen EXCEPT ![s] = <<>>]
          /\ signalsOut' = [signalsOut EXCEPT ![s] = <<>>]
          /\ strategies' = [strategies EXCEPT ![s].state = "RUNNING"]
      BY <1>3, <2>3 DEF StartStrategy
    <3> HIDE DEF fresh
    <3>2. RuntimeTyped'
      BY <2>1, <2>2, <3>1, NoSettingIsNone, ZenonT(30) DEF States
    <3>3. ASSUME NEW t \in Strategies, strategies'[t].state = "RUNNING"
          PROVE  Followed(instances[t], barsSeen[t], signalsOut[t])'
      <4>1. CASE t = s
        <5>1. instances'[t] = fresh /\ barsSeen'[t] = <<>> /\ signalsOut'[t] = <<>>
          BY <3>1, <4>1
        <5> QED BY <2>2, <5>1 DEF Followed
      <4>2. CASE t # s
        BY <3>1, <3>3, <4>2 DEF Followed
      <4> QED BY <4>1, <4>2
    <3> QED BY <3>2, <3>3
  <2>4. CASE strategies'[s].state # "RUNNING"
    <3>1. /\ UNCHANGED <<instances, barsSeen, signalsOut>>
          /\ strategies' = [strategies EXCEPT ![s].state = "ERROR"]
      <4> DEFINE starts == \/ strategies[s].setting.numbers
                           \/ strategies[s].setting.code = "script"
      <4>1. strategies' = [strategies EXCEPT ![s].state =
                              IF starts THEN "RUNNING" ELSE "ERROR"]
        BY <1>3 DEF StartStrategy
      <4>2. ~starts
        <5> HIDE DEF starts
        <5> QED BY <2>4, <4>1
      <4> QED BY <1>3, <4>1, <4>2 DEF StartStrategy
    <3> QED BY <2>1, <3>1, ZenonT(30) DEF States, Followed
  <2> QED BY <2>3, <2>4
<1>4. CASE StopStrategy(s)
  <2>1. <<>> \in Seq(Closes) /\ <<>> \in Seq(Sides)
    OBVIOUS
  <2>2. NoInstance \in Instance
    BY <2>1 DEF NoInstance, Instance, InstanceOf, Signals
  <2> QED BY <1>4, <2>1, <2>2, ZenonT(30) DEF StopStrategy, States, Followed
<1>5. CASE PauseStrategy(s)
  BY <1>5, ZenonT(30) DEF PauseStrategy, States, Followed
<1> QED
  BY <1>3, <1>4, <1>5

LEMMA BarRuns ==
  ASSUME RuntimeInv, NEW symbol \in Tickers, NEW close \in Closes, MarketBar(symbol, close)
  PROVE  RuntimeInv'
<1> DEFINE asked == {s \in Strategies : /\ strategies[s].state = "RUNNING"
                                        /\ symbol \in strategies[s].symbols}
           Ran(s) == OnBar(instances[s], close)
<1>1. \A s \in Strategies :
        /\ Ran(s).inst \in Instance /\ Ran(s).inst.setting = instances[s].setting
        /\ Ran(s).signal \in Signals /\ Ran(s).raised \in BOOLEAN
  <2> SUFFICES ASSUME NEW s \in Strategies
               PROVE  /\ Ran(s).inst \in Instance
                      /\ Ran(s).inst.setting = instances[s].setting
                      /\ Ran(s).signal \in Signals /\ Ran(s).raised \in BOOLEAN
    OBVIOUS
  <2>1. instances[s] \in InstanceOf(Settings \cup {NoSetting})
    BY DEF RuntimeInv, RuntimeTyped, Instance
  <2> HIDE DEF Ran
  <2> QED BY <2>1, OnBarTyped DEF Instance, Ran
<1>2. /\ strategies' = [s \in Strategies |-> IF s \in asked /\ Ran(s).raised
                         THEN [strategies[s] EXCEPT !.state = "ERROR"] ELSE strategies[s]]
      /\ instances' = [s \in Strategies |-> IF s \in asked THEN Ran(s).inst ELSE instances[s]]
      /\ barsSeen' = [s \in Strategies |->
                       IF s \in asked THEN Append(barsSeen[s], close) ELSE barsSeen[s]]
      /\ signalsOut' = [s \in Strategies |-> IF s \in asked /\ Ran(s).signal # Flat
                         THEN Append(signalsOut[s], Ran(s).signal) ELSE signalsOut[s]]
  BY DEF MarketBar
<1>3. RuntimeTyped'
  <2> USE DEF RuntimeInv, RuntimeTyped
  <2>1. \A s \in Strategies :
          /\ strategies'[s].setting = strategies[s].setting
          /\ strategies'[s] \in [state : States, setting : Settings \cup {NoSetting},
                                 symbols : SUBSET Tickers]
          /\ strategies[s].state = "absent" => strategies'[s].state = "absent"
          /\ strategies'[s].state = "RUNNING" => strategies[s].state = "RUNNING"
    <3>1. \A s \in asked : strategies[s].state = "RUNNING"
      OBVIOUS
    <3> HIDE DEF Ran, asked
    <3> QED BY <1>2, <3>1 DEF States
  <2>2. instances' \in [Strategies -> Instance]
    <3> HIDE DEF Ran, asked
    <3> QED BY <1>1, <1>2
  <2>3. \A s \in Strategies :
          /\ instances'[s].setting = instances[s].setting
          /\ s \in asked => strategies[s].state = "RUNNING"
          /\ s \notin asked => instances'[s] = instances[s]
    BY <1>1, <1>2
  <2>4. barsSeen' \in [Strategies -> Seq(Closes)]
    <3> HIDE DEF Ran, asked
    <3> QED BY <1>2
  <2>5. signalsOut' \in [Strategies -> Seq(Sides)]
    <3> HIDE DEF Ran, asked
    <3>1. \A s \in Strategies : Ran(s).signal # Flat => Ran(s).signal \in Sides
      BY <1>1 DEF Signals
    <3> QED BY <1>2, <3>1
  <2>6. strategies' \in [Strategies -> [state : States, setting : Settings \cup {NoSetting},
                                        symbols : SUBSET Tickers]]
    <3> HIDE DEF Ran, asked
    <3> QED BY <1>2, <2>1
  <2>7. ASSUME NEW s \in Strategies
        PROVE  /\ strategies'[s].state # "absent" => strategies'[s].setting \in Settings
               /\ strategies'[s].state = "RUNNING" => instances'[s].setting \in Settings
               /\ instances'[s].setting = NoSetting => instances'[s] = NoInstance
    <3> HIDE DEF Ran, asked
    <3>1. /\ strategies[s].state # "absent" => strategies[s].setting \in Settings
          /\ strategies[s].state = "RUNNING" => instances[s].setting \in Settings
          /\ instances[s].setting = NoSetting => instances[s] = NoInstance
      OBVIOUS
    <3>2. s \in asked => instances[s].setting # NoSetting
      BY <2>3, <3>1, NoSettingIsNone
    <3> HIDE DEF RuntimeInv, RuntimeTyped
    <3>6. /\ strategies'[s].setting = strategies[s].setting
          /\ strategies[s].state = "absent" => strategies'[s].state = "absent"
      BY <2>1
    <3>3. strategies'[s].state # "absent" => strategies'[s].setting \in Settings
      BY <3>1, <3>6
    <3>4. strategies'[s].state = "RUNNING" => instances'[s].setting \in Settings
      BY <2>1, <2>3, <3>1
    <3>5. instances'[s].setting = NoSetting => instances'[s] = NoInstance
      <4>1. CASE s \in asked
        BY <2>3, <3>2, <4>1
      <4>2. CASE s \notin asked
        BY <2>3, <3>1, <4>2
      <4> QED BY <4>1, <4>2
    <3> QED BY <3>3, <3>4, <3>5
  <2> HIDE DEF Ran, asked
  <2> QED BY <2>2, <2>4, <2>5, <2>6, <2>7
<1>4. ASSUME NEW s \in Strategies, strategies'[s].state = "RUNNING"
      PROVE  Followed(instances[s], barsSeen[s], signalsOut[s])'
  <2>1. strategies[s].state = "RUNNING" /\ (s \in asked => ~Ran(s).raised)
    <3> HIDE DEF Ran, asked
    <3> QED BY <1>2, <1>4 DEF RuntimeInv, RuntimeTyped
  <2>2. Followed(instances[s], barsSeen[s], signalsOut[s])
    BY <2>1 DEF RuntimeInv
  <2>3. CASE s \in asked
    <3>1. /\ instances'[s] = Ran(s).inst /\ barsSeen'[s] = Append(barsSeen[s], close)
          /\ signalsOut'[s] = IF Ran(s).signal # Flat THEN Append(signalsOut[s], Ran(s).signal)
                              ELSE signalsOut[s]
      <4> HIDE DEF Ran, asked
      <4> QED BY <1>2, <2>3
    <3>2. /\ instances[s] \in Instance /\ barsSeen[s] \in Seq(Closes)
          /\ signalsOut[s] \in Seq(Sides) /\ ~OnBar(instances[s], close).raised
      BY <2>1, <2>3 DEF RuntimeInv, RuntimeTyped
    <3>3. Followed(Ran(s).inst, Append(barsSeen[s], close),
                   IF Ran(s).signal # Flat THEN Append(signalsOut[s], Ran(s).signal)
                   ELSE signalsOut[s])
      BY <2>2, <3>2, OnBarFollows
    <3> HIDE DEF Ran
    <3> QED BY <3>1, <3>3
  <2>4. CASE s \notin asked
    <3>1. /\ instances'[s] = instances[s] /\ barsSeen'[s] = barsSeen[s]
          /\ signalsOut'[s] = signalsOut[s]
      <4> HIDE DEF Ran, asked
      <4> QED BY <1>2, <2>4
    <3> QED BY <2>2, <3>1
  <2> QED BY <2>3, <2>4
<1> QED
  BY <1>3, <1>4 DEF RuntimeInv

LEMMA RunsStep == RuntimeInv /\ [StrategyNext]_strategyVars => RuntimeInv'
<1>1. ASSUME RuntimeInv, UNCHANGED strategyVars PROVE RuntimeInv'
  BY <1>1 DEF RuntimeInv, RuntimeTyped, Followed, strategyVars
<1> SUFFICES ASSUME RuntimeInv, StrategyNext PROVE RuntimeInv'
  BY <1>1
<1>2. ASSUME NEW symbol \in Tickers, NEW close \in Closes, MarketBar(symbol, close)
      PROVE  RuntimeInv'
  BY <1>2, BarRuns
<1>3. ASSUME NEW s \in Strategies, NEW set \in Settings, NEW symbols \in SUBSET Tickers,
             CreateStrategy(s, set, symbols) \/ UpdateStrategy(s, set, symbols)
      PROVE  RuntimeInv'
  BY <1>3, ChangeRuns
<1>4. ASSUME NEW s \in Strategies, StartStrategy(s) \/ StopStrategy(s) \/ PauseStrategy(s)
      PROVE  RuntimeInv'
  BY <1>4, SwitchRuns
<1> QED
  BY <1>2, <1>3, <1>4 DEF StrategyNext

LEMMA AlwaysRuns == StrategySpec => []RuntimeInv
<1> QED
  BY InitRuns, RunsStep, PTL DEF StrategySpec

LEMMA RunsTyped == RuntimeInv => StrategyTypeOK
BY NoSettingIsNone
   DEF RuntimeInv, RuntimeTyped, StrategyTypeOK, Instance, InstanceOf, Signals, NoInstance

(* Every variable of the strategy runtime keeps its type.                    *)
THEOREM StrategiesTyped == StrategySpec => []StrategyTypeOK
BY AlwaysRuns, RunsTyped, PTL

(* What a running strategy has signalled is what its setting says of the bars*)
(* it was sent since it was started (strategy_engine), however often it was  *)
(* paused, changed, stopped and started before.                              *)
THEOREM SignalsFollow == StrategySpec => []SignalsFollowTheBars
<1>1. RuntimeInv => SignalsFollowTheBars
  BY DEF RuntimeInv, Followed, SignalsFollowTheBars
<1> QED
  BY AlwaysRuns, <1>1, PTL

-----------------------------------------------------------------------------
(* The backtests.                                                            *)

USE BacktestAssumption

LEMMA TotalEmpty == Total(<<>>) = 0
<1> DEFINE none == <<>>
<1>1. DOMAIN none = {} /\ IsFiniteSet({}) /\ \A x \in {} : none[x] \in Int
  BY FS_EmptySet
<1>2. Total(none) = SumFunctionOnSet(none, {})
  BY <1>1 DEF Total, SumFunction
<1> HIDE DEF none
<1>3. SumFunctionOnSet(none, {}) = 0
  BY <1>1, SumUnfolds
<1> QED BY <1>2, <1>3 DEF none

LEMMA TotalAppend ==
  ASSUME NEW h \in Seq(Int), NEW x \in Int
  PROVE  Total(h) \in Int /\ Total(Append(h, x)) = Total(h) + x
<1> DEFINE n == Len(h)  more == Append(h, x)  S == 1 .. n
<1>1. /\ n \in Nat /\ DOMAIN h = S /\ DOMAIN more = S \cup {n + 1}
      /\ more[n + 1] = x /\ n + 1 \notin S
      /\ \A i \in S : h[i] \in Int /\ more[i] = h[i]
  OBVIOUS
<1>2. IsFiniteSet(S)
  BY <1>1, FS_Interval
<1>3. Total(h) = SumFunctionOnSet(h, S) /\ Total(more) = SumFunctionOnSet(more, S \cup {n + 1})
  BY <1>1 DEF Total, SumFunction
<1> HIDE DEF n, more, S
<1>4. SumFunctionOnSet(h, S) \in Int
  BY <1>1, <1>2, SumUnfolds
<1>5. SumFunctionOnSet(more, S) = SumFunctionOnSet(h, S)
  BY <1>1, <1>2, SumAgrees
<1>6. SumFunctionOnSet(more, S \cup {n + 1}) = more[n + 1] + SumFunctionOnSet(more, S)
  <2>1. \A i \in S \cup {n + 1} : more[i] \in Int
    BY <1>1
  <2> QED BY <1>1, <1>2, <2>1, SumAdds
<1> QED
  BY <1>1, <1>3, <1>4, <1>5, <1>6 DEF more

\* A signal turns the strategy, and only a strategy with something to trade signals.
LEMMA OnBarTurns ==
  ASSUME NEW X, NEW inst \in InstanceOf(X), NEW close \in Closes, ~OnBar(inst, close).raised
  PROVE  LET ran == OnBar(inst, close)
         IN \/ ran.signal = Flat /\ ran.inst.last = inst.last
            \/ /\ ran.signal \in Sides /\ ran.signal # inst.last
               /\ ran.inst.last = ran.signal /\ inst.setting.qty # 0
<1> DEFINE h == Append(inst.history, close)  v == Verdict(inst.setting, h)
<1>1. v \in Signals
  BY VerdictTyped
<1>2. ~DividesByZero(inst.setting, h)
  BY DEF OnBar
<1>3. /\ [inst EXCEPT !.history = h].last = inst.last
      /\ [inst EXCEPT !.history = h, !.last = v].last = v
  <2> HIDE DEF h, v
  <2> QED BY DEF InstanceOf
<1> HIDE DEF h, v
<1> QED
  BY <1>1, <1>2, <1>3 DEF OnBar, h, v, Signals
-----------------------------------------------------------------------------
\* What runs in a backtest.
Runnable == {set \in StrategySetting : set.code \in {"ema", "rsi"}}

BacktestTyped ==
  /\ phase \in {"idle", "running", "reported"}
  /\ tested \in InstanceOf(Runnable \cup {NoSetting})
  /\ tested.setting = NoSetting => tested = NoInstance
  /\ phase = "running" => tested.setting \in Runnable
  /\ cash \in Int /\ held \in Nat
  /\ entry \in [price : Nat, qty : Nat, commission : Nat]
  /\ trades \in Seq(Int) /\ curve \in Seq(Int) /\ curve # <<>> /\ curve[1] \in Nat
  /\ peak \in Nat /\ fall \in Nat
  /\ slices \in 0..(2 * MaxWindows - 1)

\* What is held was bought by the last signal, all of it, at one price.
Holds ==
  /\ held = entry.qty
  /\ held = 0 => entry = NoEntry
  /\ held # 0 => tested.last = "BUY" /\ held = tested.setting.qty

(* What the run started with and what its closed trades made is its cash and *)
(* what the open position cost.                                              *)
Accounted == curve[1] + Total(trades) = cash + entry.qty * entry.price + entry.commission

(* depth is the deepest fall of the curve c below its highest point so far,  *)
(* top.                                                                      *)
Deepest(c, top, depth) ==
  /\ \A i \in 1 .. Len(c) : c[i] <= top
  /\ \E i \in 1 .. Len(c) : c[i] = top
  /\ \A i, j \in 1 .. Len(c) : i <= j => c[i] - c[j] <= depth
  /\ \E i, j \in 1 .. Len(c) : i <= j /\ c[i] - c[j] = depth

(* The inductive invariant of a backtest.                                    *)
BacktestInv == BacktestTyped /\ Holds /\ Accounted /\ Deepest(curve, peak, fall)

LEMMA DeepestStarts ==
  ASSUME NEW money \in Nat
  PROVE  Deepest(<<money>>, money, 0)
<1> DEFINE c == <<money>>
<1>1. Len(c) = 1 /\ c[1] = money
  OBVIOUS
<1> HIDE DEF c
<1>2. 1 .. Len(c) = {1}
  BY <1>1
<1>3. \A i, j \in 1 .. Len(c) : c[i] = money /\ c[i] - c[j] = 0 /\ i <= j
  BY <1>1, <1>2
<1>4. Deepest(c, money, 0)
  BY <1>2, <1>3 DEF Deepest
<1> QED BY <1>4 DEF c

LEMMA DeepestGrows ==
  ASSUME NEW c \in Seq(Int), NEW top \in Nat, NEW depth \in Nat, Deepest(c, top, depth),
         NEW e \in Int
  PROVE  LET top2   == IF e > top THEN e ELSE top
             depth2 == IF top2 - e > depth THEN top2 - e ELSE depth
         IN top2 \in Nat /\ depth2 \in Nat /\ Deepest(Append(c, e), top2, depth2)
<1> DEFINE n == Len(c)  d == Append(c, e)
           top2   == IF e > top THEN e ELSE top
           depth2 == IF top2 - e > depth THEN top2 - e ELSE depth
<1>1. /\ n \in Nat /\ Len(d) = n + 1 /\ d[n + 1] = e
      /\ \A i \in 1 .. n : d[i] = c[i] /\ c[i] \in Int
      /\ \A i \in 1 .. n + 1 : i \in 1 .. n \/ i = n + 1
      /\ \A i \in 1 .. n : i \in 1 .. n + 1 /\ i <= n + 1 /\ ~(n + 1 <= i)
      /\ n + 1 \in 1 .. n + 1
  OBVIOUS
<1>2. top2 \in Nat /\ depth2 \in Nat /\ top <= top2 /\ e <= top2 /\ depth <= depth2
      /\ top2 - e <= depth2
  OBVIOUS
<1> HIDE DEF d
<1>3. \A i \in 1 .. n + 1 : d[i] <= top2 /\ d[i] \in Int
  <2> SUFFICES ASSUME NEW i \in 1 .. n + 1 PROVE d[i] <= top2 /\ d[i] \in Int
    OBVIOUS
  <2>1. CASE i = n + 1
    BY <1>1, <1>2, <2>1
  <2>2. CASE i \in 1 .. n
    <3>1. c[i] <= top /\ d[i] = c[i] /\ c[i] \in Int
      BY <1>1, <2>2 DEF Deepest
    <3> QED BY <1>2, <3>1
  <2> QED BY <1>1, <2>1, <2>2
<1>4. \E i \in 1 .. n + 1 : d[i] = top2
  <2>1. CASE e > top
    BY <1>1, <2>1
  <2>2. CASE ~(e > top)
    <3>1. PICK i \in 1 .. n : c[i] = top
      BY DEF Deepest
    <3> QED BY <1>1, <2>2, <3>1
  <2> QED BY <2>1, <2>2
<1>5. ASSUME NEW i \in 1 .. n + 1, NEW j \in 1 .. n + 1, i <= j
      PROVE  d[i] - d[j] <= depth2
  <2>1. CASE j = n + 1
    BY <1>1, <1>2, <1>3, <2>1
  <2>2. CASE j # n + 1
    <3>1. j \in 1 .. n /\ i \in 1 .. n
      BY <1>1, <1>5, <2>2
    <3>2. c[i] - c[j] <= depth /\ d[i] = c[i] /\ d[j] = c[j] /\ c[i] \in Int /\ c[j] \in Int
      BY <1>1, <1>5, <3>1 DEF Deepest
    <3> QED BY <1>2, <3>2
  <2> QED BY <2>1, <2>2
<1>6. \E i, j \in 1 .. n + 1 : i <= j /\ d[i] - d[j] = depth2
  <2>1. CASE top2 - e > depth
    <3>1. PICK i \in 1 .. n + 1 : d[i] = top2
      BY <1>4
    <3>2. i <= n + 1 /\ d[i] - d[n + 1] = depth2
      BY <1>1, <2>1, <3>1
    <3> QED BY <1>1, <3>2
  <2>2. CASE ~(top2 - e > depth)
    <3>1. PICK i, j \in 1 .. n : i <= j /\ c[i] - c[j] = depth
      BY DEF Deepest
    <3>2. d[i] - d[j] = depth2
      BY <1>1, <2>2, <3>1
    <3> QED BY <1>1, <3>1, <3>2
  <2> QED BY <2>1, <2>2
<1>7. Deepest(d, top2, depth2)
  BY <1>1, <1>3, <1>4, <1>5, <1>6 DEF Deepest
<1> QED
  BY <1>2, <1>7 DEF d

LEMMA NoSettingNotRunnable == NoSetting \notin Runnable
BY DEF NoSetting, Runnable

LEMMA InitBacktest == BacktestInit => BacktestInv
<1> SUFFICES ASSUME BacktestInit PROVE BacktestInv
  OBVIOUS
<1>1. NoInstance \in InstanceOf(Runnable \cup {NoSetting}) /\ NoInstance.setting = NoSetting
  BY DEF NoInstance, InstanceOf, Signals
<1>2. BacktestTyped
  BY <1>1 DEF BacktestInit, BacktestTyped, NoEntry
<1>3. Holds
  BY DEF BacktestInit, Holds, NoEntry
<1>4. Accounted
  BY TotalEmpty DEF BacktestInit, Accounted, NoEntry
<1>5. Deepest(curve, peak, fall)
  BY DeepestStarts DEF BacktestInit
<1> QED
  BY <1>2, <1>3, <1>4, <1>5 DEF BacktestInv

LEMMA SimulateRuns ==
  ASSUME NEW set \in Runnable, NEW money \in Nat, Simulate(set, money),
         slices' \in 0..(2 * MaxWindows - 1)
  PROVE  BacktestInv'
<1> USE DEF Simulate
<1>1. BacktestTyped'
  <2>1. tested' \in InstanceOf(Runnable \cup {NoSetting}) /\ tested'.setting = set
    BY DEF InstanceOf, Signals
  <2> QED BY <2>1, NoSettingNotRunnable DEF BacktestTyped, NoEntry
<1>2. Holds'
  BY DEF Holds, NoEntry
<1>3. Accounted'
  BY TotalEmpty DEF Accounted, NoEntry
<1>4. Deepest(curve', peak', fall')
  BY DeepestStarts
<1> QED
  BY <1>1, <1>2, <1>3, <1>4 DEF BacktestInv

LEMMA RunBacktestRuns ==
  ASSUME NEW set \in Settings, NEW money \in Cash,
         RunBacktest(set, money) \/ RunWalkForward(set, money)
  PROVE  BacktestInv'
<1>1. Backtested(set) \in Runnable
  <2>1. set \in StrategySetting
    BY StrategyAssumption
  <2> QED BY <2>1 DEF Backtested, Runnable, StrategySetting
<1>2. Simulate(Backtested(set), money) /\ slices' \in 0..(2 * MaxWindows - 1) /\ money \in Nat
  BY DEF RunBacktest, RunWalkForward
<1> QED
  BY <1>1, <1>2, SimulateRuns

LEMMA NextSliceRuns ==
  ASSUME BacktestInv, NextSlice
  PROVE  BacktestInv'
<1>1. /\ tested.setting \in Runnable /\ curve[1] \in Nat
      /\ slices' \in 0..(2 * MaxWindows - 1)
      /\ Simulate(tested.setting, curve[1])
  BY SMTT(30) DEF BacktestInv, BacktestTyped, NextSlice
<1> QED
  BY <1>1, SimulateRuns

LEMMA EndRuns ==
  ASSUME BacktestInv,
         \/ \E close \in Closes : BacktestRaises(close)
         \/ ReportBacktest \/ UNCHANGED backtestVars
  PROVE  BacktestInv'
<1>1. /\ UNCHANGED <<tested, cash, held, entry, trades, curve, peak, fall, slices>>
      /\ phase' \in {"idle", "reported", phase}
  BY DEF BacktestRaises, ReportBacktest, backtestVars
<1> QED
  BY <1>1 DEF BacktestInv, BacktestTyped, Holds, Accounted, Deepest

LEMMA Spread ==
  ASSUME NEW p \in Int, NEW q \in Int, NEW n \in Int
  PROVE  (p - q) * n = n * p - n * q /\ n * p \in Int /\ n * q \in Int /\ p * n = n * p
OBVIOUS

LEMMA Prices ==
  ASSUME NEW close \in Closes
  PROVE  close \in Nat /\ BuyPrice(close) \in Nat /\ SellPrice(close) \in Nat
BY DEF BuyPrice, SellPrice

\* The account after the bar's order.
Filled(close) ==
  /\ cash' \in Int /\ held' \in Nat
  /\ entry' \in [price : Nat, qty : Nat, commission : Nat]
  /\ trades' \in Seq(Int)
  /\ held' = entry'.qty /\ (held' = 0 => entry' = NoEntry)
  /\ curve[1] + Total(trades') = cash' + entry'.qty * entry'.price + entry'.commission

LEMMA BuysFilled ==
  ASSUME BacktestInv, NEW close \in Closes, NEW qty \in Nat \ {0}, held = 0, Buys(qty, close)
  PROVE  Filled(close) /\ held' \in {0, qty}
<1> DEFINE price == BuyPrice(close)  cost == qty * price + Commission
<1>1. price \in Nat /\ qty * price \in Nat /\ Commission \in Nat
  BY Prices
<1>2. CASE cash >= cost
  <2>1. /\ cash' = cash - cost /\ held' = held + qty /\ trades' = trades
        /\ entry' = [price |-> price, qty |-> qty, commission |-> Commission]
    BY <1>2 DEF Buys
  <2>2. /\ cash \in Int /\ held = 0 /\ curve[1] \in Nat /\ trades \in Seq(Int)
        /\ entry = NoEntry /\ curve[1] + Total(trades) = cash + entry.qty * entry.price + entry.commission
    BY DEF BacktestInv, BacktestTyped, Holds, Accounted
  <2>3. curve[1] + Total(trades) = cash
    BY <2>2 DEF NoEntry
  <2> HIDE DEF price
  <2>4. entry'.qty = qty /\ entry'.price = price /\ entry'.commission = Commission
    BY <2>1
  <2>5. cash = cash' + qty * price + Commission
    BY <1>1, <2>1, <2>2
  <2>6. held' = qty /\ entry' \in [price : Nat, qty : Nat, commission : Nat] /\ cash' \in Int
    BY <1>1, <2>1, <2>2
  <2> QED
    BY <2>1, <2>2, <2>3, <2>4, <2>5, <2>6 DEF Filled
<1>3. CASE ~(cash >= cost)
  BY <1>3 DEF Buys, Filled, BacktestInv, BacktestTyped, Holds, Accounted
<1> QED
  BY <1>2, <1>3

LEMMA SellsFilled ==
  ASSUME BacktestInv, NEW close \in Closes, NEW qty \in Nat \ {0}, held \in {0, qty},
         Sells(qty, close)
  PROVE  Filled(close) /\ held' = 0
<1> DEFINE price == SellPrice(close)
<1>1. price \in Nat /\ Commission \in Nat
  BY Prices
<1>2. /\ cash \in Int /\ curve[1] \in Nat /\ trades \in Seq(Int)
      /\ entry \in [price : Nat, qty : Nat, commission : Nat] /\ held = entry.qty
      /\ curve[1] + Total(trades) = cash + entry.qty * entry.price + entry.commission
      /\ (held = 0 => entry = NoEntry)
  BY DEF BacktestInv, BacktestTyped, Holds, Accounted
<1>3. CASE held = qty
  <2> DEFINE net == (price - entry.price) * qty - (entry.commission + Commission)
  <2>1. entry # NoEntry /\ held > 0
    <3>1. NoEntry.qty = 0
      BY DEF NoEntry
    <3>2. entry # NoEntry
      <4>1. entry.qty # 0
        BY <1>2, <1>3
      <4> QED BY <3>1, <4>1
    <3>3. held > 0
      BY <1>3
    <3> QED BY <3>2, <3>3
  <2>2. /\ cash' = cash + qty * price - Commission /\ held' = held - qty /\ entry' = NoEntry
        /\ trades' = Append(trades, net)
    BY <1>3, <2>1 DEF Sells, NetResult
  <2> DEFINE got == qty * price  paid == qty * entry.price  fee == entry.commission
             all == Total(trades)
  <2>3. (price - entry.price) * qty = got - paid /\ got \in Int /\ paid \in Int
    <3>1. price \in Int /\ entry.price \in Int /\ qty \in Int
      BY <1>1, <1>2
    <3> HIDE DEF price
    <3> QED BY <3>1, Spread
  <2>6. fee \in Nat /\ entry.qty = qty /\ Commission \in Nat /\ curve[1] \in Nat
    BY <1>1, <1>2, <1>3
  <2>7. curve[1] + all = cash + paid + fee
    BY <1>2, <2>6
  <2>4. net \in Int /\ net = got - paid - fee - Commission
    <3>1. net = (got - paid) - (fee + Commission)
      BY <2>3
    <3> HIDE DEF net, got, paid, fee
    <3> QED BY <2>3, <2>6, <3>1
  <2> HIDE DEF net, price, paid, got, fee, all
  <2>5. Total(trades') = all + net /\ all \in Int /\ trades' \in Seq(Int)
    BY <1>2, <2>2, <2>4, TotalAppend DEF all
  <2>11. cash' = cash + got - Commission
    BY <2>2 DEF got
  <2>8. curve[1] + Total(trades') = cash'
    <3> DEFINE start == curve[1]  final == Total(trades')
    <3>1. /\ start \in Int /\ cash \in Int /\ all \in Int /\ got \in Int /\ paid \in Int
          /\ fee \in Int /\ Commission \in Int /\ net \in Int
      BY <1>1, <1>2, <2>3, <2>4, <2>5, <2>6, SMTT(30)
    <3>2. /\ final = all + net /\ net = got - paid - fee - Commission
          /\ start + all = cash + paid + fee /\ cash' = cash + got - Commission
      BY <2>4, <2>5, <2>7, <2>11
    <3> HIDE DEF start, final
    <3>3. start + final = cash'
      BY <3>1, <3>2
    <3> QED BY <3>3 DEF start, final
  <2>9. cash' \in Int /\ held' = 0
    BY <1>1, <1>2, <1>3, <2>2, <2>3, <2>11
  <2>10. /\ entry' \in [price : Nat, qty : Nat, commission : Nat] /\ entry'.qty = 0
         /\ cash' + entry'.qty * entry'.price + entry'.commission = cash'
    BY <2>2, <2>9 DEF NoEntry
  <2> QED
    BY <2>2, <2>5, <2>8, <2>9, <2>10 DEF Filled
<1>4. CASE held = 0
  <2>1. UNCHANGED <<cash, held, entry, trades>>
    BY <1>4 DEF Sells
  <2> QED
    BY <1>2, <1>4, <2>1 DEF Filled
<1> QED
  BY <1>3, <1>4

LEMMA BarSimulated ==
  ASSUME BacktestInv, NEW close \in Closes, SimulateBar(close)
  PROVE  BacktestInv'
<1> DEFINE ran == OnBar(tested, close)  qty == tested.setting.qty  equity == cash' + held' * close
<1>1. /\ phase = "running" /\ ~ran.raised /\ tested' = ran.inst
      /\ tested \in InstanceOf(Runnable \cup {NoSetting}) /\ tested.setting \in Runnable
      /\ qty \in Nat
  BY DEF SimulateBar, BacktestInv, BacktestTyped, Runnable, StrategySetting
<1>2. /\ tested' \in InstanceOf(Runnable \cup {NoSetting})
      /\ tested'.setting = tested.setting
  BY <1>1, OnBarTyped
<1>3. \/ ran.signal = Flat /\ tested'.last = tested.last
      \/ /\ ran.signal \in Sides /\ ran.signal # tested.last
         /\ tested'.last = ran.signal /\ qty # 0
  <2> HIDE DEF qty
  <2> QED BY <1>1, OnBarTurns DEF qty
<1>5. Filled(close) /\ (held' # 0 => tested'.last = "BUY" /\ held' = qty)
  <2>1. CASE ran.signal = "BUY"
    <3>1. Buys(qty, close)
      BY <2>1 DEF SimulateBar
    <3>2. qty \in Nat \ {0} /\ tested.last # "BUY" /\ tested'.last = "BUY"
      <4> HIDE DEF ran, qty
      <4> QED BY <1>1, <1>3, <2>1 DEF Flat
    <3>3. held = 0
      BY <3>2 DEF BacktestInv, Holds
    <3> HIDE DEF qty
    <3>4. Filled(close) /\ held' \in {0, qty}
      BY <3>1, <3>2, <3>3, BuysFilled
    <3> QED BY <3>2, <3>4
  <2>2. CASE ran.signal = "SELL"
    <3>1. Sells(qty, close)
      BY <2>2 DEF SimulateBar
    <3>2. qty \in Nat \ {0}
      <4> HIDE DEF ran, qty
      <4> QED BY <1>1, <1>3, <2>2 DEF Flat
    <3>3. held \in {0, qty}
      BY DEF BacktestInv, Holds
    <3> HIDE DEF qty
    <3>4. Filled(close) /\ held' = 0
      BY <3>1, <3>2, <3>3, SellsFilled
    <3> QED BY <3>4
  <2>3. CASE ran.signal = Flat
    <3>1. UNCHANGED <<cash, held, entry, trades>>
      BY <2>3 DEF SimulateBar, Flat
    <3>2. tested'.last = tested.last
      <4> HIDE DEF ran, qty
      <4> QED BY <1>3, <2>3 DEF Flat, Sides
    <3> QED
      BY <3>1, <3>2 DEF Filled, BacktestInv, BacktestTyped, Holds, Accounted
  <2> HIDE DEF ran, qty
  <2> QED
    BY <1>3, <2>1, <2>2, <2>3 DEF Sides
<1>6. equity \in Int /\ close \in Nat
  BY <1>5, Prices DEF Filled
<1>7. /\ phase' = phase /\ slices' = slices /\ curve' = Append(curve, equity)
      /\ peak' = IF equity > peak THEN equity ELSE peak
      /\ fall' = IF peak' - equity > fall THEN peak' - equity ELSE fall
  BY DEF SimulateBar
<1> HIDE DEF equity, ran
<1>8. /\ curve \in Seq(Int) /\ curve # <<>> /\ curve[1] \in Nat /\ peak \in Nat /\ fall \in Nat
      /\ slices \in 0..(2 * MaxWindows - 1) /\ Deepest(curve, peak, fall)
  BY DEF BacktestInv, BacktestTyped
<1>9. peak' \in Nat /\ fall' \in Nat /\ Deepest(curve', peak', fall')
  BY <1>6, <1>7, <1>8, DeepestGrows
<1>10. curve' \in Seq(Int) /\ curve' # <<>> /\ curve'[1] = curve[1]
  BY <1>6, <1>7, <1>8
<1>11. BacktestTyped'
  BY <1>1, <1>2, <1>5, <1>7, <1>8, <1>9, <1>10, NoSettingNotRunnable DEF BacktestTyped, Filled
<1>12. Holds' /\ Accounted'
  BY <1>2, <1>5, <1>10 DEF Holds, Accounted, Filled
<1> QED
  BY <1>9, <1>11, <1>12 DEF BacktestInv

LEMMA BacktestStep == BacktestInv /\ [BacktestNext]_backtestVars => BacktestInv'
BY RunBacktestRuns, NextSliceRuns, EndRuns, BarSimulated DEF BacktestNext

LEMMA AlwaysBacktest == BacktestSpec => []BacktestInv
BY InitBacktest, BacktestStep, PTL DEF BacktestSpec

LEMMA BacktestIsTyped == BacktestInv => BacktestTypeOK
BY DEF BacktestInv, BacktestTyped, BacktestTypeOK, InstanceOf, Runnable

(* Every variable of a backtest keeps its type.                              *)
THEOREM BacktestsTyped == BacktestSpec => []BacktestTypeOK
BY AlwaysBacktest, BacktestIsTyped, PTL

(* What a backtest started with and the net of its closed trades are its cash*)
(* and the cost of what it holds, and the reported drawdown is the deepest   *)
(* fall of its equity curve (event_driven_engine).                           *)
THEOREM BacktestsAddUp == BacktestSpec => []BacktestAddsUp
<1>1. BacktestInv => BacktestAddsUp
  BY DEF BacktestInv, Holds, Accounted, Deepest, BacktestAddsUp
<1> QED
  BY AlwaysBacktest, <1>1, PTL
=============================================================================
