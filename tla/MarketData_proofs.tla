--------------------------- MODULE MarketData_proofs ---------------------------
(***************************************************************************)
(* Proofs about MarketData: its type invariant, the order of the bars, what *)
(* the guard sees, that it implements StalenessGuard, that the candles are   *)
(* what a replay of the ticks gives, and that timeframes agree.              *)
(***************************************************************************)
EXTENDS MarketData, Aggregates, SequenceTheorems, TLAPS

USE MarketDataAssumption
-----------------------------------------------------------------------------
(* Arithmetic of the buckets.                                               *)

\* What division is.
LEMMA DivDef ==
  ASSUME NEW a \in Nat, NEW w \in Nat \ {0}
  PROVE  /\ a \div w \in Nat
         /\ (a \div w) * w <= a
         /\ a < ((a \div w) + 1) * w
OBVIOUS

LEMMA TimesMonotone ==
  ASSUME NEW x \in Int, NEW y \in Int, NEW w \in Nat \ {0}, x <= y
  PROVE  x * w <= y * w
OBVIOUS

LEMMA DivMonotone ==
  ASSUME NEW a \in Nat, NEW b \in Nat, NEW w \in Nat \ {0}, a <= b
  PROVE  a \div w <= b \div w
<1> SUFFICES ASSUME b \div w < a \div w PROVE FALSE
  BY DivDef
<1>1. PICK q \in Nat : q = a \div w
  BY DivDef
<1>2. PICK p \in Nat : p = b \div w
  BY DivDef
<1>3. q * w <= a /\ b < (p + 1) * w
  BY <1>1, <1>2, DivDef
<1>4. (p + 1) * w <= q * w
  BY <1>1, <1>2, TimesMonotone
<1>5. (p + 1) * w \in Int /\ q * w \in Int
  OBVIOUS
<1> QED
  BY <1>3, <1>4, <1>5

\* A later tick is in the same bucket or in a later one.
LEMMA BarStartMonotone ==
  ASSUME NEW tf \in Timeframes, NEW t \in Tick, NEW u \in Tick, t.at <= u.at
  PROVE  /\ BarStart(tf, t) \in Nat /\ BarStart(tf, u) \in Nat
         /\ BarStart(tf, t) <= BarStart(tf, u)
<1>1. t.at \in Nat /\ u.at \in Nat /\ Width[tf] \in Nat \ {0}
  BY DEF Tick, Times
<1>2. t.at \div Width[tf] \in Nat /\ u.at \div Width[tf] \in Nat
  BY <1>1, DivDef
<1>3. t.at \div Width[tf] <= u.at \div Width[tf]
  BY <1>1, DivMonotone
<1>4. (t.at \div Width[tf]) * Width[tf] <= (u.at \div Width[tf]) * Width[tf]
  BY <1>1, <1>2, <1>3, TimesMonotone
<1> QED
  BY <1>1, <1>2, <1>4 DEF BarStart
-----------------------------------------------------------------------------
(* Types.                                                                   *)

LEMMA BarsTyped ==
  ASSUME NEW tf \in Timeframes, NEW t \in Tick
  PROVE  /\ BarStart(tf, t) \in Nat
         /\ NewBar(tf, t) \in Bar /\ NewBar(tf, t).start = BarStart(tf, t)
         /\ \A bar \in Bar : Extend(bar, t) \in Bar /\ Extend(bar, t).start = bar.start
<1>1. t.at \in Nat /\ t.price \in Nat /\ t.qty \in Nat
  BY DEF Tick, Times
<1>2. BarStart(tf, t) \in Nat
  BY BarStartMonotone, <1>1
<1>3. NewBar(tf, t) \in Bar /\ NewBar(tf, t).start = BarStart(tf, t)
  BY <1>1, <1>2 DEF NewBar, Bar
<1>4. \A bar \in Bar : Extend(bar, t) \in Bar /\ Extend(bar, t).start = bar.start
  <2> SUFFICES ASSUME NEW bar \in Bar
               PROVE  Extend(bar, t) \in Bar /\ Extend(bar, t).start = bar.start
    OBVIOUS
  <2> DEFINE hi == IF t.price > bar.high THEN t.price ELSE bar.high
             lo == IF t.price < bar.low THEN t.price ELSE bar.low
             vol == bar.volume + t.qty
  <2>1. hi \in Nat /\ lo \in Nat /\ vol \in Nat
    BY <1>1 DEF Bar
  <2>2. Extend(bar, t) = [bar EXCEPT !.high = hi, !.low = lo, !.close = t.price, !.volume = vol]
    BY DEF Extend
  <2> HIDE DEF hi, lo, vol
  <2> QED
    BY <1>1, <2>1, <2>2 DEF Bar
<1> QED
  BY <1>2, <1>3, <1>4

\* Appending a bar to a full history drops the oldest.
LEMMA TrimTyped ==
  ASSUME NEW bars \in Seq(Bar), Len(bars) <= MaxHistory, NEW b \in Bar
  PROVE  /\ Trimmed(Append(bars, b)) \in Seq(Bar)
         /\ Len(Trimmed(Append(bars, b))) <= MaxHistory
<1>1. Append(bars, b) \in Seq(Bar) /\ Len(Append(bars, b)) = Len(bars) + 1
  OBVIOUS
<1>2. CASE Len(bars) + 1 > MaxHistory
  <2>1. Trimmed(Append(bars, b)) = Tail(Append(bars, b))
    BY <1>1, <1>2 DEF Trimmed
  <2> QED
    BY <1>1, <2>1
<1>3. CASE ~(Len(bars) + 1 > MaxHistory)
  BY <1>1, <1>3 DEF Trimmed
<1> QED
  BY <1>2, <1>3

LEMMA InitTyped == Init => TypeOK
<1> SUFFICES ASSUME Init PROVE TypeOK
  OBVIOUS
<1>1. <<>> \in Seq(Bar) /\ <<>> \in Seq(Tick) /\ Len(<<>>) = 0
  OBVIOUS
<1> QED
  BY <1>1 DEF Init, TypeOK

LEMMA IngestTyped ==
  ASSUME TypeOK, NEW t \in Tick, Ingest(t)
  PROVE  TypeOK'
<1>1. active' \in [Timeframes -> Bar \cup {NoBar}]
  <2> SUFFICES ASSUME NEW tf \in Timeframes
               PROVE  (IF Belongs(tf, t) THEN Extend(active[tf], t) ELSE NewBar(tf, t)) \in Bar
    BY DEF Ingest
  <2> QED
    BY BarsTyped DEF TypeOK, Belongs
<1>2. \A tf \in Timeframes :
        completed'[tf] \in Seq(Bar) /\ Len(completed'[tf]) <= MaxHistory
  <2> SUFFICES ASSUME NEW tf \in Timeframes
               PROVE  completed'[tf] \in Seq(Bar) /\ Len(completed'[tf]) <= MaxHistory
    OBVIOUS
  <2>1. CASE Completes(tf, t)
    BY <2>1, TrimTyped DEF Ingest, Completes, TypeOK
  <2>2. CASE ~Completes(tf, t)
    BY <2>2 DEF Ingest, TypeOK
  <2> QED
    BY <2>1, <2>2
<1>3. completed' \in [Timeframes -> Seq(Bar)]
  BY <1>2 DEF Ingest
<1>4. clock' \in Nat /\ latest' \in Tick \cup {NoTick} /\ log' \in Seq(Tick)
  BY DEF Ingest, TypeOK
<1> QED
  BY <1>1, <1>2, <1>3, <1>4 DEF TypeOK

LEMMA StepTyped == TypeOK /\ [Next]_vars => TypeOK'
<1> SUFFICES ASSUME TypeOK, [Next]_vars PROVE TypeOK'
  OBVIOUS
<1>1. CASE TimePasses
  BY <1>1 DEF TimePasses, TypeOK
<1>2. ASSUME NEW t \in Tick, Ingest(t) PROVE TypeOK'
  BY <1>2, IngestTyped
<1>3. CASE UNCHANGED vars
  BY <1>3 DEF vars, TypeOK
<1> QED
  BY <1>1, <1>2, <1>3 DEF Next

(* Every variable keeps its type, and no timeframe keeps more than           *)
(* MaxHistory completed bars.                                               *)
THEOREM TypeCorrect == Spec => []TypeOK
BY InitTyped, StepTyped, PTL DEF Spec
-----------------------------------------------------------------------------
(* The order of the bars.                                                   *)

Increasing(bars) == \A i, j \in DOMAIN bars : i < j => bars[i].start < bars[j].start

AllBefore(bars, time) == \A i \in DOMAIN bars : bars[i].start < time

\* The strengthening: the latest tick is the last of the log, the bar in
\* progress is its bucket's, and the completed bars are increasing and before it.
Chronicle ==
  /\ latest = IF log = <<>> THEN NoTick ELSE log[Len(log)]
  /\ \A tf \in Timeframes :
       /\ active[tf] = NoBar <=> log = <<>>
       /\ active[tf] # NoBar => active[tf].start = BarStart(tf, latest)
       /\ log = <<>> => completed[tf] = <<>>
       /\ InOrder(log) => /\ Increasing(completed[tf])
                          /\ active[tf] # NoBar => AllBefore(completed[tf], active[tf].start)

\* A longer log that is in order was in order before, and ends in its latest.
LEMMA InOrderPrefix ==
  ASSUME NEW ticks \in Seq(Tick), NEW t \in Tick, InOrder(Append(ticks, t))
  PROVE  /\ InOrder(ticks)
         /\ ticks # <<>> => ticks[Len(ticks)].at <= t.at
<1> DEFINE longer == Append(ticks, t)
<1>1. /\ longer \in Seq(Tick) /\ DOMAIN longer = 1 .. Len(ticks) + 1
      /\ DOMAIN ticks = 1 .. Len(ticks) /\ Len(ticks) \in Nat
      /\ \A i \in 1 .. Len(ticks) : longer[i] = ticks[i]
      /\ longer[Len(ticks) + 1] = t
  OBVIOUS
<1>2. \A i, j \in DOMAIN longer : i < j => longer[i].at <= longer[j].at
  BY DEF InOrder
<1> HIDE DEF longer
<1>3. InOrder(ticks)
  BY <1>1, <1>2 DEF InOrder
<1>4. ASSUME ticks # <<>> PROVE ticks[Len(ticks)].at <= t.at
  <2>1. Len(ticks) \in 1 .. Len(ticks)
    BY <1>4
  <2>2. Len(ticks) \in DOMAIN longer /\ Len(ticks) + 1 \in DOMAIN longer
    BY <1>1, <2>1
  <2>3. longer[Len(ticks)].at <= longer[Len(ticks) + 1].at
    BY <1>1, <1>2, <2>2
  <2> QED
    BY <1>1, <2>1, <2>3
<1> QED
  BY <1>3, <1>4

\* A bar after increasing bars, and the oldest dropped, leaves them increasing.
LEMMA TrimIncreasing ==
  ASSUME NEW bars \in Seq(Bar), NEW b \in Bar, Increasing(bars), AllBefore(bars, b.start)
  PROVE  /\ Increasing(Trimmed(Append(bars, b)))
         /\ \A time \in Nat : b.start < time => AllBefore(Trimmed(Append(bars, b)), time)
<1> DEFINE longer == Append(bars, b)
           result == Trimmed(longer)
<1>1. /\ DOMAIN longer = 1 .. Len(bars) + 1 /\ longer \in Seq(Bar)
      /\ Len(longer) = Len(bars) + 1
      /\ DOMAIN bars = 1 .. Len(bars) /\ Len(bars) \in Nat
      /\ \A i \in 1 .. Len(bars) : longer[i] = bars[i]
      /\ longer[Len(bars) + 1] = b
  OBVIOUS
<1>2. b.start \in Nat /\ \A i \in 1 .. Len(bars) : bars[i].start \in Nat
  <2>1. \A i \in 1 .. Len(bars) : bars[i] \in Bar
    OBVIOUS
  <2>2. \A x \in Bar : x.start \in Nat
    BY DEF Bar
  <2> QED
    BY <2>1, <2>2
<1> HIDE DEF longer
<1>3. /\ \A i \in DOMAIN longer : i \in 1 .. Len(bars) \/ i = Len(bars) + 1
      /\ \A i \in 1 .. Len(bars) : longer[i].start \in Nat /\ longer[i].start < b.start
  <2>1. \A i \in DOMAIN longer : i \in 1 .. Len(bars) \/ i = Len(bars) + 1
    BY <1>1
  <2>2. \A i \in 1 .. Len(bars) : bars[i].start < b.start
    BY <1>1 DEF AllBefore
  <2> QED
    BY <1>1, <1>2, <2>1, <2>2
<1>4. \A i \in DOMAIN longer : longer[i].start \in Nat /\ longer[i].start <= b.start
  BY <1>1, <1>2, <1>3
<1>5. \A i, j \in DOMAIN longer : i < j => longer[i].start < longer[j].start
  BY <1>1, <1>3 DEF Increasing
<1>6. \/ result = longer
      \/ /\ DOMAIN result = 1 .. Len(bars)
         /\ \A i \in 1 .. Len(bars) : i + 1 \in DOMAIN longer /\ result[i] = longer[i + 1]
  BY <1>1 DEF Trimmed
<1> HIDE DEF result
<1>7. Increasing(result) /\ \A i \in DOMAIN result : result[i].start \in Nat /\ result[i].start <= b.start
  <2>1. CASE result = longer
    BY <1>4, <1>5, <2>1 DEF Increasing
  <2>2. CASE /\ DOMAIN result = 1 .. Len(bars)
             /\ \A i \in 1 .. Len(bars) : i + 1 \in DOMAIN longer /\ result[i] = longer[i + 1]
    <3>1. ASSUME NEW i \in DOMAIN result, NEW j \in DOMAIN result, i < j
          PROVE  result[i].start < result[j].start
      <4>1. i + 1 \in DOMAIN longer /\ j + 1 \in DOMAIN longer /\ i + 1 < j + 1
        BY <2>2, <3>1
      <4> QED
        BY <1>5, <2>2, <4>1
    <3> QED
      BY <1>4, <2>2, <3>1 DEF Increasing
  <2> QED
    BY <1>6, <2>1, <2>2
<1>8. \A time \in Nat : b.start < time => AllBefore(result, time)
  BY <1>7 DEF AllBefore, Bar
<1> QED
  BY <1>7, <1>8 DEF result, longer

LEMMA IngestChronicle ==
  ASSUME TypeOK, Chronicle, NEW t \in Tick, Ingest(t)
  PROVE  Chronicle'
<1>1. /\ log \in Seq(Tick) /\ log' = Append(log, t) /\ latest' = t
      /\ log' # <<>> /\ log'[Len(log')] = t
  <2>1. log \in Seq(Tick) /\ log' = Append(log, t) /\ latest' = t
    BY DEF Ingest, TypeOK
  <2>2. Append(log, t) # <<>> /\ Append(log, t)[Len(Append(log, t))] = t
    BY <2>1
  <2> QED
    BY <2>1, <2>2
<1>2. latest' = IF log' = <<>> THEN NoTick ELSE log'[Len(log')]
  BY <1>1
<1> SUFFICES ASSUME NEW tf \in Timeframes
             PROVE  /\ active'[tf] # NoBar
                    /\ active'[tf].start = BarStart(tf, t)
                    /\ InOrder(log') => /\ Increasing(completed'[tf])
                                        /\ AllBefore(completed'[tf], active'[tf].start)
  BY <1>1, <1>2 DEF Chronicle, BarStart
<1>3. /\ active'[tf] = IF Belongs(tf, t) THEN Extend(active[tf], t) ELSE NewBar(tf, t)
      /\ completed'[tf] = IF Completes(tf, t) THEN Trimmed(Append(completed[tf], active[tf]))
                          ELSE completed[tf]
      /\ active[tf] \in Bar \cup {NoBar} /\ completed[tf] \in Seq(Bar)
  BY DEF Ingest, TypeOK
<1>4. active'[tf] \in Bar /\ active'[tf].start = BarStart(tf, t) /\ BarStart(tf, t) \in Nat
  BY <1>3, BarsTyped DEF Belongs
<1>5. active'[tf] # NoBar
  BY <1>4
<1>6. ASSUME InOrder(log')
      PROVE  Increasing(completed'[tf]) /\ AllBefore(completed'[tf], active'[tf].start)
  <2>1. InOrder(log) /\ (log # <<>> => log[Len(log)].at <= t.at)
    BY <1>1, <1>6, InOrderPrefix
  <2>2. CASE active[tf] = NoBar
    <3>1. completed'[tf] = <<>>
      BY <1>3, <2>2 DEF Chronicle, Completes
    <3> QED
      BY <3>1 DEF Increasing, AllBefore
  <2>3. CASE active[tf] # NoBar
    <3>1. /\ log # <<>> /\ latest = log[Len(log)] /\ latest \in Tick
          /\ Increasing(completed[tf]) /\ AllBefore(completed[tf], active[tf].start)
          /\ active[tf].start = BarStart(tf, latest) /\ active[tf] \in Bar
      BY <1>3, <2>1, <2>3 DEF Chronicle, TypeOK
    <3>2. BarStart(tf, latest) <= BarStart(tf, t) /\ BarStart(tf, latest) \in Nat
      BY <2>1, <3>1, BarStartMonotone
    <3>3. CASE Belongs(tf, t)
      BY <1>3, <1>4, <3>1, <3>3 DEF Belongs, Completes
    <3>4. CASE ~Belongs(tf, t)
      <4>1. /\ completed'[tf] = Trimmed(Append(completed[tf], active[tf]))
            /\ active[tf].start < BarStart(tf, t)
        BY <1>3, <1>4, <2>3, <3>1, <3>2, <3>4 DEF Completes, Belongs
      <4> QED
        BY <1>3, <1>4, <3>1, <4>1, TrimIncreasing
    <3> QED
      BY <3>3, <3>4
  <2> QED
    BY <2>2, <2>3
<1> QED
  BY <1>4, <1>5, <1>6

LEMMA ChronicleKept == Spec => [](TypeOK /\ Chronicle)
<1>1. Init => TypeOK /\ Chronicle
  <2> SUFFICES ASSUME Init PROVE Chronicle
    BY InitTyped
  <2> QED
    BY DEF Init, Chronicle, Increasing
<1>2. TypeOK /\ Chronicle /\ [Next]_vars => (TypeOK /\ Chronicle)'
  <2> SUFFICES ASSUME TypeOK, Chronicle, [Next]_vars PROVE Chronicle'
    BY StepTyped
  <2>1. CASE TimePasses \/ UNCHANGED vars
    BY <2>1 DEF TimePasses, vars, Chronicle, BarStart
  <2>2. ASSUME NEW t \in Tick, Ingest(t) PROVE Chronicle'
    BY <2>2, IngestChronicle
  <2> QED
    BY <2>1, <2>2 DEF Next
<1> QED
  BY <1>1, <1>2, PTL DEF Spec

(* From a feed that keeps order, the bars of every timeframe increase: no    *)
(* bucket has two bars, and none is reopened once completed.                 *)
THEOREM BarsInOrder == Spec => []BarsIncrease
<1>1. TypeOK /\ Chronicle => BarsIncrease
  <2> SUFFICES ASSUME TypeOK, Chronicle, InOrder(log), NEW tf \in Timeframes
               PROVE  Increasing(Bars(tf))
    BY DEF BarsIncrease, Increasing
  <2>1. completed[tf] \in Seq(Bar) /\ active[tf] \in Bar \cup {NoBar}
    BY DEF TypeOK
  <2>2. CASE active[tf] = NoBar
    BY <2>2 DEF Bars, Chronicle
  <2>3. CASE active[tf] # NoBar
    <3> DEFINE b == active[tf]
               bars == completed[tf]
    <3>1. Bars(tf) = Append(bars, b) /\ Increasing(bars) /\ AllBefore(bars, b.start)
      BY <2>3 DEF Bars, Chronicle
    <3>2. b \in Bar /\ bars \in Seq(Bar)
      BY <2>1, <2>3
    <3> HIDE DEF b, bars
    <3>3. /\ DOMAIN Append(bars, b) = 1 .. Len(bars) + 1
          /\ DOMAIN bars = 1 .. Len(bars) /\ Len(bars) \in Nat
          /\ \A i \in 1 .. Len(bars) : Append(bars, b)[i] = bars[i]
          /\ Append(bars, b)[Len(bars) + 1] = b
      BY <3>2
    <3> QED
      BY <3>1, <3>3 DEF Increasing, AllBefore
  <2> QED
    BY <2>2, <2>3
<1> QED
  BY <1>1, ChronicleKept, PTL
-----------------------------------------------------------------------------
(* The guard.                                                               *)

(* From a feed that keeps order, the guard passes exactly when some tick is  *)
(* no older than the threshold.                                              *)
THEOREM GuardSeesTheNewest == Spec => []GuardSeesAnyFreshTick
<1>1. TypeOK /\ Chronicle => GuardSeesAnyFreshTick
  <2> SUFFICES ASSUME TypeOK, Chronicle, InOrder(log)
               PROVE  GuardView = "fresh" <=> \E i \in DOMAIN log : clock <= log[i].at + Threshold
    BY DEF GuardSeesAnyFreshTick
  <2>1. /\ log \in Seq(Tick) /\ DOMAIN log = 1 .. Len(log) /\ Len(log) \in Nat
        /\ \A i \in DOMAIN log : log[i] \in Tick /\ log[i].at \in Nat
        /\ clock \in Nat
    BY DEF TypeOK, Tick, Times
  <2>2. CASE log = <<>>
    BY <2>1, <2>2 DEF Chronicle, GuardView
  <2>3. CASE log # <<>>
    <3>1. /\ Len(log) \in DOMAIN log /\ latest = log[Len(log)]
          /\ latest # NoTick /\ latest.at \in Nat
      BY <2>1, <2>3 DEF Chronicle
    <3>2. \A i \in DOMAIN log : log[i].at <= latest.at
      BY <2>1, <3>1 DEF InOrder
    <3>3. GuardView = "fresh" <=> clock <= latest.at + Threshold
      BY <2>1, <3>1 DEF GuardView, IsStale, Age
    <3> QED
      BY <2>1, <3>1, <3>2, <3>3
  <2> QED
    BY <2>2, <2>3
<1> QED
  BY <1>1, ChronicleKept, PTL

(* The market data implements the view of it that OrderManagement assumes.   *)
THEOREM GuardImplemented == Spec => ImplementsGuard
<1>1. Init => Guard!Init
  BY DEF Init, Guard!Init, GuardView
<1>2. TypeOK /\ [Next]_vars => [Guard!Next]_(Guard!vars)
  <2> SUFFICES ASSUME TypeOK, [Next]_vars PROVE [Guard!Next]_(Guard!vars)
    OBVIOUS
  <2>1. ASSUME NEW t \in Tick, Ingest(t) PROVE Guard!Arrives
    <3>1. Len(log') = Len(log) + 1
      BY <2>1 DEF Ingest, TypeOK
    <3> QED
      BY <2>1, <3>1 DEF Ingest, Guard!Arrives, GuardView
  <2>2. CASE TimePasses
    <3>1. latest' = latest /\ log' = log /\ clock \in Nat /\ clock' = clock + 1
      BY <2>2 DEF TimePasses, TypeOK
    <3>2. CASE latest = NoTick
      BY <3>1, <3>2 DEF GuardView, Guard!vars
    <3>3. CASE latest # NoTick
      <4>1. latest.at \in Nat
        BY <3>3 DEF TypeOK, Tick, Times
      <4>2. IsStale(latest) => IsStale(latest)'
        BY <3>1, <4>1 DEF IsStale, Age
      <4>3. /\ GuardView = IF IsStale(latest) THEN "stale" ELSE "fresh"
            /\ GuardView' = IF IsStale(latest)' THEN "stale" ELSE "fresh"
        BY <3>1, <3>3 DEF GuardView
      <4> QED
        BY <3>1, <4>2, <4>3 DEF Guard!Next, Guard!Ages, Guard!vars
    <3> QED
      BY <3>2, <3>3
  <2>3. CASE UNCHANGED vars
    BY <2>3 DEF vars, GuardView, IsStale, Age, Guard!vars
  <2> QED
    BY <2>1, <2>2, <2>3 DEF Next, Guard!Next
<1> QED
  BY <1>1, <1>2, TypeCorrect, PTL DEF Spec, ImplementsGuard, Guard!Spec
-----------------------------------------------------------------------------
(* Bars made of ticks.                                                      *)

\* The prices of some ticks.
Prices(ticks, I) == {ticks[i].price : i \in I}

LEMMA TicksTyped ==
  ASSUME NEW ticks \in Seq(Tick), NEW i \in 1 .. Len(ticks)
  PROVE  ticks[i] \in Tick /\ ticks[i].price \in Nat /\ ticks[i].qty \in Nat /\ ticks[i].at \in Nat
<1>1. ticks[i] \in Tick
  OBVIOUS
<1> QED
  BY <1>1 DEF Tick, Times

LEMMA EndsExist ==
  ASSUME NEW n \in Nat, NEW I \in SUBSET (1 .. n), I # {}
  PROVE  /\ Min(I) \in I /\ \A i \in I : Min(I) <= i
         /\ Max(I) \in I /\ \A i \in I : Max(I) >= i
         /\ IsFiniteSet(I)
<1>1. IsFiniteSet(1 .. n) /\ I \subseteq Nat /\ I \subseteq Int
  BY FS_Interval
<1>2. IsFiniteSet(I)
  BY <1>1, FS_Subset
<1> QED
  BY <1>1, <1>2, LeastExists, GreatestExists

LEMMA PriceRange ==
  ASSUME NEW ticks \in Seq(Tick), NEW I \in SUBSET (1 .. Len(ticks)), I # {}
  PROVE  /\ Prices(ticks, I) \subseteq Nat
         /\ Min(Prices(ticks, I)) \in Prices(ticks, I) /\ Max(Prices(ticks, I)) \in Prices(ticks, I)
         /\ \A p \in Prices(ticks, I) : Min(Prices(ticks, I)) <= p /\ Max(Prices(ticks, I)) >= p
<1>1. Prices(ticks, I) \subseteq Nat /\ Prices(ticks, I) # {}
  BY TicksTyped DEF Prices
<1>2. IsFiniteSet(Prices(ticks, I))
  <2>0. Len(ticks) \in Nat
    OBVIOUS
  <2>1. IsFiniteSet(I)
    BY <2>0, EndsExist
  <2>2. Prices(ticks, I) = {[j \in I |-> ticks[j].price][i] : i \in I}
    BY DEF Prices
  <2> DEFINE f == [i \in I |-> ticks[i].price]
  <2>3. f \in Surjection(I, Prices(ticks, I))
    BY DEF Surjection, Prices
  <2> QED
    BY <2>1, <2>3, FS_Surjection
<1> QED
  BY <1>1, <1>2, LeastExists, GreatestExists

\* A tick that comes later changes no bar made of earlier ones.
LEMMA BarStays ==
  ASSUME NEW tf \in Timeframes, NEW ticks \in Seq(Tick), NEW t \in Tick,
         NEW I \in SUBSET (1 .. Len(ticks)), I # {}
  PROVE  BarOver(tf, Append(ticks, t), I) = BarOver(tf, ticks, I)
<1> DEFINE longer == Append(ticks, t)
<1>1. \A i \in I : longer[i] = ticks[i]
  OBVIOUS
<1>2. Min(I) \in I /\ Max(I) \in I
  <2>1. Len(ticks) \in Nat
    OBVIOUS
  <2> QED
    BY <2>1, EndsExist
<1> HIDE DEF longer
<1>3. {longer[i].price : i \in I} = {ticks[i].price : i \in I}
  BY <1>1
<1>4. [i \in I |-> longer[i].qty] = [i \in I |-> ticks[i].qty]
  BY <1>1
<1>5. BarStart(tf, longer[Min(I)]) = BarStart(tf, ticks[Min(I)])
  BY <1>1, <1>2
<1>6. BarOver(tf, longer, I) = BarOver(tf, ticks, I)
  BY <1>1, <1>2, <1>3, <1>4, <1>5 DEF BarOver
<1> QED
  BY <1>6 DEF longer

\* A tick alone makes the bar that it opens.
LEMMA BarOpens ==
  ASSUME NEW tf \in Timeframes, NEW ticks \in Seq(Tick), NEW i \in 1 .. Len(ticks)
  PROVE  BarOver(tf, ticks, {i}) = NewBar(tf, ticks[i])
<1>1. Min({i}) = i /\ Max({i}) = i
  <2>1. {i} \in SUBSET Int /\ i \in {i} /\ i \in Int /\ \A y \in {i} : i >= y /\ i <= y
    OBVIOUS
  <2> QED
    BY <2>1, MinIs, MaxIs
<1>2. ticks[i].price \in Nat /\ ticks[i].qty \in Nat
  BY TicksTyped
<1>3. {ticks[j].price : j \in {i}} = {ticks[i].price}
  OBVIOUS
<1>4. Min({ticks[i].price}) = ticks[i].price /\ Max({ticks[i].price}) = ticks[i].price
  <2> DEFINE p == ticks[i].price
  <2>0. p \in Nat
    BY <1>2
  <2> HIDE DEF p
  <2>1. {p} \in SUBSET Int /\ p \in {p} /\ \A y \in {p} : p >= y /\ p <= y
    BY <2>0
  <2>2. Min({p}) = p /\ Max({p}) = p
    BY <2>1, MinIs, MaxIs
  <2> QED
    BY <2>2 DEF p
<1> DEFINE f == [j \in {i} |-> ticks[j].qty]
<1>5. SumFunction(f) = ticks[i].qty
  <2>1. DOMAIN f = {i} /\ f[i] = ticks[i].qty /\ f[i] \in Int
    BY <1>2
  <2>2. IsFiniteSet({i})
    BY FS_Singleton
  <2> HIDE DEF f
  <2>3. SumFunctionOnSet(f, {i}) = f[i] + SumFunctionOnSet(f, {i} \ {i})
    BY <2>1, <2>2, SumRemoves
  <2>4. SumFunctionOnSet(f, {i} \ {i}) = 0
    <3>1. {i} \ {i} = {} /\ IsFiniteSet({})
      BY FS_EmptySet
    <3> QED
      BY <3>1, SumZero
  <2> QED
    BY <2>1, <2>3, <2>4 DEF SumFunction
<1> HIDE DEF f
<1> QED
  BY <1>1, <1>3, <1>4, <1>5 DEF BarOver, NewBar, f

\* The tick after the last of a bar extends it.
LEMMA BarExtends ==
  ASSUME NEW tf \in Timeframes, NEW ticks \in Seq(Tick), NEW t \in Tick,
         NEW I \in SUBSET (1 .. Len(ticks)), I # {}
  PROVE  BarOver(tf, Append(ticks, t), I \cup {Len(ticks) + 1}) = Extend(BarOver(tf, ticks, I), t)
<1> DEFINE longer == Append(ticks, t)
           n == Len(ticks)
           J == I \cup {n + 1}
           P == Prices(ticks, I)
           Q == Prices(longer, J)
<1>0. /\ n \in Nat /\ longer \in Seq(Tick) /\ Len(longer) = n + 1
      /\ \A i \in I : longer[i] = ticks[i]
      /\ longer[n + 1] = t
  OBVIOUS
<1>1. /\ n \in Nat /\ longer \in Seq(Tick) /\ Len(longer) = n + 1
      /\ \A i \in I : longer[i] = ticks[i]
      /\ longer[n + 1] = t
      /\ J \in SUBSET (1 .. n + 1) /\ J # {} /\ J \subseteq Int
      /\ I \subseteq J /\ n + 1 \in J /\ I \in SUBSET (1 .. n)
  <2> HIDE DEF longer
  <2>1. n \in Nat /\ I \in SUBSET (1 .. n)
    BY <1>0
  <2> HIDE DEF n
  <2>2. J \in SUBSET (1 .. n + 1) /\ n + 1 \in J
    BY <2>1
  <2> QED
    BY <1>0, <2>1, <2>2
<1>2. /\ Min(I) \in I /\ \A i \in I : Min(I) <= i
      /\ IsFiniteSet(I)
  BY <1>1, EndsExist
<1>3. t.price \in Nat /\ t.qty \in Nat
  BY DEF Tick, Times
<1> HIDE DEF longer, n
<1>4. Min(J) = Min(I)
  <2>1. Min(I) <= n + 1
    <3>1. Min(I) \in 1 .. n
      BY <1>1, <1>2
    <3> QED
      BY <1>1, <3>1
  <2>2. Min(I) \in J /\ \A i \in J : Min(I) <= i
    BY <1>1, <1>2, <2>1
  <2> HIDE DEF J
  <2> QED
    BY <1>1, <2>2, MinIs
<1>5. Max(J) = n + 1
  <2>1. \A i \in J : n + 1 >= i
    BY <1>1
  <2> HIDE DEF J
  <2> QED
    BY <1>1, <2>1, MaxIs
<1>6. Q = P \cup {t.price}
  <2>1. \A p : p \in Q <=> \E i \in J : p = longer[i].price
    BY DEF Prices
  <2>2. \A p : p \in P <=> \E i \in I : p = ticks[i].price
    BY DEF Prices
  <2>3. \A i : i \in J <=> i \in I \/ i = n + 1
    OBVIOUS
  <2> HIDE DEF P, Q, J
  <2>4. \A p : p \in Q <=> p \in P \/ p = t.price
    BY <1>1, <2>1, <2>2, <2>3
  <2> QED
    BY <2>4
<1>7. /\ P \subseteq Nat /\ Min(P) \in P /\ Max(P) \in P
      /\ \A p \in P : Min(P) <= p /\ Max(P) >= p
  BY <1>1, PriceRange DEF n
<1> HIDE DEF P, Q
<1>8. Max(Q) = IF t.price > Max(P) THEN t.price ELSE Max(P)
  <2> DEFINE m == IF t.price > Max(P) THEN t.price ELSE Max(P)
  <2>0. \A p \in P : p \in Nat
    BY <1>7
  <2>1. m \in Q
    BY <1>6, <1>7
  <2>2. m \in Nat /\ \A p \in P \cup {t.price} : m >= p
    <3> DEFINE x == t.price
               b == Max(P)
    <3>1. x \in Nat /\ b \in Nat /\ m = IF x > b THEN x ELSE b
      BY <1>3, <1>7
    <3>2. \A p \in P : p \in Nat /\ b >= p
      BY <1>7, <2>0
    <3> HIDE DEF x, b, m
    <3>3. m \in Nat /\ m >= x /\ m >= b
      BY <3>1
    <3>4. \A p \in P : m >= p
      BY <3>1, <3>2, <3>3
    <3> QED
      BY <3>3, <3>4 DEF x
  <2>3. Q \in SUBSET Int /\ \A p \in Q : m >= p
    BY <1>3, <1>6, <2>0, <2>2
  <2> HIDE DEF m
  <2>4. Max(Q) = m
    BY <2>1, <2>3, MaxIs
  <2> QED
    BY <2>4 DEF m
<1>9. Min(Q) = IF t.price < Min(P) THEN t.price ELSE Min(P)
  <2> DEFINE m == IF t.price < Min(P) THEN t.price ELSE Min(P)
  <2>0. \A p \in P : p \in Nat
    BY <1>7
  <2>1. m \in Q
    BY <1>6, <1>7
  <2>2. m \in Nat /\ \A p \in P \cup {t.price} : m <= p
    <3> DEFINE x == t.price
               b == Min(P)
    <3>1. x \in Nat /\ b \in Nat /\ m = IF x < b THEN x ELSE b
      BY <1>3, <1>7
    <3>2. \A p \in P : p \in Nat /\ b <= p
      BY <1>7, <2>0
    <3> HIDE DEF x, b, m
    <3>3. m \in Nat /\ m <= x /\ m <= b
      BY <3>1
    <3>4. \A p \in P : m <= p
      BY <3>1, <3>2, <3>3
    <3> QED
      BY <3>3, <3>4 DEF x
  <2>3. Q \in SUBSET Int /\ \A p \in Q : m <= p
    BY <1>3, <1>6, <2>0, <2>2
  <2> HIDE DEF m
  <2>4. Min(Q) = m
    BY <2>1, <2>3, MinIs
  <2> QED
    BY <2>4 DEF m
<1> DEFINE f == [i \in I |-> ticks[i].qty]
           g == [i \in J |-> longer[i].qty]
<1>10. SumFunction(g) = SumFunction(f) + t.qty
  <2>1. /\ DOMAIN f = I /\ DOMAIN g = J
        /\ \A i \in I : f[i] \in Int /\ g[i] = f[i]
        /\ g[n + 1] = t.qty /\ g[n + 1] \in Int
    <3>1. \A i \in I : ticks[i].qty \in Nat
      BY <1>1, TicksTyped DEF n
    <3> QED
      BY <1>1, <1>3, <3>1
  <2>2. n + 1 \notin I
    BY <1>1
  <2> HIDE DEF f, g
  <2>3. SumFunctionOnSet(g, J) = g[n + 1] + SumFunctionOnSet(g, I)
    <3>1. \A x \in I \cup {n + 1} : g[x] \in Int
      BY <2>1
    <3> QED
      BY <1>2, <2>2, <3>1, SumAdds
  <2>4. SumFunctionOnSet(g, I) = SumFunctionOnSet(f, I)
    BY <1>2, <2>1, SumAgrees
  <2>5. SumFunctionOnSet(f, I) \in Int
    BY <1>2, <2>1, SumUnfolds
  <2> QED
    BY <2>1, <2>3, <2>4, <2>5 DEF SumFunction
<1> HIDE DEF f, g, J
<1> DEFINE old == BarOver(tf, ticks, I)
<1>11. /\ old = [start |-> BarStart(tf, ticks[Min(I)]), open |-> ticks[Min(I)].price,
                 high |-> Max(P), low |-> Min(P), close |-> ticks[Max(I)].price,
                 volume |-> SumFunction(f)]
  BY DEF BarOver, P, Prices, f
<1>12. BarOver(tf, longer, J) =
         [start |-> BarStart(tf, ticks[Min(I)]), open |-> ticks[Min(I)].price,
          high |-> Max(Q), low |-> Min(Q), close |-> t.price,
          volume |-> SumFunction(f) + t.qty]
  <2>1. longer[Min(J)] = ticks[Min(I)] /\ longer[Max(J)] = t
    BY <1>1, <1>2, <1>4, <1>5
  <2> QED
    BY <1>10, <2>1 DEF BarOver, Q, Prices, g
<1> HIDE DEF old
<1>13. Extend(old, t) =
         [start |-> BarStart(tf, ticks[Min(I)]), open |-> ticks[Min(I)].price,
          high |-> IF t.price > Max(P) THEN t.price ELSE Max(P),
          low |-> IF t.price < Min(P) THEN t.price ELSE Min(P), close |-> t.price,
          volume |-> SumFunction(f) + t.qty]
  <2> DEFINE s == BarStart(tf, ticks[Min(I)])  o == ticks[Min(I)].price
             hi == Max(P)  lo == Min(P)  c == ticks[Max(I)].price  v == SumFunction(f)
  <2>1. old = [start |-> s, open |-> o, high |-> hi, low |-> lo, close |-> c, volume |-> v]
    BY <1>11
  <2> HIDE DEF s, o, hi, lo, c, v
  <2>2. Extend(old, t) =
          [start |-> s, open |-> o, high |-> IF t.price > hi THEN t.price ELSE hi,
           low |-> IF t.price < lo THEN t.price ELSE lo, close |-> t.price, volume |-> v + t.qty]
    <3> DEFINE h2 == IF t.price > hi THEN t.price ELSE hi
               l2 == IF t.price < lo THEN t.price ELSE lo
               v2 == v + t.qty
               c2 == t.price
    <3>1. old.high = hi /\ old.low = lo /\ old.volume = v
      BY <2>1
    <3>2. Extend(old, t) = [old EXCEPT !.high = h2, !.low = l2, !.close = c2, !.volume = v2]
      BY <3>1 DEF Extend
    <3> HIDE DEF h2, l2, v2, c2
    <3>3. Extend(old, t) = [start |-> s, open |-> o, high |-> h2, low |-> l2, close |-> c2,
                            volume |-> v2]
      BY <2>1, <3>2
    <3> QED
      BY <3>3 DEF h2, l2, v2, c2
  <2> QED
    BY <2>2 DEF s, o, hi, lo, c, v
<1>14. BarOver(tf, longer, J) = Extend(old, t)
  BY <1>8, <1>9, <1>12, <1>13
<1> QED
  BY <1>14 DEF longer, J, n, old

-----------------------------------------------------------------------------
(* Cuts and pieces.                                                         *)

\* The cuts up to a tick: their number is the tick's piece.
CutsUpTo(tf, ticks, i) == {c \in CutsOf(tf, ticks) : c <= i}

\* Does a tick after these begin a bar?
Opens(tf, ticks, t) ==
  Len(ticks) = 0 \/ BarStart(tf, t) # BarStart(tf, ticks[Len(ticks)])

LEMMA CutsFinite ==
  ASSUME NEW tf \in Timeframes, NEW ticks \in Seq(Tick)
  PROVE  /\ CutsOf(tf, ticks) \in SUBSET (1 .. Len(ticks))
         /\ IsFiniteSet(CutsOf(tf, ticks)) /\ Cardinality(CutsOf(tf, ticks)) \in Nat
         /\ \A i : /\ IsFiniteSet(CutsUpTo(tf, ticks, i))
                   /\ Cardinality(CutsUpTo(tf, ticks, i)) \in Nat
                   /\ Cardinality(CutsUpTo(tf, ticks, i)) <= Cardinality(CutsOf(tf, ticks))
<1>1. CutsOf(tf, ticks) \in SUBSET (1 .. Len(ticks)) /\ Len(ticks) \in Nat
  BY DEF CutsOf
<1>2. IsFiniteSet(CutsOf(tf, ticks)) /\ Cardinality(CutsOf(tf, ticks)) \in Nat
  <2>1. IsFiniteSet(1 .. Len(ticks))
    BY <1>1, FS_Interval
  <2> QED
    BY <1>1, <2>1, FS_Subset, FS_CardinalityType
<1>3. ASSUME NEW i
      PROVE  /\ IsFiniteSet(CutsUpTo(tf, ticks, i))
             /\ Cardinality(CutsUpTo(tf, ticks, i)) \in Nat
             /\ Cardinality(CutsUpTo(tf, ticks, i)) <= Cardinality(CutsOf(tf, ticks))
  <2>1. CutsUpTo(tf, ticks, i) \subseteq CutsOf(tf, ticks)
    BY DEF CutsUpTo
  <2> QED
    BY <1>2, <2>1, FS_Subset, FS_CardinalityType
<1> QED
  BY <1>1, <1>2, <1>3

\* A tick after these adds at most the cut at its own place.
LEMMA CutsGrow ==
  ASSUME NEW tf \in Timeframes, NEW ticks \in Seq(Tick), NEW t \in Tick
  PROVE  LET longer == Append(ticks, t)
             n == Len(ticks)
         IN /\ CutsOf(tf, longer) = CutsOf(tf, ticks) \cup
                                      (IF Opens(tf, ticks, t) THEN {n + 1} ELSE {})
            /\ \A i \in 1 .. n : CutsUpTo(tf, longer, i) = CutsUpTo(tf, ticks, i)
            /\ CutsUpTo(tf, longer, n + 1) = CutsOf(tf, longer)
<1> DEFINE longer == Append(ticks, t)
           n == Len(ticks)
<1>1. /\ n \in Nat /\ longer \in Seq(Tick) /\ DOMAIN longer = 1 .. n + 1
      /\ \A i \in 1 .. n : longer[i] = ticks[i]
      /\ longer[n + 1] = t /\ DOMAIN ticks = 1 .. n
  OBVIOUS
<1>2. Opens(tf, ticks, t) <=> (n = 0 \/ BarStart(tf, t) # BarStart(tf, ticks[n]))
  BY DEF Opens
<1> HIDE DEF longer, n
<1>3. ASSUME NEW i \in 1 .. n PROVE i \in CutsOf(tf, longer) <=> i \in CutsOf(tf, ticks)
  <2>1. CASE i = 1
    BY <1>1, <2>1 DEF CutsOf
  <2>2. CASE i # 1
    <3>1. i \in DOMAIN longer /\ i - 1 \in 1 .. n
      BY <1>1, <2>2
    <3> QED
      BY <1>1, <2>2, <3>1 DEF CutsOf
  <2> QED
    BY <2>1, <2>2
<1>4. n + 1 \in CutsOf(tf, longer) <=> Opens(tf, ticks, t)
  <2>1. CASE n = 0
    <3>1. n + 1 = 1 /\ 1 \in DOMAIN longer
      BY <1>1, <2>1
    <3> QED
      BY <1>2, <2>1, <3>1 DEF CutsOf
  <2>2. CASE n # 0
    <3>1. n + 1 # 1 /\ n + 1 \in DOMAIN longer /\ (n + 1) - 1 = n /\ n \in 1 .. n
      BY <1>1, <2>2
    <3>2. longer[(n + 1) - 1] = ticks[n]
      BY <1>1, <3>1
    <3> QED
      BY <1>1, <1>2, <2>2, <3>1, <3>2 DEF CutsOf
  <2> QED
    BY <2>1, <2>2
<1>5. CutsOf(tf, longer) \subseteq 1 .. n + 1 /\ CutsOf(tf, ticks) \subseteq 1 .. n
  BY <1>1 DEF CutsOf
<1>6. \A i \in 1 .. n + 1 : i \in 1 .. n \/ i = n + 1
  BY <1>1
<1>7. CutsOf(tf, longer) = CutsOf(tf, ticks) \cup (IF Opens(tf, ticks, t) THEN {n + 1} ELSE {})
  <2>1. n + 1 \notin 1 .. n
    BY <1>1
  <2> QED
    BY <1>3, <1>4, <1>5, <1>6, <2>1
<1>8. ASSUME NEW i \in 1 .. n PROVE CutsUpTo(tf, longer, i) = CutsUpTo(tf, ticks, i)
  <2>1. \A c \in 1 .. n + 1 : c <= i => c \in 1 .. n
    BY <1>1
  <2>2. \A c : c \in CutsUpTo(tf, longer, i) <=> c \in CutsUpTo(tf, ticks, i)
    BY <1>3, <1>5, <2>1, <1>1 DEF CutsUpTo
  <2> QED
    BY <2>2
<1>9. CutsUpTo(tf, longer, n + 1) = CutsOf(tf, longer)
  <2>1. \A c \in 1 .. n + 1 : c <= n + 1
    BY <1>1
  <2> QED
    BY <1>5, <2>1 DEF CutsUpTo
<1> QED
  BY <1>7, <1>8, <1>9 DEF longer, n

PiecesMade(tf, ticks) ==
  \A k \in 1 .. Cardinality(CutsOf(tf, ticks)) : Piece(tf, ticks, k) # {}

\* The tick after these joins the last piece or makes the next one.
LEMMA PiecesGrow ==
  ASSUME NEW tf \in Timeframes, NEW ticks \in Seq(Tick), NEW t \in Tick
  PROVE  LET longer == Append(ticks, t)
             n == Len(ticks)
             K == Cardinality(CutsOf(tf, ticks))
             L == IF Opens(tf, ticks, t) THEN K + 1 ELSE K
         IN /\ K \in Nat /\ Cardinality(CutsOf(tf, longer)) = L
            /\ \A k : Piece(tf, longer, k) =
                        Piece(tf, ticks, k) \cup (IF k = L THEN {n + 1} ELSE {})
            /\ Piece(tf, ticks, K + 1) = {}
            /\ \A k : Piece(tf, ticks, k) \in SUBSET (1 .. n)
<1> DEFINE longer == Append(ticks, t)
           n == Len(ticks)
           cuts == CutsOf(tf, ticks)
           more == CutsOf(tf, longer)
           K == Cardinality(cuts)
           L == IF Opens(tf, ticks, t) THEN K + 1 ELSE K
           No(i) == Cardinality(CutsUpTo(tf, ticks, i))
<1>1. /\ n \in Nat /\ longer \in Seq(Tick) /\ DOMAIN longer = 1 .. n + 1 /\ DOMAIN ticks = 1 .. n
  OBVIOUS
<1>2. /\ K \in Nat /\ IsFiniteSet(cuts) /\ cuts \in SUBSET (1 .. n)
      /\ \A i : No(i) \in Nat /\ No(i) <= K
  BY CutsFinite
<1>3. /\ more = cuts \cup (IF Opens(tf, ticks, t) THEN {n + 1} ELSE {})
      /\ \A i \in 1 .. n : CutsUpTo(tf, longer, i) = CutsUpTo(tf, ticks, i)
      /\ CutsUpTo(tf, longer, n + 1) = more
  BY CutsGrow
<1>4. \A k : Piece(tf, ticks, k) = {i \in 1 .. n : No(i) = k}
  BY <1>1 DEF Piece, CutsUpTo
<1>5. \A k : Piece(tf, longer, k) =
               {i \in 1 .. n + 1 : Cardinality(CutsUpTo(tf, longer, i)) = k}
  BY <1>1 DEF Piece, CutsUpTo
<1> HIDE DEF longer, n, cuts, more, No
<1>6. Cardinality(more) = L
  <2>1. n + 1 \notin cuts
    BY <1>1, <1>2
  <2>2. Cardinality(cuts \cup {n + 1}) = Cardinality(cuts) + 1
    BY <1>2, <2>1, FS_AddElement
  <2> QED
    BY <1>3, <2>2
<1>7. ASSUME NEW k
      PROVE  Piece(tf, longer, k) = Piece(tf, ticks, k) \cup (IF k = L THEN {n + 1} ELSE {})
  <2>1. \A i \in 1 .. n + 1 : i \in 1 .. n \/ i = n + 1
    BY <1>1
  <2>2. \A i \in 1 .. n : i \in 1 .. n + 1 /\ i # n + 1
    BY <1>1
  <2>3. \A i \in 1 .. n : Cardinality(CutsUpTo(tf, longer, i)) = No(i)
    BY <1>3 DEF No
  <2>4. Cardinality(CutsUpTo(tf, longer, n + 1)) = L
    BY <1>3, <1>6
  <2>6. n + 1 \in 1 .. n + 1
    BY <1>1
  <2> HIDE DEF L
  <2>5. \A i : i \in Piece(tf, longer, k) <=>
                 i \in Piece(tf, ticks, k) \cup (IF k = L THEN {n + 1} ELSE {})
    BY <1>4, <1>5, <2>1, <2>2, <2>3, <2>4, <2>6
  <2> QED
    BY <2>5
<1>8. Piece(tf, ticks, K + 1) = {}
  <2> HIDE DEF K
  <2>1. \A i : No(i) # K + 1
    BY <1>2
  <2> QED
    BY <1>4, <2>1
<1>9. \A k : Piece(tf, ticks, k) \in SUBSET (1 .. n)
  BY <1>4
<1> QED
  BY <1>2, <1>6, <1>7, <1>8, <1>9 DEF longer, n, cuts, more

\* One more tick extends the last bar of the replay or adds a bar to it.
LEMMA ReplayGrows ==
  ASSUME NEW tf \in Timeframes, NEW ticks \in Seq(Tick), NEW t \in Tick,
         PiecesMade(tf, ticks)
  PROVE  LET longer == Append(ticks, t)
             K == Cardinality(CutsOf(tf, ticks))
             bars == ReplayedBars(tf, ticks)
             after == ReplayedBars(tf, longer)
         IN /\ K \in Nat
            /\ PiecesMade(tf, longer)
            /\ Opens(tf, ticks, t) =>
                 /\ DOMAIN after = 1 .. K + 1 /\ after[K + 1] = NewBar(tf, t)
                 /\ \A k \in 1 .. K : after[k] = bars[k]
            /\ ~Opens(tf, ticks, t) /\ K > 0 =>
                 /\ DOMAIN after = 1 .. K /\ after[K] = Extend(bars[K], t)
                 /\ \A k \in 1 .. K - 1 : after[k] = bars[k]
<1> DEFINE longer == Append(ticks, t)
           n == Len(ticks)
           K == Cardinality(CutsOf(tf, ticks))
           L == IF Opens(tf, ticks, t) THEN K + 1 ELSE K
           bars == ReplayedBars(tf, ticks)
           after == ReplayedBars(tf, longer)
<1>1. /\ K \in Nat /\ Cardinality(CutsOf(tf, longer)) = L
      /\ \A k : Piece(tf, longer, k) =
                  Piece(tf, ticks, k) \cup (IF k = L THEN {n + 1} ELSE {})
      /\ Piece(tf, ticks, K + 1) = {}
      /\ \A k : Piece(tf, ticks, k) \in SUBSET (1 .. n)
  BY PiecesGrow
<1>2. \A k \in 1 .. K : Piece(tf, ticks, k) # {}
  BY DEF PiecesMade
<1>3. /\ DOMAIN bars = 1 .. K /\ \A k \in 1 .. K : bars[k] = BarOver(tf, ticks, Piece(tf, ticks, k))
  BY DEF ReplayedBars
<1>4. /\ DOMAIN after = 1 .. L
      /\ \A k \in 1 .. L : after[k] = BarOver(tf, longer, Piece(tf, longer, k))
  BY <1>1 DEF ReplayedBars
<1>5. PiecesMade(tf, longer)
  <2> SUFFICES ASSUME NEW k \in 1 .. L PROVE Piece(tf, longer, k) # {}
    BY <1>1 DEF PiecesMade
  <2> HIDE DEF longer, n, K
  <2>1. k \in 1 .. K \/ k = L
    BY <1>1
  <2> QED
    BY <1>1, <1>2, <2>1
<1>6. ASSUME NEW k \in 1 .. K, k # L PROVE after[k] = bars[k]
  <2>1. k \in 1 .. L
    <3> HIDE DEF K
    <3> QED
      BY <1>1
  <2>2. Piece(tf, longer, k) = Piece(tf, ticks, k)
    BY <1>1, <1>6
  <2>3. BarOver(tf, longer, Piece(tf, ticks, k)) = BarOver(tf, ticks, Piece(tf, ticks, k))
    <3> DEFINE I == Piece(tf, ticks, k)
    <3>1. I \in SUBSET (1 .. Len(ticks)) /\ I # {}
      BY <1>1, <1>2
    <3> HIDE DEF I
    <3>2. BarOver(tf, longer, I) = BarOver(tf, ticks, I)
      BY <3>1, BarStays
    <3> QED
      BY <3>2 DEF I
  <2> QED
    BY <1>3, <1>4, <2>1, <2>2, <2>3
<1>7. ASSUME Opens(tf, ticks, t)
      PROVE  /\ DOMAIN after = 1 .. K + 1 /\ after[K + 1] = NewBar(tf, t)
             /\ \A k \in 1 .. K : after[k] = bars[k]
  <2>1. L = K + 1
    BY <1>7
  <2>2. \A k \in 1 .. K : k # L
    <3> HIDE DEF K, L
    <3> QED
      BY <1>1, <2>1
  <2>3. Piece(tf, longer, K + 1) = {n + 1}
    BY <1>1, <2>1
  <2>4. /\ longer \in Seq(Tick) /\ n + 1 \in 1 .. Len(longer) /\ longer[n + 1] = t
    OBVIOUS
  <2>5. BarOver(tf, longer, {n + 1}) = NewBar(tf, t)
    <3> DEFINE m == n + 1
    <3> HIDE DEF longer, m
    <3>1. longer \in Seq(Tick) /\ m \in 1 .. Len(longer) /\ longer[m] = t
      BY <2>4 DEF m
    <3>2. BarOver(tf, longer, {m}) = NewBar(tf, longer[m])
      BY <3>1, BarOpens
    <3> QED
      BY <3>1, <3>2 DEF m
  <2>6. K + 1 \in 1 .. L
    <3> HIDE DEF K, L
    <3> QED
      BY <1>1, <2>1
  <2> QED
    BY <1>4, <1>6, <2>1, <2>2, <2>3, <2>5, <2>6
<1>8. ASSUME ~Opens(tf, ticks, t), K > 0
      PROVE  /\ DOMAIN after = 1 .. K /\ after[K] = Extend(bars[K], t)
             /\ \A k \in 1 .. K - 1 : after[k] = bars[k]
  <2>1. L = K
    BY <1>8
  <2>2. K \in 1 .. K /\ \A k \in 1 .. K - 1 : k \in 1 .. K /\ k # L
    <3> HIDE DEF K, L
    <3> QED
      BY <1>1, <1>8, <2>1
  <2>3. Piece(tf, longer, K) = Piece(tf, ticks, K) \cup {n + 1}
    BY <1>1, <2>1
  <2>4. BarOver(tf, longer, Piece(tf, ticks, K) \cup {n + 1}) =
          Extend(BarOver(tf, ticks, Piece(tf, ticks, K)), t)
    <3> DEFINE I == Piece(tf, ticks, K)
    <3>1. I \in SUBSET (1 .. Len(ticks)) /\ I # {}
      BY <1>1, <1>2, <2>2
    <3> HIDE DEF I
    <3>2. BarOver(tf, longer, I \cup {n + 1}) = Extend(BarOver(tf, ticks, I), t)
      BY <3>1, BarExtends
    <3> QED
      BY <3>2 DEF I
  <2>5. after[K] = Extend(bars[K], t)
    BY <1>3, <1>4, <2>1, <2>2, <2>3, <2>4
  <2> QED
    BY <1>4, <1>6, <2>1, <2>2, <2>5
<1> QED
  BY <1>1, <1>5, <1>7, <1>8

-----------------------------------------------------------------------------
(* The replay.                                                              *)

\* The completed bars are the last of a replay's first m.
IsTail(comp, bars, m) ==
  /\ Len(comp) = IF m > MaxHistory THEN MaxHistory ELSE m
  /\ \A j \in 1 .. Len(comp) : comp[j] = bars[m - Len(comp) + j]

\* The strengthening: the bar in progress is the last of the replay, and the
\* completed bars are those before it.
Replayed(tf, ticks, bar, comp) ==
  LET K == Cardinality(CutsOf(tf, ticks))
      bars == ReplayedBars(tf, ticks)
  IN /\ PiecesMade(tf, ticks)
     /\ ticks = <<>> => K = 0 /\ bar = NoBar /\ comp = <<>>
     /\ ticks # <<>> => K >= 1 /\ bar = bars[K] /\ IsTail(comp, bars, K - 1)

\* Completing a bar keeps the last of the replay's bars.
LEMMA TailGrows ==
  ASSUME NEW comp \in Seq(Bar), NEW bars, NEW m \in Nat, IsTail(comp, bars, m),
         NEW b \in Bar, NEW after, after[m + 1] = b, \A k \in 1 .. m : after[k] = bars[k]
  PROVE  IsTail(Trimmed(Append(comp, b)), after, m + 1)
<1> DEFINE longer == Append(comp, b)
           c == Len(comp)
           result == Trimmed(longer)
<1>1. /\ c \in Nat /\ longer \in Seq(Bar) /\ Len(longer) = c + 1
      /\ \A j \in 1 .. c : longer[j] = comp[j]
      /\ longer[c + 1] = b
  OBVIOUS
<1>2. /\ c = IF m > MaxHistory THEN MaxHistory ELSE m
      /\ \A j \in 1 .. c : comp[j] = bars[m - c + j]
      /\ MaxHistory \in Nat \ {0}
  BY DEF IsTail
<1> HIDE DEF longer, c
<1>3. \A j \in 1 .. c : m - c + j \in 1 .. m
  BY <1>1, <1>2
<1>4. \A j \in 1 .. c + 1 : longer[j] = after[m - c + j]
  <2> SUFFICES ASSUME NEW j \in 1 .. c + 1 PROVE longer[j] = after[m - c + j]
    OBVIOUS
  <2>1. CASE j \in 1 .. c
    BY <1>1, <1>2, <1>3, <2>1
  <2>2. CASE j = c + 1
    <3>1. m - c + j = m + 1
      BY <1>1, <2>2
    <3> QED
      BY <1>1, <2>2, <3>1
  <2> QED
    BY <1>1, <2>1, <2>2
<1>5. CASE c + 1 > MaxHistory
  <2>1. c = MaxHistory /\ m >= MaxHistory
    BY <1>1, <1>2, <1>5
  <2>2. /\ Len(result) = c
        /\ \A j \in 1 .. c : result[j] = longer[j + 1]
    BY <1>1, <1>5 DEF Trimmed
  <2> HIDE DEF result
  <2>3. ASSUME NEW j \in 1 .. c PROVE result[j] = after[(m + 1) - c + j]
    <3>1. j + 1 \in 1 .. c + 1 /\ m - c + (j + 1) = (m + 1) - c + j
      BY <1>1
    <3> QED
      BY <1>4, <2>2, <3>1
  <2>4. IsTail(result, after, m + 1)
    BY <1>1, <2>1, <2>2, <2>3 DEF IsTail
  <2> QED
    BY <2>4 DEF result, longer
<1>6. CASE ~(c + 1 > MaxHistory)
  <2>1. c = m /\ m < MaxHistory
    BY <1>1, <1>2, <1>6
  <2>2. result = longer
    BY <1>1, <1>6 DEF Trimmed
  <2> HIDE DEF result
  <2>3. ASSUME NEW j \in 1 .. c + 1 PROVE result[j] = after[(m + 1) - (c + 1) + j]
    <3>1. (m + 1) - (c + 1) + j = m - c + j
      BY <1>1
    <3> QED
      BY <1>4, <2>2, <3>1
  <2>4. IsTail(result, after, m + 1)
    BY <1>1, <2>1, <2>2, <2>3, SMTT(30) DEF IsTail
  <2> QED
    BY <2>4 DEF result, longer
<1> QED
  BY <1>5, <1>6

\* Ingesting a tick keeps the bars of a timeframe those of the replay.
LEMMA ReplayKept ==
  ASSUME NEW tf \in Timeframes, NEW ticks \in Seq(Tick), NEW t \in Tick,
         NEW bar \in Bar \cup {NoBar}, NEW comp \in Seq(Bar),
         Replayed(tf, ticks, bar, comp),
         bar = NoBar <=> ticks = <<>>,
         bar # NoBar => bar.start = BarStart(tf, ticks[Len(ticks)]),
         NEW belongs, belongs <=> bar # NoBar /\ bar.start = BarStart(tf, t),
         NEW newBar, newBar = IF belongs THEN Extend(bar, t) ELSE NewBar(tf, t),
         NEW newComp,
         newComp = IF bar # NoBar /\ ~belongs THEN Trimmed(Append(comp, bar)) ELSE comp
  PROVE  Replayed(tf, Append(ticks, t), newBar, newComp)
<1> DEFINE longer == Append(ticks, t)
           K == Cardinality(CutsOf(tf, ticks))
           L == Cardinality(CutsOf(tf, longer))
           bars == ReplayedBars(tf, ticks)
           after == ReplayedBars(tf, longer)
<1>1. longer # <<>>
  OBVIOUS
<1>2. /\ PiecesMade(tf, ticks)
      /\ ticks = <<>> => K = 0 /\ bar = NoBar /\ comp = <<>>
      /\ ticks # <<>> => K >= 1 /\ bar = bars[K] /\ IsTail(comp, bars, K - 1)
  BY DEF Replayed
<1>3. /\ K \in Nat
      /\ PiecesMade(tf, longer)
      /\ Opens(tf, ticks, t) =>
           /\ after[K + 1] = NewBar(tf, t)
           /\ \A k \in 1 .. K : after[k] = bars[k]
      /\ ~Opens(tf, ticks, t) /\ K > 0 =>
           /\ after[K] = Extend(bars[K], t)
           /\ \A k \in 1 .. K - 1 : after[k] = bars[k]
  BY <1>2, ReplayGrows
<1>4. L = IF Opens(tf, ticks, t) THEN K + 1 ELSE K
  BY PiecesGrow
<1>5. Opens(tf, ticks, t) <=> ticks = <<>> \/ BarStart(tf, t) # BarStart(tf, ticks[Len(ticks)])
  BY DEF Opens
<1> HIDE DEF longer, K, L, bars, after
<1>6. L >= 1 /\ newBar = after[L] /\ IsTail(newComp, after, L - 1)
  <2>1. CASE ticks = <<>>
    <3>1. L = 1 /\ newBar = after[1] /\ newComp = <<>>
      BY <1>2, <1>3, <1>4, <1>5, <2>1
    <3>2. L - 1 = 0 /\ L >= 1
      BY <3>1
    <3>3. IsTail(<<>>, after, 0)
      BY DEF IsTail
    <3> QED
      BY <3>1, <3>2, <3>3
  <2>2. CASE ticks # <<>> /\ belongs
    <3>1. ~Opens(tf, ticks, t) /\ K >= 1 /\ L = K
      BY <1>2, <1>4, <1>5, <2>2
    <3>2. newBar = after[L] /\ newComp = comp
      BY <1>2, <1>3, <2>2, <3>1
    <3>3. /\ Len(comp) = IF K - 1 > MaxHistory THEN MaxHistory ELSE K - 1
          /\ \A j \in 1 .. Len(comp) : comp[j] = bars[(K - 1) - Len(comp) + j]
          /\ \A k \in 1 .. K - 1 : after[k] = bars[k]
      BY <1>2, <1>3, <2>2, <3>1 DEF IsTail
    <3>4. ASSUME NEW j \in 1 .. Len(comp) PROVE comp[j] = after[(K - 1) - Len(comp) + j]
      <4>1. (K - 1) - Len(comp) + j \in 1 .. K - 1
        BY <1>3, <3>1, <3>3
      <4> QED
        BY <3>3, <4>1
    <3>5. IsTail(comp, after, K - 1)
      BY <3>3, <3>4 DEF IsTail
    <3> QED
      BY <3>1, <3>2, <3>5
  <2>3. CASE ticks # <<>> /\ ~belongs
    <3>1. Opens(tf, ticks, t) /\ K >= 1 /\ L = K + 1
      BY <1>2, <1>4, <1>5, <2>3
    <3>2. newBar = after[L] /\ newComp = Trimmed(Append(comp, bar)) /\ bar \in Bar
      BY <1>3, <2>3, <3>1
    <3>3. /\ K - 1 \in Nat /\ (K - 1) + 1 = K /\ L - 1 = K /\ L >= 1
          /\ after[K] = bar /\ \A k \in 1 .. K - 1 : after[k] = bars[k]
      <4>1. K - 1 \in Nat /\ (K - 1) + 1 = K /\ L - 1 = K /\ L >= 1 /\ K \in 1 .. K
            /\ \A k \in 1 .. K - 1 : k \in 1 .. K
        BY <1>3, <3>1
      <4> QED
        BY <1>2, <1>3, <2>3, <3>1, <4>1
    <3>4. IsTail(comp, bars, K - 1)
      BY <1>2, <2>3
    <3>5. IsTail(Trimmed(Append(comp, bar)), after, (K - 1) + 1)
      BY <3>2, <3>3, <3>4, TailGrows
    <3> QED
      BY <3>2, <3>3, <3>5
  <2> QED
    BY <2>1, <2>2, <2>3
<1> QED
  BY <1>1, <1>3, <1>6 DEF Replayed, longer, L, after

ReplayInv == \A tf \in Timeframes : Replayed(tf, log, active[tf], completed[tf])

LEMMA ReplayInvKept == Spec => [](TypeOK /\ Chronicle /\ ReplayInv)
<1>1. Init => ReplayInv
  <2> SUFFICES ASSUME Init, NEW tf \in Timeframes
               PROVE  Replayed(tf, log, active[tf], completed[tf])
    BY DEF ReplayInv
  <2>1. log = <<>> /\ active[tf] = NoBar /\ completed[tf] = <<>>
    BY DEF Init
  <2>2. CutsOf(tf, <<>>) = {}
    BY DEF CutsOf
  <2>3. Cardinality(CutsOf(tf, <<>>)) = 0
    BY <2>2, FS_EmptySet
  <2>4. PiecesMade(tf, <<>>)
    BY <2>3 DEF PiecesMade
  <2> QED
    BY <2>1, <2>3, <2>4 DEF Replayed
<1>2. TypeOK /\ Chronicle /\ ReplayInv /\ [Next]_vars => ReplayInv'
  <2> SUFFICES ASSUME TypeOK, Chronicle, ReplayInv, [Next]_vars PROVE ReplayInv'
    OBVIOUS
  <2>1. CASE TimePasses \/ UNCHANGED vars
    BY <2>1 DEF TimePasses, vars, ReplayInv
  <2>2. ASSUME NEW t \in Tick, Ingest(t) PROVE ReplayInv'
    <3> SUFFICES ASSUME NEW tf \in Timeframes
                 PROVE  Replayed(tf, log', active'[tf], completed'[tf])
      BY DEF ReplayInv
    <3>1. /\ log \in Seq(Tick) /\ log' = Append(log, t)
          /\ active[tf] \in Bar \cup {NoBar} /\ completed[tf] \in Seq(Bar)
          /\ Replayed(tf, log, active[tf], completed[tf])
      BY <2>2 DEF TypeOK, Ingest, ReplayInv
    <3>2. /\ active[tf] = NoBar <=> log = <<>>
          /\ active[tf] # NoBar => active[tf].start = BarStart(tf, log[Len(log)])
      BY DEF Chronicle
    <3>3. /\ Belongs(tf, t) <=> active[tf] # NoBar /\ active[tf].start = BarStart(tf, t)
          /\ Completes(tf, t) <=> active[tf] # NoBar /\ ~Belongs(tf, t)
      BY DEF Belongs, Completes
    <3>4. active'[tf] = IF Belongs(tf, t) THEN Extend(active[tf], t) ELSE NewBar(tf, t)
      BY <2>2 DEF Ingest
    <3>5. completed'[tf] = IF Completes(tf, t) THEN Trimmed(Append(completed[tf], active[tf]))
                           ELSE completed[tf]
      BY <2>2 DEF Ingest
    <3>6. Replayed(tf, Append(log, t), active'[tf], completed'[tf])
      BY <3>1, <3>2, <3>3, <3>4, <3>5, ReplayKept
    <3> QED
      BY <3>1, <3>6
  <2> QED
    BY <2>1, <2>2 DEF Next
<1> QED
  BY <1>1, <1>2, ChronicleKept, PTL DEF Spec

\* The bars kept answer as the whole replay does, up to one more than the history.
LEMMA TailAnswers ==
  ASSUME NEW S, NEW K \in Nat \ {0}, NEW bars \in [1 .. K -> S],
         NEW comp \in Seq(S), IsTail(comp, bars, K - 1),
         NEW limit \in 1 .. MaxHistory + 1
  PROVE  LastOf(Append(comp, bars[K]), limit) = LastOf(bars, limit)
<1> DEFINE held == Append(comp, bars[K])
           c == Len(comp)
<1>1. /\ c \in Nat /\ held \in Seq(S) /\ Len(held) = c + 1
      /\ \A j \in 1 .. c : held[j] = comp[j]
      /\ held[c + 1] = bars[K]
  OBVIOUS
<1>2. /\ c = IF K - 1 > MaxHistory THEN MaxHistory ELSE K - 1
      /\ \A j \in 1 .. c : comp[j] = bars[(K - 1) - c + j]
  BY DEF IsTail
<1>3. bars \in Seq(S) /\ Len(bars) = K
  OBVIOUS
<1> HIDE DEF held, c
<1>4. MaxHistory \in Nat \ {0} /\ limit \in Nat \ {0} /\ limit <= MaxHistory + 1
  OBVIOUS
<1>5. \A j \in 1 .. c + 1 : held[j] = bars[(K - 1) - c + j]
  <2> SUFFICES ASSUME NEW j \in 1 .. c + 1 PROVE held[j] = bars[(K - 1) - c + j]
    OBVIOUS
  <2>1. CASE j = c + 1
    <3>1. (K - 1) - c + j = K
      BY <1>1, <2>1
    <3> QED
      BY <1>1, <2>1, <3>1
  <2> QED
    BY <1>1, <1>2, <2>1
<1> DEFINE first == IF c + 1 > limit THEN (c + 1) - limit + 1 ELSE 1
           from == IF K > limit THEN K - limit + 1 ELSE 1
           a == SubSeq(held, first, c + 1)
           b == SubSeq(bars, from, K)
<1>6. LastOf(held, limit) = a /\ LastOf(bars, limit) = b
  BY <1>1, <1>3 DEF LastOf
<1>7. /\ first \in Nat /\ from \in Nat /\ 1 <= first /\ first <= c + 1 /\ 1 <= from /\ from <= K
      /\ (c + 1) - first = K - from
  BY <1>1, <1>2, <1>4
<1> HIDE DEF first, from
<1>8. /\ a \in Seq(S) /\ Len(a) = (c + 1) - first + 1
      /\ \A i \in 1 .. (c + 1) - first + 1 : a[i] = held[first + i - 1]
  <2>1. \A i \in first .. c + 1 : held[i] \in S
    <3>1. \A i \in first .. c + 1 : i \in 1 .. Len(held)
      BY <1>1, <1>7
    <3> QED
      BY <1>1, <3>1
  <2>2. first \in Int /\ c + 1 \in Int
    BY <1>1, <1>7
  <2> QED
    BY <1>7, <2>1, <2>2, SubSeqProperties, SMTT(30)
<1>9. /\ b \in Seq(S) /\ Len(b) = K - from + 1
      /\ \A i \in 1 .. K - from + 1 : b[i] = bars[from + i - 1]
  <2>1. \A i \in from .. K : bars[i] \in S
    BY <1>7
  <2>2. from \in Int /\ K \in Int
    BY <1>7
  <2> QED
    BY <1>7, <2>1, <2>2, SubSeqProperties
<1> HIDE DEF a, b
<1>10. ASSUME NEW i \in 1 .. Len(a) PROVE a[i] = b[i]
  <2>1. /\ i \in Int /\ first + i - 1 \in 1 .. c + 1 /\ i \in 1 .. K - from + 1
        /\ (K - 1) - c + (first + i - 1) = from + i - 1
    BY <1>1, <1>7, <1>8
  <2>2. a[i] = held[first + i - 1] /\ b[i] = bars[from + i - 1]
    BY <1>7, <1>8, <1>9, <2>1
  <2> QED
    BY <1>5, <2>1, <2>2
<1>11. a = b
  <2>1. Len(a) = Len(b)
    BY <1>7, <1>8, <1>9
  <2> QED
    BY <1>8, <1>9, <1>10, <2>1, SeqEqual
<1> QED
  BY <1>6, <1>11 DEF held

(* Candles are what a replay of the ticks gives: whatever was asked for and  *)
(* however much history was dropped, get_candles returns the last bars of    *)
(* the ticks cut by bucket, whatever their order, number and prices.         *)
THEOREM CandlesAreReplayed == Spec => []CandlesReplayTheTicks
<1>1. TypeOK /\ Chronicle /\ ReplayInv => CandlesReplayTheTicks
  <2> SUFFICES ASSUME TypeOK, Chronicle, ReplayInv, NEW tf \in Timeframes, NEW limit \in 1 .. MaxHistory + 1
               PROVE  GetCandles(tf, limit) = LastOf(ReplayedBars(tf, log), limit)
    BY DEF CandlesReplayTheTicks
  <2> DEFINE K == Cardinality(CutsOf(tf, log))
             bars == ReplayedBars(tf, log)
             S == Bar \cup {bars[k] : k \in 1 .. K}
  <2>1. /\ log \in Seq(Tick) /\ active[tf] \in Bar \cup {NoBar} /\ completed[tf] \in Seq(Bar)
        /\ log = <<>> => K = 0 /\ active[tf] = NoBar /\ completed[tf] = <<>>
        /\ log # <<>> => K >= 1 /\ active[tf] = bars[K] /\ IsTail(completed[tf], bars, K - 1)
    BY DEF TypeOK, ReplayInv, Replayed
  <2>2. bars = [k \in 1 .. K |-> BarOver(tf, log, Piece(tf, log, k))]
    BY DEF ReplayedBars
  <2>3. K \in Nat
    BY <2>1, CutsFinite
  <2>4. bars \in [1 .. K -> S]
    BY <2>2
  <2>5. CASE log = <<>>
    <3>1. bars = <<>>
      <4>1. K = 0
        BY <2>1, <2>5
      <4> HIDE DEF K, bars
      <4> QED
        BY <2>2, <4>1
    <3>2. Bars(tf) = <<>>
      BY <2>1, <2>5 DEF Bars
    <3> HIDE DEF bars
    <3>3. GetCandles(tf, limit) = LastOf(bars, limit)
      BY <3>1, <3>2 DEF GetCandles
    <3> QED
      BY <3>3 DEF bars
  <2>6. CASE log # <<>>
    <3>1. Bars(tf) = Append(completed[tf], bars[K])
      <4>1. active[tf] # NoBar
        BY <2>6 DEF Chronicle
      <4> QED
        BY <2>1, <2>6, <4>1 DEF Bars
    <3>2. completed[tf] \in Seq(S)
      <4>1. Bar \subseteq S
        OBVIOUS
      <4> HIDE DEF S
      <4> QED
        BY <2>1, <4>1, SeqMonotonic
    <3>3. K \in Nat \ {0} /\ IsTail(completed[tf], bars, K - 1)
      <4> HIDE DEF K
      <4> QED
        BY <2>1, <2>3, <2>6
    <3> HIDE DEF K, bars, S
    <3>4. LastOf(Append(completed[tf], bars[K]), limit) = LastOf(bars, limit)
      BY <2>4, <3>2, <3>3, TailAnswers
    <3> QED
      BY <3>1, <3>4 DEF GetCandles, bars
  <2> QED
    BY <2>5, <2>6
<1> QED
  BY <1>1, ReplayInvKept, PTL

-----------------------------------------------------------------------------
(* Bars as buckets.                                                         *)

\* The ticks of a bucket.
Bucket(tf, ticks, start) == {i \in DOMAIN ticks : BarStart(tf, ticks[i]) = start}

\* Every bar is made of all the ticks of its bucket.
MadeOf(tf, ticks, bars) ==
  \A b \in bars : LET I == Bucket(tf, ticks, b.start)
                  IN I # {} /\ b = BarOver(tf, ticks, I)

\* Every tick is in some bar.
Covers(tf, ticks, bars) ==
  \A i \in DOMAIN ticks : \E b \in bars : b.start = BarStart(tf, ticks[i])

\* A bucket of a coarse timeframe is made of buckets of a finer one.
LEMMA BucketsNest ==
  ASSUME NEW coarse \in Timeframes, NEW fine \in Timeframes, Width[coarse] % Width[fine] = 0,
         NEW t \in Tick, NEW u \in Tick
  PROVE  BarStart(coarse, u) = BarStart(coarse, t) <=>
           BarStart(fine, u) \in BarStart(coarse, t) .. BarStart(coarse, t) + Width[coarse] - 1
<1> DEFINE W == Width[coarse]  w == Width[fine]  m == W \div w
           a == t.at  b == u.at
           q == a \div W  r == b \div W  k == b \div w
<1>1. W \in Nat \ {0} /\ w \in Nat \ {0} /\ a \in Nat /\ b \in Nat
  BY DEF Tick, Times
<1>2. q \in Nat /\ r \in Nat /\ k \in Nat
  BY <1>1, DivDef
<1>3. /\ r * W <= b /\ b < (r + 1) * W
      /\ k * w <= b /\ b < (k + 1) * w
  BY <1>1, DivDef
<1>4. m \in Nat /\ W = m * w
  <2>0. W % w = 0 /\ m \in Nat
    BY <1>1, DivDef
  <2> HIDE DEF W, w
  <2>1. W = (w * (W \div w)) + (W % w)
    BY <1>1
  <2>2. w * (W \div w) = W
    BY <1>1, <2>0, <2>1
  <2> QED
    BY <1>1, <2>0, <2>2
<1>5. BarStart(coarse, u) = r * W /\ BarStart(coarse, t) = q * W /\ BarStart(fine, u) = k * w
  BY DEF BarStart
<1> HIDE DEF W, w, m, a, b, q, r, k
<1>6. \A x \in Nat : x * W = (x * m) * w /\ x * m \in Nat
  BY <1>1, <1>4
<1>7. q * W \in Nat /\ r * W \in Nat /\ k * w \in Nat /\ (q + 1) * W = q * W + W
  BY <1>1, <1>2
<1>8. ASSUME r = q PROVE q * W <= k * w /\ k * w <= q * W + W - 1
  <2>1. q * m <= k
    <3> SUFFICES ASSUME k + 1 <= q * m PROVE FALSE
      BY <1>2, <1>6
    <3>1. (k + 1) * w <= (q * m) * w
      <4> DEFINE z == q * m
      <4>1. z \in Nat /\ k + 1 <= z
        BY <1>2, <1>6
      <4> HIDE DEF z
      <4>2. k + 1 \in Int /\ z \in Int
        BY <1>2, <4>1
      <4>3. (k + 1) * w <= z * w
        BY <1>1, <4>1, <4>2, TimesMonotone
      <4> QED
        BY <4>3 DEF z
    <3>2. (k + 1) * w \in Int /\ (q * m) * w \in Int
      BY <1>1, <1>2, <1>6
    <3> QED
      BY <1>1, <1>2, <1>3, <1>6, <1>7, <1>8, <3>1, <3>2
  <2>2. (q * m) * w <= k * w
    BY <1>1, <1>2, <1>6, <2>1, TimesMonotone
  <2> QED
    BY <1>1, <1>2, <1>3, <1>6, <1>7, <1>8, <2>2
<1>9. ASSUME q * W <= k * w, k * w <= q * W + W - 1 PROVE r = q
  <2>1. q <= r
    <3> SUFFICES ASSUME r + 1 <= q PROVE FALSE
      BY <1>2
    <3>1. (r + 1) * W <= q * W
      BY <1>1, <1>2, TimesMonotone
    <3>2. (r + 1) * W \in Int
      BY <1>1, <1>2
    <3> QED
      BY <1>1, <1>3, <1>7, <1>9, <3>1, <3>2
  <2>2. r <= q
    <3> SUFFICES ASSUME q + 1 <= r PROVE FALSE
      BY <1>2
    <3>1. (q + 1) * W <= r * W
      BY <1>1, <1>2, TimesMonotone
    <3>2. (q + 1) * W <= b
      BY <1>1, <1>3, <1>7, <3>1
    <3>3. k + 1 <= (q + 1) * m
      <4> SUFFICES ASSUME (q + 1) * m <= k PROVE FALSE
        BY <1>2, <1>6
      <4>1. ((q + 1) * m) * w <= k * w
        BY <1>1, <1>2, <1>6, TimesMonotone
      <4>2. ((q + 1) * m) * w = q * W + W
        BY <1>2, <1>6, <1>7
      <4> QED
        BY <1>1, <1>7, <1>9, <4>1, <4>2
    <3>4. (k + 1) * w <= ((q + 1) * m) * w
      <4> DEFINE z == (q + 1) * m
      <4>1. z \in Nat /\ k + 1 <= z
        BY <1>2, <1>6, <3>3
      <4> HIDE DEF z
      <4>2. k + 1 \in Int /\ z \in Int
        BY <1>2, <4>1
      <4>3. (k + 1) * w <= z * w
        BY <1>1, <4>1, <4>2, TimesMonotone
      <4> QED
        BY <4>3 DEF z
    <3>5. ((q + 1) * m) * w = (q + 1) * W
      BY <1>2, <1>6
    <3>6. (k + 1) * w \in Int /\ (q + 1) * W \in Int
      BY <1>1, <1>2
    <3> QED
      BY <1>1, <1>3, <3>2, <3>4, <3>5, <3>6
  <2> QED
    BY <1>2, <2>1, <2>2
<1>10. r * W = q * W => r = q
  <2> SUFFICES ASSUME r # q, r * W = q * W PROVE FALSE
    OBVIOUS
  <2>1. CASE r + 1 <= q
    <3>1. (r + 1) * W <= q * W
      BY <1>1, <1>2, <2>1, TimesMonotone
    <3>2. (r + 1) * W = r * W + W
      BY <1>1, <1>2
    <3> QED
      BY <1>1, <1>7, <3>1, <3>2
  <2>2. CASE q + 1 <= r
    <3>1. (q + 1) * W <= r * W
      BY <1>1, <1>2, <2>2, TimesMonotone
    <3> QED
      BY <1>1, <1>7, <3>1
  <2> QED
    BY <1>2, <2>1, <2>2
<1>11. r = q => r * W = q * W
  OBVIOUS
<1>12. r * W = q * W <=> k * w \in q * W .. q * W + W - 1
  BY <1>1, <1>7, <1>8, <1>9, <1>10, <1>11
<1> QED
  BY <1>5, <1>12 DEF W

HeldBars(bar, comp) == ToSet(comp) \cup (IF bar = NoBar THEN {} ELSE {bar})

\* Ingesting a tick in order keeps every bar the bar of its bucket, and, until
\* the history drops one, every tick in a bar.
LEMMA BucketsKept ==
  ASSUME NEW tf \in Timeframes, NEW ticks \in Seq(Tick), NEW t \in Tick,
         InOrder(Append(ticks, t)),
         NEW bar \in Bar \cup {NoBar}, NEW comp \in Seq(Bar), Len(comp) <= MaxHistory,
         MadeOf(tf, ticks, HeldBars(bar, comp)),
         Len(comp) < MaxHistory => Covers(tf, ticks, HeldBars(bar, comp)),
         bar = NoBar <=> ticks = <<>>,
         bar = NoBar => comp = <<>>,
         bar # NoBar => /\ bar.start = BarStart(tf, ticks[Len(ticks)])
                        /\ AllBefore(comp, bar.start),
         NEW belongs, belongs <=> bar # NoBar /\ bar.start = BarStart(tf, t),
         NEW newBar, newBar = IF belongs THEN Extend(bar, t) ELSE NewBar(tf, t),
         NEW newComp,
         newComp = IF bar # NoBar /\ ~belongs THEN Trimmed(Append(comp, bar)) ELSE comp
  PROVE  /\ MadeOf(tf, Append(ticks, t), HeldBars(newBar, newComp))
         /\ Len(newComp) < MaxHistory =>
              Covers(tf, Append(ticks, t), HeldBars(newBar, newComp))
<1> DEFINE longer == Append(ticks, t)
           n == Len(ticks)
           s == BarStart(tf, t)
<1>1. /\ n \in Nat /\ longer \in Seq(Tick) /\ DOMAIN longer = 1 .. n + 1 /\ DOMAIN ticks = 1 .. n
      /\ Len(longer) = n + 1 /\ \A i \in 1 .. n : longer[i] = ticks[i]
      /\ longer[n + 1] = t
  OBVIOUS
<1>2. /\ s \in Nat /\ newBar \in Bar /\ newBar.start = s /\ newBar # NoBar
  <2>1. /\ s \in Nat /\ NewBar(tf, t) \in Bar /\ NewBar(tf, t).start = s
        /\ \A x \in Bar : Extend(x, t) \in Bar /\ Extend(x, t).start = x.start
    BY BarsTyped
  <2>2. newBar \in Bar /\ newBar.start = s
    BY <2>1
  <2> QED
    BY <2>1, <2>2
<1>3. ticks # <<>> => ticks[n].at <= t.at /\ n \in 1 .. n
  BY <1>1, InOrderPrefix
<1>4. \A i \in 1 .. n : BarStart(tf, ticks[i]) \in Nat /\ BarStart(tf, ticks[i]) <= s
  <2> SUFFICES ASSUME NEW i \in 1 .. n
               PROVE  BarStart(tf, ticks[i]) \in Nat /\ BarStart(tf, ticks[i]) <= s
    OBVIOUS
  <2>1. longer[i].at <= longer[n + 1].at
    <3>1. i \in DOMAIN longer /\ n + 1 \in DOMAIN longer /\ i < n + 1
      BY <1>1
    <3> QED
      BY <3>1 DEF InOrder
  <2>2. ticks[i] \in Tick /\ ticks[i].at <= t.at
    BY <1>1, <2>1
  <2> QED
    BY <2>2, BarStartMonotone
<1>5. Bucket(tf, longer, s) = Bucket(tf, ticks, s) \cup {n + 1}
  <2> HIDE DEF longer, n
  <2>1. \A i \in 1 .. n + 1 : i \in 1 .. n \/ i = n + 1
    BY <1>1
  <2>2. n + 1 \in 1 .. n + 1 /\ \A i \in 1 .. n : i \in 1 .. n + 1
    BY <1>1
  <2> QED
    BY <1>1, <2>1, <2>2 DEF Bucket
<1>6. \A x : x # s => Bucket(tf, longer, x) = Bucket(tf, ticks, x)
  <2> HIDE DEF longer, n
  <2>1. \A i \in 1 .. n + 1 : i \in 1 .. n \/ i = n + 1
    BY <1>1
  <2>2. \A i \in 1 .. n : i \in 1 .. n + 1
    BY <1>1
  <2> QED
    BY <1>1, <2>1, <2>2 DEF Bucket
<1>7. \A x : Bucket(tf, ticks, x) \in SUBSET (1 .. n)
  BY <1>1 DEF Bucket
<1>8. ASSUME NEW b \in HeldBars(bar, comp), b.start # s
      PROVE  /\ Bucket(tf, longer, b.start) # {}
             /\ b = BarOver(tf, longer, Bucket(tf, longer, b.start))
  <2> DEFINE I == Bucket(tf, ticks, b.start)
  <2>1. I # {} /\ b = BarOver(tf, ticks, I) /\ I \in SUBSET (1 .. Len(ticks))
    BY <1>7 DEF MadeOf
  <2>2. Bucket(tf, longer, b.start) = I
    BY <1>6, <1>8
  <2> HIDE DEF I
  <2>3. BarOver(tf, longer, I) = BarOver(tf, ticks, I)
    BY <2>1, BarStays
  <2> QED
    BY <2>1, <2>2, <2>3
<1>9. /\ Bucket(tf, longer, s) # {}
      /\ newBar = BarOver(tf, longer, Bucket(tf, longer, s))
  <2>1. CASE belongs
    <3> DEFINE I == Bucket(tf, ticks, s)
    <3>1. bar \in HeldBars(bar, comp) /\ bar.start = s
      BY <2>1 DEF HeldBars
    <3>2. I # {} /\ bar = BarOver(tf, ticks, I) /\ I \in SUBSET (1 .. Len(ticks))
      BY <1>7, <3>1 DEF MadeOf
    <3> HIDE DEF I
    <3>3. BarOver(tf, longer, I \cup {n + 1}) = Extend(BarOver(tf, ticks, I), t)
      BY <3>2, BarExtends, SMTT(30)
    <3>4. newBar = BarOver(tf, longer, I \cup {n + 1})
      BY <2>1, <3>2, <3>3
    <3> QED
      BY <1>5, <3>4 DEF I
  <2>2. CASE ~belongs
    <3>1. \A i \in 1 .. n : BarStart(tf, ticks[i]) # s
      <4> SUFFICES ASSUME NEW i \in 1 .. n PROVE BarStart(tf, ticks[i]) # s
        OBVIOUS
      <4>1. ticks # <<>>
        BY <1>1
      <4>2. bar # NoBar /\ bar.start = BarStart(tf, ticks[n]) /\ n \in 1 .. n
        BY <1>3, <4>1
      <4>3. BarStart(tf, ticks[n]) # s
        BY <2>2, <4>2
      <4>4. BarStart(tf, ticks[i]) <= BarStart(tf, ticks[n])
        <5>1. longer[i].at <= longer[n].at
          <6>1. i \in DOMAIN longer /\ n \in DOMAIN longer /\ (i < n \/ i = n)
            <7> HIDE DEF longer, n
            <7> QED
              BY <1>1, <4>2
          <6>2. longer[i].at \in Nat
            <7>1. i \in 1 .. Len(longer)
              BY <1>1, <6>1
            <7> HIDE DEF longer
            <7> QED
              BY <1>1, <7>1, TicksTyped
          <6> QED
            BY <6>1, <6>2, SMTT(30) DEF InOrder
        <5>2. ticks[i] \in Tick /\ ticks[n] \in Tick /\ ticks[i].at <= ticks[n].at
          BY <1>1, <4>2, <5>1
        <5> QED
          BY <5>2, BarStartMonotone
      <4>5. /\ BarStart(tf, ticks[n]) <= s /\ BarStart(tf, ticks[n]) \in Nat
            /\ BarStart(tf, ticks[i]) \in Nat
        BY <1>4, <4>2
      <4> QED
        BY <1>2, <4>3, <4>4, <4>5
    <3>2. Bucket(tf, ticks, s) = {}
      BY <1>1, <3>1 DEF Bucket
    <3>3. BarOver(tf, longer, {n + 1}) = NewBar(tf, t)
      <4> DEFINE m == n + 1
      <4>1. m \in 1 .. Len(longer) /\ longer[m] = t
        BY <1>1
      <4> HIDE DEF longer, m
      <4>2. BarOver(tf, longer, {m}) = NewBar(tf, longer[m])
        BY <1>1, <4>1, BarOpens
      <4> QED
        BY <4>1, <4>2 DEF m
    <3> QED
      BY <1>5, <2>2, <3>2, <3>3
  <2> QED
    BY <2>1, <2>2
<1>10. /\ \A b \in ToSet(newComp) : b \in HeldBars(bar, comp) /\ b.start # s
       /\ Len(newComp) < MaxHistory =>
            /\ Len(comp) < MaxHistory
            /\ \A b \in HeldBars(bar, comp) : b.start # s => b \in ToSet(newComp)
  <2>1. CASE bar = NoBar
    <3>1. newComp = <<>> /\ comp = <<>>
      BY <2>1
    <3> QED
      BY <2>1, <3>1 DEF ToSet, HeldBars
  <2>2. CASE belongs
    <3>1. newComp = comp /\ bar # NoBar /\ bar.start = s /\ AllBefore(comp, s)
      BY <2>2
    <3>2. \A j \in DOMAIN comp : comp[j].start # s
      <4>1. \A j \in DOMAIN comp : comp[j] \in Bar /\ comp[j].start < s
        BY <3>1 DEF AllBefore
      <4> QED
        BY <1>2, <4>1 DEF Bar
    <3> QED
      BY <3>1, <3>2 DEF ToSet, HeldBars
  <2>3. CASE bar # NoBar /\ ~belongs
    <3> DEFINE more == Append(comp, bar)
               c == Len(comp)
    <3>1. /\ bar \in Bar /\ newComp = Trimmed(more) /\ bar.start # s
          /\ more \in Seq(Bar) /\ Len(more) = c + 1 /\ c \in Nat
          /\ \A j \in 1 .. c : more[j] = comp[j]
          /\ more[c + 1] = bar
      BY <2>3
    <3>2. \A j \in 1 .. c : comp[j].start # s
      <4>1. \A j \in 1 .. c : comp[j] \in Bar /\ comp[j].start < bar.start
        BY <2>3 DEF AllBefore
      <4>2. bar.start <= s
        <5>1. ticks # <<>> /\ bar.start = BarStart(tf, ticks[n])
          BY <2>3
        <5> QED
          BY <1>3, <1>4, <5>1
      <4>3. bar.start \in Nat /\ \A j \in 1 .. c : comp[j].start \in Nat
        BY <3>1, <4>1 DEF Bar
      <4> HIDE DEF c, s
      <4> QED
        BY <1>2, <4>1, <4>2, <4>3
    <3>3. HeldBars(bar, comp) = {more[j] : j \in 1 .. c + 1}
      <4>1. \A j \in 1 .. c + 1 : j \in 1 .. c \/ j = c + 1
        BY <3>1
      <4>2. c + 1 \in 1 .. c + 1 /\ \A j \in 1 .. c : j \in 1 .. c + 1
        BY <3>1
      <4>3. HeldBars(bar, comp) = {comp[j] : j \in 1 .. c} \cup {bar}
        BY <2>3 DEF HeldBars, ToSet
      <4> HIDE DEF more, c
      <4> QED
        BY <3>1, <4>1, <4>2, <4>3
    <3>4. \A b \in HeldBars(bar, comp) : b.start # s
      <4>1. \A j \in 1 .. c + 1 : j \in 1 .. c \/ j = c + 1
        BY <3>1
      <4> HIDE DEF more, c
      <4> QED
        BY <3>1, <3>2, <3>3, <4>1
    <3>5. CASE c + 1 > MaxHistory
      <4>0. newComp = Tail(more)
        BY <3>1, <3>5 DEF Trimmed
      <4>1. Len(newComp) = c /\ \A j \in 1 .. c : newComp[j] = more[j + 1]
        <5>1. more # <<>>
          BY <3>1, SMTT(30)
        <5> HIDE DEF more, c
        <5>2. Len(Tail(more)) = Len(more) - 1 /\ \A j \in 1 .. Len(Tail(more)) : Tail(more)[j] = more[j + 1]
          BY <3>1, <5>1, HeadTailProperties
        <5>3. Len(more) = c + 1 /\ c \in Nat
          BY <3>1
        <5>4. Len(Tail(more)) = c
          BY <5>2, <5>3
        <5>5. \A j \in 1 .. c : Tail(more)[j] = more[j + 1]
          BY <5>2, <5>4
        <5> QED
          BY <4>0, <5>4, <5>5
      <4>2. ~(Len(newComp) < MaxHistory)
        BY <3>1, <3>5, <4>1
      <4>3. \A j \in 1 .. c : j + 1 \in 1 .. c + 1
        BY <3>1
      <4>4. DOMAIN newComp = 1 .. c
        BY <3>1, <3>5 DEF Trimmed
      <4> HIDE DEF more, c
      <4>5. \A b \in ToSet(newComp) : b \in HeldBars(bar, comp)
        BY <3>3, <4>1, <4>3, <4>4, SMTT(30) DEF ToSet
      <4> QED
        BY <3>4, <4>2, <4>5
    <3>6. CASE ~(c + 1 > MaxHistory)
      <4>1. newComp = more
        BY <3>1, <3>6 DEF Trimmed
      <4>2. DOMAIN newComp = 1 .. c + 1
        BY <3>1, <4>1
      <4>3. ToSet(newComp) = HeldBars(bar, comp)
        BY <3>3, <4>1, <4>2 DEF ToSet
      <4>4. c < MaxHistory
        BY <3>1, <3>6
      <4> QED
        BY <3>4, <4>3, <4>4
    <3> QED
      BY <3>5, <3>6
  <2> QED
    BY <2>1, <2>2, <2>3
<1>11. HeldBars(newBar, newComp) = ToSet(newComp) \cup {newBar}
  BY <1>2 DEF HeldBars
<1>12. MadeOf(tf, longer, HeldBars(newBar, newComp))
  <2> SUFFICES ASSUME NEW b \in HeldBars(newBar, newComp)
               PROVE  /\ Bucket(tf, longer, b.start) # {}
                      /\ b = BarOver(tf, longer, Bucket(tf, longer, b.start))
    BY DEF MadeOf
  <2> QED
    BY <1>2, <1>8, <1>9, <1>10, <1>11
<1>13. ASSUME Len(newComp) < MaxHistory
       PROVE  Covers(tf, longer, HeldBars(newBar, newComp))
  <2> SUFFICES ASSUME NEW i \in 1 .. n + 1
               PROVE  \E b \in HeldBars(newBar, newComp) : b.start = BarStart(tf, longer[i])
    BY <1>1 DEF Covers
  <2>1. CASE BarStart(tf, longer[i]) = s
    BY <1>2, <1>11, <2>1
  <2>2. CASE BarStart(tf, longer[i]) # s
    <3>1. i \in 1 .. n
      BY <1>1, <2>2
    <3>2. Covers(tf, ticks, HeldBars(bar, comp))
      BY <1>10, <1>13
    <3>3. PICK b \in HeldBars(bar, comp) : b.start = BarStart(tf, ticks[i])
      BY <1>1, <3>1, <3>2 DEF Covers
    <3>4. b.start = BarStart(tf, longer[i])
      BY <1>1, <3>1, <3>3
    <3>5. b \in ToSet(newComp)
      BY <1>10, <1>13, <2>2, <3>4
    <3> QED
      BY <1>11, <3>4, <3>5
  <2> QED
    BY <2>1, <2>2
<1> QED
  BY <1>12, <1>13 DEF longer

BucketsInv ==
  InOrder(log) =>
    \A tf \in Timeframes :
      LET held == HeldBars(active[tf], completed[tf])
      IN /\ MadeOf(tf, log, held)
         /\ Len(completed[tf]) < MaxHistory => Covers(tf, log, held)

LEMMA BucketsInvKept == Spec => [](TypeOK /\ Chronicle /\ BucketsInv)
<1>1. Init => BucketsInv
  <2> SUFFICES ASSUME Init, NEW tf \in Timeframes
               PROVE  LET held == HeldBars(active[tf], completed[tf])
                      IN MadeOf(tf, log, held) /\ Covers(tf, log, held)
    BY DEF BucketsInv
  <2>1. log = <<>> /\ active[tf] = NoBar /\ completed[tf] = <<>>
    BY DEF Init
  <2>2. HeldBars(active[tf], completed[tf]) = {}
    BY <2>1 DEF HeldBars, ToSet
  <2> QED
    BY <2>1, <2>2 DEF MadeOf, Covers
<1>2. TypeOK /\ Chronicle /\ BucketsInv /\ [Next]_vars => BucketsInv'
  <2> SUFFICES ASSUME TypeOK, Chronicle, BucketsInv, [Next]_vars PROVE BucketsInv'
    OBVIOUS
  <2>1. CASE TimePasses \/ UNCHANGED vars
    BY <2>1 DEF TimePasses, vars, BucketsInv
  <2>2. ASSUME NEW t \in Tick, Ingest(t) PROVE BucketsInv'
    <3> SUFFICES ASSUME InOrder(log'), NEW tf \in Timeframes
                 PROVE  /\ MadeOf(tf, log', HeldBars(active'[tf], completed'[tf]))
                        /\ Len(completed'[tf]) < MaxHistory =>
                             Covers(tf, log', HeldBars(active'[tf], completed'[tf]))
      BY DEF BucketsInv
    <3>1. /\ log \in Seq(Tick) /\ log' = Append(log, t)
          /\ active[tf] \in Bar \cup {NoBar} /\ completed[tf] \in Seq(Bar)
          /\ Len(completed[tf]) <= MaxHistory
      BY <2>2 DEF TypeOK, Ingest
    <3>2. InOrder(Append(log, t)) /\ InOrder(log)
      BY <3>1, InOrderPrefix
    <3>3. /\ MadeOf(tf, log, HeldBars(active[tf], completed[tf]))
          /\ Len(completed[tf]) < MaxHistory => Covers(tf, log, HeldBars(active[tf], completed[tf]))
      BY <3>2 DEF BucketsInv
    <3>4. /\ active[tf] = NoBar <=> log = <<>>
          /\ active[tf] = NoBar => completed[tf] = <<>>
          /\ active[tf] # NoBar => /\ active[tf].start = BarStart(tf, log[Len(log)])
                                   /\ AllBefore(completed[tf], active[tf].start)
      BY <3>2 DEF Chronicle
    <3>5. /\ Belongs(tf, t) <=> active[tf] # NoBar /\ active[tf].start = BarStart(tf, t)
          /\ Completes(tf, t) <=> active[tf] # NoBar /\ ~Belongs(tf, t)
      BY DEF Belongs, Completes
    <3>6. active'[tf] = IF Belongs(tf, t) THEN Extend(active[tf], t) ELSE NewBar(tf, t)
      BY <2>2 DEF Ingest
    <3>7. completed'[tf] = IF active[tf] # NoBar /\ ~Belongs(tf, t)
                           THEN Trimmed(Append(completed[tf], active[tf]))
                           ELSE completed[tf]
      BY <2>2, <3>5 DEF Ingest
    <3>8. /\ MadeOf(tf, Append(log, t), HeldBars(active'[tf], completed'[tf]))
          /\ Len(completed'[tf]) < MaxHistory =>
               Covers(tf, Append(log, t), HeldBars(active'[tf], completed'[tf]))
      BY <3>1, <3>2, <3>3, <3>4, <3>5, <3>6, <3>7, BucketsKept
    <3> QED
      BY <3>1, <3>8
  <2> QED
    BY <2>1, <2>2 DEF Next
<1> QED
  BY <1>1, <1>2, ChronicleKept, PTL DEF Spec

PartsOf(b, coarse, bars) == {p \in bars : p.start \in b.start .. b.start + Width[coarse] - 1}

\* Some fine bars are those of the buckets that a set of ticks divides into.
Divided(fine, ticks, I, parts) ==
  /\ \A p \in parts : LET J == Bucket(fine, ticks, p.start)
                      IN /\ J # {} /\ J \in SUBSET I
                         /\ p = BarOver(fine, ticks, J) /\ p.start \in Nat
  /\ \A i \in I : \E p \in parts : i \in Bucket(fine, ticks, p.start)

\* The bar has the first part's open, the last part's close, the highest high,
\* the lowest low and the sum of the volumes.
MadeFrom(b, parts) ==
  LET first == CHOOSE p \in parts : \A q \in parts : p.start <= q.start
      last  == CHOOSE p \in parts : \A q \in parts : p.start >= q.start
  IN /\ b.open = first.open /\ b.close = last.close
     /\ b.high = Max({p.high : p \in parts})
     /\ b.low = Min({p.low : p \in parts})
     /\ b.volume = SumFunction([p \in parts |-> p.volume])

\* The parts of a coarse bar are the bars of the buckets that its bucket is made of.
LEMMA PartsPartition ==
  ASSUME NEW coarse \in Timeframes, NEW fine \in Timeframes, Width[coarse] % Width[fine] = 0,
         NEW ticks \in Seq(Tick), NEW bars, NEW H,
         MadeOf(coarse, ticks, bars), MadeOf(fine, ticks, H), Covers(fine, ticks, H),
         NEW b \in bars
  PROVE  LET I == Bucket(coarse, ticks, b.start)
         IN /\ I # {} /\ I \in SUBSET (1 .. Len(ticks))
            /\ b = BarOver(coarse, ticks, I)
            /\ Divided(fine, ticks, I, PartsOf(b, coarse, H))
<1> DEFINE n == Len(ticks)
           I == Bucket(coarse, ticks, b.start)
           J(p) == Bucket(fine, ticks, p.start)
           parts == PartsOf(b, coarse, H)
<1>1. DOMAIN ticks = 1 .. n /\ \A i \in 1 .. n : ticks[i] \in Tick
  OBVIOUS
<1>2. I # {} /\ b = BarOver(coarse, ticks, I) /\ I \in SUBSET (1 .. n)
  BY <1>1 DEF MadeOf, Bucket
<1>3. PICK i0 \in I : TRUE
  BY <1>2
<1>4. i0 \in 1 .. n /\ BarStart(coarse, ticks[i0]) = b.start /\ ticks[i0] \in Tick
  BY <1>1, <1>2, <1>3 DEF Bucket
<1>5. \A j \in 1 .. n :
        BarStart(coarse, ticks[j]) = b.start <=>
          BarStart(fine, ticks[j]) \in b.start .. b.start + Width[coarse] - 1
  <2> SUFFICES ASSUME NEW j \in 1 .. n
               PROVE  BarStart(coarse, ticks[j]) = b.start <=>
                        BarStart(fine, ticks[j]) \in b.start .. b.start + Width[coarse] - 1
    OBVIOUS
  <2> DEFINE t == ticks[i0]
             u == ticks[j]
  <2>1. t \in Tick /\ u \in Tick /\ BarStart(coarse, t) = b.start
    BY <1>1, <1>4
  <2> HIDE DEF t, u
  <2>2. BarStart(coarse, u) = BarStart(coarse, t) <=>
          BarStart(fine, u) \in BarStart(coarse, t) .. BarStart(coarse, t) + Width[coarse] - 1
    BY <2>1, BucketsNest
  <2>3. BarStart(coarse, u) = b.start <=>
          BarStart(fine, u) \in b.start .. b.start + Width[coarse] - 1
    BY <2>1, <2>2
  <2> QED
    BY <2>3 DEF u
<1>6. ASSUME NEW p \in parts
      PROVE  J(p) # {} /\ J(p) \in SUBSET I /\ p = BarOver(fine, ticks, J(p)) /\ p.start \in Nat
  <2>1. /\ p \in H /\ p.start \in b.start .. b.start + Width[coarse] - 1
    BY DEF PartsOf
  <2>2. J(p) # {} /\ p = BarOver(fine, ticks, J(p))
    BY <2>1 DEF MadeOf
  <2>3. \A j \in J(p) : j \in 1 .. n /\ BarStart(fine, ticks[j]) = p.start
    BY <1>1 DEF Bucket
  <2>4. J(p) \in SUBSET I
    <3> SUFFICES ASSUME NEW j \in J(p) PROVE j \in I
      OBVIOUS
    <3>1. j \in 1 .. n /\ BarStart(coarse, ticks[j]) = b.start
      BY <1>5, <2>1, <2>3
    <3> QED
      BY <1>1, <3>1 DEF Bucket
  <2>5. p.start \in Nat
    <3>1. PICK j \in J(p) : TRUE
      BY <2>2
    <3>2. ticks[j] \in Tick /\ BarStart(fine, ticks[j]) = p.start
      BY <1>1, <2>3, <3>1
    <3> QED
      BY <3>2, BarsTyped
  <2> QED
    BY <2>2, <2>3, <2>4, <2>5
<1>7. ASSUME NEW i \in I PROVE \E p \in parts : i \in J(p)
  <2>1. i \in 1 .. n /\ BarStart(coarse, ticks[i]) = b.start
    BY <1>1 DEF Bucket
  <2>2. PICK p \in H : p.start = BarStart(fine, ticks[i])
    BY <1>1, <2>1 DEF Covers
  <2>3. p \in parts
    BY <1>5, <2>1, <2>2 DEF PartsOf
  <2>4. i \in J(p)
    BY <1>1, <2>1, <2>2 DEF Bucket
  <2> QED
    BY <2>3, <2>4
<1>8. Divided(fine, ticks, I, parts)
  <2> HIDE DEF parts, I
  <2> QED
    BY <1>6, <1>7 DEF Divided
<1> QED
  BY <1>2, <1>8

\* So a coarse bar is made from them.
LEMMA PartsAgree ==
  ASSUME NEW coarse \in Timeframes, NEW fine \in Timeframes,
         NEW ticks \in Seq(Tick), InOrder(ticks), NEW I \in SUBSET (1 .. Len(ticks)), I # {},
         NEW b, b = BarOver(coarse, ticks, I), NEW parts, IsFiniteSet(parts),
         Divided(fine, ticks, I, parts)
  PROVE  MadeFrom(b, parts)
<1> DEFINE n == Len(ticks)
           J == [p \in parts |-> Bucket(fine, ticks, p.start)]
<1>0. /\ \A p \in parts : /\ J[p] # {} /\ J[p] \in SUBSET I
                          /\ p = BarOver(fine, ticks, J[p]) /\ p.start \in Nat
                          /\ \A j \in J[p] : BarStart(fine, ticks[j]) = p.start
      /\ \A p, q \in parts : p.start = q.start => p = q
      /\ \A i \in I : \E p \in parts : i \in J[p]
  <2>1. \A p \in parts : /\ J[p] # {} /\ J[p] \in SUBSET I
                         /\ p = BarOver(fine, ticks, J[p]) /\ p.start \in Nat
    BY DEF Divided
  <2>2. \A p \in parts : \A j \in J[p] : BarStart(fine, ticks[j]) = p.start
    BY DEF Bucket
  <2>3. \A p, q \in parts : p.start = q.start => p = q
    <3> SUFFICES ASSUME NEW p \in parts, NEW q \in parts, p.start = q.start PROVE p = q
      OBVIOUS
    <3>1. J[p] = J[q]
      OBVIOUS
    <3> HIDE DEF J
    <3> QED
      BY <2>1, <3>1
  <2>4. \A i \in I : \E p \in parts : i \in J[p]
    BY DEF Divided
  <2> QED
    BY <2>1, <2>2, <2>3, <2>4
<1> HIDE DEF J
<1> USE <1>0
<1>1. n \in Nat /\ DOMAIN ticks = 1 .. n /\ \A i \in 1 .. n : ticks[i] \in Tick
  OBVIOUS
<1>2. \A i, j \in I : i <= j => BarStart(fine, ticks[i]) <= BarStart(fine, ticks[j])
  <2> SUFFICES ASSUME NEW i \in I, NEW j \in I, i <= j
               PROVE  BarStart(fine, ticks[i]) <= BarStart(fine, ticks[j])
    OBVIOUS
  <2>1. i \in 1 .. n /\ j \in 1 .. n /\ ticks[i] \in Tick /\ ticks[j] \in Tick /\ (i = j \/ i < j)
    BY <1>1
  <2>2. ticks[i].at \in Nat /\ ticks[j].at \in Nat
    BY <2>1, TicksTyped
  <2>3. ticks[i].at <= ticks[j].at
    BY <1>1, <2>1, <2>2, SMTT(30) DEF InOrder
  <2> QED
    BY <2>1, <2>3, BarStartMonotone
<1>3. /\ Min(I) \in I /\ \A i \in I : Min(I) <= i
      /\ Max(I) \in I /\ \A i \in I : Max(I) >= i
      /\ IsFiniteSet(I) /\ I \subseteq Int
  <2>1. n \in Nat /\ I \in SUBSET (1 .. n)
    BY <1>1
  <2> HIDE DEF n
  <2>2. I \subseteq Int
    BY <2>1
  <2> QED
    BY <2>1, <2>2, EndsExist
<1>4. b.open = ticks[Min(I)].price /\ b.close = ticks[Max(I)].price
      /\ b.high = Max(Prices(ticks, I)) /\ b.low = Min(Prices(ticks, I))
      /\ b.volume = SumFunction([i \in I |-> ticks[i].qty])
  BY DEF BarOver, Prices
<1>5. \A p \in parts :
        /\ p.open = ticks[Min(J[p])].price /\ p.close = ticks[Max(J[p])].price
        /\ p.high = Max(Prices(ticks, J[p])) /\ p.low = Min(Prices(ticks, J[p]))
        /\ p.volume = SumFunction([i \in J[p] |-> ticks[i].qty])
  <2> SUFFICES ASSUME NEW p \in parts
               PROVE  /\ p.open = ticks[Min(J[p])].price /\ p.close = ticks[Max(J[p])].price
                      /\ p.high = Max(Prices(ticks, J[p])) /\ p.low = Min(Prices(ticks, J[p]))
                      /\ p.volume = SumFunction([i \in J[p] |-> ticks[i].qty])
    OBVIOUS
  <2>1. p = BarOver(fine, ticks, J[p])
    OBVIOUS
  <2> QED
    BY <2>1 DEF BarOver, Prices
<1>6. b.open = (CHOOSE p \in parts : \A q \in parts : p.start <= q.start).open
  <2> DEFINE first == CHOOSE p \in parts : \A q \in parts : p.start <= q.start
  <2>1. PICK p0 \in parts : Min(I) \in J[p0]
    BY <1>3
  <2>2. \A q \in parts : p0.start <= q.start
    <3> SUFFICES ASSUME NEW q \in parts PROVE p0.start <= q.start
      OBVIOUS
    <3>1. PICK j \in J[q] : TRUE
      OBVIOUS
    <3>2. j \in I /\ Min(I) <= j
      BY <1>3, <3>1
    <3>3. BarStart(fine, ticks[j]) = q.start /\ BarStart(fine, ticks[Min(I)]) = p0.start
      BY <2>1, <3>1
    <3>4. BarStart(fine, ticks[Min(I)]) <= BarStart(fine, ticks[j])
      BY <1>2, <1>3, <3>2
    <3> QED
      BY <3>3, <3>4
  <2>3. first \in parts /\ \A q \in parts : first.start <= q.start
    BY <2>1, <2>2
  <2> HIDE DEF first
  <2>4. first = p0
    <3>1. first.start <= p0.start /\ p0.start <= first.start /\ first.start \in Nat /\ p0.start \in Nat
      BY <2>1, <2>2, <2>3
    <3>2. first.start = p0.start
      BY <3>1
    <3> QED
      BY <2>1, <2>3, <3>2
  <2>5. Min(J[p0]) = Min(I)
    <3> DEFINE S == J[p0]
               m == Min(I)
    <3>1. S \in SUBSET Int /\ m \in S /\ \A y \in S : m <= y
      BY <1>3, <2>1
    <3> HIDE DEF S, m
    <3>2. Min(S) = m
      BY <3>1, MinIs
    <3> QED
      BY <3>2 DEF S, m
  <2>6. b.open = first.open
    BY <1>4, <1>5, <2>1, <2>4, <2>5
  <2> QED
    BY <2>6 DEF first
<1>7. b.close = (CHOOSE p \in parts : \A q \in parts : p.start >= q.start).close
  <2> DEFINE last == CHOOSE p \in parts : \A q \in parts : p.start >= q.start
  <2>1. PICK p0 \in parts : Max(I) \in J[p0]
    BY <1>3
  <2>2. \A q \in parts : p0.start >= q.start
    <3> SUFFICES ASSUME NEW q \in parts PROVE p0.start >= q.start
      OBVIOUS
    <3>1. PICK j \in J[q] : TRUE
      OBVIOUS
    <3>2. j \in I /\ j <= Max(I)
      BY <1>3, <3>1
    <3>3. BarStart(fine, ticks[j]) = q.start /\ BarStart(fine, ticks[Max(I)]) = p0.start
      BY <2>1, <3>1
    <3>5. BarStart(fine, ticks[j]) <= BarStart(fine, ticks[Max(I)])
      BY <1>2, <1>3, <3>2
    <3>4. q.start <= p0.start
      BY <3>3, <3>5
    <3> QED
      BY <3>4
  <2>3. last \in parts /\ \A q \in parts : last.start >= q.start
    BY <2>1, <2>2
  <2> HIDE DEF last
  <2>4. last = p0
    <3>1. last.start >= p0.start /\ p0.start >= last.start /\ last.start \in Nat /\ p0.start \in Nat
      BY <2>1, <2>2, <2>3
    <3>2. last.start = p0.start
      BY <3>1
    <3> QED
      BY <2>1, <2>3, <3>2
  <2>5. Max(J[p0]) = Max(I)
    <3> DEFINE S == J[p0]
               m == Max(I)
    <3>1. S \in SUBSET Int /\ m \in S /\ \A y \in S : m >= y
      BY <1>3, <2>1
    <3> HIDE DEF S, m
    <3>2. Max(S) = m
      BY <3>1, MaxIs
    <3> QED
      BY <3>2 DEF S, m
  <2>6. b.close = last.close
    BY <1>4, <1>5, <2>1, <2>4, <2>5
  <2> QED
    BY <2>6 DEF last
<1>8. /\ Prices(ticks, I) \subseteq Nat
      /\ Min(Prices(ticks, I)) \in Prices(ticks, I) /\ Max(Prices(ticks, I)) \in Prices(ticks, I)
      /\ \A p \in Prices(ticks, I) : Min(Prices(ticks, I)) <= p /\ Max(Prices(ticks, I)) >= p
  BY PriceRange
<1>9. ASSUME NEW p \in parts
      PROVE  /\ Prices(ticks, J[p]) \subseteq Prices(ticks, I)
             /\ p.low \in Prices(ticks, J[p]) /\ p.high \in Prices(ticks, J[p])
             /\ \A x \in Prices(ticks, J[p]) : p.low <= x /\ p.high >= x
  <2> DEFINE S == J[p]
  <2>1. S \in SUBSET I /\ S # {} /\ S \in SUBSET (1 .. Len(ticks))
    OBVIOUS
  <2>2. p.high = Max(Prices(ticks, S)) /\ p.low = Min(Prices(ticks, S))
    BY <1>5
  <2> HIDE DEF S
  <2>3. Prices(ticks, S) \subseteq Prices(ticks, I)
    BY <2>1 DEF Prices
  <2>4. /\ Min(Prices(ticks, S)) \in Prices(ticks, S) /\ Max(Prices(ticks, S)) \in Prices(ticks, S)
        /\ \A x \in Prices(ticks, S) : Min(Prices(ticks, S)) <= x /\ Max(Prices(ticks, S)) >= x
    BY <2>1, PriceRange
  <2>5. /\ Prices(ticks, S) \subseteq Prices(ticks, I)
        /\ p.low \in Prices(ticks, S) /\ p.high \in Prices(ticks, S)
        /\ \A x \in Prices(ticks, S) : p.low <= x /\ p.high >= x
    BY <2>2, <2>3, <2>4
  <2> QED
    BY <2>5 DEF S
<1>10. \A x \in Prices(ticks, I) : \E p \in parts : x \in Prices(ticks, J[p])
  <2> SUFFICES ASSUME NEW i \in I
               PROVE  \E p \in parts : ticks[i].price \in Prices(ticks, J[p])
    BY DEF Prices
  <2>1. PICK p \in parts : i \in J[p]
    OBVIOUS
  <2>2. ticks[i].price \in Prices(ticks, J[p])
    BY <2>1 DEF Prices
  <2> QED
    BY <2>2
<1>11. b.high = Max({p.high : p \in parts})
  <2> DEFINE S == {p.high : p \in parts}
             m == Max(Prices(ticks, I))
  <2>1. m \in Nat /\ m \in Prices(ticks, I)
    BY <1>8
  <2>2. \A p \in parts : p.high \in Nat /\ m >= p.high
    BY <1>8, <1>9
  <2>3. PICK p \in parts : m \in Prices(ticks, J[p])
    BY <1>10, <2>1
  <2>4. p.high >= m
    BY <1>9, <2>3
  <2> HIDE DEF m
  <2>5. p.high = m
    BY <2>1, <2>2, <2>3, <2>4
  <2>6. S \in SUBSET Int /\ m \in S /\ \A y \in S : m >= y
    BY <2>2, <2>3, <2>5
  <2> HIDE DEF S
  <2>7. Max(S) = m
    BY <2>6, MaxIs
  <2> QED
    BY <1>4, <2>7 DEF S, m
<1>12. b.low = Min({p.low : p \in parts})
  <2> DEFINE S == {p.low : p \in parts}
             m == Min(Prices(ticks, I))
  <2>1. m \in Nat /\ m \in Prices(ticks, I)
    BY <1>8
  <2>2. \A p \in parts : p.low \in Nat /\ m <= p.low
    BY <1>8, <1>9
  <2>3. PICK p \in parts : m \in Prices(ticks, J[p])
    BY <1>10, <2>1
  <2>4. p.low <= m
    BY <1>9, <2>3
  <2> HIDE DEF m
  <2>5. p.low = m
    BY <2>1, <2>2, <2>3, <2>4
  <2>6. S \in SUBSET Int /\ m \in S /\ \A y \in S : m <= y
    BY <2>2, <2>3, <2>5
  <2> HIDE DEF S
  <2>7. Min(S) = m
    BY <2>6, MinIs
  <2> QED
    BY <1>4, <2>7 DEF S, m
<1>13. b.volume = SumFunction([p \in parts |-> p.volume])
  <2> DEFINE f == [i \in I |-> ticks[i].qty]
             v == [p \in parts |-> p.volume]
  <2>1. DOMAIN f = I /\ DOMAIN v = parts /\ \A i \in I : f[i] = ticks[i].qty /\ f[i] \in Int
    BY TicksTyped
  <2>2. \A p \in parts : v[p] = SumFunctionOnSet(f, J[p])
    <3> SUFFICES ASSUME NEW p \in parts PROVE v[p] = SumFunctionOnSet(f, J[p])
      OBVIOUS
    <3> DEFINE S == J[p]
               g == [i \in S |-> ticks[i].qty]
    <3>1. S \in SUBSET I /\ DOMAIN g = S /\ \A i \in S : g[i] = ticks[i].qty
      OBVIOUS
    <3>2. v[p] = SumFunction(g)
      BY <1>5
    <3> HIDE DEF S, f, g, v
    <3>3. IsFiniteSet(S)
      BY <1>3, <3>1, FS_Subset
    <3>4. \A i \in S : f[i] \in Int /\ g[i] = f[i]
      BY <2>1, <3>1
    <3>5. SumFunctionOnSet(g, S) = SumFunctionOnSet(f, S)
      BY <3>3, <3>4, SumAgrees
    <3>6. v[p] = SumFunctionOnSet(f, S)
      BY <3>1, <3>2, <3>5 DEF SumFunction
    <3> QED
      BY <3>6 DEF S
  <2>3. \A p, q \in parts : p # q => J[p] \cap J[q] = {}
    <3> SUFFICES ASSUME NEW p \in parts, NEW q \in parts, NEW j \in J[p] \cap J[q]
                 PROVE  p = q
      OBVIOUS
    <3>1. BarStart(fine, ticks[j]) = p.start /\ BarStart(fine, ticks[j]) = q.start
      OBVIOUS
    <3> QED
      BY <3>1
  <2>4. UNION {J[p] : p \in parts} = I
    <3>1. \A i : i \in UNION {J[p] : p \in parts} <=> \E p \in parts : i \in J[p]
      OBVIOUS
    <3>2. \A i : i \in I <=> \E p \in parts : i \in J[p]
      BY <1>0
    <3> QED
      BY <3>1, <3>2
  <2>7. \A p \in parts : J[p] \in SUBSET I /\ v[p] = SumFunctionOnSet(f, J[p])
    BY <2>2
  <2>8. \A i \in I : f[i] \in Int
    BY <2>1
  <2> HIDE DEF f, v
  <2>5. SumFunctionOnSet(v, parts) = SumFunctionOnSet(f, UNION {J[p] : p \in parts})
    <3> HIDE <1>0
    <3>1. IsFiniteSet(parts) /\ IsFiniteSet(I)
      BY <1>3
    <3>2. SumsOfParts(v, f, J, parts, I)
      BY <2>3, <2>7, <2>8 DEF SumsOfParts
    <3> QED
      BY <3>1, <3>2, SumOfSums
  <2>6. SumFunction(v) = SumFunction(f)
    BY <2>1, <2>4, <2>5 DEF SumFunction
  <2> QED
    BY <1>4, <2>6 DEF f, v
<1> QED
  BY <1>6, <1>7, <1>11, <1>12, <1>13 DEF MadeFrom

(* Timeframes agree: from a feed that keeps order, a bar is made of the      *)
(* bars of any finer timeframe in its bucket, while none of them is dropped.  *)
THEOREM TimeframesAreConsistent == Spec => []TimeframesAgree
<1>1. TypeOK /\ BucketsInv => TimeframesAgree
  <2> SUFFICES ASSUME TypeOK, BucketsInv, InOrder(log),
                      NEW coarse \in Timeframes, NEW fine \in Timeframes,
                      Width[coarse] % Width[fine] = 0, Len(completed[fine]) < MaxHistory,
                      NEW b \in ToSet(Bars(coarse))
               PROVE  MadeFrom(b, {p \in ToSet(Bars(fine)) :
                                      p.start \in b.start .. b.start + Width[coarse] - 1})
    BY DEF TimeframesAgree, MadeFrom
  <2>1. ASSUME NEW tf \in Timeframes
        PROVE  /\ ToSet(Bars(tf)) = HeldBars(active[tf], completed[tf])
               /\ IsFiniteSet(ToSet(Bars(tf)))
    <3>1. /\ completed[tf] \in Seq(Bar) /\ active[tf] \in Bar \cup {NoBar}
          /\ Bars(tf) \in Seq(Bar)
      BY DEF TypeOK, Bars
    <3>2. ToSet(Bars(tf)) = HeldBars(active[tf], completed[tf])
      <4> DEFINE comp == completed[tf]
                 bar == active[tf]
                 c == Len(comp)
                 more == Append(comp, bar)
      <4>1. CASE bar = NoBar
        BY <4>1 DEF Bars, HeldBars
      <4>2. CASE bar # NoBar
        <5>1. /\ Bars(tf) = more /\ bar \in Bar /\ c \in Nat
              /\ DOMAIN more = 1 .. c + 1 /\ DOMAIN comp = 1 .. c
              /\ \A j \in 1 .. c : more[j] = comp[j]
              /\ more[c + 1] = bar
          BY <3>1, <4>2 DEF Bars
        <5> HIDE DEF comp, bar, c, more
        <5>2. /\ \A j \in 1 .. c + 1 : j \in 1 .. c \/ j = c + 1
              /\ c + 1 \in 1 .. c + 1 /\ \A j \in 1 .. c : j \in 1 .. c + 1
          BY <5>1
        <5>3. ToSet(more) = ToSet(comp) \cup {bar}
          BY <5>1, <5>2 DEF ToSet
        <5>4. HeldBars(bar, comp) = ToSet(comp) \cup {bar}
          BY <4>2 DEF HeldBars
        <5> QED
          BY <5>1, <5>3, <5>4 DEF comp, bar
      <4> QED
        BY <4>1, <4>2
    <3>3. IsFiniteSet(ToSet(Bars(tf)))
      <4> DEFINE s == Bars(tf)
      <4>1. DOMAIN s = 1 .. Len(s) /\ Len(s) \in Nat
        BY <3>1
      <4>2. IsFiniteSet(DOMAIN s)
        BY <4>1, FS_Interval
      <4> HIDE DEF s
      <4>3. s \in Surjection(DOMAIN s, ToSet(s))
        <5>1. s \in Seq(Bar)
          BY <3>1 DEF s
        <5>2. s \in [DOMAIN s -> ToSet(s)]
          BY <5>1 DEF ToSet
        <5> QED
          BY <5>2 DEF Surjection, ToSet
      <4> QED
        BY <4>2, <4>3, FS_Surjection DEF s
    <3> QED
      BY <3>2, <3>3
  <2> DEFINE bars == ToSet(Bars(coarse))
             H == ToSet(Bars(fine))
             parts == PartsOf(b, coarse, H)
             I == Bucket(coarse, log, b.start)
  <2>2. /\ log \in Seq(Tick) /\ IsFiniteSet(H)
        /\ MadeOf(coarse, log, bars) /\ MadeOf(fine, log, H) /\ Covers(fine, log, H)
    BY <2>1 DEF TypeOK, BucketsInv
  <2>3. b \in bars
    OBVIOUS
  <2>4. parts = {p \in H : p.start \in b.start .. b.start + Width[coarse] - 1}
    BY DEF PartsOf
  <2>5. IsFiniteSet(parts)
    BY <2>2, <2>4, FS_Subset
  <2> HIDE DEF bars, H
  <2>6. /\ I # {} /\ I \in SUBSET (1 .. Len(log)) /\ b = BarOver(coarse, log, I)
        /\ Divided(fine, log, I, parts)
    BY <2>2, <2>3, PartsPartition
  <2> HIDE DEF parts, I
  <2>8. MadeFrom(b, parts)
    BY <2>2, <2>5, <2>6, PartsAgree
  <2> QED
    BY <2>4, <2>8 DEF H
<1> QED
  BY <1>1, BucketsInvKept, PTL
=============================================================================
