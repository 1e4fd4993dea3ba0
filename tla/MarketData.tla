------------------------------ MODULE MarketData ------------------------------
(***************************************************************************)
(* The market data of one symbol: the latest tick, which the pre-trade      *)
(* staleness guard reads, and the candle aggregator with its bar in          *)
(* progress and its completed bars per timeframe.                            *)
(*                                                                          *)
(* Ticks come from clients, gateways and the replay feed with the time of    *)
(* their event, and arrive in any order: late, and ahead of the clock too.   *)
(* Ingesting one is a single step: the feed and the aggregator never         *)
(* suspend, and only broadcasts follow.  One unit of time stands for both    *)
(* the guard's milliseconds and the aggregator's seconds.                    *)
(***************************************************************************)
EXTENDS Integers, FiniteSets, SequencesExt

CONSTANTS
  Timeframes,
  Width,        \* TIMEFRAME_SECONDS: the length of a timeframe's buckets
  MaxHistory,   \* completed bars kept per timeframe
  Threshold,    \* age above which the latest tick is stale
  Quotes,       \* [price, qty] of the ticks
  NoTick, NoBar,
  MaxTime,      \* bound: of the clock and of the ticks' times
  MaxTicks      \* bound: ticks ingested

VARIABLES
  clock,
  latest,     \* the feed's latest tick
  active,     \* timeframe -> the bar in progress
  completed,  \* timeframe -> the completed bars, oldest first
  log         \* history: every tick, in the order of arrival

vars == <<clock, latest, active, completed, log>>

Times == 0 .. MaxTime
Tick == {[at |-> at, price |-> q.price, qty |-> q.qty] : at \in Times, q \in Quotes}
Bar == [start : Nat, open : Nat, high : Nat, low : Nat, close : Nat, volume : Nat]

ASSUME MarketDataAssumption ==
  /\ Width \in [Timeframes -> Nat \ {0}]
  /\ MaxHistory \in Nat \ {0} /\ Threshold \in Nat
  /\ Quotes \subseteq [price : Nat, qty : Nat]
  /\ NoTick \notin Tick /\ NoBar \notin Bar
  /\ MaxTime \in Nat /\ MaxTicks \in Nat
-----------------------------------------------------------------------------
(* The staleness guard: Tick.is_stale, and assert_not_stale's view of it.   *)

\* Mutant: the seconds field of the difference, which wraps, for the total.
AgeField(t) == (clock - t.at) % 3

Age(t) == clock - t.at

\* Mutant: a tick of exactly the threshold's age is stale.
StaleFromThreshold(t) == Age(t) >= Threshold

IsStale(t) == Age(t) > Threshold

GuardView ==
  CASE latest = NoTick  -> "none"
    [] latest # NoTick /\ IsStale(latest)  -> "stale"
    [] latest # NoTick /\ ~IsStale(latest) -> "fresh"
-----------------------------------------------------------------------------
(* The candle aggregator.                                                   *)

BarStart(tf, t) == (t.at \div Width[tf]) * Width[tf]

\* Mutant: the volume of the tick that opens a bar is forgotten.
NewBarEmpty(tf, t) ==
  [start |-> BarStart(tf, t), open |-> t.price, high |-> t.price,
   low |-> t.price, close |-> t.price, volume |-> 0]

NewBar(tf, t) ==
  [start |-> BarStart(tf, t), open |-> t.price, high |-> t.price,
   low |-> t.price, close |-> t.price, volume |-> t.qty]

\* Mutant: the close stays at the bar's first price.
ExtendKeepingClose(bar, t) ==
  [bar EXCEPT !.high = IF t.price > @ THEN t.price ELSE @,
              !.low = IF t.price < @ THEN t.price ELSE @,
              !.volume = @ + t.qty]

Extend(bar, t) ==
  [bar EXCEPT !.high = IF t.price > @ THEN t.price ELSE @,
              !.low = IF t.price < @ THEN t.price ELSE @,
              !.close = t.price,
              !.volume = @ + t.qty]

\* Mutant: the bar's start is compared with the tick's time, not its bucket.
BelongsUnaligned(tf, t) == active[tf] # NoBar /\ active[tf].start = t.at

Belongs(tf, t) == active[tf] # NoBar /\ active[tf].start = BarStart(tf, t)

\* Does this tick complete the bar in progress?
Completes(tf, t) == active[tf] # NoBar /\ ~Belongs(tf, t)

\* Mutant: one completed bar too many is kept.
TrimmedLate(bars) == IF Len(bars) > MaxHistory + 1 THEN Tail(bars) ELSE bars

Trimmed(bars) == IF Len(bars) > MaxHistory THEN Tail(bars) ELSE bars

\* get_candles: the completed bars and the one in progress, the last of them.
Bars(tf) ==
  IF active[tf] = NoBar THEN completed[tf] ELSE Append(completed[tf], active[tf])

LastOf(s, n) == SubSeq(s, IF Len(s) > n THEN Len(s) - n + 1 ELSE 1, Len(s))

GetCandles(tf, limit) == LastOf(Bars(tf), limit)
-----------------------------------------------------------------------------
Init ==
  /\ clock = 0
  /\ latest = NoTick
  /\ active = [tf \in Timeframes |-> NoBar]
  /\ completed = [tf \in Timeframes |-> <<>>]
  /\ log = <<>>

Ingest(t) ==
  /\ Len(log) < MaxTicks
  /\ latest' = t
  /\ active' = [tf \in Timeframes |->
                  IF Belongs(tf, t) THEN Extend(active[tf], t) ELSE NewBar(tf, t)]
  /\ completed' = [tf \in Timeframes |->
                     IF Completes(tf, t) THEN Trimmed(Append(completed[tf], active[tf]))
                     ELSE completed[tf]]
  /\ log' = Append(log, t)
  /\ UNCHANGED clock

TimePasses ==
  /\ clock < MaxTime
  /\ clock' = clock + 1
  /\ UNCHANGED <<latest, active, completed, log>>

Next == TimePasses \/ \E t \in Tick : Ingest(t)

Spec == Init /\ [][Next]_vars
-----------------------------------------------------------------------------
(* Properties.                                                              *)

(* Every variable keeps its type, and the history its length.               *)
TypeOK ==
  /\ clock \in Nat
  /\ latest \in Tick \cup {NoTick}
  /\ active \in [Timeframes -> Bar \cup {NoBar}]
  /\ completed \in [Timeframes -> Seq(Bar)]
  /\ \A tf \in Timeframes : Len(completed[tf]) <= MaxHistory
  /\ log \in Seq(Tick)

\* The reference: the ticks are cut where one is of another bucket than the
\* one before it, and every piece makes a bar.
CutsOf(tf, ticks) ==
  {i \in DOMAIN ticks : i = 1 \/ BarStart(tf, ticks[i]) # BarStart(tf, ticks[i - 1])}

\* The k-th piece: the ticks with k cuts up to them.
Piece(tf, ticks, k) ==
  {i \in DOMAIN ticks : Cardinality({c \in CutsOf(tf, ticks) : c <= i}) = k}

BarOver(tf, ticks, I) ==
  LET prices == {ticks[i].price : i \in I}
  IN [start  |-> BarStart(tf, ticks[Min(I)]),
      open   |-> ticks[Min(I)].price,
      high   |-> Max(prices),
      low    |-> Min(prices),
      close  |-> ticks[Max(I)].price,
      volume |-> SumFunction([i \in I |-> ticks[i].qty])]

ReplayedBars(tf, ticks) ==
  [k \in 1 .. Cardinality(CutsOf(tf, ticks)) |-> BarOver(tf, ticks, Piece(tf, ticks, k))]

(* Candles are what a replay of the ticks gives: whatever was asked for and  *)
(* however much history was dropped, get_candles returns the last bars of    *)
(* the log cut by bucket, with their open, high, low, close and volume.      *)
CandlesReplayTheTicks ==
  \A tf \in Timeframes :
    LET bars == ReplayedBars(tf, log)
    IN \A limit \in 1 .. MaxHistory + 1 : GetCandles(tf, limit) = LastOf(bars, limit)

\* The feed delivered the ticks in the order of their times.
InOrder(ticks) == \A i, j \in DOMAIN ticks : i < j => ticks[i].at <= ticks[j].at

(* From a feed that keeps order, the bars of a timeframe are in strictly     *)
(* increasing order: no bucket has two bars and no bar is reopened.          *)
BarsIncrease ==
  InOrder(log) =>
    \A tf \in Timeframes : \A i, j \in DOMAIN Bars(tf) :
      i < j => Bars(tf)[i].start < Bars(tf)[j].start

(* Timeframes agree: from a feed that keeps order, a bar is made of the      *)
(* bars of any finer timeframe in its bucket (none of which was dropped).    *)
TimeframesAgree ==
  InOrder(log) =>
    \A coarse, fine \in Timeframes :
      /\ Width[coarse] % Width[fine] = 0
      /\ Len(completed[fine]) < MaxHistory
      => \A b \in ToSet(Bars(coarse)) :
           LET parts == {p \in ToSet(Bars(fine)) :
                           p.start \in b.start .. b.start + Width[coarse] - 1}
               first == CHOOSE p \in parts : \A q \in parts : p.start <= q.start
               last  == CHOOSE p \in parts : \A q \in parts : p.start >= q.start
           IN /\ b.open = first.open /\ b.close = last.close
              /\ b.high = Max({p.high : p \in parts})
              /\ b.low = Min({p.low : p \in parts})
              /\ b.volume = SumFunction([p \in parts |-> p.volume])

(* From a feed that keeps order, the guard lets an order through exactly     *)
(* when some tick of the symbol is no older than the threshold.              *)
GuardSeesAnyFreshTick ==
  InOrder(log) =>
    (GuardView = "fresh" <=> \E i \in DOMAIN log : clock <= log[i].at + Threshold)

(* The guard's view changes as StalenessGuard says, which is all that        *)
(* OrderManagement assumes of the market data.                               *)
Guard == INSTANCE StalenessGuard WITH view <- GuardView, ticks <- Len(log)
ImplementsGuard == Guard!Spec
=============================================================================
