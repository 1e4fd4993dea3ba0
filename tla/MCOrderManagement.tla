-------------------------- MODULE MCOrderManagement --------------------------
(***************************************************************************)
(* Small instances of OrderManagement for TLC.                              *)
(***************************************************************************)
EXTENDS OrderManagement, TLC

MCAccounts == {"a1", "a2"}
MCKeys == {"k1", "k2", "k3"}
MCStrategies == {"s1"}
MCSymbols == {"X"}
MCSpellings == {"X", "x"}
MCUpperOf == [s \in MCSpellings |-> "X"]
LiveBrokers == {"kite"}
LiveKind == [b \in LiveBrokers |-> "http"]
BookBrokers == {"paper", "kitebox", "binance"}
BookKind == [b \in BookBrokers |->
               CASE b = "paper" -> "paper" [] b = "kitebox" -> "sandbox" [] OTHER -> "instant"]
PaperAndBinance == {"paper", "binance"}
NoBrokers == {}

Ask(key, acct, broker, sym, side, qty, price) ==
  [key |-> key, acct |-> acct, strategy |-> "s1", broker |-> broker,
   sym |-> sym, side |-> side, qty |-> qty, price |-> price]

\* A buy and a sell that cross, on the live broker; further calls retry.
LiveRequests == {
  Ask("k1", "a1", "kite", "X", "BUY", 1, 2),
  Ask("k2", "a1", "kite", "X", "SELL", 1, 1)}

\* Fills: two accounts share the paper broker, whose money runs out, and the
\* quantities open, grow, reduce, flatten and flip a position.
BookRequests == {
  Ask("k1", "a1", "paper", "X", "BUY", 2, 1),
  Ask("k2", "a1", "paper", "x", "SELL", 3, 0),
  Ask("k1", "a2", "paper", "X", "SELL", 2, 1),
  Ask("k2", "a2", "paper", "X", "BUY", 2, 1),
  Ask("k2", "a2", "unregistered", "X", "BUY", 1, 1),
  \* filled at once by an adapter with a book of its own, if it is connected
  Ask("k3", "a2", "binance", "X", "SELL", 2, 0),
  \* acknowledged at once and left open by the sandboxed adapter
  Ask("k1", "a1", "kitebox", "X", "BUY", 1, 1),
  Ask("k2", "a1", "kitebox", "X", "SELL", 1, 2)}

Loose == [stp |-> TRUE, maxOpen |-> 2, maxRate |-> 1]
Tight == [stp |-> TRUE, maxOpen |-> 1, maxRate |-> 1]
Unguarded == [stp |-> FALSE, maxOpen |-> 2, maxRate |-> 1]
LooseOnly == {Loose}
TwoCaps == {Loose, Tight}
AllConfigs == {Loose, Tight, Unguarded}

Everything == [level |-> "GLOBAL", target |-> NoTarget]
GlobalScope == {Everything}
NoScopes == {}

Symmetry == Permutations(Calls) \cup Permutations(Cancels)
=============================================================================
