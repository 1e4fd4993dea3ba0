---------------------------- MODULE Reconciliation ----------------------------
(***************************************************************************)
(* Two position books and their reconciliation: the rows of the order       *)
(* service's repository, the books of the brokers, and the engine that      *)
(* compares them and halts trading when they differ.  The broker a request  *)
(* names keeps its book in one of four ways:                                *)
(*   paper      one position per symbol for all accounts, netted in place;  *)
(*   simulated  Binance, Angel One and Interactive Brokers, each for itself:*)
(*              one position per account and symbol, replaced by each order;*)
(*   live       Zerodha over HTTP: positions as the exchange has them;      *)
(*   nobody     an id that is not registered, or Zerodha sandboxed or       *)
(*              without an HTTP client: there is no book, and the rows are  *)
(*              compared with nothing.                                      *)
(*                                                                          *)
(* The repository keeps references.  A sync stores the broker's own object  *)
(* as the row, and both sides then write to it; object says which object a  *)
(* row is.                                                                  *)
(*                                                                          *)
(* Only the live broker's query suspends a reconciliation.  Orders stand    *)
(* for the calls of submit_order that fill at once: the service never books *)
(* what the live broker executes.  Nor does it book what is executed for    *)
(* nobody's call: the certification audit's trial order goes to an adapter  *)
(* directly.  The halts here are those of reconciliations.                  *)
(***************************************************************************)
EXTENDS Positions, FiniteSets

CONSTANTS
  Accounts, Symbols,
  NoAccount,
  Simulated,  \* the adapters that fill at once, in books of their own
  TrialAccount, TrialSymbol,  \* of the audit's trial order
  Polled,     \* the accounts reconcile_all_accounts knows: they are built in
  Orders,     \* the orders clients send to brokers that fill at once
  LiveSizes,  \* signed quantities the exchange may come to hold
  MaxFills,   \* bound: executions in all, but for the exchange's
  Queries     \* concurrent reconciliations with the live broker

Filling == {"paper"} \cup Simulated   \* brokers whose fills the service books
Books == Filling \cup {"live", "nobody"}
Slots == Accounts \X Symbols
Order == [acct : Accounts, sym : Symbols, broker : Filling, side : Sides, qty : Nat \ {0}]

ASSUME ReconciliationAssumption ==
  /\ NoAccount \notin Accounts
  /\ TrialAccount \in Accounts /\ TrialSymbol \in Symbols
  /\ Simulated \cap {"own", "paper", "live", "nobody"} = {}
  /\ Polled \subseteq Accounts
  /\ Orders \subseteq Order
  /\ LiveSizes \subseteq Int
  /\ MaxFills \in Nat

PerSymbol(S) == [Accounts -> [Symbols -> S]]

VARIABLES
  row,       \* repository: the position of a row that is an object of its own
  object,    \* repository: "own", or the broker whose object the row is
  paper,     \* paper broker: symbol -> [owner, pos]
  simulated, \* simulated broker -> account -> symbol -> position
  connected, \* simulated broker -> is its session up
  live,      \* exchange: symbol -> signed quantity
  halted,    \* a reconciliation has engaged the kill switch
  query      \* reconciliations suspended in a call of the live broker

\* History, for the properties only.
VARIABLES
  executed,  \* number of executions in all, but for the exchange's
  fills,     \* account -> symbol -> broker -> number of executions
  ordered,   \* account -> symbol -> signed quantity of the fills booked
  unbooked,  \* account and symbol with an execution that no row followed
  synced,    \* account and symbol whose row a sync has replaced ...
  copied,    \* ... with a copy of the live broker's position
  moved      \* symbols that were executed at the live broker

books   == <<row, object, paper, simulated>>
history == <<executed, fills, ordered, unbooked, synced, copied, moved>>
vars == <<books, connected, live, halted, query, history>>

NothingHeld == [s \in Symbols |-> NoPosition]

\* open: the symbols whose rows were read, being open; replaced: those of them
\* whose row a sync has replaced since; held and failed: the live broker's
\* positions, and whether it could not be reached.
Idle == [pc |-> "idle", acct |-> NoAccount, open |-> {}, replaced |-> {},
         held |-> NothingHeld, failed |-> FALSE]
-----------------------------------------------------------------------------
\* The position a row shows, whichever object it is.
Row(a, s) ==
  CASE object[a][s] = "own"   -> row[a][s]
    [] object[a][s] = "paper" -> paper[s].pos
    [] OTHER                  -> simulated[object[a][s]][a][s]

Rows(a) == [s \in Symbols |-> Row(a, s)]

\* The paper broker's get_positions: the open positions the account opened.
PaperHolds(a) ==
  [s \in Symbols |-> IF paper[s].owner = a /\ paper[s].pos.qty > 0
                     THEN paper[s].pos ELSE NoPosition]

SimulatedHolds(b, a) == simulated[b][a]

\* Mutant: a short position keeps the exchange's sign.
LiveHoldsSigned ==
  [s \in Symbols |->
     CASE live[s] > 0 -> Holding("LONG", live[s])
       [] live[s] < 0 -> Holding("SHORT", live[s])
       [] OTHER       -> NoPosition]

LiveHolds ==
  [s \in Symbols |->
     CASE live[s] > 0 -> Holding("LONG", live[s])
       [] live[s] < 0 -> Holding("SHORT", -live[s])
       [] OTHER       -> NoPosition]

Holds(b, a) ==
  CASE b = "paper"       -> PaperHolds(a)
    [] b \in Simulated -> SimulatedHolds(b, a)
    [] b = "live"        -> LiveHolds
    [] OTHER             -> NothingHeld

\* Mutant: a closed row differs from no position.
DiscrepanciesOfRows(rows, held) == {s \in Symbols : rows[s] # held[s]}

\* Sizes are compared and sides are not; every difference is critical.
Discrepancies(rows, held) == {s \in Symbols : rows[s].qty # held[s].qty}

\* The symbols in which the account has a position, as a reconciliation sees it.
Open(held) == {s \in Symbols : held[s].qty # 0}

\* The same when the rows were read before a suspension.  The sizes are those
\* of the row objects by then; one that a sync has replaced may show any.  A
\* row that has closed since differs from no position.
LateDiscrepancies(read, held) ==
  LET both == read.open \cap Open(held)
  IN {((read.open \cup Open(held)) \ both)
        \cup {s \in both \ read.replaced : Row(read.acct, s).qty # held[s].qty}
        \cup unknown : unknown \in SUBSET (both \cap read.replaced)}

\* The end of a reconciliation: a discrepancy engages the kill switch, for
\* the whole platform although its target is the account.
Conclude(differing) == halted' = (halted \/ differing # {})

Init ==
  /\ row = [a \in Accounts |-> NothingHeld]
  /\ object = [a \in Accounts |-> [s \in Symbols |-> "own"]]
  /\ paper = [s \in Symbols |-> [owner |-> NoAccount, pos |-> NoPosition]]
  /\ simulated = [b \in Simulated |-> [a \in Accounts |-> NothingHeld]]
  /\ connected = [b \in Simulated |-> FALSE]
  /\ live = [s \in Symbols |-> 0]
  /\ halted = FALSE
  /\ query = [q \in Queries |-> Idle]
  /\ executed = 0
  /\ fills = [a \in Accounts |-> [s \in Symbols |-> [b \in Filling |-> 0]]]
  /\ ordered = [a \in Accounts |-> [s \in Symbols |-> 0]]
  /\ unbooked = {} /\ synced = {} /\ copied = {} /\ moved = {}
-----------------------------------------------------------------------------
(* Orders.                                                                  *)

\* A broker executes an order of an account.
Execute(o) ==
  /\ executed < MaxFills /\ executed' = executed + 1
  /\ fills' = [fills EXCEPT ![o.acct][o.sym][o.broker] = @ + 1]
  /\ UNCHANGED <<live, halted, query, synced, copied, moved>>

\* What the order service does after the broker's fill: it changes the object
\* its row refers to, which may be the broker's.
BookFill(o, ref, own, pap, sim) ==
  LET Filled(p) == ApplyFill(p, o.side, o.qty)
  IN /\ object' = [object EXCEPT ![o.acct][o.sym] = ref]
     /\ row' = IF ref = "own" THEN [row EXCEPT ![o.acct][o.sym] = Filled(own)] ELSE row
     /\ paper' = IF ref = "paper" THEN [pap EXCEPT ![o.sym].pos = Filled(@)] ELSE pap
     /\ simulated' = IF ref \in Simulated
                     THEN [sim EXCEPT ![ref][o.acct][o.sym] = Filled(@)] ELSE sim
     /\ ordered' = [ordered EXCEPT ![o.acct][o.sym] = @ + Sign(o.side) * o.qty]
     /\ UNCHANGED unbooked

\* Nobody does: the broker alone changes its book.  A row that was the object
\* the broker has replaced keeps that object as its own.
LeaveUnbooked(o, ref, own, pap, sim) ==
  /\ object' = [object EXCEPT ![o.acct][o.sym] = ref]
  /\ row' = IF ref = "own" THEN [row EXCEPT ![o.acct][o.sym] = own] ELSE row
  /\ paper' = pap
  /\ simulated' = sim
  /\ unbooked' = unbooked \cup {<<o.acct, o.sym>>}
  /\ UNCHANGED ordered

\* The account that opens a symbol stays its owner for good.
PaperAfter(o) ==
  [paper EXCEPT ![o.sym] = [owner |-> IF @.pos.side = "NONE" THEN o.acct ELSE @.owner,
                            pos   |-> PaperFill(@.pos, o.side, o.qty)]]

\* The order's own side and size in a new object: what was there before is
\* forgotten.
SimulatedAfter(o) ==
  [simulated EXCEPT ![o.broker][o.acct][o.sym] = Holding(Direction(o.side), o.qty)]

\* What a row is once its slot's object at the order's broker is replaced.
Detached(o) ==
  IF object[o.acct][o.sym] = o.broker THEN "own" ELSE object[o.acct][o.sym]

\* An order whose report finds the adapter's update queue full is executed,
\* and its call never comes back to book it.
PaperOrder(o) ==
  LET ref == object[o.acct][o.sym]
      own == row[o.acct][o.sym]
  IN /\ ~halted
     /\ o.broker = "paper"
     /\ Execute(o)
     /\ \/ BookFill(o, ref, own, PaperAfter(o), simulated)
        \/ LeaveUnbooked(o, ref, own, PaperAfter(o), simulated)
     /\ UNCHANGED connected

SimulatedOrder(o) ==
  LET own == Row(o.acct, o.sym)
  IN /\ ~halted
     /\ o.broker \in Simulated /\ connected[o.broker]
     /\ Execute(o)
     /\ \/ BookFill(o, Detached(o), own, paper, SimulatedAfter(o))
        \/ LeaveUnbooked(o, Detached(o), own, paper, SimulatedAfter(o))
     /\ UNCHANGED connected

\* The certification audit buys 1 at the adapter it certifies, halted or not.
\* At the live broker that is an execution like any other.
TrialOrder(b) ==
  [acct |-> TrialAccount, sym |-> TrialSymbol, broker |-> b, side |-> "BUY", qty |-> 1]

PaperTrial ==
  LET o == TrialOrder("paper")
  IN /\ Execute(o)
     /\ LeaveUnbooked(o, object[o.acct][o.sym], row[o.acct][o.sym], PaperAfter(o), simulated)
     /\ UNCHANGED connected

\* It connects first and disconnects last, unless a full queue stops it.
SimulatedTrial(b) ==
  LET o == TrialOrder(b)
  IN /\ Execute(o)
     /\ LeaveUnbooked(o, Detached(o), Row(o.acct, o.sym), paper, SimulatedAfter(o))
     /\ \E up \in BOOLEAN : connected' = [connected EXCEPT ![b] = up]

Connect(b) ==
  /\ ~connected[b] /\ connected' = [connected EXCEPT ![b] = TRUE]
  /\ UNCHANGED <<books, live, halted, query, history>>

Disconnect(b) ==
  /\ connected[b] /\ connected' = [connected EXCEPT ![b] = FALSE]
  /\ UNCHANGED <<books, live, halted, query, history>>

\* An acknowledged order is executed at the exchange; the service is not told.
ExchangeExecutes(s, n) ==
  /\ live' = [live EXCEPT ![s] = n]
  /\ moved' = moved \cup {s}
  /\ UNCHANGED <<books, connected, halted, query,
                 executed, fills, ordered, unbooked, synced, copied>>

DeactivateKillSwitch ==
  /\ halted /\ halted' = FALSE
  /\ UNCHANGED <<books, connected, live, query, history>>
-----------------------------------------------------------------------------
(* Reconciliation with a broker that answers at once, or with nobody.       *)

\* Also what the pre-order check does, with the paper broker.
Reconcile(a, b) ==
  /\ b # "live"
  /\ Conclude(Discrepancies(Rows(a), Holds(b, a)))
  /\ UNCHANGED <<books, connected, live, query, history>>

\* The built-in accounts, one after the other, with the paper broker.
ReconcileAll ==
  /\ Conclude(UNION {Discrepancies(Rows(a), PaperHolds(a)) : a \in Polled})
  /\ UNCHANGED <<books, connected, live, query, history>>

\* What a sync saves as rows; a row the broker has no position for stays.
Returned(a, b) == {s \in Symbols : Holds(b, a)[s] # NoPosition}

\* Mutant: rows are found by their symbol.
ReplacedBySymbol(c, s, a, got) == s \in got

Replaced(c, s, a, got) == c = a /\ s \in got

\* Reconciliations of the account under way keep the objects they have read.
MarkReplaced(a, got) ==
  [q \in Queries |->
     IF query[q].acct = a
     THEN [query[q] EXCEPT !.replaced = @ \cup (got \cap query[q].open)] ELSE query[q]]

\* The broker's objects become the rows; then the account is reconciled.
Sync(a, b) ==
  LET got == Returned(a, b)
  IN /\ b # "live"
     /\ object' = [c \in Accounts |-> [s \in Symbols |->
                     IF Replaced(c, s, a, got) THEN b ELSE object[c][s]]]
     /\ row' = [c \in Accounts |-> [s \in Symbols |->
                  IF Replaced(c, s, a, got) THEN NoPosition ELSE row[c][s]]]
     /\ LET rows == [s \in Symbols |-> IF s \in got THEN Holds(b, a)[s] ELSE Row(a, s)]
        IN Conclude(Discrepancies(rows, Holds(b, a)))
     /\ query' = MarkReplaced(a, got)
     /\ synced' = synced \cup ({a} \X got)
     /\ UNCHANGED <<paper, simulated, connected, live,
                    executed, fills, ordered, unbooked, copied, moved>>
-----------------------------------------------------------------------------
(* Reconciliation with the live broker.                                     *)

\* The open rows are read before the query is sent.
Reading(a, held) == [Idle EXCEPT !.pc = "comparing", !.acct = a, !.open = Open(held)]

LiveReconcile(q, a) ==
  /\ query[q].pc = "idle"
  /\ query' = [query EXCEPT ![q] = Reading(a, Rows(a))]
  /\ UNCHANGED <<books, connected, live, halted, history>>

\* The positions, or an HTTP error, which is an empty answer (as that of an
\* adapter disconnected during a sync); the query for the account's funds
\* suspends once more before the books are compared.
LiveAnswers(q) ==
  /\ query[q].pc = "comparing"
  /\ \E failed \in BOOLEAN :
       query' = [query EXCEPT ![q].pc = "funds", ![q].failed = failed,
                              ![q].held = IF failed THEN NothingHeld ELSE LiveHolds]
  /\ UNCHANGED <<books, connected, live, halted, history>>

\* The funds, or an exception: the positions are kept all the same.
FundsAnswer(q) ==
  /\ query[q].pc = "funds"
  /\ \E differing \in LateDiscrepancies(query[q], query[q].held) : Conclude(differing)
  /\ query' = [query EXCEPT ![q] = Idle]
  /\ UNCHANGED <<books, connected, live, history>>

\* An exception of the first query: the broker is taken to hold nothing.
LiveFails(q) ==
  /\ query[q].pc = "comparing"
  /\ \E differing \in LateDiscrepancies(query[q], NothingHeld) : Conclude(differing)
  /\ query' = [query EXCEPT ![q] = Idle]
  /\ UNCHANGED <<books, connected, live, history>>

LiveSync(q, a) ==
  /\ query[q].pc = "idle"
  /\ query' = [query EXCEPT ![q] = [Idle EXCEPT !.pc = "syncing", !.acct = a]]
  /\ UNCHANGED <<books, connected, live, halted, history>>

\* The live adapter builds new objects; then the account is reconciled.
LiveSyncAnswers(q) ==
  LET a   == query[q].acct
      got == Returned(a, "live")
  IN /\ query[q].pc = "syncing"
     /\ object' = [c \in Accounts |-> [s \in Symbols |->
                     IF Replaced(c, s, a, got) THEN "own" ELSE object[c][s]]]
     /\ row' = [c \in Accounts |-> [s \in Symbols |->
                  IF Replaced(c, s, a, got) THEN LiveHolds[s] ELSE row[c][s]]]
     /\ query' = [MarkReplaced(a, got) EXCEPT ![q] =
                    Reading(a, [s \in Symbols |-> IF s \in got THEN LiveHolds[s] ELSE Row(a, s)])]
     /\ synced' = synced \cup ({a} \X got)
     /\ copied' = copied \cup ({a} \X got)
     /\ UNCHANGED <<paper, simulated, connected, live, halted,
                    executed, fills, ordered, unbooked, moved>>

\* An exception ends the sync; an HTTP error is an empty answer.
LiveSyncFails(q) ==
  /\ query[q].pc = "syncing"
  /\ \/ query' = [query EXCEPT ![q] = Idle]
     \/ query' = [query EXCEPT ![q] = Reading(query[q].acct, Rows(query[q].acct))]
  /\ UNCHANGED <<books, connected, live, halted, history>>
-----------------------------------------------------------------------------
Trade ==
  \/ \E o \in Orders : PaperOrder(o) \/ SimulatedOrder(o)
  \/ PaperTrial
  \/ \E b \in Simulated : SimulatedTrial(b) \/ Connect(b) \/ Disconnect(b)
  \/ \E s \in Symbols, n \in LiveSizes : ExchangeExecutes(s, n)
  \/ DeactivateKillSwitch

Answer(q) ==
  LiveAnswers(q) \/ LiveFails(q) \/ FundsAnswer(q) \/ LiveSyncAnswers(q) \/ LiveSyncFails(q)

Next ==
  \/ Trade
  \/ \E a \in Accounts, b \in Books : Reconcile(a, b) \/ Sync(a, b)
  \/ ReconcileAll
  \/ \E q \in Queries :
       \/ \E a \in Accounts : LiveReconcile(q, a) \/ LiveSync(q, a)
       \/ Answer(q)

Spec == Init /\ [][Next]_vars
-----------------------------------------------------------------------------
(* Properties.                                                              *)

(* Every variable keeps its type.                                           *)
TypeOK ==
  /\ row \in PerSymbol(Position)
  /\ object \in PerSymbol({"own"} \cup Filling)
  /\ paper \in [Symbols -> [owner : Accounts \cup {NoAccount}, pos : Position]]
  /\ simulated \in [Simulated -> PerSymbol(Position)]
  /\ connected \in [Simulated -> BOOLEAN]
  /\ live \in [Symbols -> Int]
  /\ halted \in BOOLEAN
  /\ query \in [Queries -> [pc : {"idle", "comparing", "funds", "syncing"},
                            acct : Accounts \cup {NoAccount},
                            open : SUBSET Symbols,
                            replaced : SUBSET Symbols,
                            held : [Symbols -> Position],
                            failed : BOOLEAN]]
  /\ executed \in Nat
  /\ fills \in PerSymbol([Filling -> Nat])
  /\ ordered \in PerSymbol(Int)
  /\ unbooked \subseteq Slots
  /\ synced \subseteq Slots /\ copied \subseteq synced
  /\ moved \subseteq Symbols

\* No other account, the audit's included, has traded a symbol that the
\* account trades on paper.
Alone(a, s) ==
  \/ fills[a][s]["paper"] = 0
  \/ \A c \in Accounts \ {a} : fills[c][s]["paper"] = 0

(* The account's trading in a symbol that its row and the book of broker b   *)
(* can follow: nowhere but at b, every execution booked, no row copied from  *)
(* the live broker; on paper with no other account in the symbol, at a       *)
(* simulated broker with a single order, at the live one with no execution.  *)
Paired(a, s, b) ==
  /\ <<a, s>> \notin copied \cup unbooked
  /\ \A other \in Filling \ {b} : fills[a][s][other] = 0
  /\ b = "paper" => Alone(a, s)
  /\ b \in Simulated => fills[a][s][b] <= 1
  /\ b = "live" => s \notin moved

(* Where the books can follow, they do: the row and the broker's position    *)
(* have the same side and size, through every fill, sync, halt and release,  *)
(* and whatever audits, stuck orders and other accounts do elsewhere.        *)
PairedBooksAgree ==
  \A a \in Accounts, s \in Symbols : \A b \in Filling :
    Paired(a, s, b) => Signed(Row(a, s)) = Signed(Holds(b, a)[s])

\* The account has traded some symbol in a way its row and the book of broker
\* b cannot follow.
Unpaired(a, b) == \E s \in Symbols : ~Paired(a, s, b)

(* No false alarm: a reconciliation that reaches its broker, or has none to  *)
(* reach, halts the platform only for an account that trades some symbol in  *)
(* a way its row and that broker's book cannot follow: at another broker too *)
(* (at any broker, when the id is nobody's), with others on paper, twice at  *)
(* a simulated broker, or with an execution that was never booked.           *)
HaltsHaveACause ==
  [][~halted /\ halted' =>
       /\ \A a \in Accounts, b \in Books : Reconcile(a, b) \/ Sync(a, b) => Unpaired(a, b)
       /\ \A q \in Queries :
            FundsAnswer(q) /\ ~query[q].failed => Unpaired(query[q].acct, "live")]_vars

(* A row that no sync has touched is the net of its account's booked fills,  *)
(* whatever was synced elsewhere, and a row shares a paper position only if  *)
(* a sync made it do so and the account still owns the position.             *)
UnsyncedRowsFollowFills ==
  \A a \in Accounts, s \in Symbols :
    /\ <<a, s>> \notin synced => Signed(Row(a, s)) = ordered[a][s]
    /\ object[a][s] = "paper" => <<a, s>> \in synced /\ paper[s].owner = a
=============================================================================
