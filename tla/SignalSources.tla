---------------------------- MODULE SignalSources ----------------------------
(***************************************************************************)
(* Orders that come from outside: TradingView alerts over a webhook, the     *)
(* MetaTrader bridge and spreadsheets.  The three share nothing but the      *)
(* order service, which is taken here as it is shown to behave in            *)
(* OrderManagement: one order for each idempotency key.  Each has a          *)
(* next-state relation of its own.                                          *)
(***************************************************************************)
EXTENDS Integers, Sequences, SequencesExt, FiniteSets, Selections

CONSTANTS
  Alerts,    \* alerts, each with a nonce of its own
  Skew,      \* seconds a clock may be off: 60 in the code
  Horizon,   \* bound: half-seconds the clock runs
  Terminals, \* MetaTrader terminals
  OwnTerminal, \* the one connect enters
  Files,     \* spreadsheets: sequences of rows
  Uploads    \* executions of a spreadsheet at once

\* SheetsStrategyRow: what its order needs of it.
SheetRow == [symbol : STRING, signal : STRING, quantity : Int]

ASSUME SourcesAssumption ==
  /\ Skew \in Nat /\ Horizon \in Nat
  /\ OwnTerminal \in Terminals
  /\ \A file \in Files : file \in Seq(SheetRow)
-----------------------------------------------------------------------------
(* OrderManagementService.submit_order, for an idempotency key: a known key  *)
(* is answered with its order; otherwise the request is refused before an    *)
(* order exists, or the order is recorded and its placement works or fails.  *)

Outcomes(orders, key) ==
  IF key \in orders THEN {[orders |-> orders, ok |-> TRUE]}
  ELSE {[orders |-> orders, ok |-> FALSE],
        [orders |-> orders \cup {key}, ok |-> TRUE],
        [orders |-> orders \cup {key}, ok |-> FALSE]}
-----------------------------------------------------------------------------
(* TradingViewWebhookHandler.  The clock runs in half-seconds, so that whole *)
(* seconds (int(time.time())) and fractions differ.                         *)

VARIABLES
  clock,    \* half-seconds
  stamp,    \* alert -> its timestamp in seconds
  nonces,   \* alert -> the half-second it was recorded at, or Never
  alerted,  \* alerts with an order
  passages  \* history: alert -> the half-seconds at which the guard let it pass

webhookVars == <<clock, stamp, nonces, alerted, passages>>

Never == -1

WebhookInit ==
  /\ clock = 0
  /\ stamp \in [Alerts -> 0 .. Horizon \div 2]
  /\ nonces = [n \in Alerts |-> Never]
  /\ alerted = {}
  /\ passages = [n \in Alerts |-> {}]

Distance(x, y) == IF x > y THEN x - y ELSE y - x

InTime(n) == Distance(clock \div 2, stamp[n]) <= Skew

\* Mutant: nonces are kept for the skew on one side only.
RememberedBriefly ==
  [n \in Alerts |-> IF nonces[n] > clock - 2 * Skew THEN nonces[n] ELSE Never]

\* Nonces that are older than twice the skew are forgotten.
Remembered ==
  [n \in Alerts |-> IF nonces[n] > clock - 4 * Skew THEN nonces[n] ELSE Never]

\* Too old or too early an alert leaves no trace.
RejectAlert(n) == ~InTime(n) /\ UNCHANGED webhookVars

\* An alert arrives, for the first time or again.  Its nonce is recorded
\* before its signature is verified.
Deliver(n, signed) ==
  /\ InTime(n)
  /\ IF Remembered[n] # Never
     THEN nonces' = Remembered /\ UNCHANGED <<alerted, passages>>
     ELSE /\ nonces' = [Remembered EXCEPT ![n] = clock]
          /\ passages' = [passages EXCEPT ![n] = @ \cup {clock}]
          /\ IF signed
             THEN \E out \in Outcomes(alerted, n) : alerted' = out.orders
             ELSE UNCHANGED alerted
  /\ UNCHANGED <<clock, stamp>>

HalfSecond ==
  /\ clock < Horizon
  /\ clock' = clock + 1
  /\ UNCHANGED <<stamp, nonces, alerted, passages>>

WebhookNext ==
  \/ HalfSecond
  \/ \E n \in Alerts : RejectAlert(n) \/ \E signed \in BOOLEAN : Deliver(n, signed)

WebhookSpec == WebhookInit /\ [][WebhookNext]_webhookVars
-----------------------------------------------------------------------------
(* MT5BridgeAdapter.                                                        *)

VARIABLES
  bridge,    \* its state
  terminals, \* the terminals it has heard of
  heard,     \* the last heartbeat: never, within 30 seconds or before
  commanded  \* history: what the last command met

bridgeVars == <<bridge, terminals, heard, commanded>>

BridgeInit ==
  /\ bridge = "DISCONNECTED" /\ terminals = {}
  /\ heard = "never" /\ commanded = "none"

BridgeConnect ==
  /\ bridge' = "CONNECTED" /\ heard' = "lately"
  /\ terminals' = terminals \cup {OwnTerminal}
  /\ UNCHANGED commanded

BridgeDisconnect ==
  /\ bridge' = "DISCONNECTED" /\ terminals' = {}
  /\ UNCHANGED <<heard, commanded>>

\* Only the state is looked at, not the age of the last heartbeat.
DispatchCommand ==
  /\ commanded' = IF bridge = "CONNECTED" THEN "sent" ELSE "refused"
  /\ UNCHANGED <<bridge, terminals, heard>>

\* Any message counts as a heartbeat, in any state; none restores the state.
ProcessInbound(t) ==
  /\ heard' = "lately"
  /\ terminals' = terminals \cup {t}
  /\ UNCHANGED <<bridge, commanded>>

ThirtySecondsPass ==
  /\ heard = "lately" /\ heard' = "long ago"
  /\ UNCHANGED <<bridge, terminals, commanded>>

\* Reading the status is what notices the silence.
GetBridgeStatus ==
  /\ bridge' = IF bridge = "CONNECTED" /\ heard = "long ago" THEN "HEARTBEAT_TIMEOUT"
               ELSE bridge
  /\ UNCHANGED <<terminals, heard, commanded>>

BridgeNext ==
  \/ BridgeConnect \/ BridgeDisconnect \/ DispatchCommand
  \/ ThirtySecondsPass \/ GetBridgeStatus
  \/ \E t \in Terminals : ProcessInbound(t)

BridgeSpec == BridgeInit /\ [][BridgeNext]_bridgeVars
-----------------------------------------------------------------------------
(* StructuredSheetsParser and StrategySourcesService.execute_sheets_orders.  *)

VARIABLES
  upload,   \* executions under way
  rowOrders,\* keys of the orders that rows have led to
  complete  \* history: files of which every row was executed in one upload

sheetsVars == <<upload, rowOrders, complete>>

ValidRow(r) == r.symbol # "" /\ r.signal \in {"BUY", "SELL", "CLOSE"} /\ r.quantity > 0

\* What the parser hands to the page, and the page to execute.
ParsedOrders(file) == Only(file, {r \in Range(file) : ValidRow(r)})

\* Mutant: the upload's id is part of the key.
RowKeyOfAttempt(r, executed, b) == <<r.symbol, r.quantity, executed, b>>

\* A row is numbered by the rows executed before it; its side is not in the key.
RowKey(r, executed, b) == <<r.symbol, r.quantity, executed>>

NoUpload == [rows |-> <<>>, file |-> <<>>, executed |-> 0, again |-> FALSE]

SheetsInit ==
  /\ upload = [b \in Uploads |-> NoUpload]
  /\ rowOrders = {} /\ complete = {}

ExecuteSheet(b, file) ==
  /\ upload[b].rows = <<>> /\ ParsedOrders(file) # <<>>
  /\ upload' = [upload EXCEPT ![b] = [rows |-> ParsedOrders(file), file |-> file,
                                      executed |-> 0, again |-> file \in complete]]
  /\ UNCHANGED <<rowOrders, complete>>

\* The next row; a row that fails is skipped and leaves its number to the next.
ExecuteRow(b) ==
  LET u == upload[b]
  IN /\ u.rows # <<>>
     /\ \E out \in Outcomes(rowOrders, RowKey(Head(u.rows), u.executed, b)) :
          LET executed == u.executed + (IF out.ok THEN 1 ELSE 0)
              rest     == Tail(u.rows)
          IN /\ rowOrders' = out.orders
             /\ upload' = [upload EXCEPT ![b] =
                  IF rest = <<>> THEN NoUpload
                  ELSE [u EXCEPT !.rows = rest, !.executed = executed]]
             /\ complete' = IF rest = <<>> /\ executed = Len(ParsedOrders(u.file))
                            THEN complete \cup {u.file} ELSE complete

SheetsNext ==
  \E b \in Uploads : ExecuteRow(b) \/ \E file \in Files : ExecuteSheet(b, file)

SheetsSpec == SheetsInit /\ [][SheetsNext]_sheetsVars
-----------------------------------------------------------------------------
(* Properties.                                                              *)

(* Every variable keeps its type.                                           *)
SourcesTypeOK ==
  /\ clock \in 0 .. Horizon
  /\ stamp \in [Alerts -> Nat]
  /\ nonces \in [Alerts -> Nat \cup {Never}]
  /\ alerted \subseteq Alerts
  /\ passages \in [Alerts -> SUBSET Nat]
  /\ bridge \in {"DISCONNECTED", "CONNECTED", "HEARTBEAT_TIMEOUT"}
  /\ terminals \subseteq Terminals
  /\ heard \in {"never", "lately", "long ago"}
  /\ commanded \in {"none", "sent", "refused"}
  /\ \A b \in Uploads :
       /\ upload[b].file \in Files \cup {<<>>} /\ upload[b].executed \in Nat
       /\ Len(upload[b].rows) + upload[b].executed <= Len(upload[b].file)
  /\ complete \subseteq Files

(* The webhook's guard lets an alert pass twice only if its timestamp was the *)
(* whole skew ahead of the clock the first time: then its nonce is forgotten *)
(* in the very second in which the timestamp is still accepted.             *)
GuardStopsReplays ==
  \A n \in Alerts : \A t, u \in passages[n] :
    t < u => stamp[n] = (t \div 2) + Skew /\ u \div 2 = stamp[n] + Skew

(* A spreadsheet of which every row was executed may be uploaded again: it   *)
(* adds no order, whatever other uploads do at the same time.               *)
UploadsRepeatable ==
  [][\A b \in Uploads : upload[b].again /\ upload'[b] # upload[b]
                          => rowOrders' = rowOrders]_sheetsVars
=============================================================================
