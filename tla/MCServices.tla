----------------------------- MODULE MCServices -----------------------------
(***************************************************************************)
(* The instances of the services that share no state with one another.  A    *)
(* behaviour exercises one of them, its part, and leaves the others at their *)
(* initial states: interleaving steps of services that do not interact       *)
(* would add states and no behaviour of any of them.                        *)
(***************************************************************************)
EXTENDS Streaming, Notifications, Sandbox, SignalSources, Backtest, Accounts

VARIABLE part

Row(symbol, signal, quantity) == [symbol |-> symbol, signal |-> signal, quantity |-> quantity]

\* Rows that repeat, that are invalid, and that trade more than one symbol.
SmallFiles ==
  {<<Row("P", "BUY", 1), Row("P", "BUY", 1)>>,
   <<Row("P", "BUY", 0), Row("Q", "SELL", 1), Row("P", "BUY", 1)>>,
   <<Row("P", "CLOSE", 1), Row("", "BUY", 1)>>}

Parameters(code, short, long, qty, numbers) ==
  [code |-> code, short |-> short, long |-> long, qty |-> qty, numbers |-> numbers]

\* Two that work, a script, two divisions by zero, an order of nothing and a
\* start that fails.
SmallSettings ==
  {Parameters("ema", 1, 2, 1, TRUE), Parameters("rsi", 0, 2, 1, TRUE),
   Parameters("script", 1, 2, 2, TRUE), Parameters("ema", 0, 2, 1, TRUE),
   Parameters("rsi", 0, 0, 1, TRUE),
   Parameters("rsi", 0, 1, 0, TRUE), Parameters("ema", 1, 2, 0, FALSE)}

Parts == {"streaming", "notifications", "sandbox", "webhook", "bridge", "sheets",
          "strategies", "backtest", "accounts"}

vars == <<part, streamingVars, notificationVars, sandboxVars, webhookVars, bridgeVars,
          sheetsVars, strategyVars, backtestVars, accountVars>>

\* The alerts' timestamps matter to the webhook only.
Init ==
  /\ part \in Parts
  /\ StreamingInit /\ NotificationsInit /\ SandboxInit
  /\ WebhookInit /\ (part # "webhook" => \A n \in Alerts : stamp[n] = 0)
  /\ BridgeInit /\ SheetsInit
  /\ StrategyInit /\ BacktestInit /\ AccountsInit

Others(p) ==
  /\ part = p /\ UNCHANGED part
  /\ p # "streaming"     => UNCHANGED streamingVars
  /\ p # "notifications" => UNCHANGED notificationVars
  /\ p # "sandbox"       => UNCHANGED sandboxVars
  /\ p # "webhook"       => UNCHANGED webhookVars
  /\ p # "bridge"        => UNCHANGED bridgeVars
  /\ p # "sheets"        => UNCHANGED sheetsVars
  /\ p # "strategies"    => UNCHANGED strategyVars
  /\ p # "backtest"      => UNCHANGED backtestVars
  /\ p # "accounts"      => UNCHANGED accountVars

Next ==
  \/ Others("streaming")     /\ StreamingNext
  \/ Others("notifications") /\ NotificationsNext
  \/ Others("sandbox")       /\ SandboxNext
  \/ Others("webhook")       /\ WebhookNext
  \/ Others("bridge")        /\ BridgeNext
  \/ Others("sheets")        /\ SheetsNext
  \/ Others("strategies")    /\ StrategyNext
  \/ Others("backtest")      /\ BacktestNext
  \/ Others("accounts")      /\ AccountsNext

\* No call of the sandbox is under way in a behaviour of another part.
Spec == Init /\ [][Next]_vars /\ SandboxFairness
-----------------------------------------------------------------------------
(* Every service keeps the types of its variables.                          *)
ServicesTypeOK ==
  /\ StreamingTypeOK /\ NotificationsTypeOK /\ SandboxTypeOK /\ SourcesTypeOK
  /\ StrategyTypeOK /\ BacktestTypeOK /\ AccountsTypeOK
=============================================================================
