---------------------------- MODULE OrderGateway ----------------------------
(***************************************************************************)
(* What the order path promises its clients, whatever brokers, retries and  *)
(* failures lie behind it: an idempotency key (a slot) is used for at most   *)
(* one dispatch, nothing is dispatched while trading is halted globally,     *)
(* and, with fairness, whoever waits for a broker is answered, unless the    *)
(* broker's order-update queue is full, which stops a call for good.         *)
(***************************************************************************)
CONSTANTS Calls, Slots

VARIABLES
  sent,     \* slot -> the calls that dispatched an order for it
  waiting,  \* calls waiting for a broker
  stuck,    \* calls stopped at a full queue, never to be answered
  full,     \* is some order-update queue full
  halted    \* is trading halted globally

vars == <<sent, waiting, stuck, full, halted>>

Init ==
  /\ sent = [s \in Slots |-> {}]
  /\ waiting = {}
  /\ stuck = {}
  /\ full \in BOOLEAN
  /\ halted = FALSE

\* An answer may be the one that fills a queue; nothing empties a queue.
MayFill == full' \in {full, TRUE}

\* The first call for a slot dispatches; its broker answers now or later, or
\* the call is stuck at once.
Send(s, c) ==
  /\ ~halted
  /\ sent[s] = {}
  /\ \A t \in Slots : c \notin sent[t]
  /\ sent' = [sent EXCEPT ![s] = {c}]
  /\ \/ UNCHANGED <<waiting, stuck>>
     \/ waiting' = waiting \cup {c} /\ UNCHANGED stuck
     \/ full /\ stuck' = stuck \cup {c} /\ UNCHANGED waiting
  /\ MayFill
  /\ UNCHANGED halted

Answer(c) ==
  /\ c \in waiting
  /\ waiting' = waiting \ {c}
  /\ MayFill
  /\ UNCHANGED <<sent, stuck, halted>>

\* The broker's answer meets a full queue.
Stick(c) ==
  /\ full
  /\ c \in waiting
  /\ waiting' = waiting \ {c}
  /\ stuck' = stuck \cup {c}
  /\ UNCHANGED <<sent, full, halted>>

\* An audit's trial order may be the one that fills a queue.
Fill ==
  /\ full' = TRUE
  /\ UNCHANGED <<sent, waiting, stuck, halted>>

Switch ==
  /\ halted' = ~halted
  /\ UNCHANGED <<sent, waiting, stuck, full>>

Next ==
  \/ \E s \in Slots, c \in Calls : Send(s, c)
  \/ \E c \in Calls : Answer(c) \/ Stick(c)
  \/ Fill
  \/ Switch

Spec == Init /\ [][Next]_vars

FairSpec == Spec /\ \A c \in Calls : WF_vars(Answer(c) \/ Stick(c))
=============================================================================
