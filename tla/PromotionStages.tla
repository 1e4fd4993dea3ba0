---------------------------- MODULE PromotionStages ----------------------------
(***************************************************************************)
(* The promotion stage of every strategy as the other services see it.      *)
(* Three services write it and none looks at the stage it overwrites, so it  *)
(* moves both ways; the one order among them is that human approval comes    *)
(* after a paper trading session of the same strategy.  Live trading is      *)
(* granted by an operator outside the repository's services, who is bound   *)
(* to no stage.  SANDBOXED_CODE_REVIEW and WALK_FORWARD_VALIDATION exist in  *)
(* the enumeration and are never assigned.                                  *)
(***************************************************************************)
CONSTANT Strategies

VARIABLES
  stage,     \* strategy -> stage, "NONE" until it is created
  papered    \* strategies that had a paper trading session

stageVars == <<stage, papered>>

Stages == {"NONE", "DRAFT", "BACKTEST", "PAPER_TRADING", "HUMAN_APPROVAL", "LIVE_TRADING"}

StageInit ==
  /\ stage = [s \in Strategies |-> "NONE"]
  /\ papered = {}

Created(s) == stage[s] = "NONE" /\ stage' = [stage EXCEPT ![s] = "DRAFT"]

Moved(s, to) == stage[s] # "NONE" /\ stage' = [stage EXCEPT ![s] = to]

StageCreate(s) == Created(s) /\ UNCHANGED papered

StageBacktested(s) == Moved(s, "BACKTEST") /\ UNCHANGED papered

StagePaper(s) == Moved(s, "PAPER_TRADING") /\ papered' = papered \cup {s}

StageApproved(s) ==
  s \in papered /\ Moved(s, "HUMAN_APPROVAL") /\ UNCHANGED papered

StageLive(s) == Moved(s, "LIVE_TRADING") /\ UNCHANGED papered

StageNext ==
  \E s \in Strategies :
    \/ StageCreate(s)
    \/ StageBacktested(s)
    \/ StagePaper(s)
    \/ StageApproved(s)
    \/ StageLive(s)

StageSpec == StageInit /\ [][StageNext]_stageVars
=============================================================================
