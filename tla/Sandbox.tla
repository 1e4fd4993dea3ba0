------------------------------- MODULE Sandbox -------------------------------
(***************************************************************************)
(* The strategy sandbox: user scripts run on the threads of the event        *)
(* loop's default executor, each awaited under a time limit.  The wait is    *)
(* shielded: a script that is out of time is answered for but keeps its      *)
(* place in the queue or its thread, possibly for ever, and nothing ends it. *)
(***************************************************************************)
EXTENDS Naturals, FiniteSets, Sequences, SequencesExt

CONSTANTS
  Calls,       \* requests; one is used again when its script has ended
  StrategyIds, \* named by the clients: two calls may use the same one
  Threads      \* number of threads of the executor

VARIABLES
  waiting, \* call -> the strategy id it is awaited for, or NoId
  queue,   \* executor: scripts not yet started
  running, \* executor: scripts on a thread
  tasks,   \* runner: _running_tasks, strategy id -> call, or NoCall
  answer   \* call -> its last result

NoId   == "none"
NoCall == "none"

ASSUME SandboxAssumption == Threads \in Nat /\ NoId \notin StrategyIds /\ NoCall \notin Calls

sandboxVars == <<waiting, queue, running, tasks, answer>>

Answers == {"none", "rejected", "success", "error", "timeout"}

Pending(c) == waiting[c] # NoId

\* A script that was submitted and has not ended.
InExecutor(c) == c \in running \/ c \in Range(queue)

SandboxInit ==
  /\ waiting = [c \in Calls |-> NoId] /\ queue = <<>> /\ running = {}
  /\ tasks = [i \in StrategyIds |-> NoCall]
  /\ answer = [c \in Calls |-> "none"]
-----------------------------------------------------------------------------
\* The validator finds a forbidden construct.
RejectScript(c) ==
  /\ ~Pending(c)
  /\ answer' = [answer EXCEPT ![c] = "rejected"]
  /\ UNCHANGED <<waiting, queue, running, tasks>>

\* A second call of a strategy replaces the entry of the first.
ExecuteIsolated(c, i) ==
  /\ ~Pending(c) /\ ~InExecutor(c)
  /\ waiting' = [waiting EXCEPT ![c] = i]
  /\ answer' = [answer EXCEPT ![c] = "none"]
  /\ tasks' = [tasks EXCEPT ![i] = c]
  /\ queue' = Append(queue, c)
  /\ UNCHANGED running

ThreadStarts ==
  /\ queue # <<>> /\ Cardinality(running) < Threads
  /\ running' = running \cup {Head(queue)}
  /\ queue' = Tail(queue)
  /\ UNCHANGED <<waiting, tasks, answer>>

\* Mutant: the entry is removed after a result only.
AnswerKeepingTask(c, result) ==
  /\ answer' = [answer EXCEPT ![c] = result]
  /\ waiting' = [waiting EXCEPT ![c] = NoId]
  /\ tasks' = IF result = "timeout" THEN tasks ELSE [tasks EXCEPT ![waiting[c]] = NoCall]

\* However the wait ends, the entry of the strategy is removed, whose ever it is.
AnswerCall(c, result) ==
  /\ answer' = [answer EXCEPT ![c] = result]
  /\ waiting' = [waiting EXCEPT ![c] = NoId]
  /\ tasks' = [tasks EXCEPT ![waiting[c]] = NoCall]

\* A script returns or raises; nobody awaits it when its time is over.
ScriptEnds(c, result) ==
  /\ c \in running
  /\ running' = running \ {c}
  /\ IF Pending(c) THEN AnswerCall(c, result) ELSE UNCHANGED <<waiting, tasks, answer>>
  /\ UNCHANGED queue

\* Mutant: the time limit is that of the script, not of the wait for it.
TimeRunsOutOnThread(c) ==
  /\ Pending(c) /\ c \in running
  /\ AnswerCall(c, "timeout")
  /\ UNCHANGED <<queue, running>>

TimeRunsOut(c) ==
  /\ Pending(c)
  /\ AnswerCall(c, "timeout")
  /\ UNCHANGED <<queue, running>>

SandboxNext ==
  \/ ThreadStarts
  \/ \E c \in Calls :
       \/ RejectScript(c) \/ TimeRunsOut(c)
       \/ \E i \in StrategyIds : ExecuteIsolated(c, i)
       \/ \E result \in {"success", "error"} : ScriptEnds(c, result)

\* The event loop's timers fire, and a free thread takes the next script.  A
\* script need not end.
SandboxFairness ==
  /\ WF_sandboxVars(ThreadStarts)
  /\ \A c \in Calls : WF_sandboxVars(TimeRunsOut(c))

SandboxSpec == SandboxInit /\ [][SandboxNext]_sandboxVars /\ SandboxFairness
-----------------------------------------------------------------------------
(* Properties.                                                              *)

(* Every variable keeps its type.                                           *)
SandboxTypeOK ==
  /\ waiting \in [Calls -> StrategyIds \cup {NoId}]
  /\ queue \in Seq(Calls) /\ running \subseteq Calls
  /\ tasks \in [StrategyIds -> Calls \cup {NoCall}]
  /\ answer \in [Calls -> Answers]

(* The runner forgets every call that was answered: an entry of its table    *)
(* is a call that is still awaited, under that strategy's id, even when      *)
(* calls of one strategy overlap and remove each other's entries.            *)
TasksAreAwaited ==
  \A i \in StrategyIds : tasks[i] # NoCall => waiting[tasks[i]] = i

(* Every call is answered, even when scripts that never end hold all the     *)
(* threads and it was never started.                                        *)
CallsAnswered == \A c \in Calls : Pending(c) ~> ~Pending(c)
=============================================================================
