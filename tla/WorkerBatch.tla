----------------------------- MODULE WorkerBatch -----------------------------
(***************************************************************************)
(* A batch of colony workers: run_parallel_workers spawns them             *)
(* (tools/queen_lifecycle_tools.py, host/colony_runtime.py), each runs an  *)
(* AgentLoop and reports its end (host/worker.py), the queen is told and   *)
(* changes phase (server/queen_orchestrator.py), and a watcher enforces    *)
(* the soft and the hard timeout.                                          *)
(*                                                                         *)
(* An action is the code between two awaits.  A report is published by     *)
(* awaiting the handlers of the event, which run as tasks of their own; a  *)
(* cancelled publisher cancels them.  All workers are ephemeral: nothing   *)
(* calls start_overseer.                                                   *)
(***************************************************************************)
EXTENDS Naturals, Sequences, FiniteSets

CONSTANT N  \* the number of tasks given to run_parallel_workers

ASSUME NAssumption == N \in Nat

Workers == 1 .. N

VARIABLES
  status,      \* Worker.status; "unborn" before the spawn
  task,        \* the await the worker's task is at
  cancelReq,   \* tasks whose cancel() was called and that have not run since
  explicit,    \* workers with an _explicit_report
  result,      \* what Worker._result says
  inbox,       \* workers with a message in _input_queue
  reports,     \* SUBAGENT_REPORT statuses the queen was told, by worker
  interrupted, \* workers a cancellation was raised in while they reported a stop or a crash
  registered,  \* _workers
  awaited,     \* workers a caller of stop_worker or stop_all_workers awaits
  sweeping,    \* stop_all_workers has cancelled and awaits
  swept,       \* the workers it awaits
  queen,       \* where run_parallel_workers is
  phase,       \* the queen's phase
  watch,       \* where the watcher is
  target       \* the worker the watcher looks at after the hard timeout

vars == <<status, task, cancelReq, explicit, result, inbox, reports, interrupted,
          registered, awaited, sweeping, swept, queen, phase, watch, target>>

Status == {"unborn", "pending", "running", "completed", "failed", "stopped"}
Stage == {"none", "created", "executing", "announcing", "reporting", "reported",
          "excusing", "excused", "done"}
Outcome == {"success", "failed", "crashed", "stopped", "explicit"}

Active(w) == status[w] \in {"pending", "running"}
Alive(w) == task[w] \notin {"none", "done"}

Init ==
  /\ status = [w \in Workers |-> "unborn"]
  /\ task = [w \in Workers |-> "none"]
  /\ cancelReq = {}
  /\ explicit = {}
  /\ result = [w \in Workers |-> "none"]
  /\ inbox = {}
  /\ reports = [w \in Workers |-> <<>>]
  /\ interrupted = {}
  /\ registered = {}
  /\ awaited = {}
  /\ sweeping = FALSE
  /\ swept = {}
  /\ queen = "spawning"
  /\ phase \in {"independent", "reviewing"}
  /\ watch = "off"
  /\ target = 1

workerVars  == <<status, task, explicit, result, reports, interrupted>>
controlVars == <<registered, awaited, sweeping, swept>>
queenVars   == <<queen, phase, watch, target>>
-----------------------------------------------------------------------------
(***************************************************************************)
(* The queen's tool and the watcher it starts.                             *)
(***************************************************************************)

\* One pass of spawn_batch; forking the conversation suspends before it.
Spawn(w) ==
  /\ queen = "spawning"
  /\ status[w] = "unborn" /\ \A v \in 1 .. w - 1 : status[v] # "unborn"
  /\ status' = [status EXCEPT ![w] = "pending"]
  /\ task' = [task EXCEPT ![w] = "created"]
  /\ registered' = registered \cup {w}
  /\ UNCHANGED <<cancelReq, explicit, result, inbox, reports, interrupted, awaited,
                 sweeping, swept, queenVars>>

\* The next spawn raises: the tool answers with the error, and the workers it
\* has spawned go on without a phase change and without a watcher.
SpawnFails ==
  /\ queen = "spawning" /\ \E w \in Workers : status[w] = "unborn"
  /\ queen' = "failed"
  /\ UNCHANGED <<workerVars, cancelReq, inbox, controlVars, phase, watch, target>>

SwitchToWorking ==
  /\ queen = "spawning" /\ \A w \in Workers : status[w] # "unborn"
  /\ queen' = "spawned"
  /\ phase' = "working"
  /\ UNCHANGED <<workerVars, cancelReq, inbox, controlVars, watch, target>>

ArmWatch ==
  /\ queen = "spawned"
  /\ queen' = "returned"
  /\ watch' = "soft"
  /\ UNCHANGED <<workerVars, cancelReq, inbox, controlVars, phase, target>>

\* The soft timeout: whoever has not reported is told to wrap up.
SoftTimeout ==
  /\ watch = "soft"
  /\ watch' = "hard"
  /\ inbox' = inbox \cup {w \in registered : Active(w) /\ w \notin explicit}
  /\ UNCHANGED <<workerVars, cancelReq, controlVars, queen, phase, target>>

\* Seeded fault: the hard timeout too leaves alone a worker that filed a report.
FaultHardStop ==
  /\ watch = "hard" /\ target \in Workers
  /\ IF target \in registered \ explicit /\ Active(target) /\ Alive(target)
     THEN /\ cancelReq' = cancelReq \cup {target}
          /\ watch' = "stopping"
          /\ UNCHANGED target
     ELSE target' = target + 1 /\ UNCHANGED <<cancelReq, watch>>
  /\ UNCHANGED <<workerVars, inbox, controlVars, queen, phase>>

\* The hard timeout: one worker after the other is stopped and awaited.
HardStop ==
  /\ watch = "hard" /\ target \in Workers
  /\ IF target \in registered /\ Active(target) /\ Alive(target)
     THEN /\ cancelReq' = cancelReq \cup {target}
          /\ watch' = "stopping"
          /\ UNCHANGED target
     ELSE target' = target + 1 /\ UNCHANGED <<cancelReq, watch>>
  /\ UNCHANGED <<workerVars, inbox, controlVars, queen, phase>>

\* Seeded fault: the worker after the stopped one is skipped.
FaultHardStopped ==
  /\ watch = "stopping" /\ ~Alive(target)
  /\ watch' = "hard"
  /\ target' = target + 2
  /\ UNCHANGED <<workerVars, cancelReq, inbox, controlVars, queen, phase>>

HardStopped ==
  /\ watch = "stopping" /\ ~Alive(target)
  /\ watch' = "hard"
  /\ target' = target + 1
  /\ UNCHANGED <<workerVars, cancelReq, inbox, controlVars, queen, phase>>
-----------------------------------------------------------------------------
(***************************************************************************)
(* Stopping workers: stop_worker behind the routes' check, and             *)
(* stop_all_workers.  A cancelled caller cancels the task it awaits.       *)
(***************************************************************************)

\* Seeded fault: any worker of the registry may be stopped.
FaultStoppable(w) == w \in registered /\ Alive(w)

Stoppable(w) == w \in registered /\ Active(w) /\ Alive(w)

Stop(w) ==
  /\ Stoppable(w)
  /\ cancelReq' = cancelReq \cup {w}
  /\ awaited' = awaited \cup {w}
  /\ UNCHANGED <<workerVars, inbox, registered, sweeping, swept, queenVars>>

StopAll ==
  /\ ~sweeping /\ registered # {}
  /\ sweeping' = TRUE
  /\ swept' = {w \in Workers : Stoppable(w)}
  /\ cancelReq' = cancelReq \cup swept'
  /\ awaited' = awaited \cup swept'
  /\ UNCHANGED <<workerVars, inbox, registered, queenVars>>

\* The registry is cleared of everything, workers spawned meanwhile included.
StopAllReturns ==
  /\ sweeping /\ \A w \in swept : ~Alive(w)
  /\ sweeping' = FALSE /\ swept' = {}
  /\ registered' = {}
  /\ UNCHANGED <<workerVars, cancelReq, inbox, awaited, queenVars>>

CallerCancelled(w) ==
  /\ w \in awaited /\ Alive(w)
  /\ awaited' = awaited \ {w}
  /\ cancelReq' = cancelReq \cup {w}
  /\ UNCHANGED <<workerVars, inbox, registered, sweeping, swept, queenVars>>
-----------------------------------------------------------------------------
(***************************************************************************)
(* The worker's task: Worker.run.                                          *)
(***************************************************************************)

CanRun(w, stage) == task[w] = stage /\ w \notin cancelReq

Begin(w) ==
  /\ CanRun(w, "created")
  /\ task' = [task EXCEPT ![w] = "executing"]
  /\ status' = [status EXCEPT ![w] = "running"]
  /\ UNCHANGED <<cancelReq, explicit, result, inbox, reports, interrupted, controlVars, queenVars>>

\* Cancelled before its first step: run() is never entered.
NeverRuns(w) ==
  /\ task[w] = "created" /\ w \in cancelReq
  /\ task' = [task EXCEPT ![w] = "done"]
  /\ cancelReq' = cancelReq \ {w}
  /\ UNCHANGED <<status, explicit, result, inbox, reports, interrupted, controlVars, queenVars>>

\* The worker's model calls report_to_parent.
File(w) ==
  /\ CanRun(w, "executing")
  /\ explicit' = explicit \cup {w}
  /\ UNCHANGED <<status, task, result, reports, interrupted, cancelReq, inbox, controlVars, queenVars>>

\* Seeded fault: the report made up for the run replaces the explicit one.
FaultOutcomeOf(w, default) == default

\* _build_result and the CancelledError clause: an explicit report wins.
OutcomeOf(w, default) == IF w \in explicit THEN "explicit" ELSE default

\* AgentLoop.execute returned; EXECUTION_COMPLETED or _FAILED is published.
Finish(w, ok) ==
  /\ CanRun(w, "executing")
  /\ status' = [status EXCEPT ![w] = IF ok THEN "completed" ELSE "failed"]
  /\ result' = [result EXCEPT ![w] = OutcomeOf(w, IF ok THEN "success" ELSE "failed")]
  /\ task' = [task EXCEPT ![w] = "announcing"]
  /\ UNCHANGED <<cancelReq, explicit, inbox, reports, interrupted, controlVars, queenVars>>

Announced(w) ==
  /\ CanRun(w, "announcing")
  /\ task' = [task EXCEPT ![w] = "reporting"]
  /\ UNCHANGED <<status, explicit, result, reports, interrupted, cancelReq, inbox, controlVars, queenVars>>

\* It raised: the "except Exception" clause makes up a report.
Crash(w) ==
  /\ CanRun(w, "executing")
  /\ status' = [status EXCEPT ![w] = "failed"]
  /\ result' = [result EXCEPT ![w] = "crashed"]
  /\ task' = [task EXCEPT ![w] = "excusing"]
  /\ UNCHANGED <<cancelReq, explicit, inbox, reports, interrupted, controlVars, queenVars>>

\* Seeded fault: the CancelledError clause leaves without a report.
FaultCancelHits(w) ==
  /\ w \in cancelReq
  /\ task[w] \in {"executing", "announcing", "reporting", "reported"}
  /\ cancelReq' = cancelReq \ {w}
  /\ status' = [status EXCEPT ![w] = "stopped"]
  /\ result' = [result EXCEPT ![w] = OutcomeOf(w, "stopped")]
  /\ task' = [task EXCEPT ![w] = "done"]
  /\ UNCHANGED <<explicit, inbox, reports, interrupted, controlVars, queenVars>>

\* CancelledError in the try block.
CancelHits(w) ==
  /\ w \in cancelReq
  /\ task[w] \in {"executing", "announcing", "reporting", "reported"}
  /\ cancelReq' = cancelReq \ {w}
  /\ status' = [status EXCEPT ![w] = "stopped"]
  /\ result' = [result EXCEPT ![w] = OutcomeOf(w, "stopped")]
  /\ task' = [task EXCEPT ![w] = "excusing"]
  /\ UNCHANGED <<explicit, inbox, reports, interrupted, controlVars, queenVars>>

\* CancelledError in an except clause: it leaves run().
CancelEscapes(w) ==
  /\ w \in cancelReq
  /\ task[w] \in {"excusing", "excused"}
  /\ cancelReq' = cancelReq \ {w}
  /\ interrupted' = interrupted \cup {w}
  /\ task' = [task EXCEPT ![w] = "done"]
  /\ UNCHANGED <<status, explicit, result, inbox, reports, controlVars, queenVars>>

\* The colony workers _on_worker_report counts: it looks for _workers on
\* session.colony_runtime, the AgentHost, which has none.
StillActive == {}

\* The handler _on_worker_report: the queen is told, and may change phase.
Notify(w) ==
  /\ task[w] \in {"reporting", "excusing"}
  /\ task' = [task EXCEPT ![w] = IF @ = "reporting" THEN "reported" ELSE "excused"]
  /\ reports' = [reports EXCEPT ![w] = Append(@, result[w])]
  /\ phase' = IF StillActive = {} /\ phase = "working" THEN "reviewing" ELSE phase
  /\ UNCHANGED <<status, explicit, result, interrupted, cancelReq, inbox, controlVars,
                 queen, watch, target>>

End(w) ==
  /\ CanRun(w, "reported") \/ CanRun(w, "excused")
  /\ task' = [task EXCEPT ![w] = "done"]
  /\ UNCHANGED <<status, explicit, result, reports, interrupted, cancelReq, inbox, controlVars, queenVars>>
-----------------------------------------------------------------------------
\* What a task and the handler of its report do without the AgentLoop's help.
TaskStep(w) ==
  \/ Begin(w) \/ NeverRuns(w) \/ Announced(w) \/ CancelHits(w) \/ CancelEscapes(w)
  \/ Notify(w) \/ End(w)

WatchStep == SoftTimeout \/ HardStop \/ HardStopped

Next ==
  \/ \E w \in Workers : \/ Spawn(w)
                        \/ Stop(w)
                        \/ CallerCancelled(w)
                        \/ Begin(w)
                        \/ NeverRuns(w)
                        \/ File(w)
                        \/ Finish(w, TRUE)
                        \/ Finish(w, FALSE)
                        \/ Announced(w)
                        \/ Crash(w)
                        \/ CancelHits(w)
                        \/ CancelEscapes(w)
                        \/ Notify(w)
                        \/ End(w)
  \/ SpawnFails
  \/ SwitchToWorking
  \/ ArmWatch
  \/ SoftTimeout
  \/ HardStop
  \/ HardStopped
  \/ StopAll
  \/ StopAllReturns

\* asyncio runs what is ready, timers fire, and the EventBus bounds every
\* handler; an AgentLoop need not return by itself.
Fairness ==
  /\ \A w \in Workers : WF_vars(TaskStep(w)) /\ WF_vars(Spawn(w))
  /\ WF_vars(SwitchToWorking \/ ArmWatch)
  /\ WF_vars(WatchStep)
  /\ WF_vars(StopAllReturns)

Spec == Init /\ [][Next]_vars
FairSpec == Spec /\ Fairness
-----------------------------------------------------------------------------
(***************************************************************************)
(* Properties                                                              *)
(***************************************************************************)

\* Every variable has its type.
TypeOK ==
  /\ status \in [Workers -> Status]
  /\ task \in [Workers -> Stage]
  /\ cancelReq \subseteq Workers
  /\ explicit \subseteq Workers
  /\ result \in [Workers -> Outcome \cup {"none"}]
  /\ inbox \subseteq Workers
  /\ reports \in [Workers -> Seq(Outcome)]
  /\ interrupted \subseteq Workers
  /\ registered \subseteq Workers
  /\ awaited \subseteq Workers
  /\ sweeping \in BOOLEAN
  /\ swept \subseteq Workers
  /\ queen \in {"spawning", "failed", "spawned", "returned"}
  /\ phase \in {"independent", "working", "reviewing"}
  /\ watch \in {"off", "soft", "hard", "stopping"}
  /\ target \in 1 .. N + 1

\* The queen is told of a worker's end at most once: no order of finishing,
\* stopping and timing out makes a worker that has reported report again.
AtMostOneReport == \A w \in Workers : Len(reports[w]) <= 1

\* A worker that has begun does not end in silence: its result was told, unless
\* the caller that stopped it was cancelled while it reported.
NoSilentEnd ==
  \A w \in Workers :
    task[w] = "done" /\ status[w] # "pending" /\ w \notin interrupted
      => reports[w] = <<result[w]>>

\* "Every spawned worker emits exactly one": no worker's task is over without one
\* report of it to the queen.
EveryWorkerReports == \A w \in Workers : task[w] = "done" => Len(reports[w]) = 1

\* "the explicit report survives": a worker that filed one tells the queen that
\* one, whether it finished, failed or was stopped; only a crash replaces it.
ExplicitReportWins ==
  \A w \in explicit : reports[w] \in {<<>>, <<"explicit">>, <<"crashed">>}

\* After the hard timeout every worker of the batch ends, except one spawned
\* while stop_all_workers was waiting, which has left the registry.
HardTimeoutEnds ==
  \A w \in Workers : (watch = "hard") ~> (~Alive(w) \/ w \notin registered)

\* "Only transition to reviewing once the batch has quieted": no worker is active
\* when a report makes the queen review.
ReviewWhenQuiet ==
  [][phase = "working" /\ phase' = "reviewing" => \A w \in registered : ~Active(w)]_vars
=============================================================================
