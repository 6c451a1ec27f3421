----------------------------- MODULE WorkerGraph -----------------------------
(***************************************************************************)
(* One call of Orchestrator.execute: a graph of nodes run by one           *)
(* NodeWorker per node (orchestrator/node_worker.py) under the control     *)
(* loop _execute_with_workers (orchestrator/orchestrator.py).              *)
(*                                                                         *)
(* Everything runs on one asyncio loop, so an action is the code between   *)
(* two awaits that can really suspend: a worker's task before, during and  *)
(* after its node's execute(); one event handler; one pass of the polling  *)
(* loop.  What a node computes is abstracted to success, failure or crash  *)
(* and to which CONDITIONAL / LLM_DECIDE edges hold; the data buffer to    *)
(* the worker that wrote each key last.                                    *)
(***************************************************************************)
EXTENDS Naturals, Sequences, FiniteSets

CONSTANTS
  Nodes,       \* node ids that may occur in a graph
  Keys,        \* keys of the shared data buffer
  NoWriter,    \* stands for a buffer key nobody wrote
  Graphs,      \* the GraphSpecs execute() may be called with
  Executors,   \* the Orchestrator configurations
  MaxPath      \* bound: node executions of one behaviour

Conditions == {"always", "on_success", "on_failure", "conditional", "llm_decide"}
Strategies == {"last_wins", "first_wins", "error"}

Edge == [src : Nodes, dst : Nodes, cond : Conditions, prio : Nat, pos : Nat]

(***************************************************************************)
(* What GraphSpec.validate() and the pydantic types guarantee of a graph.  *)
(* "pos" is the edge's index in graph.edges; "restored" are the visit      *)
(* counts a session state may bring in.  Two edges never join the same     *)
(* two nodes (an assumption of the model: validate() does not check it).   *)
(***************************************************************************)
IsGraph(g) ==
  /\ g.nodes \subseteq Nodes
  /\ IsFiniteSet(g.nodes)
  /\ g.entry \in g.nodes
  /\ g.terminals \subseteq g.nodes
  /\ g.edges \subseteq Edge
  /\ \A e \in g.edges : e.src \in g.nodes /\ e.dst \in g.nodes
  /\ \A e, f \in g.edges : (e.pos = f.pos \/ (e.src = f.src /\ e.dst = f.dst)) => e = f
  /\ g.maxSteps \in Nat \ {0}
  /\ g.maxVisits \in [Nodes -> Nat]
  /\ g.attempts \in [Nodes -> Nat \ {0}]
  /\ g.outs \in [Nodes -> SUBSET Keys]
  /\ g.restored \subseteq [Nodes -> Nat]

IsExecutor(x) ==
  /\ x.bus \in BOOLEAN          \* has_event_subscription
  /\ x.parallel \in BOOLEAN     \* enable_parallel_execution
  /\ x.timeout \in BOOLEAN      \* branch_timeout_seconds > 0
  /\ x.strategy \in Strategies  \* buffer_conflict_strategy

ASSUME GraphAssumption == \A g \in Graphs : IsGraph(g)
ASSUME ExecutorAssumption == \A x \in Executors : IsExecutor(x)
ASSUME WriterAssumption == NoWriter \notin Nodes
ASSUME BoundAssumption == MaxPath \in Nat

VARIABLES
  graph, executor,  \* the arguments of this call; they never change
  life,             \* NodeWorker.lifecycle
  attempt,          \* 0: the worker's node is not executing; k: its k-th attempt is
  deciding,         \* what the worker did, while a model is asked about an edge of it
  inherited,        \* NodeWorker._inherited_fan_out_tags
  trackers,         \* NodeWorker._active_fan_outs, as the tags received
  lastActs,         \* NodeWorker._last_activations
  guarded,          \* workers whose task runs under asyncio.wait_for (fan-out branch)
  timedOut,         \* workers whose task was cancelled by that wait_for
  visits,           \* gc.node_visit_counts
  path,             \* gc.path
  lastWriter,       \* the worker that wrote each buffer key last
  branchWriter,     \* gc._fanout_written_keys
  inflight,         \* WORKER_COMPLETED / WORKER_FAILED events whose handler has not run
  main,             \* where _execute_with_workers is
  doneFlag,         \* completion_event
  pending,          \* pending_tasks of the polling loop
  batch,            \* the done tasks this pass of the polling loop still has to handle
  completedTerms,   \* completed_terminals
  failed,           \* keys of failed_workers
  execError,        \* execution_error is set
  success           \* ExecutionResult.success

argVars    == <<graph, executor>>
workerVars == <<life, attempt, deciding, inherited, trackers, lastActs, guarded, timedOut>>
gcVars     == <<visits, path, lastWriter, branchWriter>>
hubVars    == <<inflight, main, doneFlag, pending, batch,
                completedTerms, failed, execError, success>>
vars       == <<argVars, workerVars, gcVars, hubVars>>

Lifecycle == {"pending", "running", "completed", "failed"}
Answered == {"no", "ok", "failed", "skipped"}
MainState == {"waiting", "returned", "cancelled"}

\* FanOutTag: the fan-out's id (its source and which visit of it), the
\* branches, and the branch this activation went through.
Tag == [id : Nodes \X Nat, branches : SUBSET Nodes, via : Nodes]
Activation == [dst : Nodes, tags : SUBSET Tag]
Event == [worker : Nodes, visit : Nat, ok : BOOLEAN, acts : SUBSET Activation]
-----------------------------------------------------------------------------
(***************************************************************************)
(* Edge evaluation: NodeWorker._evaluate_outgoing_edges.                   *)
(***************************************************************************)

OutEdges(n) == {e \in graph.edges : e.src = n}

\* EdgeSpec.should_traverse; "decided" are the CONDITIONAL and LLM_DECIDE
\* edges whose expression or model answer is true.
ShouldTraverse(e, ok, decided) ==
  \/ e.cond = "always"
  \/ e.cond = "on_success" /\ ok
  \/ e.cond = "on_failure" /\ ~ok
  \/ e.cond \in {"conditional", "llm_decide"} /\ e \in decided

\* Among several CONDITIONAL edges only the highest priority stays.
PriorityFilter(es) ==
  {e \in es : e.cond = "conditional" =>
     \A f \in es : f.cond = "conditional" => f.prio <= e.prio}

\* Sequential mode keeps the edge of highest priority, the first one in graph
\* order among equals (get_outgoing_edges sorts by priority).
FirstOnly(es) ==
  {e \in es : \A f \in es : f.prio < e.prio \/ (f.prio = e.prio /\ e.pos <= f.pos)}

Traversed(n, ok, decided) ==
  LET filtered == PriorityFilter({e \in OutEdges(n) : ShouldTraverse(e, ok, decided)})
  IN  IF executor.parallel THEN filtered ELSE FirstOnly(filtered)

\* One activation per traversed edge, carrying the inherited tags and, on a
\* fan-out, a tag of its own.
OutgoingActivations(n, ok, decided, visit) ==
  LET es   == Traversed(n, ok, decided)
      dsts == {e.dst : e \in es}
      own(d) == [id |-> <<n, visit>>, branches |-> dsts, via |-> d]
  IN  {[dst  |-> d,
        tags |-> inherited[n] \cup (IF Cardinality(dsts) > 1 THEN {own(d)} ELSE {})]
         : d \in dsts}

Undecided(n) == {e \in OutEdges(n) : e.cond \in {"conditional", "llm_decide"}}
-----------------------------------------------------------------------------
(***************************************************************************)
(* Activation: receive_activation, check_readiness, reset_for_revisit and  *)
(* activate, as _route_activation calls them for a set of activations to   *)
(* distinct targets.  A RUNNING target drops its activation.               *)
(***************************************************************************)

Accepted(acts) == {a \in acts : life[a.dst] # "running"}

Target(acts, n) == CHOOSE a \in acts : a.dst = n

\* A COMPLETED or FAILED target forgets its trackers; the tag of the branch
\* the target itself is does not gate it.
TrackersAfter(a) ==
  (IF life[a.dst] = "pending" THEN trackers[a.dst] ELSE {})
    \cup {t \in a.tags : t.via # a.dst}

\* Seeded fault: any arrival opens the join.
FaultAnyBranch(tags) == TRUE

IsComplete(tags) ==
  \A t \in tags : {u.via : u \in {v \in tags : v.id = t.id}} = t.branches

IsBranch(n, tags) == \E t \in tags : t.via = n

\* _route_activation for each of "acts"; "tracked" is pending_tasks_map.
Route(acts, tracked) ==
  LET accepted == Accepted(acts)
      dsts     == {a.dst : a \in accepted}
      act(n)   == Target(accepted, n)
      starts   == {n \in dsts : IsComplete(TrackersAfter(act(n)))}
      branches == {n \in starts : IsBranch(n, act(n).tags) /\ executor.timeout}
  IN
  /\ life' = [n \in Nodes |-> IF n \in starts THEN "running"
                              ELSE IF n \in dsts THEN "pending" ELSE life[n]]
  /\ trackers' = [n \in Nodes |-> IF n \in dsts THEN TrackersAfter(act(n)) ELSE trackers[n]]
  /\ inherited' = [n \in Nodes |-> IF n \in starts THEN act(n).tags
                                   ELSE IF n \in dsts THEN {} ELSE inherited[n]]
  /\ lastActs' = [n \in Nodes |-> IF n \in dsts THEN {} ELSE lastActs[n]]
  /\ guarded' = (guarded \ dsts) \cup branches
  /\ timedOut' = timedOut \ dsts
  /\ pending' = IF executor.bus THEN pending ELSE tracked \cup starts
  /\ UNCHANGED <<attempt, deciding>>
-----------------------------------------------------------------------------
(***************************************************************************)
(* Control-loop predicates.                                                *)
(***************************************************************************)

NoneRunning(lf) == \A n \in graph.nodes : lf[n] # "running"
TerminalReached(cts, fl) == graph.terminals \cap (cts \cup fl) # {}

\* Seeded faults: a terminal is enough while others run; no step limit; no
\* quiescence check.
FaultDoneEarly(lf, cts, fl) == Len(path) >= graph.maxSteps \/ TerminalReached(cts, fl)
FaultNoStepLimit(lf, cts, fl) ==
  NoneRunning(lf) /\ TerminalReached(cts, fl)
FaultNeverQuiescent(lf, cts, fl) == FALSE

\* _check_graph_done on given lifecycles, completed terminals and failures.
GraphDone(lf, cts, fl) ==
  \/ Len(path) >= graph.maxSteps
  \/ /\ graph.terminals = {}
     /\ \A n \in graph.nodes : lf[n] \in {"completed", "failed"}
  \/ /\ graph.terminals # {}
     /\ NoneRunning(lf)
     /\ TerminalReached(cts, fl)

\* _mark_quiescent_terminal_failure
Quiescent(lf, cts, fl) ==
  /\ ~execError
  /\ graph.terminals # {}
  /\ NoneRunning(lf)
  /\ ~TerminalReached(cts, fl)

\* The worker's event reaches the handlers that are subscribed when it is
\* published; without a bus nothing is published.
Publish(n, visit, ok, acts) ==
  inflight' = IF executor.bus /\ main = "waiting"
              THEN inflight \cup {[worker |-> n, visit |-> visit, ok |-> ok, acts |-> acts]}
              ELSE inflight

\* Seeded fault: failed workers do not count.
FaultBlindVerdict(err) == ~err

\* The success bit of the ExecutionResult.
Verdict(err) ==
  IF graph.terminals # {} /\ graph.terminals \subseteq completedTerms
  THEN graph.terminals \cap failed = {} /\ ~err
  ELSE failed = {} /\ ~err
-----------------------------------------------------------------------------
Init ==
  /\ graph \in Graphs
  /\ executor \in Executors
  /\ life = [n \in Nodes |-> IF n = graph.entry THEN "running" ELSE "pending"]
  /\ attempt = [n \in Nodes |-> 0]
  /\ deciding = [n \in Nodes |-> "no"]
  /\ inherited = [n \in Nodes |-> {}]
  /\ trackers = [n \in Nodes |-> {}]
  /\ lastActs = [n \in Nodes |-> {}]
  /\ guarded = {}
  /\ timedOut = {}
  /\ visits \in graph.restored
  /\ path = <<>>
  /\ lastWriter = [k \in Keys |-> NoWriter]
  /\ branchWriter = [k \in Keys |-> NoWriter]
  /\ inflight = {}
  /\ main = "waiting"
  /\ doneFlag = FALSE
  /\ pending = IF executor.bus THEN {} ELSE {graph.entry}
  /\ batch = {}
  /\ completedTerms = {}
  /\ failed = {}
  /\ execError = FALSE
  /\ success = FALSE
-----------------------------------------------------------------------------
(***************************************************************************)
(* A worker's task: NodeWorker._execute_self.  The polling loop handles a  *)
(* batch of done tasks without suspending, so no task runs meanwhile.      *)
(***************************************************************************)

Runs(n) == life[n] = "running" /\ n \notin timedOut /\ batch = {}
CanStep(n) == Runs(n) /\ deciding[n] = "no"

\* Seeded fault: one visit too many.
FaultExceeds(n, visit) == graph.maxVisits[n] > 0 /\ visit > graph.maxVisits[n] + 1

Exceeds(n, visit) == graph.maxVisits[n] > 0 /\ visit > graph.maxVisits[n]

\* The worker leaves RUNNING with the given activations kept for the poller.
Leave(n, lf, acts) ==
  /\ life' = [life EXCEPT ![n] = lf]
  /\ lastActs' = [lastActs EXCEPT ![n] = acts]
  /\ attempt' = [attempt EXCEPT ![n] = 0]
  /\ deciding' = [deciding EXCEPT ![n] = "no"]
  /\ UNCHANGED <<inherited, trackers, guarded, timedOut>>

\* The task's first step: the visit is counted and the node starts.
Start(n) ==
  /\ CanStep(n) /\ attempt[n] = 0
  /\ ~Exceeds(n, visits[n] + 1)
  /\ Len(path) < MaxPath
  /\ visits' = [visits EXCEPT ![n] = @ + 1]
  /\ path' = Append(path, n)
  /\ attempt' = [attempt EXCEPT ![n] = 1]
  /\ UNCHANGED <<argVars, life, deciding, inherited, trackers, lastActs, guarded, timedOut,
                 lastWriter, branchWriter, hubVars>>

\* max_node_visits is used up: the worker completes at once, evaluates its
\* edges as for a success, and returns without publishing.
SkipVisit(n) ==
  /\ CanStep(n) /\ attempt[n] = 0
  /\ Exceeds(n, visits[n] + 1)
  /\ visits' = [visits EXCEPT ![n] = @ + 1]
  /\ \E decided \in SUBSET Undecided(n) :
       Leave(n, "completed", OutgoingActivations(n, TRUE, decided, visits[n] + 1))
  /\ UNCHANGED <<argVars, path, lastWriter, branchWriter, hubVars>>

\* An attempt failed or raised and another one is left.
Retry(n) ==
  /\ CanStep(n) /\ attempt[n] \in 1 .. graph.attempts[n] - 1
  /\ attempt' = [attempt EXCEPT ![n] = @ + 1]
  /\ UNCHANGED <<argVars, life, deciding, inherited, trackers, lastActs, guarded, timedOut,
                 gcVars, hubVars>>

\* Seeded fault: a branch never sees a conflict.
FaultNoConflicts(n) == {}

\* _write_outputs: keys another fan-out branch has written already.
Conflicts(n) ==
  IF IsBranch(n, inherited[n])
  THEN {k \in graph.outs[n] : branchWriter[k] \notin {NoWriter, n}}
  ELSE {}

\* The keys the node writes: a conflicting one is dropped under first_wins.
Outputs(n) ==
  IF executor.strategy = "first_wins" THEN graph.outs[n] \ Conflicts(n) ELSE graph.outs[n]

Write(n, ks) ==
  /\ lastWriter' = [k \in Keys |-> IF k \in ks THEN n ELSE lastWriter[k]]
  /\ branchWriter' = [k \in Keys |-> IF k \in ks /\ IsBranch(n, inherited[n])
                                      THEN n ELSE branchWriter[k]]

\* The node succeeded: outputs are written, edges evaluated, the completion
\* published.
Succeed(n) ==
  /\ CanStep(n) /\ attempt[n] > 0
  /\ executor.strategy = "error" => Conflicts(n) = {}
  /\ Write(n, Outputs(n))
  /\ \E decided \in SUBSET Undecided(n) :
       LET acts == OutgoingActivations(n, TRUE, decided, visits[n])
       IN  Leave(n, "completed", acts) /\ Publish(n, visits[n], TRUE, acts)
  /\ UNCHANGED <<argVars, visits, path, main, doneFlag, pending, batch,
                 completedTerms, failed, execError, success>>

\* Strategy "error": the first conflicting key raises after any of the
\* others may have been written; the except clause fails the worker.
ConflictCrash(n) ==
  /\ CanStep(n) /\ attempt[n] > 0
  /\ executor.strategy = "error" /\ Conflicts(n) # {}
  /\ \E ks \in SUBSET (graph.outs[n] \ Conflicts(n)) : Write(n, ks)
  /\ Leave(n, "failed", {})
  /\ Publish(n, visits[n], FALSE, {})
  /\ UNCHANGED <<argVars, visits, path, main, doneFlag, pending, batch,
                 completedTerms, failed, execError, success>>

\* The last attempt failed: edges are evaluated for the failure, but the
\* WORKER_FAILED event does not carry the activations.
Fail(n) ==
  /\ CanStep(n) /\ attempt[n] = graph.attempts[n]
  /\ \E decided \in SUBSET Undecided(n) :
       Leave(n, "failed", OutgoingActivations(n, FALSE, decided, visits[n]))
  /\ Publish(n, visits[n], FALSE, {})
  /\ UNCHANGED <<argVars, gcVars, main, doneFlag, pending, batch,
                 completedTerms, failed, execError, success>>

\* should_traverse of an LLM_DECIDE edge awaits the model, so the evaluation of
\* the edges suspends: after the outputs were written, after the last attempt
\* failed, or after a visit too many was counted.  The worker is RUNNING still.
\* (Without a model, or with one that answers at once, it does not suspend.)
Ask(n) ==
  /\ CanStep(n)
  /\ \E e \in OutEdges(n) : e.cond = "llm_decide"
  /\ \/ /\ attempt[n] = 0 /\ Exceeds(n, visits[n] + 1)
        /\ visits' = [visits EXCEPT ![n] = @ + 1]
        /\ deciding' = [deciding EXCEPT ![n] = "skipped"]
        /\ UNCHANGED <<lastWriter, branchWriter>>
     \/ /\ attempt[n] > 0
        /\ executor.strategy = "error" => Conflicts(n) = {}
        /\ Write(n, Outputs(n))
        /\ deciding' = [deciding EXCEPT ![n] = "ok"]
        /\ UNCHANGED visits
     \/ /\ attempt[n] = graph.attempts[n]
        /\ deciding' = [deciding EXCEPT ![n] = "failed"]
        /\ UNCHANGED <<visits, lastWriter, branchWriter>>
  /\ UNCHANGED <<argVars, life, attempt, inherited, trackers, lastActs, guarded, timedOut,
                 path, hubVars>>

\* The models have answered: the worker leaves as it would have without them.
Decide(n) ==
  /\ Runs(n)
  /\ \E decided \in SUBSET Undecided(n) :
       LET acts(ok) == OutgoingActivations(n, ok, decided, visits[n])
       IN  \/ /\ deciding[n] = "ok"
              /\ Leave(n, "completed", acts(TRUE))
              /\ Publish(n, visits[n], TRUE, acts(TRUE))
           \/ /\ deciding[n] = "failed"
              /\ Leave(n, "failed", acts(FALSE))
              /\ Publish(n, visits[n], FALSE, {})
           \/ /\ deciding[n] = "skipped"
              /\ Leave(n, "completed", acts(TRUE))
              /\ UNCHANGED inflight
  /\ UNCHANGED <<argVars, gcVars, main, doneFlag, pending, batch,
                 completedTerms, failed, execError, success>>

\* Anything else in _execute_self raised (no implementation, a context that
\* cannot be built): FAILED without activations.
Crash(n) ==
  /\ CanStep(n) /\ attempt[n] = 1
  /\ Leave(n, "failed", {})
  /\ Publish(n, visits[n], FALSE, {})
  /\ UNCHANGED <<argVars, gcVars, main, doneFlag, pending, batch,
                 completedTerms, failed, execError, success>>

\* The wait_for around a fan-out branch expires and cancels the task.  The
\* CancelledError is no Exception: a RUNNING worker stays RUNNING and
\* publishes nothing.
BranchTimeout(n) ==
  /\ Runs(n) /\ n \in guarded
  /\ timedOut' = timedOut \cup {n}
  /\ UNCHANGED <<argVars, life, attempt, deciding, inherited, trackers, lastActs, guarded,
                 gcVars, hubVars>>

\* The same wait_for expires while the task awaits the handlers of its own
\* event: cancelling the gather in EventBus._execute_handlers cancels them.
TimeoutWhilePublishing(m) ==
  /\ m \in inflight
  /\ m.worker \in guarded /\ m.visit = visits[m.worker] /\ life[m.worker] # "running"
  /\ inflight' = inflight \ {m}
  /\ timedOut' = timedOut \cup {m.worker}
  /\ UNCHANGED <<argVars, life, attempt, deciding, inherited, trackers, lastActs, guarded, gcVars,
                 main, doneFlag, pending, batch, completedTerms, failed, execError, success>>
-----------------------------------------------------------------------------
(***************************************************************************)
(* The control loop, with an event bus: the two handlers and the wait.     *)
(***************************************************************************)

\* Seeded fault: every worker counts as a terminal.
FaultTerminals(n) == {n}

Terminals(n) == {n} \cap graph.terminals

\* _on_worker_completed and _on_worker_failed.  A failure routes nothing.  A
\* handler matched before the run returned still runs after it.
Deliver(m) ==
  /\ m \in inflight
  /\ inflight' = inflight \ {m}
  /\ Route(m.acts, {})
  /\ completedTerms' = completedTerms \cup Terminals(m.worker)
  /\ failed' = failed \cup (IF m.ok THEN {} ELSE {m.worker})
  /\ LET done  == GraphDone(life', completedTerms', failed')
         quiet == ~done /\ Quiescent(life', completedTerms', failed')
     IN  /\ execError' = (execError \/ quiet)
         /\ doneFlag' = (doneFlag \/ done \/ quiet)
  /\ UNCHANGED <<argVars, gcVars, main, batch, success>>

\* completion_event.wait() is over: unsubscribe, assemble the result.
Return ==
  /\ executor.bus /\ main = "waiting" /\ doneFlag
  /\ main' = "returned"
  /\ success' = Verdict(execError)
  /\ UNCHANGED <<argVars, workerVars, gcVars, inflight, doneFlag, pending, batch,
                 completedTerms, failed, execError>>
-----------------------------------------------------------------------------
(***************************************************************************)
(* The control loop without an event bus: asyncio.wait over pending_tasks. *)
(***************************************************************************)

Polling == ~executor.bus /\ main = "waiting" /\ batch = {}

DoneTasks == {n \in pending : life[n] # "running" \/ n \in timedOut}

PollReturn ==
  /\ Polling
  /\ LET done == GraphDone(life, completedTerms, failed)
     IN  /\ done \/ pending = {}
         /\ execError' = (execError \/ ~done)
         /\ success' = Verdict(execError')
  /\ main' = "returned"
  /\ UNCHANGED <<argVars, workerVars, gcVars, inflight, doneFlag, pending, batch,
                 completedTerms, failed>>

\* A wait_for wrapper finishes one loop iteration after the task it guards,
\* so the done set may miss it.
PollWait ==
  /\ Polling
  /\ ~GraphDone(life, completedTerms, failed)
  /\ \E done \in SUBSET DoneTasks :
       /\ done # {} /\ DoneTasks \ guarded \subseteq done
       /\ batch' = done
  /\ UNCHANGED <<argVars, workerVars, gcVars, inflight, main, doneFlag, pending,
                 completedTerms, failed, execError, success>>

\* One iteration of "for task in done": the entry goes (by worker id, so that
\* of a newer task of the same worker goes too) and a terminal is counted.
TakeDone(n) ==
  /\ n \in batch
  /\ batch' = batch \ {n}
  /\ completedTerms' = completedTerms \cup Terminals(n)
  /\ UNCHANGED <<argVars, gcVars, inflight, main, doneFlag, execError, success>>

PollTimeout(n) ==
  /\ n \in timedOut /\ life[n] = "running"
  /\ TakeDone(n)
  /\ life' = [life EXCEPT ![n] = "failed"]
  /\ attempt' = [attempt EXCEPT ![n] = 0]
  /\ deciding' = [deciding EXCEPT ![n] = "no"]
  /\ failed' = failed \cup {n}
  /\ pending' = pending \ {n}
  /\ UNCHANGED <<inherited, trackers, lastActs, guarded, timedOut>>

PollCompleted(n) ==
  /\ life[n] = "completed"
  /\ TakeDone(n)
  /\ Route(lastActs[n], pending \ {n})
  /\ failed' = failed

\* Seeded fault: the failed worker's activations are not routed.
FaultPollFailed(n) ==
  /\ life[n] = "failed"
  /\ TakeDone(n)
  /\ Route({}, pending \ {n})
  /\ failed' = failed \cup {n}

\* Unlike _on_worker_failed, the polling loop routes ON_FAILURE activations.
PollFailed(n) ==
  /\ life[n] = "failed"
  /\ TakeDone(n)
  /\ Route(lastActs[n], pending \ {n})
  /\ failed' = failed \cup {n}

\* An earlier task of the same batch has reset this worker: its own
\* completion is lost and it is recorded as failed.
PollStale(n) ==
  /\ life[n] = "pending" \/ (life[n] = "running" /\ n \notin timedOut)
  /\ TakeDone(n)
  /\ failed' = failed \cup {n}
  /\ pending' = pending \ {n}
  /\ UNCHANGED workerVars

PollHandle(n) == PollTimeout(n) \/ PollCompleted(n) \/ PollFailed(n) \/ PollStale(n)

\* ExecutionManager cancels the task that runs execute(): only the handlers
\* are unsubscribed, the workers' tasks go on.
Cancel ==
  /\ main = "waiting" /\ batch = {}
  /\ main' = "cancelled"
  /\ UNCHANGED <<argVars, workerVars, gcVars, inflight, doneFlag, pending, batch,
                 completedTerms, failed, execError, success>>
-----------------------------------------------------------------------------
NodeStep(n) == Succeed(n) \/ ConflictCrash(n) \/ Retry(n) \/ Fail(n) \/ Crash(n)
Evaluation(n) == Ask(n) \/ Decide(n)

Next ==
  \/ \E n \in Nodes : \/ Start(n)
                      \/ SkipVisit(n)
                      \/ Succeed(n)
                      \/ ConflictCrash(n)
                      \/ Retry(n)
                      \/ Fail(n)
                      \/ Crash(n)
                      \/ Ask(n)
                      \/ Decide(n)
                      \/ BranchTimeout(n)
                      \/ PollTimeout(n)
                      \/ PollCompleted(n)
                      \/ PollFailed(n)
                      \/ PollStale(n)
  \/ \E m \in inflight : Deliver(m)
  \/ \E m \in inflight : TimeoutWhilePublishing(m)
  \/ Return
  \/ PollReturn
  \/ PollWait
  \/ Cancel

\* asyncio runs every ready task and callback.  Nothing makes a node's execute()
\* or a model's answer come: the tool loop of an AgentLoop turn has no bound.
Fairness ==
  /\ \A n \in Nodes : /\ WF_vars(Start(n) \/ SkipVisit(n))
                      /\ WF_vars(PollHandle(n))
  /\ WF_vars(\E m \in inflight : Deliver(m))
  /\ WF_vars(Return \/ PollReturn \/ PollWait)

Spec == Init /\ [][Next]_vars
FairSpec == Spec /\ Fairness
-----------------------------------------------------------------------------
(***************************************************************************)
(* Properties                                                              *)
(***************************************************************************)

Executions(n) == Cardinality({i \in DOMAIN path : path[i] = n})

\* What a worker did before it asked a model fits its visit.
AskedFits ==
  \A n \in Nodes : /\ deciding[n] \in {"ok", "failed"} => attempt[n] > 0
                   /\ deciding[n] = "skipped" => attempt[n] = 0 /\ Exceeds(n, visits[n])

\* Every variable has its type: the activations, trackers and events carry
\* well-formed tags, only terminal nodes count as completed terminals, and what a
\* model is asked about fits the visit.
TypeOK ==
  /\ graph \in Graphs
  /\ executor \in Executors
  /\ life \in [Nodes -> Lifecycle]
  /\ attempt \in [Nodes -> Nat]
  /\ deciding \in [Nodes -> Answered]
  /\ AskedFits
  /\ inherited \in [Nodes -> SUBSET Tag]
  /\ trackers \in [Nodes -> SUBSET Tag]
  /\ lastActs \in [Nodes -> SUBSET Activation]
  /\ guarded \subseteq Nodes
  /\ timedOut \subseteq Nodes
  /\ visits \in [Nodes -> Nat]
  /\ path \in Seq(Nodes)
  /\ lastWriter \in [Keys -> Nodes \cup {NoWriter}]
  /\ branchWriter \in [Keys -> Nodes \cup {NoWriter}]
  /\ inflight \subseteq Event
  /\ main \in MainState
  /\ doneFlag \in BOOLEAN
  /\ pending \subseteq Nodes
  /\ batch \subseteq Nodes
  /\ completedTerms \subseteq graph.terminals
  /\ failed \subseteq Nodes
  /\ execError \in BOOLEAN
  /\ success \in BOOLEAN

\* "Max times this node executes in one graph run" (NodeSpec.max_node_visits):
\* however feedback edges and fan-outs reactivate a node, and whatever visit
\* counts a resumed session brings in, it executes at most that often.
VisitBudget ==
  \A n \in Nodes : graph.maxVisits[n] > 0 => Executions(n) <= graph.maxVisits[n]

\* Branches of an unconditional fan-out at s, which only s or another branch
\* starts, and a node d all of them (and nothing else) lead to.
SuccessTargets(s) == {e.dst : e \in {f \in OutEdges(s) : f.cond = "on_success"}}
Sources(n) == {e.src : e \in {f \in graph.edges : f.dst = n}}
IsJoin(s, d) ==
  /\ Cardinality(SuccessTargets(s)) > 1
  /\ \A e \in OutEdges(s) : e.cond = "on_success"
  /\ Sources(d) = SuccessTargets(s)
  /\ s \notin SuccessTargets(s) /\ d \notin SuccessTargets(s)
  /\ graph.entry \notin SuccessTargets(s) \cup {d}
  /\ \A b \in SuccessTargets(s) : /\ graph.maxVisits[b] = 0
                                  /\ Sources(b) \subseteq SuccessTargets(s) \cup {s}

\* A fan-in node runs at most once per fan-out, and only after every branch
\* has run: no order of completions, failures, timeouts or retries lets it
\* start on a part of its inputs (FanOutTracker, check_readiness).
JoinAfterBranches ==
  executor.parallel =>
    \A s, d \in graph.nodes : IsJoin(s, d) =>
      \A b \in SuccessTargets(s) : Executions(d) <= Executions(b)

\* With strategy first_wins or error, the fan-out branch that wrote a key first
\* is never displaced by another branch (_write_outputs).
FirstBranchKeepsKey ==
  [][\A k \in Keys :
       executor.strategy \in {"first_wins", "error"} /\ branchWriter[k] # NoWriter
         => branchWriter'[k] = branchWriter[k]]_vars

\* A run that did not hit max_steps reports success only if one of its terminal
\* nodes was reached and completed without failing (the verdict at the end of
\* _execute_with_workers, over completed_terminals and failed_workers).
EarnedSuccess ==
  [][main = "waiting" /\ main' = "returned" /\ success' /\ graph.terminals # {}
       => \/ Len(path) >= graph.maxSteps
          \/ \E t \in graph.terminals : t \in completedTerms /\ t \notin failed /\ visits[t] > 0]_vars

\* A polling run that did not hit max_steps leaves no node executing behind.
QuietReturn ==
  [][~executor.bus /\ main = "waiting" /\ main' = "returned"
       => \/ Len(path) >= graph.maxSteps
          \/ \A n \in graph.nodes : life[n] # "running"]_vars

\* max_steps may be overshot by the nodes already running, never by more: the
\* polling loop activates nothing after the limit is seen.
StepBudget ==
  ~executor.bus => Len(path) <= graph.maxSteps + Cardinality(graph.nodes) - 1

\* The two ways a completion never reaches the handlers of an event-driven
\* run: a skipped visit publishes nothing, a cancelled branch neither.
CompletionLost ==
  executor.bus /\ (timedOut # {} \/ \E n \in Nodes : Exceeds(n, visits[n]))

\* An event-driven run of a graph without terminals waits for every node to
\* complete or fail, also for one that nothing will activate any more
\* (_check_graph_done; validate() only warns about such a graph).
Stranded ==
  /\ executor.bus /\ graph.terminals = {}
  /\ NoneRunning(life) /\ inflight = {}
  /\ \E n \in graph.nodes : life[n] = "pending"

\* Every execute() of a node, and every question to a model, ends.
NodesEnd ==
  \A n \in Nodes :
    []<>~(life[n] = "running" /\ n \notin timedOut /\ (attempt[n] > 0 \/ deciding[n] # "no"))

\* If every node it starts ends, execute() returns: always when polling; with an
\* event bus unless a completion was lost or the run is stranded.
RunReturns == NodesEnd => <>(main # "waiting" \/ CompletionLost \/ Stranded)

\* A failed node outside any fan-out whose ON_FAILURE edge was evaluated and
\* not followed up yet.
Awaits(s, t) ==
  /\ life[s] = "failed" /\ inherited[s] = {}
  /\ \E e \in OutEdges(s) : e.dst = t /\ e.cond = "on_failure"
  /\ \E x \in lastActs[s] : x.dst = t

\* "ON_FAILURE: Fallback path when current node fails": the fallback node of a
\* failed node runs.
FallbackRuns ==
  NodesEnd => \A s, t \in Nodes :
    Awaits(s, t) ~> (Executions(t) > 0 \/ main = "cancelled" \/ Len(path) >= graph.maxSteps)

\* The same for runs without an event bus, where the polling loop routes the
\* activation: the fallback runs unless its own branch timeout cancels it.
PolledFallbackRuns ==
  NodesEnd => \A s, t \in Nodes :
    (~executor.bus /\ Awaits(s, t)) ~>
      (\/ Executions(t) > 0 \/ t \in timedOut
       \/ main = "cancelled" \/ Len(path) >= graph.maxSteps)

\* execute() returns: "Evaluate outgoing edges so the cycle continues" promises
\* that a node whose visits are used up does not stop the run (as long as the
\* nodes that do execute end).
ExecuteReturns == NodesEnd => <>(main # "waiting")

\* A run fails only if some worker failed: a join waits for its branches, and
\* what follows the join runs as well.
AllSucceededSucceeds ==
  [][main = "waiting" /\ main' = "returned" /\ ~success'
       => \E n \in graph.nodes : life[n] = "failed" \/ n \in timedOut]_vars
=============================================================================
