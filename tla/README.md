# Hive: a TLA+ model of the agent runtime

Hive (`core/framework/`) runs agents. A *queen* agent talks to the user, runs graphs of
nodes and spawns *colony workers*; each agent is a loop around a language model that calls
tools. This directory models the parts of that runtime in which order, cancellation and
failure matter, checks them with TLC, and proves the main invariants with TLAPS.

All paths below are relative to `core/framework/`.

## 1. Inventory

Almost everything runs on one asyncio event loop per server process. Code between two
awaits is atomic; anything may happen at an await, and a task that is cancelled gets a
`CancelledError` there. Blocking file writes run in threads.

| component | state | operations | hard behaviours |
|---|---|---|---|
| Graph orchestrator (`orchestrator/`) | one `NodeWorker` per node (lifecycle, fan-out trackers, tags), visit counts, path, data buffer, completion sets | `execute`, activation, edge evaluation, completion handlers, polling loop | fan-in, feedback loops, retries, branch timeouts, handlers that run later than the state they look at |
| Execution stream (`host/execution_manager.py`) | active contexts, tasks, completion events, results, cancel reasons | `start`, `stop`, `execute`, `cancel_execution`, `wait_for_completion` | concurrent callers suspended in a cancellation, cancellation at every await, writes that outlive their task |
| Task list store (`tasks/`) | one JSON document per list, high-water-mark | ensure, create, batch, update, delete, reset, claim, lazy migration | id reuse, half links, misleading steering |
| Worker batch (`host/worker.py`, `host/colony_runtime.py`) | worker registry, status, explicit report, result | spawn, run, report, stop, stop all, timeouts | reports lost or repeated, stopping what is ending |
| Queen (`server/queen_orchestrator.py`, `tools/queen_lifecycle_tools.py`) | phase, session metadata | tools, report handler | phase changes racing reports |
| Event bus (`host/event_bus.py`) | subscriptions, history, semaphore | subscribe, publish, wait_for | nested publication, slow handlers |
| Run storage (`storage/concurrent.py`) | write queue, caches, locks | save, load, delete, flush | stale caches, flush against the batch writer |
| Agent loop (`agent_loop/agent_loop.py`) | iteration, pending input, two input queues, event, shutdown flag, saved cursor | execute, inject event or trigger, shut down, cancel a turn | waking and stopping a waiting loop, restart during a wait |
| Conversation (`agent_loop/conversation.py`, `storage/conversation_store.py`) | messages, next seq; on disk one file per message, partial checkpoints, cursor | add, checkpoint, compact, restore, send to the model | crash between two writes, a writing thread that cannot be cancelled, pairing of calls and results |
| MCP pool (`loader/mcp_connection_manager.py`) | client, reference count and transition of a server | acquire, release, reconnect, health check, cleanup | real threads, connects overtaken by a timeout |
| Progress queue (`host/progress_db.py`) | SQLite task rows | claim, complete, reclaim | stale claims |
| Session manager, routes (`server/`) | sessions | create, restore, stop, delete | requests that overlap |
| Agent host, triggers (`host/agent_host.py`) | streams, timers, idempotency table | trigger, webhooks, timers | duplicate deliveries |
| Run checkpoints (`storage/checkpoint_store.py`) | files and an index | save, load, prune | crash between file and index |
| Key pool, providers (`llm/`) | key cool-downs | next key, mark | all keys cooling down |
| Credentials, pipeline, skills, tracker, loader, tool servers, frontend | mostly files and network | | little shared state |

Interactions: `AgentHost.trigger` calls `ExecutionManager.execute`; the execution's task
drives an `Orchestrator`, which runs `NodeWorker` tasks; these publish `WORKER_COMPLETED` /
`WORKER_FAILED` on the event bus, whose handlers are the orchestrator's control loop. The
queen's `run_parallel_workers` tool calls `ColonyRuntime.spawn_batch`; each `Worker` runs an
`AgentLoop` and publishes `SUBAGENT_REPORT`, which a handler in the queen's session turns
into a message to the queen and a phase change. Agents share task lists through the store.
An `AgentLoop` keeps its messages in a `NodeConversation`; other tasks reach it only through
`inject_event`, `inject_trigger`, `signal_shutdown` and `cancel_current_turn`. Tools are called
through clients of the MCP pool, from threads.

What makes each of the modelled components correct:

- *Graph run*: a node respects its visit budget; a join waits for its branches; a key keeps
  its first branch's value where the strategy says so; success is earned; the run ends if its nodes do.
- *Stream*: one execution at a time; bookkeeping lives as long as the task; a waiter finds
  a result; the state file and the terminal event say what happened; a cancelled execution ends.
- *Task list*: ids are never reused; links between existing tasks are mirrored; advice matches the list.
- *Worker batch*: a worker reports exactly once, with its own report if it filed one; the
  hard timeout ends everyone; the queen reviews when the batch is quiet.
- *Agent loop*: an input is taken once, in order; the loop sleeps over no input and wakes for
  nothing else than input or a shutdown; a restart makes up no answer.
- *Conversation*: what was acknowledged is on disk; a restart finds the order and the stream
  that was cut; the model always gets a request in which every call has its result.
- *MCP pool*: the reference count counts the holders; the pool leaves no client connected and
  unknown; no caller sleeps on an event that nobody will set.

The hazards behind these are listed, each at its line, in `PROJECT.json`. It does not list those of
components without a module: handlers of the event bus that hold a slot of its semaphore while they
publish (`host/event_bus.py:550`), and a stale claim of the progress queue that is handed back while
its slow worker is alive (`host/progress_db.py:449`).

## 2. Modules

| module | models | source |
|---|---|---|
| `WorkerGraph` | one call of `Orchestrator.execute` | `orchestrator/orchestrator.py`, `node_worker.py`, `edge.py` |
| `ExecutionStream` | `ExecutionManager` and its tasks | `host/execution_manager.py` |
| `ExclusiveStream` | abstract specification of a stream | |
| `TaskList` | one list of the `TaskStore` | `tasks/store.py`, `tasks/tools/session_tools.py` |
| `WorkerBatch` | a batch of colony workers, the watcher and the queen's phase | `host/worker.py`, `host/colony_runtime.py` |
| `AgentLoop` | the iterations of one agent and the queues that feed it | `agent_loop/agent_loop.py`, `internals/cursor_persistence.py` |
| `Mailbox` | abstract specification of `inject_event` | |
| `Conversation` | one conversation over its store, with crashes | `agent_loop/conversation.py`, `storage/conversation_store.py` |
| `LlmMessages` | the request made of the stored messages | `agent_loop/conversation.py` |
| `Subsequences` | the elements of a list that belong to a set, `[x for x in s if ...]` | as in `agent_loop/conversation.py` |
| `McpPool` | the pooled connection of one server, shared by threads | `loader/mcp_connection_manager.py`, `mcp_client.py` |
| `MC...` | values for the constants | |
| `...Proofs` | theorems and their lemmas, one module per component, and one for `Subsequences` | |

Operators named `Fault...` are seeded faults. No specification uses them; each stands next to
the definition it would replace and shows that a property can fail.

### WorkerGraph

An action is the code between two awaits that can really suspend. A worker's task has a
first step (`Start`, or `SkipVisit` when `max_node_visits` is used up), further attempts
(`Retry`), and an end (`Succeed`, `Fail`, `Crash`, or `ConflictCrash` when strategy `error`
meets a key of another branch). The end writes outputs, evaluates the outgoing edges,
leaves RUNNING and publishes, in that order. Only an `LLM_DECIDE` edge suspends before the
publication, as it awaits a model: then the end is two steps, `Ask` (the outputs are written, or a
visit too many is counted) and `Decide`, with `deciding` for what happened in the first.

- `life`, `attempt`, `inherited`, `trackers`, `lastActs` are the `NodeWorker` fields;
  `visits`, `path`, `lastWriter`, `branchWriter` those of `GraphContext` (of a value in the
  buffer only its writer is kept).
- `Route` is `_route_activation` over all activations of one completion: it drops those for
  a RUNNING target, resets a finished target, and starts the target when its trackers are
  complete.
- `inflight` holds published events whose handler has not run. `Deliver` is a handler,
  including the final `_check_graph_done() or _mark_quiescent_terminal_failure()`.
- Without a bus the loop polls: `PollWait` fixes the set of done tasks, and `PollTimeout`,
  `PollCompleted`, `PollFailed`, `PollStale` handle them one by one. No other task runs
  until the set is empty.
- `BranchTimeout` is the `wait_for` around a fan-out branch. It may fire at any time while
  the branch runs. `TimeoutWhilePublishing` is the same while the branch awaits its handlers.
- `CONDITIONAL` and `LLM_DECIDE` edges hold or not as the environment chooses. The end in one step
  covers an `LLM_DECIDE` edge without a model.
- A sequential executor follows one edge of those that hold, the one of the highest priority
  (`FirstOnly`), of equal ones the first in the graph.

Left out: the pause gate of the workers (nobody clears it), the restored path and the resume
node (the code computes but does not pass them on), two edges between the same two nodes
(an assumption in `IsGraph`, as is that a graph has finitely many nodes), continuous mode, and
progress files.

### ExecutionStream

`phase[i]` is the await at which the task of execution `i` is suspended. `self._lock` is
never held across an await and the semaphore never blocks, so neither is a step.
`task.cancel()` only puts `i` into `cancelReq`; `CancelHits` raises the error at the current
await inside the `try`, `CancelHitsHandler` inside an `except` clause, and `NeverRuns` is the
cancellation of a task that has not taken its first step. `execute()` is `ExecuteAtOnce`, or
`ExecuteCancels` and later `ExecuteResumes`; the 5 s limit of the wait is over-approximated
by letting `ExecuteResumes` happen at any time.

A write of `state.json` is a thread (`writes`, `WriteLands`) that goes on when its awaiter is
cancelled, or is dropped if it was still queued (`CutWrite`). `shared` executions resume a
session and write no state.

Left out: expiry of results by age; the `paused` outcomes (the orchestrator sets no
`paused_at` and catches no cancellation); cancel reasons; writes that fail, which
`_write_session_state` only logs (1124-1126), so that the status on disk stays the older one; and
`Orchestrator._write_progress` (251-305), which rewrites `state.json` during a run and keeps its
status.

### TaskList

Every store operation runs under the lock of its list and replaces the document atomically,
so it is one action. `stage = "legacy"` is a list of the older layout; whatever operation
reads it first migrates it. `Update` includes the steering message of `task_update`, read from the
list just written; another tool call between the two is not modelled. `issued` and
`early` are history variables: all ids ever given, and the links made towards a task that did not
exist at that moment. Deleting the task a link names removes the link, so it leaves `early` too.

### WorkerBatch

`task[w]` is the await of `Worker.run`. `Spawn` is one pass of `spawn_batch`; forking the
conversation suspends before it, so reports and stops interleave with spawning. `SpawnFails`
is a spawn that raises. A report is published by awaiting its handler (`Notify`), which is
also where the queen's phase changes. Stopping is guarded by `is_active` everywhere
(`Stoppable`). `CallerCancelled` is a cancelled caller of `Worker.stop`, which cancels the
task it awaits once more. `StillActive` is empty because the handler looks for `_workers` on
`session.colony_runtime`, an `AgentHost`, which has none.

Left out: persistent workers (`start_overseer` has no caller), the queen's other phase
changes, the colony's own start and stop, and one await that swallows a cancellation: the clean-up
after a watchdog has fired (`agent_loop.py:2728-2732`). A stop that arrives exactly there is lost
until the caller cancels again.

### AgentLoop and Mailbox

`pc` is the await the loop is at, from the top of an iteration over the drains, the turn, the
cursor and the decision to the wait. Everything runs on one event loop, so an action is the
code between two awaits.

- A turn is reduced to its result: work, text, a question to the user, an escalation, a
  report; or it fails, is cancelled, is empty or stalls. All of these are possible after any
  input, so nothing depends on what a model says. A cancellation that hits a parallel batch of
  tools passes through the gather and ends the loop (3355-3376), as `FailTurn` may.
- Nothing makes a turn end: its tool loop (2445) has no bound unless `max_tool_calls_per_turn` is
  set, and triggers are taken only between turns. So `FairSpec` has no fairness of a turn or a
  judge (`Thinking`), and the liveness properties assume that turns end (`TurnsEnd`).
- `_await_user_input` is `Await` (check the queues, clear the event), `Emitted` (the request
  to the client has gone out) and `Wake`. `why` names the call of it that is being served and
  with that what follows (`AfterWait`).
- `held` is a message taken from a queue while it is awaited into the conversation.
  `TakeInjection` is both the drain at the top of an iteration and the priority drain of a
  turn; triggers are taken all at once.
- `cursor` is `cursor.json`. `Crash` loses the queues and the flags, `Restart` starts one
  iteration after the saved one with the saved pending input.
- `delivered`, `events`, `parked` and `seen` are history variables: what reached the
  conversation, what came by `inject_event`, whether the loop is waiting and has had nothing
  since, and how much a turn has dealt with.

`Mailbox` promises callers of `inject_event`: accepted messages arrive once each and in order, and
only a restart loses those on the way. `AgentLoop` implements it with `way <- ` the events in
`held` followed by `injections` and `got <- ` the events in `delivered` (`Kept` of `Subsequences`).
Triggers are another queue and may overtake events.

Left out: what compaction and the judge look at, the pause flag (`Leave` covers it), the contents
of tool calls, and the plumbing of outputs.

### Conversation and LlmMessages

A public operation changes the memory and then awaits calls of the store one after the other.
`op.todo` holds those that are left and `Store...` takes the next; `Crash` may come between
any two. No two operations overlap, as only the loop uses a conversation. The one
exception is a checkpoint whose stream was cut: its thread goes on and writes later
(`late`, `StoreLate`). `Restore` includes the removal of partials and the choice of the next
seq, and the loop's fresh start when nothing is found.

`turn` says what the loop may do: a message when idle, checkpoints while a stream is received,
one result per call while tools run. `acked` holds the messages whose operation
has returned, until a compaction takes them; `stream` is the stream whose checkpoint must be
found; `reused` records that a restart found a cursor behind the parts.

`LlmMessages` translates `to_llm_messages`: the repair of calls and results, the merging of
user messages and the removal of a head that is not a user message. The code merges two user
messages only if both are text; one with images is sent as a list and stays apart (745). Which user
messages have images is the parameter `pictured` of these operators. It is no state: any message
may bring images, and `evict_old_images` may take them away again, so properties of a request are
claimed for every set of user messages in memory (`Pictured`). `WellFormed` is what a
strict API demands, written without the repair, except that two user messages may follow each other
if one has images: the docstring of `_sanitize_for_api` (rule 1, 723) rules that out and the code
lets it through. The two loops are recursive functions over
the number of messages seen (`RepairUpTo`, `MergeUpTo`) and the order of the files is given by
rank (`BySeq`), so that they can be proved about.

Left out: contents and tokens other than whether there are images, `compact_preserving_structure`
in its aggressive mode, pruning of results (contents only), `clear`, phases and runs other than the one restored.

### McpPool

An action is a block under `_pool_lock` or a call of the client. A thread waits for whatever
transition is present, so a transition is named by its owner; to resolve it sends all
waiting threads back to the start of their loop (`Resolve`). `TimeOut` removes a transition as
stuck while its owner goes on, which then finds it gone (`LoseRace`). One server is enough, as
nothing is shared between servers but the lock. `extra` counts references taken by a thread
that held one: a reconnect whose transition was taken away falls back to `acquire`. `reconnect`
may be called by anyone; with no reference left it drops the client it made (`Discard`).

A client also connects by itself, unknown to the pool: in `call_tool`, when the session is dead or
another user has replaced and disconnected the client (`Dial`), and in `list_tools` of a
`health_check`, which looks the client up under the lock and uses it after (`ReadPool`, `Probe`,
`EndDial`). `dialled` holds the clients this happened to. A connect may fail, and it may never end
(`Connecting` is not fair): it asks the server for its tools through `future.result()` without a
timeout (`mcp_client.py:101`).

Left out: `cleanup_all` (when the program ends), health checks over http and unix (they do not
touch the client), and what is not in `_connected`: a stdio connect that fails leaves its loop
thread and perhaps a process (`mcp_client.py:238-258`), which no caller disconnects.

## 3. Runs

| run | states | shows |
|---|---|---|
| `MCWorkerGraph` | 9 485 | all properties of `WorkerGraph` on four graphs and five executors |
| `MCExecutionStream` | 174 374 | all properties of `ExecutionStream` |
| `MCTaskList` | 969 897 | all properties of `TaskList`; no deadlock |
| `MCWorkerBatch` | 316 554 | all properties of `WorkerBatch` |
| `MCAgentLoop` | 749 690 | all properties of `AgentLoop`; it implements `Mailbox` |
| `MCConversation` | 3 491 357 | all properties of `Conversation` and `LlmMessages` |
| `MCMcpPool` | 418 994 | all properties of `McpPool` |
| `WorkerGraphSkip`, `StreamLeak`, `BatchReview`, `ConvDoubleLoad`, `LoopShutdown` | | each violates one statement of the documentation or the comments: section 5 |

Deadlock is checked for `TaskList`. The other systems stop: a graph run returns, a batch is
over, a loop ends, or the bounds on executions, messages or calls are used up.

### Bounds and why they are enough

- `MCWorkerGraph`: at most four nodes and one key. `Diamond` has a fan-out, a join, a
  feedback edge (`LLM_DECIDE`) into a branch and a contested key; `Loop` uses up a visit budget and a step
  limit and may start from restored counts; `Fallback` has a retry, an `ON_FAILURE` edge, two
  terminals and an `LLM_DECIDE` edge; `Endless` has no terminal, a node that may never be activated,
  edges whose order is not that of their priorities, and a budget that a restored count uses up.
  Executors: with and without bus, parallel and sequential, with
  timeouts, all three write strategies. `MaxPath = 8` bounds node executions. It is at least
  twice the longest acyclic path, so a node can be executed again after a feedback edge;
  no graph is cut off before its own `maxSteps` except `Diamond` and `Fallback`, which
  terminate on their own or loop on the feedback edge.
- `MCExecutionStream`: two ids, two callers, one resurrection, one retained result, two
  executions. Two executions are enough for one to be replaced by another, under a
  new id or the same one; one retained result makes every second result prune the first.
- `MCTaskList`: three ids, one agent, patches that complete a task, start it as its owner, or add
  one link; larger patches are sequences of these. Three ids allow a chain, a cycle, and a link
  across a deleted id. Every set of older tasks and every older high-water-mark is initial.
- `MCWorkerBatch`: two workers. Workers interact only through the caller that stops them
  and through the phase, and both need two at most.
- `MCAgentLoop`: three inputs of either sort, three iterations, one retry, one crash, an
  empty turn tolerated once. Three inputs allow one held, one queued and one that arrives in the
  wait; three iterations allow a wait, its answer and the turn after it, also when a
  restart comes in between; the limits are the smallest that are neither absent nor immediate.
- `MCConversation`: five messages, two calls per message, two crashes. A prompt, a message with
  two calls and its two results are four; the fifth is a compaction, an injected message or
  the stream after a restart. Two crashes allow a restart to be interrupted in what it made.
- `MCMcpPool`: three threads (one that connects, one that waits, one that comes in
  between), four calls (tool calls that dial included) and one timeout,
  so that a connect is overtaken while a third thread waits or comes in.

### Properties of WorkerGraph

`VisitBudget`, `StepBudget`: limits; a polling run may exceed the step limit by the workers that
were started before it was reached. `JoinAfterBranches`: a fan-in node runs at most once per
fan-out, after all branches, where the branches are started by nothing but the fan-out and each
other and have no visit limit (`IsJoin`). `FirstBranchKeepsKey`: no branch displaces the first writer.
`EarnedSuccess`: a success needs a terminal that was reached and did not fail.
`QuietReturn`: a polling run leaves nothing running behind. `RunReturns`: if every node it starts
ends (`NodesEnd`), the run ends, except when an event-driven run lost a completion
(`CompletionLost`) or is stranded: a graph without terminals waits for all its nodes, also for one
that nothing will activate any more (`Stranded`; `validate()` only warns of such graphs, and
`Endless` is one). `PolledFallbackRuns`: without a bus a failed node's fallback runs, again if nodes end.

### Properties of ExecutionStream

`KeepsExclusive`: the stream implements `ExclusiveStream` under the mapping `open <- running`,
`alive <- ` the ids with a live task. `TrackedWhileAlive`: a live task has its bookkeeping.
`WokenWithResult`: a waiter that is woken finds the result. `FinalStateOnDisk` and
`ReportedOnce`: what a finished run has written and published, for cancellations at every
await but those named in them. `CancelledEnds`: a cancelled execution ends.

### Properties of TaskList and WorkerBatch

`IdsNeverReused`. `LinksMirrored`: a task that is named by a link exists and names it in turn,
whichever of the two ids is the lower. Only a link that was made before the task it names existed
(`early`) may be one-sided: nothing mirrors it when that task appears.
`AtMostOneReport`, `NoSilentEnd`, `ExplicitReportWins`: what the queen is told of a worker.
`HardTimeoutEnds`: after the hard timeout every worker of the batch ends, except one that
`stop_all_workers` removed from the registry while it was being spawned.

### Properties of AgentLoop

`NoLostWakeup`: an input between the check, the clearing of the event, the request and the wait
is not slept over. `NoEmptyWakeup`: the loop does not wake to find nothing. `ParkedUntilInput`:
a loop that waits runs no turn before it has input, restarts included. `IsMailbox`: the
refinement. `InputArrives`: if turns end, an input reaches the conversation, unless the loop ends or
dies: it needs no other input to come first.

### Properties of Conversation

`AckedOnDisk`: an acknowledged message stays on disk until compacted. `RestartKeepsOrder`: a
restart would bring the acknowledged messages back in the order of the memory.
`StreamSurvives`: a checkpointed stream is found by a restart at any moment.
`RequestWellFormed`: no message is in memory twice, and the request starts with a user message, has
one result at once for each call and no other, and no two user messages of text in a row, whatever
was cut, cancelled, injected, compacted or lost and whichever user messages have images. `CompactionKeepsResults`: the
structure-preserving compaction hides no tool result. Where a restart found the cursor behind
the parts (`reused`), which is the case of `ConvDoubleLoad`, the first two and the uniqueness of the
messages are not claimed.

### Properties of McpPool

`RefsAreHolders`: the count is the number of holders (plus `extra`). `NoOrphan`: a connected
client is pooled, in the hands of a thread that will pool or drop it, or has connected itself
(`dialled`); of the last kind the code may leave some behind, see `LastReleaseDisconnects` in
section 5. `CallsEnd`: if connects end (`ConnectsEnd`), every call does, also when no wait
ever times out: whoever makes a transition resolves it, on every path.

### Fairness

Weak fairness only, of steps the event loop or the operating system will take: a ready task
or handler runs, a thread finishes its write, a timer fires. `EventBus` bounds every handler by a
timeout, so publishing ends. No fairness is assumed of the `execute()` of a node or the answer of a
model: properties of a graph run assume in their statement that nodes end (`NodesEnd`), as the tool
loop of an agent's turn has no bound. In `ExecutionStream` and `WorkerBatch` nothing is assumed of
the executor or the loop, so `CancelledEnds` and `HardTimeoutEnds` hold even if they never return.
No step of a caller (execute, stop, cancel) is fair.

`AgentLoop`: the loop's own steps outside a turn and a judge, because the event loop runs what is
ready, and `Restart`; no input and no shutdown has to come, and that turns end is an assumption
of the properties (`TurnsEnd`). `McpPool`: what a thread does inside a call except the connects of
a client, because threads run and a disconnect has timeouts (`_CLEANUP_TIMEOUT`,
`_THREAD_JOIN_TIMEOUT`); that connects end is an assumption of `CallsEnd`. No call is made by
necessity and no wait has to last until its timeout.

## 4. Proofs

TLC shows the properties on the instances above; TLAPS proves these for all values of the
constants, under the named assumptions in the modules (`GraphAssumption` and so on: what
`validate()` and the types guarantee, and that model values differ).

| theorem | property | argument |
|---|---|---|
| `WorkerGraphProofs!TypeCorrect` | `TypeOK` | inductive |
| `WorkerGraphProofs!VisitBudgetHolds` | `VisitBudget` | the executions of a node in `path` never exceed its visits, nor its budget: a node starts only when its counted visit does not exceed the budget |
| `WorkerGraphProofs!FirstBranchKeeps` | `FirstBranchKeepsKey` | only `Write` changes `branchWriter`, and under these strategies it is never given a conflicting key |
| `WorkerGraphProofs!Earned` | `EarnedSuccess` | once the run is done, the terminal or the limit that was the reason stays, and a terminal that completed was visited (`EarnInv`) |
| `WorkerGraphProofs!StepBudgetHolds` | `StepBudget` | the path and the workers that have been started and not executed fit into the limit and the nodes; nothing is started once the limit is reached (`StepInv`) |
| `WorkerGraphProofs!JoinWaits` | `JoinAfterBranches` | the executions of a branch pay for those of the join, for a start of it that is due, for a tag of the branch it holds, and for a completion on its way (`Spent`); a tag is held only while the join waits |
| `WorkerGraphProofs!QuietEnds` | `QuietReturn` | what runs is tracked, as nothing tracked is started anew: two tracked workers went through different branches of a fan-out, explained below |
| `ExecutionStreamProofs!Tracked` | `TrackedWhileAlive` | a status is removed only with the phase |
| `ExecutionStreamProofs!Exclusive` | `KeepsExclusive` | step simulation of `ExclusiveStream`; admission needs an empty `Blocking`, so every live task is tracked and there is one at most |
| `ExecutionStreamProofs!StreamTyped` | `TypeOK` | inductive; pruning keeps the retained results within their limit |
| `ExecutionStreamProofs!Woken` | `WokenWithResult` | the last result is that of the task that is ending, as no other one is alive to record another (`Single`) |
| `ExecutionStreamProofs!Reported` | `ReportedOnce` | at each await the events published and the result retained are determined by the cancellations met so far (`Stage`) |
| `ExecutionStreamProofs!FinalState` | `FinalStateOnDisk` | the same for the status on disk and the writes on their way, which another execution under the same id waits for (`Owned`) |
| `TaskListProofs!TypeCorrect` | `TypeOK` | inductive |
| `TaskListProofs!NeverReused` | `IdsNeverReused` | every issued id is at most the larger of the high-water-mark and the highest existing task |
| `TaskListProofs!Mirroring` | `LinksMirrored` | inductive: a link to a task that does not exist is `early`, so those that name a new task already need no mirror |
| `WorkerBatchProofs!TypeCorrect` | `TypeOK` | together with: a worker that reports has a result |
| `WorkerBatchProofs!Reporting` | | the inductive invariant of the next three |
| `WorkerBatchProofs!OneReport` | `AtMostOneReport` | cancellation is requested only of active workers, and those have not reported |
| `WorkerBatchProofs!NoSilence` | `NoSilentEnd` | at every await the reports are none or the one result |
| `WorkerBatchProofs!ExplicitWins` | `ExplicitReportWins` | the result of a worker that filed a report is that report |
| `AgentLoopProofs!TypeCorrect` | `TypeOK` | together with the limits: the loop is at `drain` or later only below `MaxIterations`, and a wait for emptiness only at its limit |
| `AgentLoopProofs!NoWakeupLost` | `NoLostWakeup` | between `Await` and the wait the queues are empty or the event is set, as whoever fills a queue sets it (`Awake`) |
| `AgentLoopProofs!NoWakeupEmpty` | `NoEmptyWakeup` | the event is cleared with empty queues and set only with an input or a shutdown; nothing is taken while the loop waits (`Arrived`) |
| `AgentLoopProofs!StaysParked` | `ParkedUntilInput` | a parked loop is on its way from one wait to the next with the pending input saved, so each restart leads back to it (`Parked`) |
| `AgentLoopProofs!ImplementsMailbox` | `IsMailbox` | step simulation of `Mailbox`; what is held is one event or none at all (`Mail`), and `Kept` distributes over concatenation |
| `ConversationProofs!RequestShape` | | for every set of user messages with images; induction over the list: between two messages, all calls are answered but those of the last assistant message, of which the open ones are left (`Half`); closing or merging moves no result away from its call |
| `ConversationProofs!Invariant` | | the inductive invariant of the following, explained below |
| `ConversationProofs!Typed` | `TypeOK` | with `FirstIsUser`: a compaction takes no seq below 0 |
| `ConversationProofs!Durable` | `AckedOnDisk` | with `Acknowledged` |
| `ConversationProofs!Checkpointed` | `StreamSurvives` | with `Streamed` |
| `ConversationProofs!OrderKept` | `RestartKeepsOrder` | two lists sorted by seq with the same messages are equal |
| `ConversationProofs!RequestsWellFormed` | `RequestWellFormed` | seqs are strictly increasing in memory, so no id occurs twice; then `RequestShape` |
| `ConversationProofs!ResultsKept` | `CompactionKeepsResults` | induction over the list before the compaction: a call that is open there is open in the shorter list (`ShowsMore`) |
| `McpPoolProofs!TypeCorrect` | `TypeOK` | every client made beyond the calls belongs to a timeout (`Budget`) |
| `McpPoolProofs!RefsHold` | `RefsAreHolders` | a handle is held exactly where the code may use or release it (`Holding`), so each change of the count is that of the set |
| `McpPoolProofs!NoneLeft` | `NoOrphan` | the client of a thread that connects is its own (`Distinct`), and only the owner of the transition replaces the pooled one (`Turns`); a client that connects itself is in `dialled` before it is connected |

The invariant of `ConversationProofs` (`ConvInv`) says how the memory, the files and the calls of
the store that are left in an operation belong together. None of the properties is inductive: a
state in which the cursor is written before its part satisfies them all and violates them after a crash.
`Shape` gives the calls that are left and their order, `Alone` what may happen beside an operation,
`MetaFirst` that nothing is written before the meta file. `OneSeq` says that all copies of
a message (memory, parts, partials, late and pending writes) agree on its seq; `FirstIsUser` that
only a user message has seq 0, so that the seq a compaction takes below the first it keeps exists; `Files`
that a directory has one file per seq. `Ordered` bounds the next seq on disk by the one in memory, and
keeps the memory sorted; `Acknowledged` says where an acknowledged message is and that no pending
write replaces it; `Late` and `Streamed` where the checkpoint of a stream is until its message
is written. After a restart with the cursor behind the parts (`reused`) the parts of this about order
and acknowledgement are not claimed, as in the properties.

The invariant for `QuietReturn` (`QuietInv`) has to rule out that the polling loop starts a worker
whose finished task it has not handled yet: it would then forget the new task along with the old one
(the entry goes by worker id). A tracked worker has a *strand*, the tags it was started with, which
the program forgets when it resets the worker; so the invariant only claims that strands exist
(`Apart`). Any two of them part at a fan-out that is later than any other the two share (`Split`; the
order of the fan-outs is claimed to exist too). So what one worker sends to another that is tracked
lacks the branch which that one is on, and the receiver waits for a branch that will not
arrive (`Blocked`, `ArrivalBlocks`). It ends up reset, never started, and its own completion is
recorded as a failure (`PollStale`).

Inductions over lists and numbers use `SubsequencesProofs!Least` and its consequences `UpTo` and
`Iterates`: they take the set of numbers for which a claim holds, and not an operator as the theorems of the
library do, and the loops of the code are recursive functions (`KeptUpTo`, `RepairUpTo`,
`MergeUpTo`), which `Iterates` unfolds.

Only model-checked: the liveness properties (`RunReturns`, `PolledFallbackRuns`,
`CancelledEnds`, `HardTimeoutEnds`, `InputArrives`, `CallsEnd`), as liveness under fairness
and ENABLED are beyond the prover. Every invariant and every action property of the passing runs is
proved. The properties of section 5 are violated by the code.

## 5. Where the code and its documentation differ

| run | statement | what happens |
|---|---|---|
| `WorkerGraphSkip` | a skipped visit still propagates its edges | with an event bus nothing is published and `execute()` never returns |
| `StreamLeak` | bookkeeping stays until the finally block runs | a task cancelled before its first step has no finally block; the stream is blocked for ever |
| `BatchReview` | review only once the batch has quieted | the first report switches the phase |
| `ConvDoubleLoad` | a partial cannot be double-loaded | after a crash between the write of the message and that of the cursor both are loaded |
| `LoopShutdown` | a shutdown exits the loop on the next check | one that comes during a turn is cleared by the wait after it |

The modules state more of what the documentation and comments say and the code does not do. These have no run
of their own; TLC violates each one when it is added to the module's passing run.

| definition | statement | what happens |
|---|---|---|
| `WorkerGraph!FallbackRuns` | `on_failure` is the fallback path | with an event bus the fallback is never started |
| `WorkerGraph!AllSucceededSucceeds` | quiescence means that no work is left | a completion still to be handled is overlooked; the run fails although every node succeeded |
| `ExecutionStream!NoDoubleEmit` | no risk of double-emitting | a cancellation while the event is delivered publishes a second one |
| `TaskList!WrapUpWhenDone` | all tasks complete | only no task is unblocked |
| `WorkerBatch!EveryWorkerReports` | every spawned worker reports | a worker stopped before its first step does not |
| `AgentLoop!RestoredWaitUnanswered` | a restored wait is entered if no new message has been injected yet (`agent_loop.py:777-780`) | only the queues of the new process are looked at; a crash in the turn after an answer restores a wait that was answered |
| `McpPool!LastReleaseDisconnects` | disconnect when the last user releases (`mcp_connection_manager.py:131`) | a health check reads the client, the last release disconnects it, and `list_tools` of the health check connects it again; likewise the tool call of a user whose client a reconnect has replaced |
| `Conversation!ResultsReachModel` | the results of tools reach the model | a message injected between a call and its result makes the request show the call as interrupted and drop the result |

`LlmMessages!WellFormed` with every message taken for text is rule 1 of the docstring of
`_sanitize_for_api` (`conversation.py:723`, no two consecutive messages with the same role); two
user messages of which one has images violate it by construction of the code (745).

More are visible in the models without being contradicted by a comment: a graph without terminals
strands an event-driven run (`Stranded`); a trigger waits as long as a turn keeps calling tools, and a
pool call as long as a server does not list its tools (`TurnsEnd`, `ConnectsEnd` are assumptions);
a compaction deletes before it
writes, so a crash inside it loses the compacted messages (`AckedOnDisk` counts them as given
up); a restart that hands a seq out again lets a later compaction overwrite an acknowledged
part; and a reconnect overtaken by a timeout keeps the reference it takes on top of its own
(`extra`), so the server is never disconnected by releases.

## 6. Plan

Done: the seven components of section 2. What is left, and why it was not taken first:

1. `GraphRun`: what `execute()` promises a stream, with `WorkerGraph` shown to implement it;
   `GraphOnStream`: a stream over it, with the workers that a cancelled run leaves behind.
2. `LoopOnDisk`: `AgentLoop` over `Conversation`. The two share the crash and the cursor file, but
   not its fields; each module lets the other do anything at its interface.
3. `Triggers` (timers, webhooks, the idempotency table) and the queen's remaining phases.

Proofs still wanted: those of the compositions above.

### Not modelled

- Run storage (`storage/concurrent.py`): its caches and batching matter when several versions
  of a run are written, but the program saves a run once, when it ends.
- Event bus: subscriptions and a semaphore. Its deliveries are part of the modules
  that publish; how deep handlers nest depends on all of them.
- Progress queue: SQL statements on a file shared with processes outside this repository.
- Key pool, run checkpoints, sessions, routes: a clock, files, and requests that end in
  components modelled here.
- Model output, prompts, the tools themselves (most of the lines of the repository), the frontend and network
  protocols: no shared state of the runtime, or I/O.
