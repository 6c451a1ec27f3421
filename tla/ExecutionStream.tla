--------------------------- MODULE ExecutionStream ---------------------------
(***************************************************************************)
(* ExecutionManager (host/execution_manager.py): the executions of one     *)
(* entry point.  execute() cancels what runs and then either admits a new  *)
(* task or raises ExecutionAlreadyRunningError; _run_execution drives the  *)
(* Orchestrator, resurrects it, stores the result and reports it.          *)
(*                                                                         *)
(* An action is the code between two awaits.  self._lock is never held     *)
(* across an await, so taking it never suspends; nor does the semaphore,   *)
(* as one execution runs at a time.  task.cancel() only requests: the      *)
(* CancelledError is raised at the await the task is at when it runs next. *)
(* The Orchestrator sets no paused_at and catches no CancelledError: the   *)
(* "paused" outcomes of _run_execution are never taken.                    *)
(***************************************************************************)
EXTENDS Subsequences, FiniteSets

CONSTANTS
  Ids,            \* execution (session) ids
  Callers,        \* concurrent callers of execute()
  Resurrections,  \* entry_spec.max_resurrections
  Retention,      \* result_retention_max
  MaxRuns         \* bound: executions admitted in one behaviour

ASSUME ResurrectionAssumption == Resurrections \in Nat
ASSUME RetentionAssumption == Retention \in Nat \ {0}
ASSUME RunBoundAssumption == MaxRuns \in Nat

VARIABLES
  running,    \* _running
  status,     \* _active_executions: the context's status; "none" is no entry
  phase,      \* _execution_tasks: the await its task is at; "none" is no entry
  cancelReq,  \* tasks whose cancel() was called and that have not run since
  shared,     \* executions with a resume_session_id: they write no state.json
  tries,      \* _resurrection_count
  verdict,    \* the local "result" of _run_execution
  results,    \* _execution_results, oldest first
  waiters,    \* ids somebody awaits the completion event of
  events,     \* terminal events the current run of an id has published
  disk,       \* status in the id's state.json
  writes,     \* state.json writes still in their thread
  cuts,       \* awaits of the current run a cancellation was raised at
  calling,    \* callers suspended in cancel_execution, called by execute()
  used,       \* ids an execution was admitted under
  runs        \* executions admitted so far

vars == <<running, status, phase, cancelReq, shared, tries, verdict, results, waiters,
          events, disk, writes, cuts, calling, used, runs>>

Status == {"none", "pending", "running", "cancelling", "completed", "failed", "cancelled"}
\* "dead": the task is done but its entry was never removed.
Phase == {"none", "created", "starting", "opening", "executing", "cooldown",
          "saving", "emitting", "salvaging", "notifying", "dead"}
DiskStatus == {"none", "active", "completed", "failed", "cancelled"}
Verdict == {"none", "success", "failure"}
ResultsOf(is) == [id : is, success : BOOLEAN]

Live(i) == phase[i] \notin {"none", "dead"}

\* _get_blocking_execution_ids_locked
Blocking == {i \in Ids : status[i] # "none" \/ Live(i)}

Init ==
  /\ running = FALSE
  /\ status = [i \in Ids |-> "none"]
  /\ phase = [i \in Ids |-> "none"]
  /\ cancelReq = {}
  /\ shared = {}
  /\ tries = [i \in Ids |-> 0]
  /\ verdict = [i \in Ids |-> "none"]
  /\ results = <<>>
  /\ waiters = {}
  /\ events = [i \in Ids |-> <<>>]
  /\ disk = [i \in Ids |-> "none"]
  /\ writes = [i \in Ids |-> {}]
  /\ cuts = [i \in Ids |-> {}]
  /\ calling = {}
  /\ used = {}
  /\ runs = 0
-----------------------------------------------------------------------------
(***************************************************************************)
(* The API: start, stop, execute, cancel_execution, wait_for_completion.   *)
(***************************************************************************)

taskVars == <<shared, tries, verdict, results, events, disk, writes, cuts>>

\* Seeded fault: the bookkeeping goes with the request instead of with the task.
FaultRequestCancel(is) ==
  /\ cancelReq' = cancelReq \cup is
  /\ status' = [i \in Ids |-> IF i \in is THEN "none" ELSE status[i]]

\* task.cancel() on the tasks that are not done, as cancel_execution and stop do.
RequestCancel(is) ==
  /\ cancelReq' = cancelReq \cup is
  /\ status' = [i \in Ids |-> IF i \in is /\ status[i] # "none" THEN "cancelling" ELSE status[i]]

Start ==
  /\ ~running
  /\ running' = TRUE
  /\ UNCHANGED <<status, phase, cancelReq, taskVars, waiters, calling, used, runs>>

Stop ==
  /\ running
  /\ running' = FALSE
  /\ RequestCancel({i \in Ids : Live(i)})
  /\ UNCHANGED <<phase, taskVars, waiters, calling, used, runs>>

CancelExecution(i) ==
  /\ Live(i)
  /\ RequestCancel({i})
  /\ UNCHANGED <<running, phase, taskVars, waiters, calling, used, runs>>

\* Seeded fault: it does not matter that the stream was stopped meanwhile.
FaultAdmitStopped(i) == Blocking = {}

\* The section under self._lock at the end of execute().
MayAdmit(i) == running /\ Blocking = {}

\* A resumed execution runs under the id its caller names; any other gets a
\* fresh one.
Admit(i) ==
  /\ MayAdmit(i)
  /\ runs < MaxRuns
  /\ \/ shared' = shared \cup {i}
     \/ i \notin used /\ shared' = shared \ {i}
  /\ status' = [status EXCEPT ![i] = "pending"]
  /\ phase' = [phase EXCEPT ![i] = "created"]
  /\ used' = used \cup {i}
  /\ runs' = runs + 1
  /\ UNCHANGED <<running, cancelReq, tries, verdict, waiters, results, events, disk,
                 writes, cuts>>

\* execute() with nothing active: no await before the admission.
ExecuteAtOnce ==
  /\ running
  /\ \A i \in Ids : status[i] = "none"
  /\ \E i \in Ids : Admit(i)
  /\ UNCHANGED calling

\* execute() with an active execution (there is one at most): cancel it and
\* wait for its task.
ExecuteCancels(c) ==
  /\ running /\ c \notin calling
  /\ \E i \in Ids : status[i] # "none" /\ Live(i) /\ RequestCancel({i})
  /\ calling' = calling \cup {c}
  /\ UNCHANGED <<running, phase, taskVars, waiters, used, runs>>

\* The wait ends, because the task is over or because 5 s are: execute()
\* admits the new execution, or raises.
ExecuteResumes(c) ==
  /\ c \in calling
  /\ calling' = calling \ {c}
  /\ \/ \E i \in Ids : Admit(i)
     \/ ((\A i \in Ids : ~MayAdmit(i)) \/ runs = MaxRuns) /\ UNCHANGED
          <<running, status, phase, cancelReq, taskVars, waiters, used, runs>>

\* wait_for_completion: an id without a completion event is answered at once.
WaitForCompletion(i) ==
  /\ status[i] # "none" /\ i \notin waiters
  /\ waiters' = waiters \cup {i}
  /\ UNCHANGED <<running, status, phase, cancelReq, taskVars, calling, used, runs>>
-----------------------------------------------------------------------------
(***************************************************************************)
(* The task: _run_execution.                                               *)
(***************************************************************************)

apiVars == <<running, calling, used, runs>>

CanRun(i, p) == phase[i] = p /\ i \notin cancelReq

\* Seeded faults: the store keeps one result too many; a full store refuses the
\* newest result.
FaultRecordOverfull(i, ok) ==
  LET others == Kept(results, ResultsOf(Ids \ {i}))
      all    == Append(others, [id |-> i, success |-> ok])
      excess == IF Len(all) > Retention + 1 THEN Len(all) - Retention - 1 ELSE 0
  IN  results' = SubSeq(all, excess + 1, Len(all))
FaultRecord(i, ok) ==
  LET mine == Kept(results, ResultsOf(Ids \ {i}))
  IN  results' = IF Len(mine) < Retention THEN Append(mine, [id |-> i, success |-> ok]) ELSE mine

\* _record_execution_result: the newest goes last, the oldest are pruned.
Record(i, ok) ==
  LET others == Kept(results, ResultsOf(Ids \ {i}))
      all    == Append(others, [id |-> i, success |-> ok])
      excess == IF Len(all) > Retention THEN Len(all) - Retention ELSE 0
  IN  results' = SubSeq(all, excess + 1, Len(all))

StatusOf(ok) == IF ok THEN "completed" ELSE "failed"

\* Seeded faults: the write is not awaited; the end is published before and
\* after the write.
FaultReportUnsaved(i, save, emit, st, ev) ==
  /\ phase' = [phase EXCEPT ![i] = emit]
  /\ events' = [events EXCEPT ![i] = Append(@, ev)]
  /\ writes' = [writes EXCEPT ![i] = @ \cup {st}]
FaultReportTwice(i, save, emit, st, ev) ==
  /\ phase' = [phase EXCEPT ![i] = save]
  /\ events' = [events EXCEPT ![i] = Append(@, ev)]
  /\ writes' = [writes EXCEPT ![i] = @ \cup {st}]

\* Store the state (the executions that own their session) in phase "save", or
\* go on to publish the terminal event in phase "emit".
Report(i, save, emit, st, ev) ==
  IF i \in shared
  THEN /\ phase' = [phase EXCEPT ![i] = emit]
       /\ events' = [events EXCEPT ![i] = Append(@, ev)]
       /\ UNCHANGED writes
  ELSE /\ phase' = [phase EXCEPT ![i] = save]
       /\ writes' = [writes EXCEPT ![i] = @ \cup {st}]
       /\ UNCHANGED events

\* The first step: status "running", EXECUTION_STARTED is published.
Begin(i) ==
  /\ CanRun(i, "created")
  /\ phase' = [phase EXCEPT ![i] = "starting"]
  /\ status' = [status EXCEPT ![i] = "running"]
  /\ UNCHANGED <<apiVars, cancelReq, waiters, taskVars>>

\* Cancelled before its first step: the coroutine is never entered, neither
\* is its finally.
NeverRuns(i) ==
  /\ phase[i] = "created" /\ i \in cancelReq
  /\ phase' = [phase EXCEPT ![i] = "dead"]
  /\ cancelReq' = cancelReq \ {i}
  /\ UNCHANGED <<apiVars, status, waiters, taskVars>>

Launch(i) ==
  /\ CanRun(i, "starting")
  /\ IF i \in shared
     THEN phase' = [phase EXCEPT ![i] = "executing"] /\ UNCHANGED writes
     ELSE /\ phase' = [phase EXCEPT ![i] = "opening"]
          /\ writes' = [writes EXCEPT ![i] = @ \cup {"active"}]
  /\ UNCHANGED <<apiVars, status, cancelReq, waiters, shared, tries, verdict, results,
                 events, disk, cuts>>

Opened(i) ==
  /\ CanRun(i, "opening") /\ "active" \notin writes[i]
  /\ phase' = [phase EXCEPT ![i] = "executing"]
  /\ UNCHANGED <<apiVars, status, cancelReq, waiters, taskVars>>

\* The executor failed, not fatally: cool down and run it again.
Resurrect(i) ==
  /\ CanRun(i, "executing")
  /\ tries[i] < Resurrections
  /\ tries' = [tries EXCEPT ![i] = @ + 1]
  /\ verdict' = [verdict EXCEPT ![i] = "failure"]
  /\ phase' = [phase EXCEPT ![i] = "cooldown"]
  /\ UNCHANGED <<apiVars, status, cancelReq, waiters, shared, results, events, disk,
                 writes, cuts>>

Rerun(i) ==
  /\ CanRun(i, "cooldown")
  /\ phase' = [phase EXCEPT ![i] = "executing"]
  /\ UNCHANGED <<apiVars, status, cancelReq, waiters, taskVars>>

\* The executor's result is final: success, a fatal failure, or the last one.
Finish(i, ok) ==
  /\ CanRun(i, "executing")
  /\ verdict' = [verdict EXCEPT ![i] = IF ok THEN "success" ELSE "failure"]
  /\ Record(i, ok)
  /\ status' = [status EXCEPT ![i] = StatusOf(ok)]
  /\ Report(i, "saving", "emitting", StatusOf(ok), StatusOf(ok))
  /\ UNCHANGED <<apiVars, cancelReq, waiters, shared, tries, disk, cuts>>

\* Something in the try raised: the "except Exception" clause.
Raise(i) ==
  /\ \E p \in {"starting", "opening", "executing", "cooldown"} : CanRun(i, p)
  /\ phase[i] = "opening" => "active" \notin writes[i]
  /\ Record(i, FALSE)
  /\ status' = [status EXCEPT ![i] = "failed"]
  /\ Report(i, "salvaging", "notifying", "failed", "failed")
  /\ UNCHANGED <<apiVars, cancelReq, waiters, shared, tries, verdict, disk, cuts>>

\* The state is on disk: publish EXECUTION_COMPLETED or EXECUTION_FAILED.
Saved(i) ==
  /\ \/ /\ CanRun(i, "saving")
        /\ StatusOf(verdict[i] = "success") \notin writes[i]
        /\ events' = [events EXCEPT ![i] = Append(@, StatusOf(verdict[i] = "success"))]
        /\ phase' = [phase EXCEPT ![i] = "emitting"]
     \/ /\ CanRun(i, "salvaging")
        /\ status[i] = "cancelled" => "cancelled" \notin writes[i]
        /\ status[i] = "failed" => "failed" \notin writes[i]
        /\ events' = [events EXCEPT ![i] = Append(@, "failed")]
        /\ phase' = [phase EXCEPT ![i] = "notifying"]
  /\ UNCHANGED <<apiVars, status, cancelReq, waiters, shared, tries, verdict, results,
                 disk, writes, cuts>>

\* The finally clause: set the completion event, remove the bookkeeping; the
\* locals of the task are gone with it.
Cleanup(i) ==
  /\ waiters' = waiters \ {i}
  /\ status' = [status EXCEPT ![i] = "none"]
  /\ phase' = [phase EXCEPT ![i] = "none"]
  /\ tries' = [tries EXCEPT ![i] = 0]
  /\ verdict' = [verdict EXCEPT ![i] = "none"]
  /\ events' = [events EXCEPT ![i] = <<>>]
  /\ cuts' = [cuts EXCEPT ![i] = {}]

End(i) ==
  /\ CanRun(i, "emitting") \/ CanRun(i, "notifying")
  /\ Cleanup(i)
  /\ UNCHANGED <<apiVars, cancelReq, shared, results, disk, writes>>

\* A cancelled write goes on in its thread, unless it is still queued there.
CutWrite(i, st) ==
  \/ writes' = [writes EXCEPT ![i] = @ \cup st]
  \/ phase[i] \in {"opening", "saving", "salvaging"} /\ writes[i] # {}
     /\ \E w \in writes[i] : writes' = [writes EXCEPT ![i] = (@ \ {w}) \cup st]

\* Seeded fault: the CancelledError is swallowed.
FaultSwallow(i) ==
  /\ i \in cancelReq
  /\ phase[i] \in {"starting", "opening", "executing", "cooldown", "saving", "emitting"}
  /\ cancelReq' = cancelReq \ {i}
  /\ UNCHANGED <<apiVars, status, phase, waiters, taskVars>>

\* CancelledError inside the try: record what there is, store "cancelled",
\* publish EXECUTION_FAILED.
CancelHits(i) ==
  /\ i \in cancelReq
  /\ phase[i] \in {"starting", "opening", "executing", "cooldown", "saving", "emitting"}
  /\ cancelReq' = cancelReq \ {i}
  /\ cuts' = [cuts EXCEPT ![i] = @ \cup {phase[i]}]
  /\ status' = [status EXCEPT ![i] = "cancelled"]
  /\ verdict' = [verdict EXCEPT ![i] = IF @ = "none" THEN "failure" ELSE @]
  /\ Record(i, verdict[i] = "success")
  /\ IF i \in shared
     THEN /\ phase' = [phase EXCEPT ![i] = "notifying"]
          /\ events' = [events EXCEPT ![i] = Append(@, "failed")]
          /\ UNCHANGED writes
     ELSE /\ phase' = [phase EXCEPT ![i] = "salvaging"]
          /\ CutWrite(i, {"cancelled"})
          /\ UNCHANGED events
  /\ UNCHANGED <<apiVars, waiters, shared, tries, disk>>

\* CancelledError inside an except clause: it leaves through the finally.
CancelHitsHandler(i) ==
  /\ i \in cancelReq
  /\ phase[i] \in {"salvaging", "notifying"}
  /\ cancelReq' = cancelReq \ {i}
  /\ CutWrite(i, {})
  /\ Cleanup(i)
  /\ UNCHANGED <<apiVars, shared, results, disk>>

\* A write's thread replaces state.json.
WriteLands(i) ==
  /\ \E w \in writes[i] : /\ disk' = [disk EXCEPT ![i] = w]
                          /\ writes' = [writes EXCEPT ![i] = @ \ {w}]
  /\ UNCHANGED <<apiVars, status, phase, cancelReq, waiters, shared, tries, verdict,
                 results, events, cuts>>
-----------------------------------------------------------------------------
\* What a task does without its executor's help.
TaskStep(i) ==
  \/ Begin(i) \/ NeverRuns(i) \/ Launch(i) \/ Opened(i) \/ Rerun(i) \/ Saved(i)
  \/ End(i) \/ CancelHits(i) \/ CancelHitsHandler(i)

Next ==
  \/ Start
  \/ Stop
  \/ ExecuteAtOnce
  \/ \E c \in Callers : ExecuteCancels(c) \/ ExecuteResumes(c)
  \/ \E i \in Ids : \/ CancelExecution(i)
                    \/ WaitForCompletion(i)
                    \/ Begin(i)
                    \/ NeverRuns(i)
                    \/ Launch(i)
                    \/ Opened(i)
                    \/ Resurrect(i)
                    \/ Rerun(i)
                    \/ Finish(i, TRUE)
                    \/ Finish(i, FALSE)
                    \/ Raise(i)
                    \/ Saved(i)
                    \/ End(i)
                    \/ CancelHits(i)
                    \/ CancelHitsHandler(i)
                    \/ WriteLands(i)

\* asyncio runs what is ready, a thread finishes its write and event handlers
\* end (EventBus bounds them); an executor need not return by itself.
Fairness == \A i \in Ids : WF_vars(TaskStep(i)) /\ WF_vars(WriteLands(i))

Spec == Init /\ [][Next]_vars
FairSpec == Spec /\ Fairness
-----------------------------------------------------------------------------
(***************************************************************************)
(* Properties                                                              *)
(***************************************************************************)

\* Every variable has its type.
TypeOK ==
  /\ running \in BOOLEAN
  /\ status \in [Ids -> Status]
  /\ phase \in [Ids -> Phase]
  /\ cancelReq \subseteq Ids
  /\ shared \subseteq Ids
  /\ tries \in [Ids -> 0 .. Resurrections]
  /\ verdict \in [Ids -> Verdict]
  /\ results \in Seq(ResultsOf(Ids)) /\ Len(results) <= Retention
  /\ waiters \subseteq Ids
  /\ events \in [Ids -> Seq({"completed", "failed"})]
  /\ disk \in [Ids -> DiskStatus]
  /\ writes \in [Ids -> SUBSET DiskStatus]
  /\ cuts \in [Ids -> SUBSET Phase]
  /\ calling \subseteq Callers
  /\ used \subseteq Ids
  /\ runs \in 0 .. MaxRuns

\* While a task is alive its bookkeeping is there: the cleanup of an earlier run
\* under the same id never takes that of the run that replaced it.
TrackedWhileAlive == \A i \in Ids : Live(i) => status[i] # "none"

\* At most one execution is alive, and none begins on a stopped stream, in
\* whatever order concurrent execute() calls, stops, timed-out cancellations
\* and slow cleanups come: the stream implements ExclusiveStream.
Slot == INSTANCE ExclusiveStream WITH open <- running, alive <- {i \in Ids : Live(i)}
KeepsExclusive == Slot!Spec

\* Whoever awaits an execution finds its result when woken, even though the
\* store forgets old results and cancellations cut the run short anywhere.
WokenWithResult ==
  [][\A i \in waiters \ waiters' : \E k \in DOMAIN results' : results'[k].id = i]_vars

\* The awaits of i's run a cancellation was raised at, the last one included.
CutsAtEnd(i) == cuts[i] \cup (IF i \in cancelReq THEN {phase[i]} ELSE {})

\* A run that owns its session leaves on disk the status it ended with, unless a
\* cancellation was raised while it waited for a write.
FinalStateOnDisk ==
  [][\A i \in Ids \ shared :
       Live(i) /\ phase'[i] = "none" /\ CutsAtEnd(i) \cap {"opening", "saving", "salvaging"} = {}
         => /\ writes[i] = {}
            /\ IF CutsAtEnd(i) \subseteq {"notifying"}
               THEN \E k \in DOMAIN results :
                      results[k].id = i /\ disk[i] = StatusOf(results[k].success)
               ELSE disk[i] = "cancelled"]_vars

\* A run reports its end exactly once, as the retained result says, unless a
\* cancellation was raised while it reported.
ReportedOnce ==
  [][\A i \in Ids :
       Live(i) /\ phase'[i] = "none" /\ CutsAtEnd(i) \cap {"emitting", "salvaging"} = {}
         => /\ Len(events[i]) = 1
            /\ CutsAtEnd(i) = {} => \E k \in DOMAIN results :
                 results[k].id = i /\ events[i] = <<StatusOf(results[k].success)>>]_vars

\* A cancelled execution ends even if its executor never returns by itself.
CancelledEnds == \A i \in Ids : (i \in cancelReq) ~> ~Live(i)

\* "Keep bookkeeping in place until the task's own finally block runs": it runs,
\* so a cancelled execution stops blocking its stream.
CancelledReleases == \A i \in Ids : (i \in cancelReq) ~> (status[i] = "none")

\* "there is no risk of double-emitting": a run publishes one terminal event.
NoDoubleEmit == \A i \in Ids : Len(events[i]) <= 1
=============================================================================
