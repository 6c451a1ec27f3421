----------------------------- MODULE AgentLoop -----------------------------
(***************************************************************************)
(* The iterations of one AgentLoop (agent_loop/agent_loop.py) and the two  *)
(* queues other tasks feed it through.  Everything runs on one event loop: *)
(* an action is the code between two awaits.  The conversation is reduced  *)
(* to the injected messages it has; what a turn does with the model and    *)
(* the tools is reduced to its result.                                     *)
(***************************************************************************)
EXTENDS Subsequences, SequencesExt

CONSTANTS
  MaxInputs,     \* bound: injected events and triggers
  MaxIterations, \* max_iterations
  MaxRetries,    \* max_stream_retries
  Grace,         \* worker_escalation_grace_turns
  StallLimit,    \* stall_detection_threshold
  MaxCrashes     \* bound: crashes of one behaviour

ASSUME BoundsAssumption ==
  /\ MaxInputs \in Nat /\ MaxIterations \in Nat /\ MaxRetries \in Nat
  /\ Grace \in Nat /\ StallLimit \in Nat /\ MaxCrashes \in Nat

Inputs == 1 .. MaxInputs

VARIABLES
  kind,       \* queen (supports_direct_user_io) or worker
  pc,         \* where the loop is
  why,        \* which of its waits _await_user_input serves
  iteration,
  pending,    \* pending_input_state: none, client or silent (no request emitted)
  result,     \* of the last turn
  drained,    \* something was drained in this iteration
  retries,    \* _stream_retry_count
  empties,    \* _consecutive_empty_turns
  streak,     \* _worker_text_only_streak
  terminated, \* _report_terminated
  injections, \* _injection_queue
  triggers,   \* _trigger_queue
  held,       \* taken from a queue, being added to the conversation
  ready,      \* _input_ready
  shutdown,   \* _shutdown
  delivered,  \* the injected messages of the conversation, in order
  seen,       \* how many of them a turn has dealt with
  cursor,     \* iteration and pending_input of cursor.json
  events,     \* which inputs were injected as events
  sent,       \* number of inputs so far
  parked,     \* the loop waits for input and has had none since
  crashes

local == <<why, iteration, pending, result, drained, retries, empties, streak, terminated>>
queues == <<injections, triggers, held, ready, shutdown>>
record == <<delivered, seen>>
outside == <<events, sent>>
vars == <<kind, pc, local, queues, record, cursor, outside, parked, crashes>>

Start(i, p) ==
  /\ pc' = "top" /\ why' = "none" /\ iteration' = i /\ pending' = p /\ result' = "none"
  /\ drained' = FALSE /\ retries' = 0 /\ empties' = 0 /\ streak' = 0 /\ terminated' = FALSE

Init ==
  /\ kind \in {"queen", "worker"}
  /\ pc = "top" /\ why = "none" /\ iteration = 0 /\ pending = "none" /\ result = "none"
  /\ drained = FALSE /\ retries = 0 /\ empties = 0 /\ streak = 0 /\ terminated = FALSE
  /\ injections = <<>> /\ triggers = <<>> /\ held = <<>> /\ ready = FALSE /\ shutdown = FALSE
  /\ delivered = <<>> /\ seen = 0
  /\ cursor = [iteration |-> 0, pending |-> "none"]
  /\ events = {} /\ sent = 0 /\ parked = FALSE /\ crashes = 0
-----------------------------------------------------------------------------
\* Other tasks

Alive == pc \notin {"done", "down"}

InjectEvent ==
  /\ Alive /\ sent < MaxInputs
  /\ sent' = sent + 1 /\ events' = events \cup {sent + 1}
  /\ injections' = Append(injections, sent + 1)
  /\ ready' = TRUE
  /\ UNCHANGED <<kind, pc, local, triggers, held, shutdown, record, cursor, parked, crashes>>

InjectTrigger ==
  /\ Alive /\ sent < MaxInputs
  /\ sent' = sent + 1
  /\ triggers' = Append(triggers, sent + 1)
  /\ ready' = TRUE
  /\ UNCHANGED <<kind, pc, local, injections, held, shutdown, record, cursor, events, parked, crashes>>

SignalShutdown ==
  /\ Alive /\ ~shutdown
  /\ shutdown' = TRUE /\ ready' = TRUE
  /\ UNCHANGED <<kind, pc, local, injections, triggers, held, record, cursor, outside, parked, crashes>>
-----------------------------------------------------------------------------
\* The top of an iteration

steady == <<kind, result, empties, streak, terminated, shutdown, outside, crashes>>

Continue == pc' = "top" /\ iteration' = iteration + 1

\* The reported worker, an exhausted loop and a paused one leave here.
Leave ==
  /\ pc = "top"
  /\ pc' = "done"
  /\ UNCHANGED <<kind, local, queues, record, cursor, outside, parked, crashes>>

FaultBeginIteration ==
  /\ pc = "top" /\ iteration <= MaxIterations + 1 /\ ~terminated
  /\ pc' = "drain" /\ drained' = FALSE /\ retries' = 0
  /\ UNCHANGED <<why, iteration, pending, queues, record, cursor, parked, steady>>

BeginIteration ==
  /\ pc = "top" /\ iteration < MaxIterations /\ ~terminated
  /\ pc' = "drain" /\ drained' = FALSE /\ retries' = 0
  /\ UNCHANGED <<why, iteration, pending, queues, record, cursor, parked, steady>>

FaultTakeInjection ==
  /\ pc \in {"drain", "turn"} /\ held = <<>> /\ injections # <<>>
  /\ held' = <<Head(injections)>>
  /\ UNCHANGED <<pc, why, iteration, pending, drained, retries, injections, triggers, ready, record,
                 cursor, parked, steady>>

\* drain_injection_queue, and the priority drain of a turn: one message after
\* the other, each taken and then added.
TakeInjection ==
  /\ pc \in {"drain", "turn"} /\ held = <<>> /\ injections # <<>>
  /\ held' = <<Head(injections)>>
  /\ injections' = Tail(injections)
  /\ UNCHANGED <<pc, why, iteration, pending, drained, retries, triggers, ready, record, cursor,
                 parked, steady>>

\* drain_trigger_queue: all of them become one message.
TakeTriggers ==
  /\ pc = "drain" /\ held = <<>> /\ injections = <<>>
  /\ held' = triggers /\ triggers' = <<>>
  /\ pc' = "resume"
  /\ UNCHANGED <<why, iteration, pending, drained, retries, injections, ready, record, cursor,
                 parked, steady>>

AddHeld ==
  /\ held # <<>> /\ Alive
  /\ delivered' = delivered \o held
  /\ held' = <<>>
  /\ drained' = TRUE
  /\ parked' = FALSE
  /\ UNCHANGED <<pc, why, iteration, pending, retries, injections, triggers, ready, seen, cursor, steady>>

\* A wait that a restart or an empty wakeup left pending is resumed.
Resume ==
  /\ pc = "resume" /\ held = <<>>
  /\ IF pending = "none" THEN pc' = "turn" /\ UNCHANGED <<why, pending, cursor>>
     ELSE IF drained
     THEN /\ pending' = "none"
          /\ cursor' = [iteration |-> iteration, pending |-> "none"]
          /\ pc' = "turn"
          /\ UNCHANGED why
     ELSE pc' = "await" /\ why' = "restored" /\ UNCHANGED <<pending, cursor>>
  /\ UNCHANGED <<iteration, drained, retries, queues, record, outside, parked, kind, result,
                 empties, streak, terminated, crashes>>
-----------------------------------------------------------------------------
\* The turn.  A turn that ends has dealt with all the messages it could see.

InTurn == pc = "turn" /\ held = <<>>
unturned == <<kind, pending, drained, queues, delivered, cursor, outside, parked, crashes>>

\* A transient or capacity error: the same iteration tries again.
RetryTurn ==
  /\ InTurn /\ retries < MaxRetries
  /\ retries' = retries + 1
  /\ UNCHANGED <<pc, why, iteration, result, empties, streak, terminated, seen, unturned>>

\* Any other error: the queen shows it and waits; a worker raises, and so does
\* the queen when the error is one that no retry cures.
FailTurn ==
  /\ InTurn
  /\ seen' = Len(delivered)
  /\ \/ kind = "queen" /\ pc' = "await" /\ why' = "plain"
     \/ pc' = "done" /\ UNCHANGED why
  /\ UNCHANGED <<iteration, result, retries, empties, streak, terminated, unturned>>

\* cancel_current_turn.  (A cancellation that hits a parallel batch of tools ends
\* the loop, as FailTurn may.)
CancelTurn ==
  /\ InTurn
  /\ seen' = Len(delivered)
  /\ IF kind = "queen" THEN pc' = "await" /\ why' = "plain" /\ UNCHANGED iteration
     ELSE Continue /\ UNCHANGED why
  /\ UNCHANGED <<result, retries, empties, streak, terminated, unturned>>

\* A turn without text, tool call or output.  With output keys (only workers
\* have them) it is accepted once they are set, and fails at StallLimit; without
\* any, the loop waits at StallLimit.  Before, the model is nudged.
EmptyTurn ==
  /\ InTurn
  /\ seen' = Len(delivered)
  /\ \/ empties + 1 < StallLimit /\ empties' = empties + 1 /\ Continue /\ UNCHANGED why
     \/ empties + 1 >= StallLimit /\ pc' = "await" /\ why' = "empty" /\ UNCHANGED <<iteration, empties>>
     \/ kind = "worker" /\ pc' = "done" /\ UNCHANGED <<iteration, empties, why>>
  /\ UNCHANGED <<result, retries, streak, terminated, unturned>>

\* A turn with similar responses ends the loop as stalled.
StallTurn ==
  /\ InTurn
  /\ pc' = "done"
  /\ UNCHANGED <<local, seen, unturned>>

Results == [queen |-> {"work", "text", "ask"}, worker |-> {"work", "text", "escalate", "report"}]

\* doom: the tool calls repeat those of the turns before.
EndTurn ==
  /\ InTurn
  /\ seen' = Len(delivered)
  /\ empties' = 0
  /\ \E r \in Results[kind], doom \in BOOLEAN :
       /\ doom => r # "text"
       /\ result' = r
       /\ terminated' = (r = "report")
       /\ streak' = IF r = "work" THEN 0 ELSE streak
       /\ IF doom /\ kind = "queen" THEN pc' = "await" /\ why' = "doom"
          ELSE pc' = "cursor" /\ UNCHANGED why
  /\ UNCHANGED <<iteration, retries, unturned>>

\* write_cursor after the turn
Checkpoint ==
  /\ pc = "cursor"
  /\ cursor' = [iteration |-> iteration, pending |-> "none"]
  /\ pc' = "decide"
  /\ UNCHANGED <<kind, local, queues, record, outside, parked, crashes>>

\* The queen waits after ask_user and after a turn of text only; a worker for
\* guidance, when it escalates or has answered with text for too long.
Blocks == result = "ask" \/ result = "escalate" \/ (result = "text" /\ (kind = "queen" \/ streak >= Grace))

Decide ==
  /\ pc = "decide"
  /\ streak' = IF kind = "worker" /\ result = "text" THEN streak + 1 ELSE streak
  /\ IF ~Blocks
     THEN IF result = "text" THEN Continue /\ UNCHANGED pending
          ELSE pc' = "judge" /\ UNCHANGED <<iteration, pending>>
     ELSE IF shutdown THEN pc' = "done" /\ UNCHANGED <<iteration, pending>>
     ELSE /\ pending' = IF kind = "queen" THEN "client" ELSE "silent"
          /\ pc' = "park"
          /\ UNCHANGED iteration
  /\ UNCHANGED <<kind, why, result, drained, retries, empties, terminated, queues, record, cursor,
                 outside, parked, crashes>>

\* write_cursor before the wait
Park ==
  /\ pc = "park"
  /\ cursor' = [iteration |-> iteration, pending |-> pending]
  /\ pc' = "await" /\ why' = "block"
  /\ parked' = (injections = <<>> /\ triggers = <<>>)
  /\ UNCHANGED <<iteration, pending, drained, retries, queues, record, kind, result, empties,
                 streak, terminated, outside, crashes>>

\* Judge: the queen's spec skips it, which is a retry without feedback.
Judge ==
  /\ pc = "judge"
  /\ \/ kind = "worker" /\ pc' = "done" /\ UNCHANGED iteration
     \/ Continue
  /\ UNCHANGED <<kind, why, pending, result, drained, retries, empties, streak, terminated, queues,
                 record, cursor, outside, parked, crashes>>
-----------------------------------------------------------------------------
\* _await_user_input

Queued == injections # <<>> \/ triggers # <<>>

\* What the caller does with the answer: got says that no shutdown ended it.
AfterWait(got) ==
  CASE why = "plain" -> Continue /\ UNCHANGED <<pending, empties, streak>>
    [] why = "empty" -> Continue /\ empties' = 0 /\ UNCHANGED <<pending, streak>>
    [] why = "doom" -> pc' = "cursor" /\ UNCHANGED <<iteration, pending, empties, streak>>
    [] why \in {"restored", "block"} ->
         /\ UNCHANGED empties
         /\ IF ~got THEN pc' = "done" /\ UNCHANGED <<iteration, pending, streak>>
            ELSE IF ~Queued THEN Continue /\ UNCHANGED <<pending, streak>>
            ELSE /\ pending' = "none"
                 /\ streak' = IF why = "block" THEN 0 ELSE streak
                 /\ IF why = "block" /\ kind = "queen" THEN pc' = "judge" /\ UNCHANGED iteration
                    ELSE Continue

unwaited == <<kind, why, result, drained, retries, terminated, injections, triggers, held,
              shutdown, record, cursor, outside, parked, crashes>>

\* Only the waits of the client emit a request.
Emits == why \in {"plain", "empty", "doom"} \/ pending = "client"

FaultAwaitStale ==
  /\ pc = "await"
  /\ IF Queued THEN AfterWait(TRUE)
     ELSE /\ pc' = IF Emits THEN "emit" ELSE "wait"
          /\ UNCHANGED <<iteration, pending, empties, streak>>
  /\ UNCHANGED <<ready, unwaited>>

FaultAwaitTriggers ==
  /\ pc = "await"
  /\ IF injections # <<>> THEN AfterWait(TRUE) /\ UNCHANGED ready
     ELSE /\ ready' = FALSE
          /\ pc' = "wait"
          /\ UNCHANGED <<iteration, pending, empties, streak>>
  /\ UNCHANGED unwaited

Await ==
  /\ pc = "await"
  /\ IF Queued THEN AfterWait(TRUE) /\ UNCHANGED ready
     ELSE /\ ready' = FALSE
          /\ pc' = IF Emits THEN "emit" ELSE "wait"
          /\ UNCHANGED <<iteration, pending, empties, streak>>
  /\ UNCHANGED unwaited

FaultEmitted ==
  /\ pc = "emit"
  /\ ready' = FALSE
  /\ pc' = "wait"
  /\ UNCHANGED <<iteration, pending, empties, streak, unwaited>>

\* client_input_requested is out: anything that came meanwhile is not waited for.
Emitted ==
  /\ pc = "emit"
  /\ IF Queued THEN AfterWait(TRUE)
     ELSE pc' = "wait" /\ UNCHANGED <<iteration, pending, empties, streak>>
  /\ UNCHANGED <<ready, unwaited>>

Wake ==
  /\ pc = "wait" /\ ready
  /\ AfterWait(~shutdown)
  /\ UNCHANGED <<ready, unwaited>>
-----------------------------------------------------------------------------
\* Crash and restart: the queues are lost, the conversation and the cursor stay.

Crash ==
  /\ Alive /\ crashes < MaxCrashes
  /\ crashes' = crashes + 1
  /\ pc' = "down"
  /\ injections' = <<>> /\ triggers' = <<>> /\ held' = <<>>
  /\ ready' = FALSE /\ shutdown' = FALSE
  /\ UNCHANGED <<kind, local, record, cursor, outside, parked>>

FaultRestart ==
  /\ pc = "down"
  /\ Start(cursor.iteration + 1, "none")
  /\ UNCHANGED <<kind, queues, record, cursor, outside, parked, crashes>>

Restart ==
  /\ pc = "down"
  /\ Start(cursor.iteration + 1, cursor.pending)
  /\ UNCHANGED <<kind, queues, record, cursor, outside, parked, crashes>>

Drain == TakeInjection \/ TakeTriggers \/ AddHeld
Turn == RetryTurn \/ FailTurn \/ CancelTurn \/ EmptyTurn \/ StallTurn \/ EndTurn
Loop == Leave \/ BeginIteration \/ Drain \/ Resume \/ Turn \/ Checkpoint \/ Decide \/ Park
        \/ Judge \/ Await \/ Emitted \/ Wake

Next == InjectEvent \/ InjectTrigger \/ SignalShutdown \/ Loop \/ Crash \/ Restart

Spec == Init /\ [][Next]_vars

\* A turn goes on as long as the model calls tools (max_tool_calls_per_turn is 0
\* by default, which is no bound) and as long as a tool takes; the judge may be
\* a model as well.
Thinking == pc \in {"turn", "judge"}

\* The event loop runs what is ready, and a process that died is started again.
\* Nothing makes a turn or a judge end.
FairSpec == Spec /\ WF_vars(Loop /\ ~Thinking) /\ WF_vars(Restart)
-----------------------------------------------------------------------------
Pcs == {"top", "drain", "resume", "turn", "cursor", "decide", "park", "judge", "await", "emit",
        "wait", "done", "down"}
Waits == {"none", "plain", "empty", "doom", "block", "restored"}
Pendings == {"none", "client", "silent"}

\* Every variable has its type and every counter of the loop its limit.
TypeOK ==
  /\ kind \in {"queen", "worker"} /\ pc \in Pcs /\ why \in Waits
  /\ iteration \in 0 .. MaxIterations + 1 /\ pending \in Pendings
  /\ result \in {"none", "work", "text", "ask", "escalate", "report"}
  /\ drained \in BOOLEAN /\ retries \in 0 .. MaxRetries /\ empties \in 0 .. StallLimit
  /\ streak \in 0 .. Grace + 1 /\ terminated \in BOOLEAN
  /\ injections \in Seq(Inputs) /\ triggers \in Seq(Inputs) /\ held \in Seq(Inputs)
  /\ ready \in BOOLEAN /\ shutdown \in BOOLEAN
  /\ delivered \in Seq(Inputs) /\ seen \in Nat
  /\ cursor \in [iteration : 0 .. MaxIterations, pending : Pendings]
  /\ events \subseteq Inputs /\ sent \in 0 .. MaxInputs /\ parked \in BOOLEAN
  /\ crashes \in 0 .. MaxCrashes

\* A message that comes between the check of the queues, the clearing of the
\* event, the request to the client and the wait is never slept over.
NoLostWakeup == (pc = "wait" /\ Queued) => ready

\* Only input or a shutdown ends a wait: the loop never wakes to find nothing,
\* which would spend an iteration.
NoEmptyWakeup == (pc = "wait" /\ ready) => (Queued \/ shutdown)

\* A loop that has parked for input runs no turn before it has some, also when
\* it is restarted: no answer is made up.
ParkedUntilInput == parked => pc # "turn"

Events == INSTANCE Mailbox WITH Letter <- Inputs, way <- Kept(held, events) \o injections,
                                got <- Kept(delivered, events)

\* The loop is a mailbox for events, across turns, priority drains, crashes
\* and restarts: each event once, in order.
IsMailbox == Events!Spec

OnTheWay(n) == n \in ToSet(injections) \cup ToSet(triggers) \cup ToSet(held)

\* Every turn and every judge ends, as if max_tool_calls_per_turn bounded them.
TurnsEnd == []<>~Thinking

\* As long as every turn ends, an input reaches the conversation unless the loop
\* ends or the process dies first: no input waits for another one to come.
InputArrives ==
  TurnsEnd => \A n \in Inputs : OnTheWay(n) ~> (n \in ToSet(delivered) \/ ~Alive)
-----------------------------------------------------------------------------
\* signal_shutdown "causes the loop to exit on the next check" (of a loop whose
\* turns end).
ShutdownStops == TurnsEnd => (shutdown ~> ~Alive)

\* A restart re-enters the wait "if the node was parked for input and no new
\* message has been injected yet": never over an input no turn has dealt with.
RestoredWaitUnanswered == (pc = "wait" /\ why = "restored") => seen = Len(delivered)
=============================================================================
