-------------------------- MODULE AgentLoopProofs --------------------------
(***************************************************************************)
(* How the loop waits for input and what becomes of it, for every bound    *)
(* on iterations, retries, nudges, inputs and crashes.                     *)
(*                                                                         *)
(* The argument: nothing is taken from a queue between the clearing of the *)
(* event and the wakeup, so during a wait the event and the queues agree   *)
(* (Awake); a loop that has parked has its wait recorded in the cursor     *)
(* and in pending, or has an input on the way, until one is added (Parked);*)
(* and what is held is one event or none at all, so that adding it is a    *)
(* delivery of the mailbox or a step it does not see (Mail).               *)
(***************************************************************************)
EXTENDS AgentLoop, SubsequencesProofs

AtWait == {"await", "emit", "wait"}

\* What the types rest on: an iteration that has begun is within the limit, a
\* streak is above the grace only while it leads to a wait, and a wait has a
\* reason.
Limits ==
  /\ pc \notin {"top", "done", "down"} => iteration < MaxIterations
  /\ streak = Grace + 1 => pc \in {"park", "done", "down"} \/ (pc \in AtWait /\ why = "block")
  /\ pc \in AtWait => why # "none"
  /\ pc = "park" => pending # "none"

Awake ==
  /\ pc \in {"emit", "wait"} /\ ready => Queued \/ shutdown
  /\ pc = "wait" /\ Queued => ready

Arrived == Queued \/ held # <<>>

\* Where a loop is that has parked and had no input since.
Parked ==
  parked =>
    /\ cursor.pending # "none"
    /\ pc \notin {"turn", "cursor", "decide", "park"}
    /\ pc \in AtWait => why \in {"block", "restored"}
    /\ pc \in {"top", "drain", "judge"} => pending # "none" \/ Arrived
    /\ pc = "resume" => (pending # "none" /\ ~drained) \/ held # <<>>
    /\ pc = "drain" => ~drained
    /\ pc \in AtWait => pending # "none"

LoopInv == Limits /\ Awake /\ Parked
-----------------------------------------------------------------------------
\* The type invariant in four parts that are proved apart.
ControlTypes ==
  /\ kind \in {"queen", "worker"} /\ pc \in Pcs /\ why \in Waits /\ pending \in Pendings
  /\ result \in {"none", "work", "text", "ask", "escalate", "report"}
  /\ cursor \in [iteration : 0 .. MaxIterations, pending : Pendings]

CounterTypes ==
  /\ iteration \in 0 .. MaxIterations + 1 /\ retries \in 0 .. MaxRetries
  /\ empties \in 0 .. StallLimit /\ streak \in 0 .. Grace + 1
  /\ seen \in Nat /\ sent \in 0 .. MaxInputs /\ crashes \in 0 .. MaxCrashes

QueueTypes ==
  /\ injections \in Seq(Inputs) /\ triggers \in Seq(Inputs) /\ held \in Seq(Inputs)
  /\ delivered \in Seq(Inputs) /\ events \subseteq Inputs

FlagTypes ==
  /\ drained \in BOOLEAN /\ terminated \in BOOLEAN /\ ready \in BOOLEAN
  /\ shutdown \in BOOLEAN /\ parked \in BOOLEAN

LEMMA TypeParts == TypeOK <=> ControlTypes /\ CounterTypes /\ QueueTypes /\ FlagTypes
  BY DEF TypeOK, ControlTypes, CounterTypes, QueueTypes, FlagTypes

LEMMA InitOK == Init => TypeOK /\ Limits /\ Awake
<1>1. Init => ControlTypes
  BY BoundsAssumption DEF Init, Pcs, Waits, Pendings, ControlTypes
<1>2. Init => CounterTypes
  BY BoundsAssumption DEF Init, CounterTypes
<1>3. Init => QueueTypes
  BY DEF Init, QueueTypes
<1>4. Init => FlagTypes
  BY DEF Init, FlagTypes
<1>5. Init => Limits /\ Awake
  BY BoundsAssumption DEF Init, Limits, Awake, AtWait
<1> QED BY <1>1, <1>2, <1>3, <1>4, <1>5, TypeParts

\* A wait goes on to one of four places, and ends at once only with input.
LEMMA Leaving ==
  ASSUME NEW got \in BOOLEAN, why \in Waits \ {"none"}, AfterWait(got)
  PROVE  /\ pc' \in {"top", "done", "judge", "cursor"}
         /\ pending' \in {pending, "none"}
         /\ iteration' = iteration \/ (pc' = "top" /\ iteration' = iteration + 1)
         /\ empties' \in {0, empties} /\ streak' \in {0, streak}
         /\ got /\ Queued /\ why \in {"block", "restored"} => pending' = "none"
         /\ got /\ Queued /\ why = "block" => streak' = 0
         /\ ~got /\ why \in {"block", "restored"} => pc' = "done"
         /\ why \in {"block", "restored"} => pc' # "cursor"
<1>1. CASE why = "plain"
  BY <1>1 DEF AfterWait, Continue
<1>2. CASE why = "empty"
  BY <1>2 DEF AfterWait, Continue
<1>3. CASE why = "doom"
  BY <1>3 DEF AfterWait, Continue
<1>4. CASE why \in {"block", "restored"}
  BY <1>4 DEF AfterWait, Continue
<1> QED BY <1>1, <1>2, <1>3, <1>4 DEF Waits

\* A step of a wait: on with the wait, or out of it.
LEMMA Waiting ==
  ASSUME TypeOK, Limits, Awake, Await \/ Emitted \/ Wake
  PROVE  /\ pc \in AtWait /\ why \in Waits \ {"none"}
         /\ UNCHANGED unwaited
         /\ \/ /\ pc' \in {"emit", "wait"}
               /\ UNCHANGED <<iteration, pending, empties, streak>>
            \/ /\ AfterWait(TRUE) /\ Queued
            \/ /\ AfterWait(FALSE) /\ shutdown
<1> USE DEF AtWait, Queued
<1> pc \in AtWait /\ why \in Waits \ {"none"}
  BY DEF Await, Emitted, Wake, TypeOK, Limits
<1>1. CASE Await
  BY <1>1 DEF Await
<1>2. CASE Emitted
  BY <1>2 DEF Emitted
<1>3. CASE Wake
  <2>1. CASE shutdown
    BY <1>3, <2>1 DEF Wake
  <2>2. CASE ~shutdown
    <3>1. Queued
      BY <1>3, <2>2 DEF Wake, Awake
    <3> QED BY <1>3, <2>2, <3>1 DEF Wake
  <2> QED BY <2>1, <2>2
<1> QED BY <1>1, <1>2, <1>3

LEMMA NextControl == TypeOK /\ Limits /\ Awake /\ [Next]_vars => ControlTypes'
<1> SUFFICES ASSUME TypeOK, Limits, Awake, [Next]_vars PROVE ControlTypes'
  OBVIOUS
<1> USE BoundsAssumption DEF TypeOK, ControlTypes, Limits, Pcs, Waits, Pendings,
        local, queues, record, outside, steady, unturned, unwaited, Continue
<1>1. CASE InjectEvent
  BY <1>1 DEF InjectEvent
<1>2. CASE InjectTrigger
  BY <1>2 DEF InjectTrigger
<1>3. CASE SignalShutdown
  BY <1>3 DEF SignalShutdown
<1>4. CASE Leave \/ BeginIteration
  BY <1>4 DEF Leave, BeginIteration
<1>5. CASE TakeInjection
  BY <1>5 DEF TakeInjection
<1>6. CASE TakeTriggers
  BY <1>6 DEF TakeTriggers
<1>7. CASE AddHeld
  BY <1>7 DEF AddHeld
<1>8. CASE Resume
  BY <1>8 DEF Resume
<1>9. CASE RetryTurn \/ FailTurn \/ CancelTurn \/ EmptyTurn \/ StallTurn
  BY <1>9 DEF RetryTurn, FailTurn, CancelTurn, EmptyTurn, StallTurn, InTurn
<1>10. CASE EndTurn
  <2>1. PICK r \in {"work", "text", "ask", "escalate", "report"} : result' = r
    BY <1>10 DEF EndTurn, Results, ControlTypes
  <2>2. pc' \in {"await", "cursor"} /\ why' \in {"doom", why}
    BY <1>10 DEF EndTurn
  <2>3. UNCHANGED <<kind, pending, cursor>>
    BY <1>10 DEF EndTurn
  <2> QED BY <2>1, <2>2, <2>3
<1>11. CASE Checkpoint \/ Decide \/ Park \/ Judge
  BY <1>11 DEF Checkpoint, Decide, Blocks, Park, Judge
<1>12. CASE Await \/ Emitted \/ Wake
  <2>1. why \in Waits \ {"none"}
    BY <1>12, Waiting
  <2>2. pc' \in Pcs /\ pending' \in Pendings
    BY <1>12, <2>1, Waiting, Leaving
  <2>3. UNCHANGED <<kind, why, result, cursor>>
    BY <1>12, Waiting
  <2> QED BY <2>2, <2>3
<1>13. CASE Crash
  BY <1>13 DEF Crash
<1>14. CASE Restart
  BY <1>14 DEF Restart, Start
<1>15. CASE UNCHANGED vars
  BY <1>15 DEF vars
<1> QED
  BY <1>1, <1>2, <1>3, <1>4, <1>5, <1>6, <1>7, <1>8, <1>9, <1>10,
     <1>11, <1>12, <1>13, <1>14, <1>15
     DEF Next, Loop, Drain, Turn

LEMMA NextCounter == TypeOK /\ Limits /\ Awake /\ [Next]_vars => CounterTypes' /\ Limits'
<1> SUFFICES ASSUME TypeOK, Limits, Awake, [Next]_vars PROVE CounterTypes' /\ Limits'
  OBVIOUS
<1> USE BoundsAssumption DEF TypeOK, Limits, Awake, CounterTypes, Pcs, AtWait, Queued,
        local, queues, record, outside, steady, unturned, unwaited, Continue
<1>1. CASE InjectEvent
  BY <1>1 DEF InjectEvent
<1>2. CASE InjectTrigger
  BY <1>2 DEF InjectTrigger
<1>3. CASE SignalShutdown
  BY <1>3 DEF SignalShutdown
<1>4. CASE Leave \/ BeginIteration
  <2>1. CASE Leave
    BY <1>4, <2>1 DEF Leave
  <2>2. CASE BeginIteration
    BY <1>4, <2>2 DEF BeginIteration
  <2> QED BY <1>4, <2>1, <2>2
<1>5. CASE TakeInjection
  BY <1>5 DEF TakeInjection
<1>6. CASE TakeTriggers
  BY <1>6 DEF TakeTriggers
<1>7. CASE AddHeld
  BY <1>7 DEF AddHeld
<1>8. CASE Resume
  BY <1>8 DEF Resume
<1>9. CASE RetryTurn \/ FailTurn \/ CancelTurn \/ EmptyTurn \/ StallTurn
  <2>1. CASE RetryTurn
    BY <2>1 DEF RetryTurn, InTurn
  <2>2. CASE FailTurn
    BY <2>2 DEF FailTurn, InTurn
  <2>3. CASE CancelTurn
    BY <2>3 DEF CancelTurn, InTurn
  <2>4. CASE EmptyTurn
    BY <2>4 DEF EmptyTurn, InTurn
  <2>5. CASE StallTurn
    BY <2>5 DEF StallTurn, InTurn
  <2> QED BY <1>9, <2>1, <2>2, <2>3, <2>4, <2>5
<1>10. CASE EndTurn
  BY <1>10 DEF EndTurn, InTurn
<1>11. CASE Checkpoint \/ Decide \/ Park \/ Judge
  <2>1. CASE Checkpoint
    BY <2>1 DEF Checkpoint, Blocks
  <2>2. CASE Decide
    BY <2>2 DEF Decide, Blocks
  <2>3. CASE Park
    BY <2>3 DEF Park, Blocks
  <2>4. CASE Judge
    BY <2>4 DEF Judge, Blocks
  <2> QED BY <1>11, <2>1, <2>2, <2>3, <2>4
<1>12. CASE Await \/ Emitted \/ Wake
  <2>1. why \in Waits \ {"none"}
    BY <1>12, Waiting
  <2>2. CASE pc' \in {"emit", "wait"} /\ UNCHANGED <<iteration, pending, empties, streak>>
    BY <1>12, <2>2, Waiting
  <2>3. CASE AfterWait(TRUE) /\ Queued
    <3>1. pc \in AtWait /\ UNCHANGED unwaited
      BY <1>12, Waiting
    <3>2. /\ iteration' = iteration \/ (pc' = "top" /\ iteration' = iteration + 1)
          /\ pc' \in {"top", "done", "judge", "cursor"}
          /\ empties' \in {0, empties} /\ streak' \in {0, streak}
      BY <2>3, <2>1, Leaving
    <3>3. why = "block" => streak' = 0
      BY <2>3, <2>1, Leaving
    <3>4. why # "block" => streak # Grace + 1
      BY <3>1
    <3>5. streak' = Grace + 1 => pc' = "done"
      BY <3>2, <3>3, <3>4
    <3>6. CounterTypes'
      BY <3>1, <3>2
    <3> QED BY <3>1, <3>2, <3>5, <3>6
  <2>4. CASE AfterWait(FALSE) /\ shutdown
    <3>1. pc \in AtWait /\ UNCHANGED unwaited
      BY <1>12, Waiting
    <3>2. /\ iteration' = iteration \/ (pc' = "top" /\ iteration' = iteration + 1)
          /\ pc' \in {"top", "done", "judge", "cursor"}
          /\ empties' \in {0, empties} /\ streak' \in {0, streak}
      BY <2>4, <2>1, Leaving
    <3>3. why = "block" => pc' = "done"
      BY <2>4, <2>1, Leaving
    <3>4. why # "block" => streak # Grace + 1
      BY <3>1
    <3>5. streak' = Grace + 1 => pc' = "done"
      BY <3>2, <3>3, <3>4
    <3>6. CounterTypes'
      BY <3>1, <3>2
    <3> QED BY <3>1, <3>2, <3>5, <3>6
  <2> QED BY <1>12, <2>2, <2>3, <2>4, Waiting
<1>13. CASE Crash
  BY <1>13 DEF Crash
<1>14. CASE Restart
  BY <1>14 DEF Restart, Start
<1>15. CASE UNCHANGED vars
  BY <1>15 DEF vars
<1> QED
  BY <1>1, <1>2, <1>3, <1>4, <1>5, <1>6, <1>7, <1>8, <1>9, <1>10,
     <1>11, <1>12, <1>13, <1>14, <1>15
     DEF Next, Loop, Drain, Turn

LEMMA NextQueue == TypeOK /\ [Next]_vars => QueueTypes'
<1> SUFFICES ASSUME TypeOK, [Next]_vars PROVE QueueTypes'
  OBVIOUS
<1> USE BoundsAssumption DEF TypeOK, QueueTypes,
        local, queues, record, outside, steady, unturned, unwaited, Continue
<1>1. CASE InjectEvent
  <2>1. sent + 1 \in Inputs /\ Append(injections, sent + 1) \in Seq(Inputs)
    BY <1>1 DEF InjectEvent, Inputs
  <2> QED BY <1>1, <2>1 DEF InjectEvent
<1>2. CASE InjectTrigger
  <2>1. sent + 1 \in Inputs /\ Append(triggers, sent + 1) \in Seq(Inputs)
    BY <1>2 DEF InjectTrigger, Inputs
  <2> QED BY <1>2, <2>1 DEF InjectTrigger
<1>3. CASE SignalShutdown
  BY <1>3 DEF SignalShutdown
<1>4. CASE Leave \/ BeginIteration
  BY <1>4 DEF Leave, BeginIteration
<1>5. CASE TakeInjection
  BY <1>5 DEF TakeInjection
<1>6. CASE TakeTriggers
  BY <1>6 DEF TakeTriggers
<1>7. CASE AddHeld
  BY <1>7 DEF AddHeld
<1>8. CASE Resume
  BY <1>8 DEF Resume
<1>9. CASE RetryTurn \/ FailTurn \/ CancelTurn \/ EmptyTurn \/ StallTurn
  BY <1>9 DEF RetryTurn, FailTurn, CancelTurn, EmptyTurn, StallTurn, InTurn
<1>10. CASE EndTurn
  BY <1>10 DEF EndTurn, InTurn
<1>11. CASE Checkpoint \/ Decide \/ Park \/ Judge
  BY <1>11 DEF Checkpoint, Decide, Blocks, Park, Judge
<1>12. CASE Await \/ Emitted \/ Wake
  BY <1>12 DEF Await, Emitted, Wake, AfterWait
<1>13. CASE Crash
  BY <1>13 DEF Crash
<1>14. CASE Restart
  BY <1>14 DEF Restart, Start
<1>15. CASE UNCHANGED vars
  BY <1>15 DEF vars
<1> QED
  BY <1>1, <1>2, <1>3, <1>4, <1>5, <1>6, <1>7, <1>8, <1>9, <1>10,
     <1>11, <1>12, <1>13, <1>14, <1>15
     DEF Next, Loop, Drain, Turn

LEMMA NextFlag == TypeOK /\ [Next]_vars => FlagTypes'
<1> SUFFICES ASSUME TypeOK, [Next]_vars PROVE FlagTypes'
  OBVIOUS
<1> USE DEF TypeOK, FlagTypes,
        local, queues, record, outside, steady, unturned, unwaited, Continue
<1>1. CASE InjectEvent
  BY <1>1 DEF InjectEvent
<1>2. CASE InjectTrigger
  BY <1>2 DEF InjectTrigger
<1>3. CASE SignalShutdown
  BY <1>3 DEF SignalShutdown
<1>4. CASE Leave \/ BeginIteration
  BY <1>4 DEF Leave, BeginIteration
<1>5. CASE TakeInjection
  BY <1>5 DEF TakeInjection
<1>6. CASE TakeTriggers
  BY <1>6 DEF TakeTriggers
<1>7. CASE AddHeld
  BY <1>7 DEF AddHeld
<1>8. CASE Resume
  BY <1>8 DEF Resume
<1>9. CASE RetryTurn \/ FailTurn \/ CancelTurn \/ EmptyTurn \/ StallTurn
  BY <1>9 DEF RetryTurn, FailTurn, CancelTurn, EmptyTurn, StallTurn, InTurn
<1>10. CASE EndTurn
  BY <1>10 DEF EndTurn, InTurn
<1>11. CASE Checkpoint \/ Decide \/ Park \/ Judge
  BY <1>11 DEF Checkpoint, Decide, Blocks, Park, Judge
<1>12. CASE Await \/ Emitted \/ Wake
  BY <1>12 DEF Await, Emitted, Wake, AfterWait
<1>13. CASE Crash
  BY <1>13 DEF Crash
<1>14. CASE Restart
  BY <1>14 DEF Restart, Start
<1>15. CASE UNCHANGED vars
  BY <1>15 DEF vars
<1> QED
  BY <1>1, <1>2, <1>3, <1>4, <1>5, <1>6, <1>7, <1>8, <1>9, <1>10,
     <1>11, <1>12, <1>13, <1>14, <1>15
     DEF Next, Loop, Drain, Turn

LEMMA NextAwake == TypeOK /\ Limits /\ Awake /\ [Next]_vars => Awake'
<1> SUFFICES ASSUME TypeOK, Limits, Awake, [Next]_vars PROVE Awake'
  OBVIOUS
<1> USE DEF TypeOK, Awake, Queued,
        local, queues, record, outside, steady, unturned, unwaited, Continue
<1>1. CASE InjectEvent
  BY <1>1 DEF InjectEvent
<1>2. CASE InjectTrigger
  BY <1>2 DEF InjectTrigger
<1>3. CASE SignalShutdown
  BY <1>3 DEF SignalShutdown
<1>4. CASE Leave \/ BeginIteration
  BY <1>4 DEF Leave, BeginIteration
<1>5. CASE TakeInjection
  BY <1>5 DEF TakeInjection
<1>6. CASE TakeTriggers
  BY <1>6 DEF TakeTriggers
<1>7. CASE AddHeld
  BY <1>7 DEF AddHeld
<1>8. CASE Resume
  BY <1>8 DEF Resume
<1>9. CASE RetryTurn \/ FailTurn \/ CancelTurn \/ EmptyTurn \/ StallTurn
  BY <1>9 DEF RetryTurn, FailTurn, CancelTurn, EmptyTurn, StallTurn, InTurn
<1>10. CASE EndTurn
  BY <1>10 DEF EndTurn, InTurn
<1>11. CASE Checkpoint \/ Decide \/ Park \/ Judge
  BY <1>11 DEF Checkpoint, Decide, Blocks, Park, Judge
<1>12. CASE Await \/ Emitted \/ Wake
  <2>1. CASE pc' \in {"top", "done", "judge", "cursor"}
    BY <2>1
  <2>2. CASE Await /\ ~Queued
    BY <2>2 DEF Await
  <2>3. CASE Emitted /\ ~Queued
    BY <2>3 DEF Emitted
  <2>4. AfterWait(TRUE) \/ AfterWait(FALSE) => pc' \in {"top", "done", "judge", "cursor"}
    BY <1>12, Waiting, Leaving
  <2> QED BY <1>12, <2>1, <2>2, <2>3, <2>4 DEF Await, Emitted, Wake
<1>13. CASE Crash
  BY <1>13 DEF Crash
<1>14. CASE Restart
  BY <1>14 DEF Restart, Start
<1>15. CASE UNCHANGED vars
  BY <1>15 DEF vars
<1> QED
  BY <1>1, <1>2, <1>3, <1>4, <1>5, <1>6, <1>7, <1>8, <1>9, <1>10,
     <1>11, <1>12, <1>13, <1>14, <1>15
     DEF Next, Loop, Drain, Turn

\* Every variable has its type and every counter of the loop its limit, for
\* every value of the bounds.
THEOREM TypeCorrect == Spec => [](TypeOK /\ Limits /\ Awake)
<1>1. TypeOK /\ Limits /\ Awake /\ [Next]_vars => (TypeOK /\ Limits /\ Awake)'
  <2> SUFFICES ASSUME TypeOK, Limits, Awake, [Next]_vars PROVE (TypeOK /\ Limits /\ Awake)'
    OBVIOUS
  <2>1. ControlTypes' /\ CounterTypes' /\ QueueTypes' /\ FlagTypes' /\ Limits' /\ Awake'
    BY NextControl, NextCounter, NextQueue, NextFlag, NextAwake
  <2>2. TypeOK'
    BY <2>1 DEF TypeOK, ControlTypes, CounterTypes, QueueTypes, FlagTypes
  <2> QED BY <2>1, <2>2
<1> QED
  BY <1>1, InitOK, PTL DEF Spec

\* A message that comes between any two steps of a wait is never slept over.
THEOREM NoWakeupLost == Spec => []NoLostWakeup
<1>1. Awake => NoLostWakeup
  BY DEF Awake, NoLostWakeup
<1> QED BY <1>1, TypeCorrect, PTL

\* Only input or a shutdown ends a wait.
THEOREM NoWakeupEmpty == Spec => []NoEmptyWakeup
<1>1. Awake => NoEmptyWakeup
  BY DEF Awake, NoEmptyWakeup
<1> QED BY <1>1, TypeCorrect, PTL

LEMMA NextParked == TypeOK /\ Limits /\ Awake /\ Parked /\ [Next]_vars => Parked'
<1> SUFFICES ASSUME TypeOK, Limits, Awake, Parked, [Next]_vars PROVE Parked'
  OBVIOUS
<1> USE DEF TypeOK, Awake, Parked, Arrived, Queued, AtWait, Alive, Pcs,
        local, queues, record, outside, steady, unturned, unwaited, Continue
<1>1. CASE InjectEvent
  BY <1>1 DEF InjectEvent
<1>2. CASE InjectTrigger
  BY <1>2 DEF InjectTrigger
<1>3. CASE SignalShutdown
  BY <1>3 DEF SignalShutdown
<1>4. CASE Leave \/ BeginIteration
  BY <1>4 DEF Leave, BeginIteration
<1>5. CASE TakeInjection
  BY <1>5 DEF TakeInjection
<1>6. CASE TakeTriggers
  BY <1>6 DEF TakeTriggers
<1>7. CASE AddHeld
  BY <1>7 DEF AddHeld
<1>8. CASE Resume
  BY <1>8 DEF Resume
<1>9. CASE RetryTurn \/ FailTurn \/ CancelTurn \/ EmptyTurn \/ StallTurn
  BY <1>9 DEF RetryTurn, FailTurn, CancelTurn, EmptyTurn, StallTurn, InTurn
<1>10. CASE EndTurn
  BY <1>10 DEF EndTurn, InTurn
<1>11. CASE Checkpoint \/ Decide \/ Park \/ Judge
  <2>1. CASE Checkpoint
    BY <2>1 DEF Checkpoint, Blocks
  <2>2. CASE Decide
    BY <2>2 DEF Decide, Blocks
  <2>3. CASE Park
    BY <2>3 DEF Park, Limits
  <2>4. CASE Judge
    BY <2>4 DEF Judge, Blocks
  <2> QED BY <1>11, <2>1, <2>2, <2>3, <2>4
<1>12. CASE Await \/ Emitted \/ Wake
  <2>1. why \in Waits \ {"none"}
    BY <1>12, Waiting
  <2>2. CASE pc' \in {"emit", "wait"}
    BY <1>12, <2>2, Waiting, <2>1, Leaving
  <2>3. CASE AfterWait(TRUE) /\ Queued
    BY <1>12, <2>3, <2>1, Waiting, Leaving
  <2>4. CASE AfterWait(FALSE) /\ shutdown
    BY <1>12, <2>4, <2>1, Waiting, Leaving
  <2> QED BY <1>12, <2>2, <2>3, <2>4, Waiting
<1>13. CASE Crash
  BY <1>13 DEF Crash
<1>14. CASE Restart
  BY <1>14 DEF Restart, Start
<1>15. CASE UNCHANGED vars
  BY <1>15 DEF vars
<1> QED
  BY <1>1, <1>2, <1>3, <1>4, <1>5, <1>6, <1>7, <1>8, <1>9, <1>10,
     <1>11, <1>12, <1>13, <1>14, <1>15
     DEF Next, Loop, Drain, Turn

\* A loop that has parked for input runs no turn before it has some, through
\* any number of crashes and restarts.
THEOREM StaysParked == Spec => []ParkedUntilInput
<1>1. Init => Parked
  BY DEF Init, Parked
<1>2. Spec => []Parked
  BY <1>1, NextParked, TypeCorrect, PTL DEF Spec
<1>3. Parked => ParkedUntilInput
  BY DEF Parked, ParkedUntilInput
<1> QED BY <1>2, <1>3, PTL
-----------------------------------------------------------------------------
(***************************************************************************)
(* The loop implements Mailbox.  What the mapping rests on: inputs are     *)
(* numbered as they come, the two queues hold what their names say, and    *)
(* what is held is one event or holds none.                                *)
(***************************************************************************)

Among(s, T) == \A i \in 1 .. Len(s) : s[i] \in T

Mail ==
  /\ events \subseteq 1 .. sent
  /\ Among(injections, events)
  /\ Among(triggers, (1 .. sent) \ events)
  /\ Among(held, 1 .. sent) /\ Among(delivered, 1 .. sent)
  /\ \/ Len(held) = 1 /\ held[1] \in events
     \/ \A i \in 1 .. Len(held) : held[i] \notin events

way == Kept(held, events) \o injections
got == Kept(delivered, events)

LEMMA InitMail == Init => Mail /\ Events!Init
<1> SUFFICES ASSUME Init PROVE Mail /\ Events!Init
  OBVIOUS
<1>1. held = <<>> /\ delivered = <<>> /\ injections = <<>> /\ triggers = <<>> /\ events = {}
  BY DEF Init
<1>2. Mail
  BY <1>1 DEF Mail, Among
<1>3. Kept(held, events) = <<>> /\ Kept(delivered, events) = <<>>
  BY <1>1, KeptEmpty
<1> QED BY <1>1, <1>2, <1>3 DEF Events!Init

\* The types the mapping uses, and the first of the events on the way.
LEMMA MailTypes ==
  ASSUME TypeOK
  PROVE  /\ injections \in Seq(Inputs) /\ triggers \in Seq(Inputs)
         /\ held \in Seq(Inputs) /\ delivered \in Seq(Inputs)
         /\ Kept(held, events) \in Seq(Inputs) /\ Kept(delivered, events) \in Seq(Inputs)
         /\ events \subseteq Inputs /\ sent \in Nat /\ sent <= MaxInputs
<1>1. /\ injections \in Seq(Inputs) /\ triggers \in Seq(Inputs)
      /\ held \in Seq(Inputs) /\ delivered \in Seq(Inputs) /\ events \subseteq Inputs
      /\ sent \in Nat /\ sent <= MaxInputs
  BY BoundsAssumption DEF TypeOK
<1> QED BY <1>1, KeptType

LEMMA EventPosted ==
  ASSUME TypeOK, Mail, InjectEvent
  PROVE  Mail' /\ Events!Post
<1>1. /\ sent \in Nat /\ sent + 1 \in Inputs /\ sent' = sent + 1 /\ events' = events \cup {sent + 1}
      /\ injections' = Append(injections, sent + 1)
      /\ UNCHANGED <<triggers, held, delivered>>
  BY MailTypes, BoundsAssumption DEF InjectEvent, Inputs, record
<1>2. /\ injections \in Seq(Inputs) /\ held \in Seq(Inputs) /\ delivered \in Seq(Inputs)
      /\ triggers \in Seq(Inputs)
  BY MailTypes
<1>3. ASSUME NEW s \in Seq(Inputs), Among(s, 1 .. sent) PROVE Kept(s, events') = Kept(s, events)
  <2>1. \A i \in 1 .. Len(s) : s[i] \in events <=> s[i] \in events'
    BY <1>1, <1>3 DEF Among
  <2> QED BY <2>1, KeptAgree
<1>4. Kept(held', events') = Kept(held, events) /\ got' = got
  BY <1>1, <1>2, <1>3 DEF Mail, got
<1>5. way' = Append(way, sent + 1)
  <2>1. \A s, t \in Seq(Inputs) : s \o Append(t, sent + 1) = Append(s \o t, sent + 1)
    BY <1>1
  <2> QED BY <1>1, <1>2, <1>4, <2>1, MailTypes DEF way
<1>6. Mail'
  <2>1. events' \subseteq 1 .. sent' /\ 1 .. sent \subseteq 1 .. sent'
    BY <1>1 DEF Mail
  <2>2. Among(injections', events')
    BY <1>1, <1>2 DEF Mail, Among
  <2>3. Among(triggers', (1 .. sent') \ events')
    BY <1>1, <1>2 DEF Mail, Among
  <2>4. Among(held', 1 .. sent') /\ Among(delivered', 1 .. sent')
    BY <1>1, <2>1 DEF Mail, Among
  <2>5. \A i \in 1 .. Len(held) : held[i] \in events' <=> held[i] \in events
    BY <1>1, <1>2 DEF Mail, Among
  <2>6. \/ Len(held) = 1 /\ held[1] \in events'
        \/ \A i \in 1 .. Len(held) : held[i] \notin events'
    BY <1>1, <2>5 DEF Mail
  <2> QED BY <1>1, <2>1, <2>2, <2>3, <2>4, <2>6 DEF Mail
<1> QED BY <1>1, <1>4, <1>5, <1>6 DEF Events!Post, way, got

LEMMA TriggerPosted ==
  ASSUME TypeOK, Mail, InjectTrigger
  PROVE  Mail' /\ UNCHANGED <<way, got>>
<1>1. /\ sent \in Nat /\ sent' = sent + 1 /\ events' = events
      /\ triggers' = Append(triggers, sent + 1)
      /\ UNCHANGED <<injections, held, delivered>>
  BY MailTypes DEF InjectTrigger, record
<1>2. triggers \in Seq(Inputs)
  BY MailTypes
<1>3. events' \subseteq 1 .. sent' /\ 1 .. sent \subseteq 1 .. sent'
  BY <1>1 DEF Mail
<1>4. Among(triggers', (1 .. sent') \ events')
  BY <1>1, <1>2 DEF Mail, Among
<1>5. Among(held', 1 .. sent') /\ Among(delivered', 1 .. sent')
  BY <1>1, <1>3 DEF Mail, Among
<1> QED BY <1>1, <1>3, <1>4, <1>5 DEF Mail, way, got

\* Taking a message from a queue moves nothing that the mailbox sees.
LEMMA Taken ==
  ASSUME TypeOK, Mail, TakeInjection \/ TakeTriggers
  PROVE  Mail' /\ UNCHANGED <<way, got>>
<1> USE DEF record, steady, outside
<1>1. CASE TakeInjection
  <2>1. /\ held = <<>> /\ injections # <<>> /\ held' = <<Head(injections)>>
        /\ injections' = Tail(injections) /\ UNCHANGED <<triggers, delivered, events, sent>>
    BY <1>1 DEF TakeInjection
  <2>2. injections \in Seq(Inputs)
    BY MailTypes
  <2>3. /\ Head(injections) = injections[1] /\ Len(injections) >= 1 /\ Head(injections) \in Inputs
        /\ <<Head(injections)>> \o Tail(injections) = injections
        /\ \A i \in 1 .. Len(Tail(injections)) :
             i + 1 \in 1 .. Len(injections) /\ Tail(injections)[i] = injections[i + 1]
    BY <2>1, <2>2
  <2>4. Head(injections) \in events /\ Head(injections) \in 1 .. sent
    <3>1. 1 \in 1 .. Len(injections)
      BY <2>2, <2>3
    <3> QED BY <2>3, <3>1 DEF Mail, Among
  <2>5. Kept(held, events) = <<>> /\ Kept(held', events') = <<Head(injections)>>
    BY <2>1, <2>3, <2>4, KeptEmpty, KeptOne
  <2>6. way = injections /\ way' = injections
    <3>1. \A s \in Seq(Inputs) : <<>> \o s = s
      OBVIOUS
    <3>2. way = <<>> \o injections /\ way' = <<Head(injections)>> \o Tail(injections)
      BY <2>1, <2>5 DEF way
    <3> QED BY <2>2, <2>3, <3>1, <3>2
  <2>7. Len(held') = 1 /\ held'[1] = Head(injections) /\ Among(injections', events)
    BY <2>1, <2>3 DEF Mail, Among
  <2> QED BY <2>1, <2>4, <2>6, <2>7 DEF Mail, Among, got
<1>2. CASE TakeTriggers
  <2>1. /\ held = <<>> /\ injections = <<>> /\ held' = triggers /\ triggers' = <<>>
        /\ UNCHANGED <<injections, delivered, events, sent>>
    BY <1>2 DEF TakeTriggers
  <2>2. triggers \in Seq(Inputs) /\ \A i \in 1 .. Len(triggers) : triggers[i] \notin events
    BY MailTypes DEF Mail, Among
  <2>3. Kept(held, events) = <<>> /\ Kept(held', events') = <<>>
    BY <2>1, <2>2, KeptEmpty, KeptNone
  <2>4. way' = way
    BY <2>1, <2>3 DEF way
  <2>5. Among(triggers', (1 .. sent') \ events') /\ Among(held', 1 .. sent')
    BY <2>1 DEF Mail, Among
  <2> QED BY <2>1, <2>2, <2>4, <2>5 DEF Mail, got
<1> QED BY <1>1, <1>2

\* What is added to the conversation is the first event on the way, or none.
LEMMA Added ==
  ASSUME TypeOK, Mail, AddHeld
  PROVE  Mail' /\ (Events!Deliver \/ UNCHANGED <<way, got>>)
<1>1. /\ held # <<>> /\ held' = <<>> /\ delivered' = delivered \o held
      /\ UNCHANGED <<injections, triggers, events, sent>>
  BY DEF AddHeld, steady, outside
<1>2. held \in Seq(Inputs) /\ delivered \in Seq(Inputs) /\ injections \in Seq(Inputs)
  BY MailTypes
<1>3. got' = got \o Kept(held, events) /\ way' = injections /\ got \in Seq(Inputs)
  <2>1. Kept(held', events') = <<>>
    BY <1>1, KeptEmpty
  <2>2. Kept(delivered', events') = Kept(delivered, events) \o Kept(held, events)
    BY <1>1, <1>2, KeptConcat
  <2> QED BY <1>1, <1>2, <2>1, <2>2, MailTypes DEF way, got
<1>4. Mail'
  <2>1. Among(delivered', 1 .. sent)
    <3>1. \A i \in 1 .. Len(delivered \o held) :
            \/ i \in 1 .. Len(delivered) /\ (delivered \o held)[i] = delivered[i]
            \/ i - Len(delivered) \in 1 .. Len(held)
               /\ (delivered \o held)[i] = held[i - Len(delivered)]
      BY <1>2
    <3> QED BY <1>1, <3>1 DEF Mail, Among
  <2>2. Len(held') = 0
    BY <1>1
  <2> QED BY <1>1, <2>1, <2>2 DEF Mail, Among
<1>5. CASE Len(held) = 1 /\ held[1] \in events
  <2>1. held = <<held[1]>> /\ held[1] \in Inputs
    <3>1. \A s \in Seq(Inputs) : Len(s) = 1 => s[1] \in Inputs /\ s = <<s[1]>>
      OBVIOUS
    <3> QED BY <1>2, <1>5, <3>1
  <2>2. Kept(held, events) = <<held[1]>>
    <3> DEFINE e == held[1]
    <3>1. Kept(<<e>>, events) = <<e>>
      BY <1>5, <2>1, KeptOne
    <3> HIDE DEF e
    <3> QED BY <2>1, <3>1 DEF e
  <2>3. way = <<held[1]>> \o injections
    BY <2>2 DEF way
  <2>4. way # <<>> /\ Head(way) = held[1] /\ Tail(way) = injections
    BY <1>2, <2>1, <2>3
  <2>5. got' = Append(got, held[1])
    BY <1>3, <2>1, <2>2
  <2> QED BY <1>3, <1>4, <2>4, <2>5 DEF Events!Deliver, way, got
<1>6. CASE \A i \in 1 .. Len(held) : held[i] \notin events
  <2>1. Kept(held, events) = <<>>
    BY <1>2, <1>6, KeptNone
  <2>2. way = injections /\ got' = got
    BY <1>2, <1>3, <2>1 DEF way
  <2> QED BY <1>3, <1>4, <2>2
<1> QED BY <1>5, <1>6 DEF Mail

LEMMA MailStep ==
  ASSUME TypeOK, Mail, [Next]_vars
  PROVE  Mail' /\ [Events!Post \/ Events!Deliver \/ Events!Lose]_<<way, got>>
<1> USE DEF local, queues, record, outside, steady, unturned, unwaited
<1>1. CASE InjectEvent
  BY <1>1, EventPosted
<1>2. CASE InjectTrigger
  BY <1>2, TriggerPosted
<1>3. CASE TakeInjection \/ TakeTriggers
  BY <1>3, Taken
<1>4. CASE AddHeld
  BY <1>4, Added
<1>5. CASE Crash
  <2>1. /\ injections' = <<>> /\ triggers' = <<>> /\ held' = <<>>
        /\ UNCHANGED <<delivered, events, sent>>
    BY <1>5 DEF Crash
  <2>2. Kept(held', events') = <<>>
    BY <2>1, KeptEmpty
  <2>3. way' = <<>> /\ got' = got
    BY <2>1, <2>2 DEF way, got
  <2>4. Mail'
    BY <2>1 DEF Mail, Among
  <2> QED BY <2>3, <2>4 DEF Events!Lose, way, got
<1>6. ASSUME UNCHANGED <<injections, triggers, held, delivered, events, sent>>
      PROVE  Mail' /\ UNCHANGED <<way, got>>
  BY <1>6 DEF Mail, Among, way, got
<1>7. CASE SignalShutdown \/ Leave \/ BeginIteration \/ Resume \/ Turn
  BY <1>6, <1>7 DEF SignalShutdown, Leave, BeginIteration, Resume, Turn, RetryTurn, FailTurn,
                    CancelTurn, EmptyTurn, StallTurn, EndTurn
<1>8. CASE Checkpoint \/ Decide \/ Park \/ Judge \/ Await \/ Emitted \/ Wake \/ Restart \/ UNCHANGED vars
  BY <1>6, <1>8 DEF Checkpoint, Decide, Park, Judge, Await, Emitted, Wake, Restart, vars
<1> QED
  BY <1>1, <1>2, <1>3, <1>4, <1>5, <1>7, <1>8 DEF Next, Loop, Drain

\* The loop is a mailbox for events, whatever the bounds: through turns, drains,
\* crashes and restarts each event is added at most once, in the order of
\* arrival, and only a crash loses events, all that are on the way.
THEOREM ImplementsMailbox == Spec => IsMailbox
<1>1. Spec => []TypeOK
  BY TypeCorrect, PTL
<1>2. TypeOK /\ Mail /\ [Next]_vars
        => [Events!Post \/ Events!Deliver \/ Events!Lose]_<<way, got>>
  BY MailStep
<1>3. TypeOK /\ Mail /\ [Next]_vars => Mail'
  BY MailStep
<1> QED BY <1>1, <1>2, <1>3, InitMail, PTL DEF Spec, IsMailbox, Events!Spec, way, got
=============================================================================
