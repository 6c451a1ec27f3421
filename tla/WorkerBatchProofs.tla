-------------------------- MODULE WorkerBatchProofs --------------------------
(***************************************************************************)
(* What the queen is told of a worker, for batches of every size.          *)
(*                                                                         *)
(* The argument: a cancellation can only be requested of a worker that is  *)
(* active, and an active worker is before its result (Requests); between   *)
(* two awaits of Worker.run the reports are nothing or its one result      *)
(* (Told); and the result of a worker that filed a report is that report   *)
(* (Kept).  Together they are inductive.                                   *)
(***************************************************************************)
EXTENDS WorkerBatch, TLAPS

Before == {"none", "created", "executing"}
Excuses == {"excusing", "excused", "done"}

\* Where a worker's task can be when it is active, to be cancelled or awaited.
Requests(w) ==
  /\ status[w] = "unborn" => task[w] = "none"
  /\ task[w] = "created" => status[w] = "pending"
  /\ Active(w) => task[w] \in {"created", "executing", "done"}
  /\ w \in cancelReq => task[w] \in {"created", "executing", "excusing", "excused"}
  /\ w \in awaited => w \in cancelReq \/ task[w] \in Excuses

\* What the queen has been told of it.
Told(w) ==
  /\ task[w] \in Before \cup {"announcing", "reporting", "excusing"} => reports[w] = <<>>
  /\ task[w] \in {"reported", "excused"} => reports[w] = <<result[w]>>
  /\ task[w] = "done" =>
       \/ reports[w] = <<result[w]>>
       \/ reports[w] = <<>> /\ (status[w] = "pending" \/ w \in interrupted)

\* What its result is when it filed a report.
Kept(w) ==
  w \in explicit =>
    /\ task[w] \notin {"none", "created"}
    /\ task[w] \in Before \/ result[w] \in {"explicit", "crashed"}

ReportInv == \A w \in Workers : Requests(w) /\ Told(w) /\ Kept(w)

\* What the types rest on: a worker has a result when it reports, and the
\* watcher awaits a worker of the batch.
Ready ==
  /\ \A w \in Workers : task[w] \notin Before \cup {"done"} => result[w] # "none"
  /\ watch = "stopping" => target \in Workers

\* Every variable keeps its type, in batches of every size.
THEOREM TypeCorrect == Spec => [](TypeOK /\ Ready)
<1> USE NAssumption DEF TypeOK, Ready, Workers
<1>1. Init => TypeOK /\ Ready
  <2> SUFFICES ASSUME Init PROVE TypeOK /\ Ready
    OBVIOUS
  <2>1. status \in [Workers -> Status] /\ task \in [Workers -> Stage]
    BY DEF Init, Status, Stage
  <2>2. result \in [Workers -> Outcome \cup {"none"}] /\ reports \in [Workers -> Seq(Outcome)]
    BY DEF Init
  <2>3. target \in 1 .. N + 1
    BY DEF Init
  <2>4. Ready
    BY DEF Init, Before
  <2> QED BY <2>1, <2>2, <2>3, <2>4 DEF Init
<1>2. TypeOK /\ Ready /\ [Next]_vars => TypeOK' /\ Ready'
  <2> SUFFICES ASSUME TypeOK, Ready, [Next]_vars PROVE TypeOK' /\ Ready'
    OBVIOUS
  <2> USE DEF workerVars, controlVars, queenVars, Status, Stage, Before
  <2>1. ASSUME NEW w \in Workers, Spawn(w) \/ Stop(w) \/ CallerCancelled(w)
        PROVE TypeOK' /\ Ready'
    BY <2>1 DEF Spawn, Stop, CallerCancelled
  <2>2. ASSUME NEW w \in Workers, Begin(w) \/ NeverRuns(w) \/ File(w)
        PROVE TypeOK' /\ Ready'
    BY <2>2 DEF Begin, NeverRuns, File, CanRun
  <2>3. ASSUME NEW w \in Workers, Announced(w) \/ End(w)
        PROVE TypeOK' /\ Ready'
    BY <2>3 DEF Announced, End, CanRun
  <2>4. ASSUME NEW w \in Workers, NEW ok \in BOOLEAN, Finish(w, ok) PROVE TypeOK' /\ Ready'
    <3>1. OutcomeOf(w, IF ok THEN "success" ELSE "failed") \in Outcome
      BY DEF OutcomeOf, Outcome
    <3>2. result' \in [Workers -> Outcome \cup {"none"}] /\ result'[w] # "none"
      BY <2>4, <3>1 DEF Finish, Outcome
    <3>3. status' \in [Workers -> Status] /\ task' \in [Workers -> Stage]
      BY <2>4 DEF Finish
    <3>4. Ready'
      BY <2>4, <3>2 DEF Finish
    <3> QED BY <2>4, <3>2, <3>3, <3>4 DEF Finish
  <2>5. ASSUME NEW w \in Workers, Crash(w) \/ CancelHits(w) PROVE TypeOK' /\ Ready'
    <3>1. PICK r \in Outcome : result' = [result EXCEPT ![w] = r]
      BY <2>5 DEF Crash, CancelHits, OutcomeOf, Outcome
    <3>2. result' \in [Workers -> Outcome \cup {"none"}] /\ result'[w] # "none"
      BY <3>1 DEF Outcome
    <3>3. status' \in [Workers -> Status] /\ task' \in [Workers -> Stage]
      BY <2>5 DEF Crash, CancelHits
    <3>4. Ready'
      BY <2>5, <3>1, <3>2 DEF Crash, CancelHits
    <3> QED BY <2>5, <3>2, <3>3, <3>4 DEF Crash, CancelHits
  <2>6. ASSUME NEW w \in Workers, CancelEscapes(w) PROVE TypeOK' /\ Ready'
    BY <2>6 DEF CancelEscapes
  <2>7. ASSUME NEW w \in Workers, Notify(w) PROVE TypeOK' /\ Ready'
    <3>1. result[w] \in Outcome
      BY <2>7 DEF Notify
    <3>2. Append(reports[w], result[w]) \in Seq(Outcome)
      BY <3>1
    <3>3. reports' \in [Workers -> Seq(Outcome)]
      BY <2>7, <3>2 DEF Notify
    <3>4. task' \in [Workers -> Stage] /\ phase' \in {"independent", "working", "reviewing"}
      BY <2>7 DEF Notify
    <3>5. Ready'
      BY <2>7 DEF Notify
    <3> QED BY <2>7, <3>3, <3>4, <3>5 DEF Notify, Outcome
  <2>8. CASE SpawnFails \/ SwitchToWorking \/ ArmWatch \/ SoftTimeout
    BY <2>8 DEF SpawnFails, SwitchToWorking, ArmWatch, SoftTimeout
  <2>9. CASE HardStop \/ HardStopped
    <3>1. target \in Workers
      BY <2>9 DEF HardStop, HardStopped
    <3>2. target' \in {target, target + 1} /\ (watch' = "stopping" => target' = target)
      BY <2>9 DEF HardStop, HardStopped
    <3>3. target' \in 1 .. N + 1
      BY <3>1, <3>2
    <3>4. cancelReq' \subseteq Workers /\ watch' \in {"off", "soft", "hard", "stopping"}
      BY <2>9, <3>1 DEF HardStop, HardStopped
    <3> QED BY <2>9, <3>1, <3>2, <3>3, <3>4 DEF HardStop, HardStopped
  <2>10. CASE StopAll \/ StopAllReturns
    BY <2>10 DEF StopAll, StopAllReturns
  <2>11. CASE UNCHANGED vars
    BY <2>11 DEF vars
  <2> QED
    BY <2>1, <2>2, <2>3, <2>4, <2>5, <2>6, <2>7, <2>8, <2>9, <2>10, <2>11 DEF Next
<1> QED
  BY <1>1, <1>2, PTL DEF Spec
-----------------------------------------------------------------------------
LEMMA NextKeeps == TypeOK /\ ReportInv /\ [Next]_vars => ReportInv'
<1> SUFFICES ASSUME TypeOK, ReportInv, [Next]_vars, NEW v \in Workers
             PROVE (Requests(v) /\ Told(v) /\ Kept(v))'
  BY DEF ReportInv
<1> Requests(v) /\ Told(v) /\ Kept(v)
  BY DEF ReportInv
<1> USE DEF TypeOK, Requests, Told, Kept, Before, Excuses, Active, workerVars, controlVars, queenVars
<1>1. ASSUME NEW w \in Workers, Spawn(w) PROVE (Requests(v) /\ Told(v) /\ Kept(v))'
  BY <1>1 DEF Spawn, ReportInv
<1>2. ASSUME NEW w \in Workers, Stop(w) \/ CallerCancelled(w)
      PROVE (Requests(v) /\ Told(v) /\ Kept(v))'
  BY <1>2 DEF Stop, CallerCancelled, Stoppable, Alive
<1>3. ASSUME NEW w \in Workers, Begin(w) \/ NeverRuns(w) \/ File(w)
      PROVE (Requests(v) /\ Told(v) /\ Kept(v))'
  BY <1>3 DEF Begin, NeverRuns, File, CanRun
<1>4. ASSUME NEW w \in Workers, Announced(w) \/ End(w)
      PROVE (Requests(v) /\ Told(v) /\ Kept(v))'
  BY <1>4 DEF Announced, End, CanRun
<1>5. ASSUME NEW w \in Workers, NEW ok \in BOOLEAN, Finish(w, ok)
      PROVE (Requests(v) /\ Told(v) /\ Kept(v))'
  BY <1>5 DEF Finish, OutcomeOf, CanRun
<1>6. ASSUME NEW w \in Workers, Crash(w) \/ CancelHits(w)
      PROVE (Requests(v) /\ Told(v) /\ Kept(v))'
  BY <1>6 DEF Crash, CancelHits, OutcomeOf, CanRun
<1>7. ASSUME NEW w \in Workers, CancelEscapes(w) PROVE (Requests(v) /\ Told(v) /\ Kept(v))'
  BY <1>7 DEF CancelEscapes
<1>8. ASSUME NEW w \in Workers, Notify(w) PROVE (Requests(v) /\ Told(v) /\ Kept(v))'
  <2>1. reports[w] = <<>>
    BY <1>8 DEF Notify, ReportInv
  <2>2. Append(<<>>, result[w]) = <<result[w]>>
    BY Zenon, SMT
  <2>3. reports' = [reports EXCEPT ![w] = <<result[w]>>]
    BY <1>8, <2>1, <2>2 DEF Notify
  <2> QED BY <1>8, <2>3 DEF Notify
<1>9. CASE SpawnFails \/ SwitchToWorking \/ ArmWatch \/ SoftTimeout \/ HardStopped \/ StopAllReturns
  BY <1>9 DEF SpawnFails, SwitchToWorking, ArmWatch, SoftTimeout, HardStopped, StopAllReturns
<1>10. CASE HardStop \/ StopAll
  BY <1>10 DEF HardStop, StopAll, Stoppable, Alive
<1>11. CASE UNCHANGED vars
  BY <1>11 DEF vars
<1> QED
  BY <1>1, <1>2, <1>3, <1>4, <1>5, <1>6, <1>7, <1>8, <1>9, <1>10, <1>11 DEF Next

\* The argument of this module holds in every reachable state.
THEOREM Reporting == Spec => []ReportInv
<1>1. Init => ReportInv
  BY DEF Init, ReportInv, Requests, Told, Kept, Active, Before
<1> QED
  BY <1>1, NextKeeps, TypeCorrect, PTL DEF Spec

\* No order of finishing, stopping and timing out makes a worker report twice.
THEOREM OneReport == Spec => []AtMostOneReport
<1>1. TypeOK /\ ReportInv => AtMostOneReport
  <2> SUFFICES ASSUME TypeOK, ReportInv, NEW w \in Workers PROVE Len(reports[w]) <= 1
    BY DEF AtMostOneReport
  <2>1. reports[w] = <<>> \/ reports[w] = <<result[w]>>
    BY DEF TypeOK, ReportInv, Told, Stage, Before
  <2>2. CASE reports[w] = <<>>
    BY <2>2
  <2>3. CASE reports[w] = <<result[w]>>
    BY <2>3
  <2> QED BY <2>1, <2>2, <2>3
<1> QED BY <1>1, Reporting, TypeCorrect, PTL

\* A worker that has begun ends in silence only when its report was interrupted.
THEOREM NoSilence == Spec => []NoSilentEnd
<1>1. ReportInv => NoSilentEnd
  BY DEF ReportInv, Told, NoSilentEnd
<1> QED BY <1>1, Reporting, PTL

\* The report a worker filed is the one the queen is told, unless it crashed.
THEOREM ExplicitWins == Spec => []ExplicitReportWins
<1>1. TypeOK /\ ReportInv => ExplicitReportWins
  BY DEF TypeOK, ReportInv, Told, Kept, ExplicitReportWins, Stage, Before
<1> QED BY <1>1, Reporting, TypeCorrect, PTL
=============================================================================
