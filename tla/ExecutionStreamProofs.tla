------------------------ MODULE ExecutionStreamProofs ------------------------
(***************************************************************************)
(* Proofs about ExecutionStream, for every set of ids and callers and      *)
(* every bound: whatever the order of concurrent execute() calls, stops,   *)
(* cancellations and cleanups, one execution is alive at a time, and what  *)
(* it has recorded, published and written is determined by the await it    *)
(* is at and the cancellations it has met (Stage, Owned).                  *)
(***************************************************************************)
EXTENDS ExecutionStream, SubsequencesProofs

\* The bookkeeping invariant: the two maps are total and a live task is listed.
Bookkept ==
  /\ running \in BOOLEAN
  /\ phase \in [Ids -> Phase]
  /\ status \in [Ids -> Status]
  /\ TrackedWhileAlive

\* The steps by which a task moves on, dies or leaves; the rest keep the phases.
Moves(i, p) == phase' = [phase EXCEPT ![i] = p]

LEMMA InitBookkept == Init => Bookkept
  BY DEF Init, Bookkept, TrackedWhileAlive, Live, Phase, Status

\* An admission finds the stream open and nothing alive.
LEMMA AdmitStep ==
  ASSUME Bookkept, NEW i \in Ids, Admit(i)
  PROVE  Bookkept' /\ Slot!Accept(i)
<1> DEFINE alive == {j \in Ids : Live(j)}
<1>1. running /\ running' = running /\ alive = {}
  BY DEF Admit, MayAdmit, Blocking
<1>2. /\ phase' = [phase EXCEPT ![i] = "created"]
      /\ status' = [status EXCEPT ![i] = "pending"]
  BY DEF Admit
<1>3. \A j \in Ids : Live(j)' <=> j = i
  BY <1>1, <1>2 DEF Bookkept, Live
<1>4. alive' = {i}
  BY <1>3
<1>5. Bookkept'
  BY <1>1, <1>2, <1>3 DEF Bookkept, TrackedWhileAlive, Phase, Status
<1> QED BY <1>1, <1>4, <1>5 DEF Slot!Accept

\* A task that goes on to another await stays alive.
LEMMA ProceedStep ==
  ASSUME Bookkept, NEW i \in Ids, Live(i), NEW p \in Phase \ {"none", "dead"},
         phase' = [phase EXCEPT ![i] = p], UNCHANGED running,
         status' \in [Ids -> Status], \A j \in Ids : status[j] # "none" => status'[j] # "none"
  PROVE  Bookkept' /\ UNCHANGED Slot!vars
<1>1. \A j \in Ids : Live(j)' <=> Live(j)
  BY DEF Bookkept, Live
<1>2. {j \in Ids : Live(j)}' = {j \in Ids : Live(j)}
  BY <1>1
<1>3. Bookkept'
  BY <1>1 DEF Bookkept, TrackedWhileAlive
<1> QED BY <1>2, <1>3 DEF Slot!vars

\* A task that dies or ends leaves the stream, and no other one does.
LEMMA LeaveStep ==
  ASSUME Bookkept, NEW i \in Ids, Live(i), NEW p \in {"none", "dead"},
         phase' = [phase EXCEPT ![i] = p], UNCHANGED running,
         status' \in [Ids -> Status], \A j \in Ids \ {i} : status'[j] = status[j]
  PROVE  Bookkept' /\ Slot!Leave(i)
<1> DEFINE alive == {j \in Ids : Live(j)}
<1>1. ~Live(i)' /\ \A j \in Ids \ {i} : Live(j)' <=> Live(j)
  BY DEF Bookkept, Live
<1>2. i \in alive /\ alive' = alive \ {i}
  BY <1>1
<1>3. Bookkept'
  BY <1>1 DEF Bookkept, TrackedWhileAlive, Phase
<1> QED BY <1>2, <1>3 DEF Slot!Leave

\* Requesting a cancellation ends nothing.
LEMMA RequestStep ==
  ASSUME Bookkept, NEW is \in SUBSET Ids, RequestCancel(is), UNCHANGED phase,
         running' \in BOOLEAN
  PROVE  Bookkept' /\ {j \in Ids : Live(j)}' = {j \in Ids : Live(j)}
<1>1. \A j \in Ids : Live(j)' <=> Live(j)
  BY DEF Live
<1>2. status' \in [Ids -> Status] /\ \A j \in Ids : status[j] # "none" => status'[j] # "none"
  BY DEF RequestCancel, Bookkept, Status
<1>3. Bookkept'
  BY <1>1, <1>2 DEF Bookkept, TrackedWhileAlive
<1> QED BY <1>1, <1>3

\* Every step of the stream is one of the abstract stream, or none.
LEMMA NextBookkept ==
  ASSUME Bookkept, [Next]_vars
  PROVE  Bookkept' /\ [Slot!Next]_Slot!vars
<1> USE DEF apiVars, taskVars
<1>1. CASE Start
  <2>1. UNCHANGED <<phase, status>> /\ ~running /\ running' = TRUE
    BY <1>1 DEF Start
  <2>2. {j \in Ids : Live(j)}' = {j \in Ids : Live(j)}
    BY <2>1 DEF Live
  <2>3. Slot!Open
    BY <2>1, <2>2 DEF Slot!Open
  <2>4. Bookkept'
    BY <2>1 DEF Bookkept, TrackedWhileAlive, Live
  <2> QED BY <2>3, <2>4 DEF Slot!Next
<1>2. CASE Stop
  <2>1. running /\ running' = FALSE /\ UNCHANGED phase
        /\ RequestCancel({j \in Ids : Live(j)})
    BY <1>2 DEF Stop
  <2>2. Bookkept' /\ {j \in Ids : Live(j)}' = {j \in Ids : Live(j)}
    BY <2>1, RequestStep
  <2> QED BY <2>1, <2>2 DEF Slot!Close, Slot!Next
<1>3. ASSUME NEW i \in Ids, CancelExecution(i) PROVE Bookkept' /\ UNCHANGED Slot!vars
  <2>1. RequestCancel({i}) /\ UNCHANGED <<phase, running>>
    BY <1>3 DEF CancelExecution
  <2>2. Bookkept' /\ {j \in Ids : Live(j)}' = {j \in Ids : Live(j)}
    BY <2>1, RequestStep DEF Bookkept
  <2> QED BY <2>1, <2>2 DEF Slot!vars
<1>4. CASE ExecuteAtOnce
  <2>1. PICK i \in Ids : Admit(i)
    BY <1>4 DEF ExecuteAtOnce
  <2> QED BY <2>1, AdmitStep DEF Slot!Next
<1>5. ASSUME NEW c \in Callers, ExecuteCancels(c) PROVE Bookkept' /\ UNCHANGED Slot!vars
  <2>1. PICK i \in Ids : RequestCancel({i})
    BY <1>5 DEF ExecuteCancels
  <2>2. UNCHANGED <<phase, running>>
    BY <1>5 DEF ExecuteCancels
  <2>3. Bookkept' /\ {j \in Ids : Live(j)}' = {j \in Ids : Live(j)}
    BY <2>1, <2>2, RequestStep DEF Bookkept
  <2> QED BY <2>2, <2>3 DEF Slot!vars
<1>6. ASSUME NEW c \in Callers, ExecuteResumes(c)
      PROVE  Bookkept' /\ [Slot!Next]_Slot!vars
  <2>1. CASE \E i \in Ids : Admit(i)
    BY <2>1, AdmitStep DEF Slot!Next
  <2>2. CASE UNCHANGED <<running, status, phase>>
    BY <2>2 DEF Bookkept, TrackedWhileAlive, Live, Slot!vars
  <2> QED BY <1>6, <2>1, <2>2 DEF ExecuteResumes
<1>7. ASSUME UNCHANGED <<running, status, phase>> PROVE Bookkept' /\ UNCHANGED Slot!vars
  BY <1>7 DEF Bookkept, TrackedWhileAlive, Live, Slot!vars
<1>8. ASSUME NEW i \in Ids, WaitForCompletion(i) \/ WriteLands(i)
      PROVE  Bookkept' /\ UNCHANGED Slot!vars
  <2>1. UNCHANGED <<running, status, phase>>
    BY <1>8 DEF WaitForCompletion, WriteLands
  <2> QED BY <2>1, <1>7
<1>9. ASSUME NEW i \in Ids,
             Begin(i) \/ Launch(i) \/ Opened(i) \/ Resurrect(i) \/ Rerun(i) \/ Saved(i)
               \/ Finish(i, TRUE) \/ Finish(i, FALSE) \/ Raise(i) \/ CancelHits(i)
      PROVE  Bookkept' /\ UNCHANGED Slot!vars
  <2>1. Live(i) /\ UNCHANGED running
    BY <1>9 DEF Live, CanRun, Begin, Launch, Opened, Resurrect, Rerun, Saved, Finish, Raise,
                CancelHits
  <2>2. \E p \in Phase \ {"none", "dead"} : phase' = [phase EXCEPT ![i] = p]
    BY <1>9 DEF Phase, Begin, Launch, Opened, Resurrect, Rerun, Saved, Finish, Raise,
                CancelHits, Report
  <2>3. \E s \in Status \ {"none"} :
           status' = status \/ status' = [status EXCEPT ![i] = s]
    BY <1>9 DEF Status, StatusOf, Begin, Launch, Opened, Resurrect, Rerun, Saved, Finish,
                Raise, CancelHits
  <2>4. status' \in [Ids -> Status] /\ \A j \in Ids : status[j] # "none" => status'[j] # "none"
    BY <2>3 DEF Bookkept
  <2> QED BY <2>1, <2>2, <2>4, ProceedStep
<1>10. ASSUME NEW i \in Ids, NeverRuns(i) PROVE Bookkept' /\ Slot!Leave(i)
  <2>1. Live(i) /\ UNCHANGED <<running, status>> /\ phase' = [phase EXCEPT ![i] = "dead"]
    BY <1>10 DEF NeverRuns, Live
  <2> QED BY <2>1, LeaveStep DEF Bookkept
<1>11. ASSUME NEW i \in Ids, End(i) \/ CancelHitsHandler(i)
       PROVE  Bookkept' /\ Slot!Leave(i)
  <2>1. /\ Live(i) /\ UNCHANGED running
        /\ phase' = [phase EXCEPT ![i] = "none"]
        /\ status' = [status EXCEPT ![i] = "none"]
    BY <1>11 DEF End, CancelHitsHandler, Cleanup, CanRun, Live
  <2>2. status' \in [Ids -> Status] /\ \A j \in Ids \ {i} : status'[j] = status[j]
    BY <2>1 DEF Bookkept, Status
  <2> QED BY <2>1, <2>2, LeaveStep
<1>12. CASE UNCHANGED vars
  BY <1>7, <1>12 DEF vars
<1>13. ASSUME NEW i \in Ids, Slot!Leave(i) PROVE Slot!Next
  BY <1>13 DEF Slot!Next
<1> QED
  BY <1>1, <1>2, <1>3, <1>4, <1>5, <1>6, <1>8, <1>9, <1>10, <1>11, <1>12, <1>13 DEF Next

\* A live task always has its bookkeeping.
THEOREM Tracked == Spec => []TrackedWhileAlive
<1>1. Bookkept => TrackedWhileAlive
  BY DEF Bookkept
<1>2. Bookkept /\ [Next]_vars => Bookkept'
  BY NextBookkept
<1> QED BY InitBookkept, <1>1, <1>2, PTL DEF Spec

\* The stream implements ExclusiveStream: one execution alive at a time, none
\* accepted once stopped, none gone before its own task is over.
THEOREM Exclusive == Spec => KeepsExclusive
<1>1. Init => Slot!Init
  BY DEF Init, Slot!Init, Live
<1>2. Bookkept /\ [Next]_vars => Bookkept' /\ [Slot!Next]_Slot!vars
  BY NextBookkept
<1> QED BY InitBookkept, <1>1, <1>2, PTL DEF Spec, KeepsExclusive, Slot!Spec
-----------------------------------------------------------------------------
\* i's result is the newest of the store, which is what its pruning keeps.
LastIs(i, ok) == results # <<>> /\ results[Len(results)] = [id |-> i, success |-> ok]

Stored == results \in Seq(ResultsOf(Ids)) /\ Len(results) <= Retention

\* Recording a result keeps the store in its bounds and the result in the store.
LEMMA RecordStep ==
  ASSUME Stored, NEW i \in Ids, NEW ok \in BOOLEAN, Record(i, ok)
  PROVE  Stored' /\ LastIs(i, ok)'
<1> DEFINE R == ResultsOf(Ids)
           e == [id |-> i, success |-> ok]
           others == Kept(results, ResultsOf(Ids \ {i}))
           all == Append(others, e)
           excess == IF Len(all) > Retention THEN Len(all) - Retention ELSE 0
<1>1. results' = SubSeq(all, excess + 1, Len(all))
  BY DEF Record
<1>2. others \in Seq(R)
  BY KeptType DEF Stored
<1>3. e \in R
  BY DEF ResultsOf
<1>4. all \in Seq(R) /\ Len(all) = Len(others) + 1 /\ all[Len(all)] = e
  <2> HIDE DEF others, R, e
  <2> QED BY <1>2, <1>3, AppendProperties
<1> HIDE DEF others, R, e, all
<1>5. Len(all) \in Nat \ {0} /\ Retention \in Nat \ {0}
  BY <1>2, <1>4, RetentionAssumption
<1>6. /\ excess \in Nat /\ excess + 1 \in 1 .. Len(all)
      /\ Len(all) - excess <= Retention /\ Len(all) - excess \in Nat \ {0}
  BY <1>5
<1> HIDE DEF excess
<1>7. /\ SubSeq(all, excess + 1, Len(all)) \in Seq(R)
      /\ Len(SubSeq(all, excess + 1, Len(all))) = Len(all) - excess
      /\ SubSeq(all, excess + 1, Len(all))[Len(all) - excess] = all[Len(all)]
  BY <1>4, <1>5, <1>6
<1>8. results' \in Seq(R) /\ Len(results') = Len(all) - excess /\ results'[Len(results')] = e
  BY <1>1, <1>4, <1>7
<1>9. results' # <<>>
  BY <1>6, <1>8
<1> QED BY <1>6, <1>8, <1>9 DEF Stored, LastIs, R, e

LEMMA InitType == Init => TypeOK
<1> SUFFICES ASSUME Init PROVE TypeOK
  OBVIOUS
<1>1. results \in Seq(ResultsOf(Ids)) /\ Len(results) <= Retention
  BY RetentionAssumption, EmptySeq DEF Init
<1>2. events \in [Ids -> Seq({"completed", "failed"})]
  BY EmptySeq DEF Init
<1>3. tries \in [Ids -> 0 .. Resurrections] /\ runs \in 0 .. MaxRuns
  BY ResurrectionAssumption, RunBoundAssumption DEF Init
<1>4. /\ status \in [Ids -> Status] /\ phase \in [Ids -> Phase] /\ verdict \in [Ids -> Verdict]
      /\ disk \in [Ids -> DiskStatus]
  BY DEF Init, Status, Phase, Verdict, DiskStatus
<1> QED BY <1>1, <1>2, <1>3, <1>4 DEF Init, TypeOK

\* The steps of the interface, which leave what the tasks did alone.
LEMMA ApiType ==
  ASSUME TypeOK,
         \/ Start \/ Stop \/ ExecuteAtOnce
         \/ \E c \in Callers : ExecuteCancels(c) \/ ExecuteResumes(c)
         \/ \E i \in Ids : CancelExecution(i) \/ WaitForCompletion(i)
  PROVE  TypeOK'
<1> USE DEF taskVars
<1>1. ASSUME NEW is \in SUBSET Ids, RequestCancel(is)
      PROVE  cancelReq' \subseteq Ids /\ status' \in [Ids -> Status]
  BY <1>1 DEF RequestCancel, TypeOK, Status
<1>2. ASSUME NEW i \in Ids, Admit(i), calling' \subseteq Callers PROVE TypeOK'
  <2>1. /\ shared' \subseteq Ids /\ used' \subseteq Ids /\ runs' \in 0 .. MaxRuns
        /\ status' \in [Ids -> Status] /\ phase' \in [Ids -> Phase]
    BY <1>2, RunBoundAssumption DEF Admit, TypeOK, Status, Phase
  <2> QED BY <1>2, <2>1 DEF Admit, TypeOK
<1>3. ASSUME Start PROVE TypeOK'
  BY <1>3 DEF Start, TypeOK
<1>4. ASSUME Stop PROVE TypeOK'
  <2>1. RequestCancel({i \in Ids : Live(i)})
    BY <1>4 DEF Stop
  <2>2. cancelReq' \subseteq Ids /\ status' \in [Ids -> Status]
    BY <2>1, <1>1
  <2> QED BY <1>4, <2>2 DEF Stop, TypeOK
<1>5. ASSUME ExecuteAtOnce PROVE TypeOK'
  BY <1>5, <1>2 DEF ExecuteAtOnce, TypeOK
<1>6. ASSUME NEW c \in Callers, ExecuteCancels(c) PROVE TypeOK'
  <2>1. PICK i \in Ids : RequestCancel({i})
    BY <1>6 DEF ExecuteCancels
  <2>2. cancelReq' \subseteq Ids /\ status' \in [Ids -> Status]
    BY <2>1, <1>1
  <2> QED BY <1>6, <2>2 DEF ExecuteCancels, TypeOK
<1>7. ASSUME NEW c \in Callers, ExecuteResumes(c) PROVE TypeOK'
  <2>1. calling' \subseteq Callers
    BY <1>7 DEF ExecuteResumes, TypeOK
  <2>2. CASE \E i \in Ids : Admit(i)
    BY <2>1, <2>2, <1>2
  <2>3. CASE UNCHANGED <<running, status, phase, cancelReq, taskVars, waiters, used, runs>>
    BY <2>1, <2>3 DEF TypeOK
  <2> QED BY <1>7, <2>2, <2>3 DEF ExecuteResumes
<1>8. ASSUME NEW i \in Ids, CancelExecution(i) PROVE TypeOK'
  <2>1. cancelReq' \subseteq Ids /\ status' \in [Ids -> Status]
    BY <1>8, <1>1 DEF CancelExecution
  <2> QED BY <1>8, <2>1 DEF CancelExecution, TypeOK
<1>9. ASSUME NEW i \in Ids, WaitForCompletion(i) PROVE TypeOK'
  BY <1>9 DEF WaitForCompletion, TypeOK
<1> QED BY <1>3, <1>4, <1>5, <1>6, <1>7, <1>8, <1>9

LEMMA TaskType ==
  ASSUME TypeOK, NEW i \in Ids,
         \/ Begin(i) \/ NeverRuns(i) \/ Launch(i) \/ Opened(i) \/ Resurrect(i) \/ Rerun(i)
         \/ Finish(i, TRUE) \/ Finish(i, FALSE) \/ Raise(i) \/ Saved(i) \/ End(i)
         \/ CancelHits(i) \/ CancelHitsHandler(i) \/ WriteLands(i)
  PROVE  TypeOK'
<1> USE DEF taskVars, apiVars
<1>1. Stored
  BY DEF TypeOK, Stored
<1>2. /\ StatusOf(TRUE) \in Status \cap DiskStatus \cap {"completed", "failed"}
      /\ StatusOf(FALSE) \in Status \cap DiskStatus \cap {"completed", "failed"}
  BY DEF StatusOf, Status, DiskStatus
<1>3. ASSUME NEW save \in Phase, NEW emit \in Phase, NEW st \in DiskStatus,
             NEW ev \in {"completed", "failed"}, Report(i, save, emit, st, ev)
      PROVE  /\ phase' \in [Ids -> Phase]
             /\ writes' \in [Ids -> SUBSET DiskStatus]
             /\ events' \in [Ids -> Seq({"completed", "failed"})]
  <2>1. Append(events[i], ev) \in Seq({"completed", "failed"})
    BY AppendProperties DEF TypeOK
  <2>2. writes[i] \cup {st} \in SUBSET DiskStatus
    BY DEF TypeOK
  <2>3. phase' \in [Ids -> Phase]
    BY <1>3 DEF Report, TypeOK
  <2>4. writes' \in [Ids -> SUBSET DiskStatus]
    BY <1>3, <2>2 DEF Report, TypeOK
  <2>5. events' \in [Ids -> Seq({"completed", "failed"})]
    BY <1>3, <2>1 DEF Report, TypeOK
  <2> QED BY <2>3, <2>4, <2>5
<1>4. ASSUME Begin(i) PROVE TypeOK'
  BY <1>4 DEF Begin, TypeOK, Status, Phase
<1>5. ASSUME NeverRuns(i) PROVE TypeOK'
  BY <1>5 DEF NeverRuns, TypeOK, Phase
<1>6. ASSUME Launch(i) PROVE TypeOK'
  <2>1. writes[i] \cup {"active"} \in SUBSET DiskStatus
    BY DEF TypeOK, DiskStatus
  <2>2. writes' \in [Ids -> SUBSET DiskStatus]
    BY <1>6, <2>1 DEF Launch, TypeOK
  <2>3. phase' \in [Ids -> Phase]
    BY <1>6 DEF Launch, TypeOK, Phase
  <2> QED BY <1>6, <2>2, <2>3 DEF Launch, TypeOK
<1>7. ASSUME Opened(i) \/ Rerun(i) PROVE TypeOK'
  BY <1>7 DEF Opened, Rerun, TypeOK, Phase
<1>8. ASSUME Resurrect(i) PROVE TypeOK'
  <2>1. tries' \in [Ids -> 0 .. Resurrections]
    BY <1>8, ResurrectionAssumption DEF Resurrect, TypeOK
  <2>2. phase' \in [Ids -> Phase] /\ verdict' \in [Ids -> Verdict]
    BY <1>8 DEF Resurrect, TypeOK, Phase, Verdict
  <2> QED BY <1>8, <2>1, <2>2 DEF Resurrect, TypeOK
<1>9. ASSUME NEW ok \in BOOLEAN, Finish(i, ok) PROVE TypeOK'
  <2>1. Stored'
    BY <1>1, <1>9, RecordStep DEF Finish
  <2>2. /\ phase' \in [Ids -> Phase]
        /\ writes' \in [Ids -> SUBSET DiskStatus]
        /\ events' \in [Ids -> Seq({"completed", "failed"})]
    BY <1>2, <1>3, <1>9 DEF Finish, Phase
  <2>3. verdict' \in [Ids -> Verdict] /\ status' \in [Ids -> Status]
    BY <1>2, <1>9 DEF Finish, TypeOK, Verdict
  <2> QED BY <1>9, <2>1, <2>2, <2>3 DEF Finish, TypeOK, Stored
<1>10. ASSUME Raise(i) PROVE TypeOK'
  <2>1. Stored'
    BY <1>1, <1>10, RecordStep DEF Raise
  <2>2. /\ phase' \in [Ids -> Phase]
        /\ writes' \in [Ids -> SUBSET DiskStatus]
        /\ events' \in [Ids -> Seq({"completed", "failed"})]
    BY <1>3, <1>10 DEF Raise, Phase, DiskStatus
  <2>3. status' \in [Ids -> Status]
    BY <1>10 DEF Raise, TypeOK, Status
  <2> QED BY <1>10, <2>1, <2>2, <2>3 DEF Raise, TypeOK, Stored
<1>11. ASSUME Saved(i) PROVE TypeOK'
  <2>1. \A ev \in {"completed", "failed"} : Append(events[i], ev) \in Seq({"completed", "failed"})
    BY AppendProperties DEF TypeOK
  <2>2. PICK ev \in {"completed", "failed"} : events' = [events EXCEPT ![i] = Append(@, ev)]
    BY <1>11 DEF Saved, StatusOf
  <2>3. events' \in [Ids -> Seq({"completed", "failed"})]
    BY <2>1, <2>2 DEF TypeOK
  <2>4. phase' \in [Ids -> Phase]
    BY <1>11 DEF Saved, TypeOK, Phase
  <2> QED BY <1>11, <2>3, <2>4 DEF Saved, TypeOK
<1>12. ASSUME Cleanup(i)
       PROVE  /\ waiters' \subseteq Ids /\ status' \in [Ids -> Status] /\ phase' \in [Ids -> Phase]
              /\ tries' \in [Ids -> 0 .. Resurrections] /\ verdict' \in [Ids -> Verdict]
              /\ events' \in [Ids -> Seq({"completed", "failed"})] /\ cuts' \in [Ids -> SUBSET Phase]
  <2>1. <<>> \in Seq({"completed", "failed"}) /\ 0 \in 0 .. Resurrections
    BY EmptySeq, ResurrectionAssumption
  <2> QED BY <1>12, <2>1 DEF Cleanup, TypeOK, Status, Phase, Verdict
<1>13. ASSUME End(i) PROVE TypeOK'
  BY <1>12, <1>13 DEF End, TypeOK
<1>14. ASSUME NEW st \in SUBSET {"cancelled"}, CutWrite(i, st)
       PROVE  writes' \in [Ids -> SUBSET DiskStatus]
  <2>1. PICK ws \in SUBSET DiskStatus : writes' = [writes EXCEPT ![i] = ws]
    <3>1. writes[i] \cup st \in SUBSET DiskStatus
          /\ \A w \in writes[i] : (writes[i] \ {w}) \cup st \in SUBSET DiskStatus
      BY DEF TypeOK, DiskStatus
    <3> QED BY <1>14, <3>1 DEF CutWrite
  <2> QED BY <2>1 DEF TypeOK
<1>15. ASSUME CancelHits(i) PROVE TypeOK'
  <2>1. Stored'
    BY <1>1, <1>15, RecordStep DEF CancelHits
  <2>2. Append(events[i], "failed") \in Seq({"completed", "failed"})
    BY AppendProperties DEF TypeOK
  <2>3. events' \in [Ids -> Seq({"completed", "failed"})]
    BY <1>15, <2>2 DEF CancelHits, TypeOK
  <2>4. phase' \in [Ids -> Phase]
    BY <1>15 DEF CancelHits, TypeOK, Phase
  <2>5. status' \in [Ids -> Status] /\ verdict' \in [Ids -> Verdict]
    BY <1>15 DEF CancelHits, TypeOK, Status, Verdict
  <2>6. writes' \in [Ids -> SUBSET DiskStatus]
    BY <1>14, <1>15 DEF CancelHits, TypeOK
  <2>7. cuts' \in [Ids -> SUBSET Phase]
    BY <1>15 DEF CancelHits, TypeOK
  <2> QED BY <1>15, <2>1, <2>3, <2>4, <2>5, <2>6, <2>7 DEF CancelHits, TypeOK, Stored
<1>16. ASSUME CancelHitsHandler(i) PROVE TypeOK'
  <2>1. writes' \in [Ids -> SUBSET DiskStatus]
    BY <1>14, <1>16 DEF CancelHitsHandler
  <2> QED BY <1>12, <1>16, <2>1 DEF CancelHitsHandler, TypeOK
<1>17. ASSUME WriteLands(i) PROVE TypeOK'
  BY <1>17 DEF WriteLands, TypeOK
<1> QED BY <1>4, <1>5, <1>6, <1>7, <1>8, <1>9, <1>10, <1>11, <1>13, <1>15, <1>16, <1>17

LEMMA NextType == TypeOK /\ [Next]_vars => TypeOK'
<1> SUFFICES ASSUME TypeOK, [Next]_vars PROVE TypeOK'
  OBVIOUS
<1>1. CASE UNCHANGED vars
  BY <1>1 DEF vars, TypeOK
<1> QED BY <1>1, ApiType, TaskType DEF Next

\* Every variable has its type.
THEOREM StreamTyped == Spec => []TypeOK
  BY InitType, NextType, PTL DEF Spec
-----------------------------------------------------------------------------
Single == \A i, j \in Ids : Live(i) /\ Live(j) => i = j

Outcome(i) == StatusOf(verdict[i] = "success")

\* What a task has recorded and published when it is at each of its awaits.
Stage(i) ==
  /\ phase[i] \in {"none", "created", "starting", "opening", "executing", "cooldown"} =>
       events[i] = <<>> /\ cuts[i] = {}
  /\ phase[i] = "saving" =>
       events[i] = <<>> /\ cuts[i] = {} /\ LastIs(i, verdict[i] = "success")
  /\ phase[i] = "emitting" =>
       events[i] = <<Outcome(i)>> /\ cuts[i] = {} /\ LastIs(i, verdict[i] = "success")
  /\ phase[i] = "salvaging" =>
       /\ "emitting" \notin cuts[i] => events[i] = <<>>
       /\ \E ok \in BOOLEAN : LastIs(i, ok)
       /\ cuts[i] = {} => LastIs(i, FALSE)
  /\ phase[i] = "notifying" =>
       /\ "emitting" \notin cuts[i] => Len(events[i]) = 1
       /\ \E ok \in BOOLEAN : LastIs(i, ok)
       /\ cuts[i] = {} => events[i] = <<"failed">> /\ LastIs(i, FALSE)
  /\ cuts[i] \subseteq {"starting", "opening", "executing", "cooldown", "saving", "emitting"}
  /\ Live(i) /\ status[i] = "cancelling" => i \in cancelReq
  /\ phase[i] = "dead" => status[i] # "none"
  /\ i \notin used => writes[i] = {} /\ phase[i] = "none"

OnDisk(i, st) == writes[i] \subseteq {st} /\ (st \notin writes[i] => disk[i] = st)

\* What an execution that owns its session has on disk, or still writes there,
\* unless it was cut while it waited for a write.
Owned(i) ==
  i \notin shared =>
    /\ phase[i] \in {"created", "starting", "executing", "cooldown"} => writes[i] = {}
    /\ phase[i] = "opening" => writes[i] \subseteq {"active"}
    /\ phase[i] = "saving" => OnDisk(i, Outcome(i))
    /\ phase[i] = "emitting" => writes[i] = {} /\ disk[i] = Outcome(i)
    /\ phase[i] = "salvaging" /\ cuts[i] \cap {"opening", "saving"} = {} =>
         LET st == IF cuts[i] = {} THEN "failed" ELSE "cancelled"
         IN  OnDisk(i, st) /\ status[i] \in {st, "cancelling"}
    /\ phase[i] = "notifying" /\ cuts[i] \cap {"opening", "saving"} = {} =>
         writes[i] = {} /\ disk[i] = IF cuts[i] = {} THEN "failed" ELSE "cancelled"

Consistent == \A i \in Ids : Stage(i) /\ Owned(i)

IInv == TypeOK /\ Bookkept /\ Single /\ Consistent

\* A step of one task leaves what the others did alone, and their results
\* while they are alive.
Untouched(j) ==
  /\ phase'[j] = phase[j] /\ events'[j] = events[j] /\ cuts'[j] = cuts[j]
  /\ verdict'[j] = verdict[j] /\ status'[j] = status[j]
  /\ writes'[j] = writes[j] /\ disk'[j] = disk[j]
  /\ (j \in shared' <=> j \in shared) /\ (j \in used' <=> j \in used)
  /\ (j \in cancelReq' <=> j \in cancelReq)
  /\ Live(j) => results' = results

LEMMA UntouchedStep ==
  ASSUME NEW j \in Ids, Stage(j), Owned(j), Untouched(j)
  PROVE  Stage(j)' /\ Owned(j)'
<1>1. CASE Live(j)
  <2>1. Stage(j)'
    BY <1>1 DEF Untouched, Stage, Live, LastIs, Outcome
  <2>2. Owned(j)'
    BY <1>1 DEF Untouched, Owned, OnDisk, Outcome
  <2> QED BY <2>1, <2>2
<1>2. CASE ~Live(j)
  <2>1. phase[j] \in {"none", "dead"} /\ phase'[j] = phase[j]
    BY <1>2 DEF Live, Untouched
  <2>2. Stage(j)'
    BY <2>1 DEF Untouched, Stage, Live
  <2>3. Owned(j)'
    BY <2>1 DEF Owned
  <2> QED BY <2>2, <2>3
<1> QED BY <1>1, <1>2

LEMMA InitIInv == Init => IInv
<1> SUFFICES ASSUME Init PROVE IInv
  OBVIOUS
<1>1. Single
  BY DEF Init, Single, Live
<1>2. Consistent
  BY DEF Init, Consistent, Stage, Owned, Live
<1> QED BY <1>1, <1>2, InitType, InitBookkept DEF IInv

LEMMA NextSingle ==
  ASSUME Bookkept, Single, [Next]_vars
  PROVE  Single'
<1> DEFINE alive == {j \in Ids : Live(j)}
<1>1. \A i, j \in alive : i = j
  BY DEF Single
<1>2. [Slot!Next]_Slot!vars
  BY NextBookkept
<1>3. alive' \subseteq alive \/ \E i \in Ids : alive' = {i}
  BY <1>2 DEF Slot!Next, Slot!vars, Slot!Open, Slot!Close, Slot!Accept, Slot!Leave
<1>4. \A i, j \in alive' : i = j
  BY <1>1, <1>3
<1> QED BY <1>4 DEF Single

\* The interface touches a task only by requesting its cancellation, and
\* admits one under an id that has nothing on its way to the disk.
LEMMA RequestConsistent ==
  ASSUME TypeOK, Consistent, NEW is \in SUBSET Ids, RequestCancel(is), \A i \in is : Live(i),
         UNCHANGED <<phase, taskVars, used>>
  PROVE  Consistent'
<1> USE DEF taskVars
<1> SUFFICES ASSUME NEW i \in Ids PROVE Stage(i)' /\ Owned(i)'
  BY DEF Consistent
<1>1. Stage(i) /\ Owned(i)
  BY DEF Consistent
<1>2. CASE i \notin is
  <2>1. Untouched(i)
    BY <1>2 DEF RequestCancel, Untouched, TypeOK
  <2> QED BY <1>1, <2>1, UntouchedStep
<1>3. CASE i \in is
  <2>1. /\ i \in cancelReq'
        /\ status'[i] = status[i] \/ status'[i] = "cancelling"
    BY <1>3 DEF RequestCancel, TypeOK
  <2>2. Stage(i)'
    BY <1>1, <2>1 DEF Stage, Live, LastIs, Outcome
  <2>3. Owned(i)'
    BY <1>1, <2>1 DEF Owned, OnDisk, Outcome
  <2> QED BY <2>2, <2>3
<1> QED BY <1>2, <1>3

LEMMA AdmitConsistent ==
  ASSUME TypeOK, Consistent, NEW i \in Ids, Admit(i)
  PROVE  Consistent'
<1> SUFFICES ASSUME NEW j \in Ids PROVE Stage(j)' /\ Owned(j)'
  BY DEF Consistent
<1>1. Stage(j) /\ Owned(j)
  BY DEF Consistent
<1>2. CASE j # i
  <2>1. Untouched(j)
    BY <1>2 DEF Admit, Untouched, TypeOK
  <2> QED BY <1>1, <2>1, UntouchedStep
<1>3. CASE j = i
  <2>1. status[i] = "none" /\ ~Live(i)
    BY DEF Admit, MayAdmit, Blocking
  <2>2. phase[i] = "none"
    BY <1>1, <1>3, <2>1 DEF Stage, Live
  <2>3. events[i] = <<>> /\ cuts[i] = {} /\ (i \notin used => writes[i] = {})
    BY <1>1, <1>3, <2>2 DEF Stage
  <2>4. /\ phase'[i] = "created" /\ status'[i] = "pending" /\ i \in used'
        /\ UNCHANGED <<events, cuts, writes>>
        /\ i \in shared' \/ i \notin used
    BY DEF Admit, TypeOK
  <2>5. Stage(i)'
    BY <2>3, <2>4 DEF Stage, Live
  <2>6. Owned(i)'
    BY <2>3, <2>4 DEF Owned
  <2> QED BY <1>3, <2>5, <2>6
<1> QED BY <1>2, <1>3

LEMMA ApiConsistent ==
  ASSUME TypeOK, Consistent,
         \/ Start \/ Stop \/ ExecuteAtOnce
         \/ \E c \in Callers : ExecuteCancels(c) \/ ExecuteResumes(c)
         \/ \E i \in Ids : CancelExecution(i) \/ WaitForCompletion(i)
  PROVE  Consistent'
<1> USE DEF taskVars
<1>1. ASSUME UNCHANGED <<status, phase, cancelReq, taskVars, used>> PROVE Consistent'
  <2>1. ASSUME NEW j \in Ids PROVE Untouched(j)
    BY <1>1 DEF Untouched
  <2> QED BY <2>1, UntouchedStep DEF Consistent
<1>2. ASSUME Start PROVE Consistent'
  BY <1>1, <1>2 DEF Start
<1>3. ASSUME Stop PROVE Consistent'
  BY <1>3, RequestConsistent DEF Stop
<1>4. ASSUME ExecuteAtOnce PROVE Consistent'
  BY <1>4, AdmitConsistent DEF ExecuteAtOnce
<1>5. ASSUME NEW c \in Callers, ExecuteCancels(c) PROVE Consistent'
  BY <1>5, RequestConsistent DEF ExecuteCancels
<1>6. ASSUME NEW c \in Callers, ExecuteResumes(c) PROVE Consistent'
  BY <1>1, <1>6, AdmitConsistent DEF ExecuteResumes
<1>7. ASSUME NEW i \in Ids, CancelExecution(i) PROVE Consistent'
  BY <1>7, RequestConsistent DEF CancelExecution
<1>8. ASSUME NEW i \in Ids, WaitForCompletion(i) PROVE Consistent'
  BY <1>1, <1>8 DEF WaitForCompletion
<1> QED BY <1>2, <1>3, <1>4, <1>5, <1>6, <1>7, <1>8

\* A step of i's task leaves the other tasks alone; only when it is alive, and
\* so alone, it may touch the store of results.
LEMMA OthersUntouched ==
  ASSUME IInv, NEW i \in Ids, Live(i) \/ results' = results, NEW j \in Ids \ {i},
         \/ Begin(i) \/ NeverRuns(i) \/ Launch(i) \/ Opened(i) \/ Resurrect(i) \/ Rerun(i)
         \/ Finish(i, TRUE) \/ Finish(i, FALSE) \/ Raise(i) \/ Saved(i) \/ End(i)
         \/ CancelHits(i) \/ CancelHitsHandler(i) \/ WriteLands(i)
  PROVE  Untouched(j)
<1> USE DEF taskVars, apiVars
<1>1. Live(j) => results' = results
  BY DEF IInv, Single
<1>2. CASE Begin(i) \/ NeverRuns(i) \/ Launch(i) \/ Opened(i) \/ Resurrect(i) \/ Rerun(i)
  BY <1>1, <1>2 DEF IInv, TypeOK, Untouched, Begin, NeverRuns, Launch, Opened, Resurrect, Rerun
<1>3. CASE Finish(i, TRUE) \/ Finish(i, FALSE) \/ Raise(i)
  BY <1>1, <1>3 DEF IInv, TypeOK, Untouched, Finish, Raise, Report
<1>4. CASE Saved(i)
  BY <1>1, <1>4 DEF IInv, TypeOK, Untouched, Saved
<1>5. CASE End(i) \/ CancelHitsHandler(i)
  BY <1>1, <1>5 DEF IInv, TypeOK, Untouched, End, CancelHitsHandler, Cleanup, CutWrite
<1>6. CASE CancelHits(i)
  BY <1>1, <1>6 DEF IInv, TypeOK, Untouched, CancelHits, CutWrite
<1>7. CASE WriteLands(i)
  BY <1>1, <1>7 DEF IInv, TypeOK, Untouched, WriteLands
<1> QED BY <1>2, <1>3, <1>4, <1>5, <1>6, <1>7

\* Each step of i's task takes it from one stage to the next.
LEMMA OwnStep ==
  ASSUME IInv, NEW i \in Ids,
         \/ Begin(i) \/ NeverRuns(i) \/ Launch(i) \/ Opened(i) \/ Resurrect(i) \/ Rerun(i)
         \/ Finish(i, TRUE) \/ Finish(i, FALSE) \/ Raise(i) \/ Saved(i) \/ End(i)
         \/ CancelHits(i) \/ CancelHitsHandler(i) \/ WriteLands(i)
  PROVE  Stage(i)' /\ Owned(i)'
<1> USE DEF taskVars, apiVars
<1>1. TypeOK /\ Stored /\ Stage(i) /\ Owned(i) /\ (Live(i) => status[i] # "none")
  BY DEF IInv, Consistent, TypeOK, Stored, Bookkept, TrackedWhileAlive
<1>2. ASSUME Begin(i) PROVE Stage(i)' /\ Owned(i)'
  <2>1. phase[i] = "created" /\ phase'[i] = "starting" /\ status'[i] = "running"
    BY <1>1, <1>2 DEF Begin, CanRun, TypeOK
  <2>2. Stage(i)'
    BY <1>1, <1>2, <2>1 DEF Begin, Stage, Live
  <2>3. Owned(i)'
    BY <1>1, <1>2, <2>1 DEF Begin, Owned
  <2> QED BY <2>2, <2>3
<1>3. ASSUME NeverRuns(i) PROVE Stage(i)' /\ Owned(i)'
  <2>1. phase[i] = "created" /\ phase'[i] = "dead" /\ status'[i] # "none"
    BY <1>1, <1>3 DEF NeverRuns, TypeOK, Live
  <2> QED BY <1>1, <1>3, <2>1 DEF NeverRuns, Stage, Owned, Live
<1>4. ASSUME Launch(i) PROVE Stage(i)' /\ Owned(i)'
  <2>1. /\ phase[i] = "starting" /\ i \notin cancelReq
        /\ \/ i \in shared /\ phase'[i] = "executing" /\ writes' = writes
           \/ i \notin shared /\ phase'[i] = "opening" /\ writes'[i] = writes[i] \cup {"active"}
    BY <1>1, <1>4 DEF Launch, CanRun, TypeOK
  <2>2. Stage(i)'
    BY <1>1, <1>4, <2>1 DEF Launch, Stage, Live
  <2>3. Owned(i)'
    BY <1>1, <1>4, <2>1 DEF Launch, Owned
  <2> QED BY <2>2, <2>3
<1>5. ASSUME Opened(i) \/ Rerun(i) \/ Resurrect(i) PROVE Stage(i)' /\ Owned(i)'
  <2>1. /\ phase[i] \in {"opening", "executing", "cooldown"} /\ i \notin cancelReq
        /\ phase[i] = "opening" => "active" \notin writes[i]
        /\ phase'[i] \in {"executing", "cooldown"}
        /\ UNCHANGED <<status, cancelReq, events, cuts, writes, shared, used>>
    BY <1>1, <1>5 DEF Opened, Rerun, Resurrect, CanRun, TypeOK
  <2>2. Stage(i)'
    BY <1>1, <2>1 DEF Stage, Live
  <2>3. Owned(i)'
    BY <1>1, <2>1 DEF Owned
  <2> QED BY <2>2, <2>3
<1>6. ASSUME NEW ok \in BOOLEAN, Finish(i, ok) PROVE Stage(i)' /\ Owned(i)'
  <2>1. LastIs(i, ok)'
    BY <1>1, <1>6, RecordStep DEF Finish
  <2>2. /\ phase[i] = "executing" /\ status'[i] = StatusOf(ok)
        /\ verdict'[i] = (IF ok THEN "success" ELSE "failure")
        /\ UNCHANGED <<cuts, cancelReq, shared, disk, used>>
    BY <1>1, <1>6 DEF Finish, CanRun, TypeOK
  <2>3. cuts[i] = {} /\ events[i] = <<>> /\ i \in used /\ (i \notin shared => writes[i] = {})
    BY <1>1, <2>2 DEF Stage, Owned
  <2>4. (verdict'[i] = "success") = ok /\ Outcome(i)' = StatusOf(ok)
    BY <2>2 DEF Outcome
  <2>5. Report(i, "saving", "emitting", StatusOf(ok), StatusOf(ok))
    BY <1>6 DEF Finish
  <2>6. CASE i \in shared
    <3>1. phase'[i] = "emitting" /\ events'[i] = <<StatusOf(ok)>>
      BY <1>1, <2>3, <2>5, <2>6 DEF Report, TypeOK
    <3> QED BY <2>1, <2>2, <2>3, <2>4, <2>6, <3>1 DEF Stage, Owned, Live, StatusOf
  <2>7. CASE i \notin shared
    <3>1. phase'[i] = "saving" /\ events'[i] = <<>> /\ writes'[i] = {StatusOf(ok)}
      BY <1>1, <2>3, <2>5, <2>7 DEF Report, TypeOK
    <3> QED BY <2>1, <2>2, <2>3, <2>4, <3>1 DEF Stage, Owned, OnDisk, Live, StatusOf
  <2> QED BY <2>6, <2>7
<1>7. ASSUME Raise(i) PROVE Stage(i)' /\ Owned(i)'
  <2>1. LastIs(i, FALSE)'
    BY <1>1, <1>7, RecordStep DEF Raise
  <2>2. /\ phase[i] \in {"starting", "opening", "executing", "cooldown"}
        /\ phase[i] = "opening" => "active" \notin writes[i]
        /\ status'[i] = "failed"
        /\ UNCHANGED <<cuts, cancelReq, shared, disk, used>>
    BY <1>1, <1>7 DEF Raise, CanRun, TypeOK
  <2>3. cuts[i] = {} /\ events[i] = <<>> /\ i \in used /\ (i \notin shared => writes[i] = {})
    BY <1>1, <2>2 DEF Stage, Owned
  <2>4. Report(i, "salvaging", "notifying", "failed", "failed")
    BY <1>7 DEF Raise
  <2>5. CASE i \in shared
    <3>1. phase'[i] = "notifying" /\ events'[i] = <<"failed">>
      BY <1>1, <2>3, <2>4, <2>5 DEF Report, TypeOK
    <3> QED BY <2>1, <2>2, <2>3, <2>5, <3>1 DEF Stage, Owned, Live
  <2>6. CASE i \notin shared
    <3>1. phase'[i] = "salvaging" /\ events'[i] = <<>> /\ writes'[i] = {"failed"}
      BY <1>1, <2>3, <2>4, <2>6 DEF Report, TypeOK
    <3> QED BY <2>1, <2>2, <2>3, <3>1 DEF Stage, Owned, OnDisk, Live
  <2> QED BY <2>5, <2>6
<1>8. ASSUME Saved(i) PROVE Stage(i)' /\ Owned(i)'
  <2>1. UNCHANGED <<status, cancelReq, shared, verdict, results, disk, writes, cuts, used>>
    BY <1>8 DEF Saved
  <2>2. CASE phase[i] = "saving"
    <3>1. /\ phase'[i] = "emitting" /\ events'[i] = <<Outcome(i)>> /\ Outcome(i) \notin writes[i]
          /\ i \notin cancelReq
      BY <1>1, <1>8, <2>2 DEF Saved, CanRun, TypeOK, Stage, Outcome
    <3>2. Stage(i)'
      BY <1>1, <2>1, <2>2, <3>1 DEF Stage, Live, LastIs, Outcome
    <3>3. Owned(i)'
      BY <1>1, <2>1, <2>2, <3>1 DEF Owned, OnDisk, Outcome
    <3> QED BY <3>2, <3>3
  <2>3. CASE phase[i] = "salvaging"
    <3>1. /\ phase'[i] = "notifying" /\ events'[i] = Append(events[i], "failed")
          /\ \A st \in {"failed", "cancelled"} : status[i] = st => st \notin writes[i]
          /\ i \notin cancelReq /\ Live(i)
      BY <1>1, <1>8, <2>3 DEF Saved, CanRun, TypeOK, Live
    <3>2. status[i] # "cancelling"
      BY <1>1, <3>1 DEF Stage
    <3>3. "emitting" \notin cuts[i] => events'[i] = <<"failed">> /\ Len(events'[i]) = 1
      <4>1. Append(<<>>, "failed") = <<"failed">> /\ Len(<<"failed">>) = 1
        OBVIOUS
      <4>2. "emitting" \notin cuts[i] => events[i] = <<>>
        BY <1>1, <2>3 DEF Stage
      <4> QED BY <3>1, <4>1, <4>2
    <3>4. Stage(i)'
      BY <1>1, <2>1, <2>3, <3>1, <3>2, <3>3 DEF Stage, Live, LastIs
    <3>5. Owned(i)'
      BY <1>1, <2>1, <2>3, <3>1, <3>2 DEF Owned, OnDisk
    <3> QED BY <3>4, <3>5
  <2> QED BY <1>8, <2>2, <2>3 DEF Saved, CanRun
<1>9. ASSUME End(i) \/ CancelHitsHandler(i) PROVE Stage(i)' /\ Owned(i)'
  <2>1. /\ phase[i] \in {"emitting", "salvaging", "notifying"} /\ phase'[i] = "none"
        /\ events'[i] = <<>> /\ cuts'[i] = {} /\ UNCHANGED used
    BY <1>1, <1>9 DEF End, CancelHitsHandler, Cleanup, CanRun, TypeOK
  <2> QED BY <1>1, <2>1 DEF Stage, Owned, Live
<1>10. ASSUME CancelHits(i) PROVE Stage(i)' /\ Owned(i)'
  <2>1. \E ok \in BOOLEAN : LastIs(i, ok)'
    BY <1>1, <1>10, RecordStep DEF CancelHits
  <2>2. /\ phase[i] \in {"starting", "opening", "executing", "cooldown", "saving", "emitting"}
        /\ status'[i] = "cancelled" /\ cuts'[i] = cuts[i] \cup {phase[i]}
        /\ UNCHANGED <<shared, disk, used>>
    BY <1>1, <1>10 DEF CancelHits, TypeOK
  <2>3. cuts[i] = {} /\ i \in used /\ (phase[i] # "emitting" => events[i] = <<>>)
    BY <1>1, <2>2 DEF Stage
  <2>4. CASE i \in shared
    <3>1. phase'[i] = "notifying" /\ events'[i] = Append(events[i], "failed")
      BY <1>1, <1>10, <2>4 DEF CancelHits, TypeOK
    <3>2. phase[i] # "emitting" => Len(events'[i]) = 1
      BY <2>3, <3>1
    <3> QED BY <2>1, <2>2, <2>3, <2>4, <3>1, <3>2 DEF Stage, Owned, Live
  <2>5. CASE i \notin shared
    <3>1. phase'[i] = "salvaging" /\ events' = events /\ CutWrite(i, {"cancelled"})
      BY <1>1, <1>10, <2>5 DEF CancelHits, TypeOK
    <3>2. phase[i] \notin {"opening", "saving"} => writes[i] = {}
      BY <1>1, <2>2, <2>5 DEF Owned
    <3>3. phase[i] \notin {"opening", "saving"} => writes'[i] = {"cancelled"}
      BY <1>1, <2>2, <3>1, <3>2 DEF CutWrite, TypeOK
    <3>4. Stage(i)'
      BY <2>1, <2>2, <2>3, <3>1 DEF Stage, Live
    <3>5. Owned(i)'
      BY <2>2, <2>3, <3>1, <3>3 DEF Owned, OnDisk
    <3> QED BY <3>4, <3>5
  <2> QED BY <2>4, <2>5
<1>11. ASSUME WriteLands(i) PROVE Stage(i)' /\ Owned(i)'
  <2>1. PICK w \in writes[i] : disk'[i] = w /\ writes'[i] = writes[i] \ {w}
    BY <1>1, <1>11 DEF WriteLands, TypeOK
  <2>2. UNCHANGED <<phase, status, events, cuts, verdict, results, shared, used, cancelReq>>
    BY <1>11 DEF WriteLands
  <2>3. Stage(i)'
    BY <1>1, <2>1, <2>2 DEF Stage, Live, LastIs, Outcome
  <2>4. Owned(i)'
    BY <1>1, <2>1, <2>2 DEF Owned, OnDisk, Outcome
  <2> QED BY <2>3, <2>4
<1> QED BY <1>2, <1>3, <1>4, <1>5, <1>6, <1>7, <1>8, <1>9, <1>10, <1>11

LEMMA NextIInv == IInv /\ [Next]_vars => IInv'
<1> SUFFICES ASSUME IInv, [Next]_vars PROVE IInv'
  OBVIOUS
<1>1. TypeOK' /\ Bookkept' /\ Single'
  BY NextType, NextBookkept, NextSingle DEF IInv
<1>2. ASSUME NEW i \in Ids,
             \/ Begin(i) \/ NeverRuns(i) \/ Launch(i) \/ Opened(i) \/ Resurrect(i) \/ Rerun(i)
             \/ Finish(i, TRUE) \/ Finish(i, FALSE) \/ Raise(i) \/ Saved(i) \/ End(i)
             \/ CancelHits(i) \/ CancelHitsHandler(i) \/ WriteLands(i)
      PROVE  Consistent'
  <2>1. Stage(i)' /\ Owned(i)'
    BY <1>2, OwnStep
  <2>2. Live(i) \/ results' = results
    BY <1>2 DEF WriteLands, Live, CanRun, Begin, NeverRuns, Launch, Opened, Resurrect, Rerun,
                Finish, Raise, Saved, End, CancelHits, CancelHitsHandler
  <2>3. ASSUME NEW j \in Ids \ {i} PROVE Stage(j)' /\ Owned(j)'
    <3>1. Untouched(j)
      BY <1>2, <2>2, OthersUntouched
    <3> QED BY <3>1, UntouchedStep DEF IInv, Consistent
  <2> QED BY <2>1, <2>3 DEF Consistent
<1>3. CASE UNCHANGED vars
  <2>1. ASSUME NEW j \in Ids PROVE Untouched(j)
    BY <1>3 DEF vars, Untouched
  <2> QED BY <1>1, <2>1, UntouchedStep DEF IInv, Consistent
<1>4. CASE Next
  <2>1. Consistent'
    BY <1>2, <1>4, ApiConsistent DEF Next, IInv
  <2> QED BY <1>1, <2>1 DEF IInv
<1> QED BY <1>3, <1>4

\* A waiter is woken, and a task leaves, only by the finally clause.
LEMMA Leaving ==
  ASSUME TypeOK, [Next]_vars, NEW i \in Ids,
         i \in waiters \ waiters' \/ (Live(i) /\ phase'[i] = "none")
  PROVE  /\ End(i) \/ CancelHitsHandler(i)
         /\ UNCHANGED results
         /\ phase[i] \in {"emitting", "salvaging", "notifying"}
<1> USE DEF taskVars, apiVars
<1>1. SUFFICES End(i) \/ CancelHitsHandler(i)
  BY DEF End, CancelHitsHandler, CanRun
<1>2. i \in waiters \ waiters' \/ phase'[i] # phase[i]
  BY DEF Live
<1>3. CASE \/ Start \/ Stop \/ ExecuteAtOnce
           \/ \E c \in Callers : ExecuteCancels(c) \/ ExecuteResumes(c)
           \/ \E j \in Ids : CancelExecution(j) \/ WaitForCompletion(j)
  <2>1. ASSUME NEW j \in Ids, Admit(j) PROVE FALSE
    <3>1. waiters' = waiters /\ phase' = [phase EXCEPT ![j] = "created"] /\ ~Live(i)
      BY <2>1 DEF Admit, MayAdmit, Blocking
    <3> QED BY <3>1
  <2> QED BY <1>2, <1>3, <2>1 DEF Start, Stop, ExecuteAtOnce, ExecuteCancels, ExecuteResumes,
                                  CancelExecution, WaitForCompletion
<1>4. CASE \E j \in Ids :
             \/ Begin(j) \/ NeverRuns(j) \/ Launch(j) \/ Opened(j) \/ Resurrect(j) \/ Rerun(j)
             \/ Finish(j, TRUE) \/ Finish(j, FALSE) \/ Raise(j) \/ Saved(j) \/ CancelHits(j)
             \/ WriteLands(j)
  <2>1. PICK j \in Ids :
             \/ Begin(j) \/ NeverRuns(j) \/ Launch(j) \/ Opened(j) \/ Resurrect(j) \/ Rerun(j)
             \/ Finish(j, TRUE) \/ Finish(j, FALSE) \/ Raise(j) \/ Saved(j) \/ CancelHits(j)
             \/ WriteLands(j)
    BY <1>4
  <2>2. waiters' = waiters
    BY <2>1 DEF Begin, NeverRuns, Launch, Opened, Resurrect, Rerun, Finish, Raise, Saved,
                CancelHits, WriteLands
  <2>3. phase' = phase \/ \E p \in Phase \ {"none"} : phase' = [phase EXCEPT ![j] = p]
    BY <2>1 DEF Begin, NeverRuns, Launch, Opened, Resurrect, Rerun, Finish, Raise, Saved,
                CancelHits, WriteLands, Report, Phase
  <2> QED BY <1>2, <2>2, <2>3 DEF TypeOK
<1>5. CASE \E j \in Ids : End(j) \/ CancelHitsHandler(j)
  <2>1. PICK j \in Ids : End(j) \/ CancelHitsHandler(j)
    BY <1>5
  <2>2. waiters' = waiters \ {j} /\ phase' = [phase EXCEPT ![j] = "none"]
    BY <2>1 DEF End, CancelHitsHandler, Cleanup
  <2>3. i = j
    BY <1>2, <2>2 DEF TypeOK
  <2> QED BY <2>1, <2>3
<1>6. CASE UNCHANGED vars
  BY <1>2, <1>6 DEF vars
<1> QED BY <1>3, <1>4, <1>5, <1>6 DEF Next

\* Whoever awaits an execution finds its result when woken.
THEOREM Woken == Spec => WokenWithResult
<1>1. ASSUME IInv, [Next]_vars, NEW i \in waiters \ waiters'
      PROVE  \E k \in DOMAIN results' : results'[k].id = i
  <2>1. i \in Ids /\ TypeOK
    BY <1>1 DEF IInv, TypeOK
  <2>2. phase[i] \in {"emitting", "salvaging", "notifying"} /\ results' = results
    BY <1>1, <2>1, Leaving
  <2>3. PICK ok \in BOOLEAN : LastIs(i, ok)
    BY <1>1, <2>1, <2>2 DEF IInv, Consistent, Stage
  <2>4. Len(results) \in DOMAIN results /\ results[Len(results)].id = i
    BY <2>1, <2>3 DEF LastIs, TypeOK
  <2> QED BY <2>2, <2>4
<1>2. IInv /\ [Next]_vars
        => [\A i \in waiters \ waiters' : \E k \in DOMAIN results' : results'[k].id = i]_vars
  BY <1>1
<1> QED BY InitIInv, NextIInv, <1>2, PTL DEF Spec, WokenWithResult

\* A run reports its end exactly once, as the retained result says, unless a
\* cancellation was raised while it reported.
THEOREM Reported == Spec => ReportedOnce
<1>1. ASSUME IInv, [Next]_vars, NEW i \in Ids, Live(i), phase'[i] = "none",
             CutsAtEnd(i) \cap {"emitting", "salvaging"} = {}
      PROVE  /\ Len(events[i]) = 1
             /\ CutsAtEnd(i) = {} => \E k \in DOMAIN results :
                  results[k].id = i /\ events[i] = <<StatusOf(results[k].success)>>
  <2>1. TypeOK /\ Stage(i)
    BY <1>1 DEF IInv, Consistent
  <2>2. phase[i] \in {"emitting", "salvaging", "notifying"} /\ (End(i) \/ CancelHitsHandler(i))
    BY <1>1, <2>1, Leaving
  <2>3. phase[i] # "salvaging"
    BY <1>1, <2>2 DEF End, CancelHitsHandler, CanRun, CutsAtEnd
  <2>4. Len(events[i]) = 1
    <3>1. CASE phase[i] = "emitting"
      <4>1. events[i] = <<Outcome(i)>>
        BY <2>1, <3>1 DEF Stage
      <4> QED BY <4>1
    <3>2. CASE phase[i] = "notifying"
      BY <1>1, <2>1, <3>2 DEF Stage, CutsAtEnd
    <3> QED BY <2>2, <2>3, <3>1, <3>2
  <2>5. ASSUME CutsAtEnd(i) = {}
        PROVE  \E ok \in BOOLEAN : LastIs(i, ok) /\ events[i] = <<StatusOf(ok)>>
    BY <2>1, <2>2, <2>3, <2>5 DEF Stage, CutsAtEnd, Outcome, StatusOf
  <2>6. ASSUME NEW ok \in BOOLEAN, LastIs(i, ok)
        PROVE  Len(results) \in DOMAIN results /\ results[Len(results)].id = i
               /\ results[Len(results)].success = ok
    BY <2>1, <2>6 DEF LastIs, TypeOK
  <2> QED BY <2>4, <2>5, <2>6
<1> DEFINE Once == \A i \in Ids :
             Live(i) /\ phase'[i] = "none" /\ CutsAtEnd(i) \cap {"emitting", "salvaging"} = {}
               => /\ Len(events[i]) = 1
                  /\ CutsAtEnd(i) = {} => \E k \in DOMAIN results :
                       results[k].id = i /\ events[i] = <<StatusOf(results[k].success)>>
<1>2. IInv /\ [Next]_vars => [Once]_vars
  BY <1>1
<1> QED BY InitIInv, NextIInv, <1>2, PTL DEF Spec, ReportedOnce

\* A run that owns its session leaves on disk the status it ended with, unless
\* a cancellation was raised while it waited for a write.
THEOREM FinalState == Spec => FinalStateOnDisk
<1>1. ASSUME IInv, [Next]_vars, NEW i \in Ids \ shared, Live(i), phase'[i] = "none",
             CutsAtEnd(i) \cap {"opening", "saving", "salvaging"} = {}
      PROVE  /\ writes[i] = {}
             /\ IF CutsAtEnd(i) \subseteq {"notifying"}
                THEN \E k \in DOMAIN results :
                       results[k].id = i /\ disk[i] = StatusOf(results[k].success)
                ELSE disk[i] = "cancelled"
  <2>1. TypeOK /\ Stage(i) /\ Owned(i)
    BY <1>1 DEF IInv, Consistent
  <2>2. phase[i] \in {"emitting", "salvaging", "notifying"} /\ (End(i) \/ CancelHitsHandler(i))
    BY <1>1, <2>1, Leaving
  <2>3. phase[i] \in {"emitting", "notifying"} /\ (phase[i] = "emitting" => i \notin cancelReq)
    BY <1>1, <2>2 DEF End, CancelHitsHandler, CanRun, CutsAtEnd
  <2>4. cuts[i] \cap {"opening", "saving"} = {}
        /\ (CutsAtEnd(i) \subseteq {"notifying"} <=> cuts[i] = {})
    BY <1>1, <2>1, <2>3 DEF CutsAtEnd, Stage
  <2>5. writes[i] = {}
    BY <1>1, <2>1, <2>3, <2>4 DEF Owned
  <2>6. cuts[i] # {} => disk[i] = "cancelled"
    BY <1>1, <2>1, <2>3, <2>4 DEF Owned, Stage
  <2>7. ASSUME cuts[i] = {}
        PROVE  \E ok \in BOOLEAN : LastIs(i, ok) /\ disk[i] = StatusOf(ok)
    BY <1>1, <2>1, <2>3, <2>4, <2>7 DEF Stage, Owned, Outcome, StatusOf
  <2>8. ASSUME NEW ok \in BOOLEAN, LastIs(i, ok)
        PROVE  Len(results) \in DOMAIN results /\ results[Len(results)].id = i
               /\ results[Len(results)].success = ok
    BY <2>1, <2>8 DEF LastIs, TypeOK
  <2> QED BY <2>4, <2>5, <2>6, <2>7, <2>8
<1> DEFINE Final == \A i \in Ids \ shared :
             Live(i) /\ phase'[i] = "none"
               /\ CutsAtEnd(i) \cap {"opening", "saving", "salvaging"} = {}
               => /\ writes[i] = {}
                  /\ IF CutsAtEnd(i) \subseteq {"notifying"}
                     THEN \E k \in DOMAIN results :
                            results[k].id = i /\ disk[i] = StatusOf(results[k].success)
                     ELSE disk[i] = "cancelled"
<1>2. IInv /\ [Next]_vars => [Final]_vars
  BY <1>1
<1> QED BY InitIInv, NextIInv, <1>2, PTL DEF Spec, FinalStateOnDisk
=============================================================================
