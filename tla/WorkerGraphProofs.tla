-------------------------- MODULE WorkerGraphProofs --------------------------
(***************************************************************************)
(* Proofs about WorkerGraph, for every graph, executor and bound.          *)
(*                                                                         *)
(* Each property has an invariant of its own: the visits count the         *)
(* executions (BudgetInv); the run is done only for a reason that lasts    *)
(* (EarnInv); the workers that may still execute fit into what is left of  *)
(* the step limit (StepInv); every execution of a join uses up one of each *)
(* branch, which is nowhere else on its way (JoinInv); and what a polling  *)
(* run tracks has come through different branches, so that none of it is   *)
(* started twice and lost (QuietInv).                                      *)
(***************************************************************************)
EXTENDS WorkerGraph, FiniteSetTheorems, SequenceTheorems, TLAPS

\* The activations of one evaluation are well typed.
LEMMA OutgoingType ==
  ASSUME TypeOK, NEW n \in Nodes, NEW ok \in BOOLEAN, NEW decided, NEW visit \in Nat
  PROVE  OutgoingActivations(n, ok, decided, visit) \in SUBSET Activation
<1> DEFINE es   == Traversed(n, ok, decided)
           dsts == {e.dst : e \in es}
           own(d) == [id |-> <<n, visit>>, branches |-> dsts, via |-> d]
<1>1. es \subseteq graph.edges
  BY DEF Traversed, PriorityFilter, FirstOnly, OutEdges
<1>2. graph.edges \subseteq Edge
  BY GraphAssumption DEF TypeOK, IsGraph
<1>3. dsts \subseteq Nodes
  BY <1>1, <1>2 DEF Edge
<1>4. \A d \in dsts : own(d) \in Tag
  BY <1>3 DEF Tag
<1>5. inherited[n] \subseteq Tag
  BY DEF TypeOK
<1>6. \A d \in dsts :
        [dst |-> d, tags |-> inherited[n] \cup
           (IF Cardinality(dsts) > 1 THEN {own(d)} ELSE {})] \in Activation
  <2> HIDE DEF dsts, own
  <2> QED BY <1>3, <1>4, <1>5 DEF Activation
<1> QED BY <1>6 DEF OutgoingActivations

\* Routing well-typed activations keeps the workers' state well typed.
LEMMA RouteType ==
  ASSUME TypeOK, NEW acts \in SUBSET Activation, NEW tracked \in SUBSET Nodes,
         Route(acts, tracked)
  PROVE  /\ life' \in [Nodes -> Lifecycle]
         /\ attempt' \in [Nodes -> Nat]
         /\ inherited' \in [Nodes -> SUBSET Tag]
         /\ trackers' \in [Nodes -> SUBSET Tag]
         /\ lastActs' \in [Nodes -> SUBSET Activation]
         /\ guarded' \subseteq Nodes
         /\ timedOut' \subseteq Nodes
         /\ pending' \subseteq Nodes
         /\ deciding' = deciding /\ attempt' = attempt
<1> DEFINE accepted == Accepted(acts)
           dsts     == {x.dst : x \in accepted}
           act(n)   == Target(accepted, n)
           starts   == {n \in dsts : IsComplete(TrackersAfter(act(n)))}
           branches == {n \in starts : IsBranch(n, act(n).tags) /\ executor.timeout}
<1>1. accepted \subseteq Activation
  BY DEF Accepted
<1>2. dsts \subseteq Nodes /\ starts \subseteq Nodes /\ branches \subseteq Nodes
  BY <1>1 DEF Activation
<1>3. \A n \in dsts : act(n) \in Activation
  <2> HIDE DEF accepted
  <2> QED BY <1>1 DEF Target
<1>4. \A n \in dsts : act(n).tags \subseteq Tag /\ act(n).dst \in Nodes
  BY <1>3 DEF Activation
<1>5. \A n \in dsts : TrackersAfter(act(n)) \subseteq Tag
  <2> HIDE DEF act, dsts
  <2> QED BY <1>4 DEF TrackersAfter, TypeOK
<1>6. /\ life' = [n \in Nodes |-> IF n \in starts THEN "running"
                                  ELSE IF n \in dsts THEN "pending" ELSE life[n]]
      /\ trackers' = [n \in Nodes |-> IF n \in dsts THEN TrackersAfter(act(n))
                                      ELSE trackers[n]]
      /\ inherited' = [n \in Nodes |-> IF n \in starts THEN act(n).tags
                                       ELSE IF n \in dsts THEN {} ELSE inherited[n]]
      /\ lastActs' = [n \in Nodes |-> IF n \in dsts THEN {} ELSE lastActs[n]]
      /\ guarded' = (guarded \ dsts) \cup branches
      /\ timedOut' = timedOut \ dsts
      /\ pending' = (IF executor.bus THEN pending ELSE tracked \cup starts)
      /\ attempt' = attempt /\ deciding' = deciding
  BY DEF Route
<1>7. starts \subseteq dsts
  OBVIOUS
<1> HIDE DEF accepted, dsts, act, starts, branches
<1> QED BY <1>2, <1>4, <1>5, <1>6, <1>7 DEF TypeOK, Lifecycle

\* Leaving RUNNING with well-typed activations keeps the workers' state typed.
LEMMA LeaveType ==
  ASSUME TypeOK, NEW n \in Nodes, NEW lf \in Lifecycle, NEW acts \in SUBSET Activation,
         Leave(n, lf, acts)
  PROVE  /\ life' \in [Nodes -> Lifecycle]
         /\ attempt' \in [Nodes -> Nat]
         /\ deciding' \in [Nodes -> Answered]
         /\ inherited' \in [Nodes -> SUBSET Tag]
         /\ trackers' \in [Nodes -> SUBSET Tag]
         /\ lastActs' \in [Nodes -> SUBSET Activation]
         /\ guarded' \subseteq Nodes
         /\ timedOut' \subseteq Nodes
         /\ deciding'[n] = "no" /\ attempt'[n] = 0
         /\ \A m \in Nodes : m # n => deciding'[m] = deciding[m] /\ attempt'[m] = attempt[m]
  BY DEF TypeOK, Leave, Answered

\* A step may do anything to a worker whose edges no model is asked about then.
LEMMA FitsStep ==
  ASSUME AskedFits, NEW n \in Nodes, graph' = graph, deciding'[n] = "no",
         \A m \in Nodes : m # n => /\ deciding'[m] = deciding[m] /\ attempt'[m] = attempt[m]
                                   /\ visits'[m] = visits[m]
  PROVE  AskedFits'
  BY DEF AskedFits, Exceeds

LEMMA PublishType ==
  ASSUME TypeOK, NEW n \in Nodes, NEW ok \in BOOLEAN, NEW acts \in SUBSET Activation,
         Publish(n, visits[n], ok, acts)
  PROVE  inflight' \subseteq Event
<1>1. [worker |-> n, visit |-> visits[n], ok |-> ok, acts |-> acts] \in Event
  BY DEF TypeOK, Event
<1> QED BY <1>1 DEF TypeOK, Publish

LEMMA WriteType ==
  ASSUME TypeOK, NEW n \in Nodes, NEW ks, Write(n, ks)
  PROVE  /\ lastWriter' \in [Keys -> Nodes \cup {NoWriter}]
         /\ branchWriter' \in [Keys -> Nodes \cup {NoWriter}]
  BY DEF TypeOK, Write

LEMMA InitType == Init => TypeOK
<1> SUFFICES ASSUME Init PROVE TypeOK
  OBVIOUS
<1>1. IsGraph(graph)
  BY GraphAssumption DEF Init
<1>2. graph.entry \in Nodes /\ visits \in [Nodes -> Nat]
  BY <1>1 DEF Init, IsGraph
<1>3. path \in Seq(Nodes)
  BY DEF Init
<1>4. life \in [Nodes -> Lifecycle] /\ attempt \in [Nodes -> Nat]
  BY DEF Init, Lifecycle
<1>7. deciding \in [Nodes -> Answered] /\ AskedFits
  BY DEF Init, Answered, AskedFits
<1>5. /\ inherited \in [Nodes -> SUBSET Tag]
      /\ trackers \in [Nodes -> SUBSET Tag]
      /\ lastActs \in [Nodes -> SUBSET Activation]
  BY DEF Init
<1>6. /\ lastWriter \in [Keys -> Nodes \cup {NoWriter}]
      /\ branchWriter \in [Keys -> Nodes \cup {NoWriter}]
  BY DEF Init
<1> QED BY <1>2, <1>3, <1>4, <1>5, <1>6, <1>7 DEF Init, TypeOK, MainState

\* A visit too many, as it is counted.
Skips(n) ==
  /\ attempt[n] = 0 /\ Exceeds(n, visits[n] + 1)
  /\ visits' = [visits EXCEPT ![n] = @ + 1]

\* A model is asked after a visit too many was counted, or after an attempt.
LEMMA AskCases ==
  ASSUME TypeOK, NEW n \in Nodes, Ask(n)
  PROVE  \E did \in {"skipped", "ok", "failed"} :
           /\ deciding' = [deciding EXCEPT ![n] = did]
           /\ \/ did = "skipped" /\ Skips(n)
              \/ did # "skipped" /\ attempt[n] > 0 /\ visits' = visits
           /\ \/ UNCHANGED <<lastWriter, branchWriter>>
              \/ Write(n, Outputs(n)) /\ (executor.strategy = "error" => Conflicts(n) = {})
<1>1. graph.attempts[n] > 0
  BY GraphAssumption DEF TypeOK, IsGraph
<1> QED BY <1>1 DEF Ask, Skips

\* Whatever the models answer, the worker leaves with what it evaluated and
\* publishes that, publishes nothing of it, or does not publish at all.
LEMMA DecideCases ==
  ASSUME NEW n, Decide(n)
  PROVE  \E decided \in SUBSET Undecided(n), ok \in BOOLEAN :
           /\ \E lf \in {"completed", "failed"} :
                Leave(n, lf, OutgoingActivations(n, ok, decided, visits[n]))
           /\ \/ inflight' = inflight
              \/ \E acts \in {{}, OutgoingActivations(n, ok, decided, visits[n])} :
                   Publish(n, visits[n], ok, acts)
<1> DEFINE acts(ok, decided) == OutgoingActivations(n, ok, decided, visits[n])
<1>1. PICK decided \in SUBSET Undecided(n) :
        \/ /\ Leave(n, "completed", acts(TRUE, decided))
           /\ Publish(n, visits[n], TRUE, acts(TRUE, decided))
        \/ Leave(n, "failed", acts(FALSE, decided)) /\ Publish(n, visits[n], FALSE, {})
        \/ Leave(n, "completed", acts(TRUE, decided)) /\ inflight' = inflight
  BY DEF Decide
<1> HIDE DEF acts
<1> SUFFICES \E ok \in BOOLEAN :
               /\ \E lf \in {"completed", "failed"} : Leave(n, lf, acts(ok, decided))
               /\ \/ inflight' = inflight
                  \/ \E A \in {{}, acts(ok, decided)} : Publish(n, visits[n], ok, A)
  BY DEF acts
<1> QED BY <1>1

\* The types are preserved by every step.
LEMMA NextType == TypeOK /\ [Next]_vars => TypeOK'
<1> SUFFICES ASSUME TypeOK, [Next]_vars PROVE TypeOK'
  OBVIOUS
<1> USE DEF argVars, workerVars, gcVars, hubVars
<1>0. /\ IsGraph(graph) /\ graph.terminals \subseteq Nodes
      /\ AskedFits /\ visits \in [Nodes -> Nat]
  BY GraphAssumption DEF TypeOK, IsGraph
<1>22. ASSUME UNCHANGED <<graph, attempt, deciding, visits>> PROVE AskedFits'
  BY <1>0, <1>22 DEF AskedFits, Exceeds
<1>1. ASSUME NEW n \in Nodes, Start(n) PROVE TypeOK'
  <2>1. path' \in Seq(Nodes)
    BY <1>1 DEF TypeOK, Start
  <2>2. visits' \in [Nodes -> Nat] /\ attempt' \in [Nodes -> Nat]
    BY <1>1 DEF TypeOK, Start
  <2>3. AskedFits'
    BY <1>0, <1>1, FitsStep DEF TypeOK, Start, CanStep, Runs
  <2> QED BY <1>1, <2>1, <2>2, <2>3 DEF TypeOK, Start
<1>2. ASSUME NEW n \in Nodes, SkipVisit(n) PROVE TypeOK'
  <2>1. visits[n] + 1 \in Nat
    BY DEF TypeOK
  <2>2. PICK decided \in SUBSET Undecided(n) :
          Leave(n, "completed", OutgoingActivations(n, TRUE, decided, visits[n] + 1))
    BY <1>2 DEF SkipVisit
  <2>3. OutgoingActivations(n, TRUE, decided, visits[n] + 1) \in SUBSET Activation
    BY <2>1, OutgoingType
  <2>4. "completed" \in Lifecycle
    BY DEF Lifecycle
  <2>5. visits' \in [Nodes -> Nat]
    BY <1>2, <2>1 DEF TypeOK, SkipVisit
  <2>6. UNCHANGED <<argVars, path, lastWriter, branchWriter, hubVars>>
    BY <1>2 DEF SkipVisit
  <2>7. AskedFits'
    <3>1. graph' = graph /\ \A m \in Nodes : m # n => visits'[m] = visits[m]
      BY <1>0, <1>2 DEF SkipVisit
    <3> QED BY <1>0, <2>2, <2>3, <2>4, <3>1, LeaveType, FitsStep
  <2> QED BY <2>2, <2>3, <2>4, <2>5, <2>6, <2>7, LeaveType DEF TypeOK
<1>21. ASSUME NEW n \in Nodes, NEW lf \in Lifecycle, NEW acts \in SUBSET Activation,
              Leave(n, lf, acts), UNCHANGED <<graph, visits>>
       PROVE  AskedFits'
  BY <1>0, <1>21, LeaveType, FitsStep
<1>3. ASSUME NEW n \in Nodes, Succeed(n) PROVE TypeOK'
  <2>1. visits[n] \in Nat
    BY DEF TypeOK
  <2>2. PICK decided \in SUBSET Undecided(n) :
          LET acts == OutgoingActivations(n, TRUE, decided, visits[n])
          IN  Leave(n, "completed", acts) /\ Publish(n, visits[n], TRUE, acts)
    BY <1>3 DEF Succeed
  <2>3. OutgoingActivations(n, TRUE, decided, visits[n]) \in SUBSET Activation
    BY <2>1, OutgoingType
  <2>4. "completed" \in Lifecycle
    BY DEF Lifecycle
  <2>5. inflight' \subseteq Event
    BY <2>2, <2>3, PublishType
  <2>6. /\ lastWriter' \in [Keys -> Nodes \cup {NoWriter}]
        /\ branchWriter' \in [Keys -> Nodes \cup {NoWriter}]
    BY <1>3, WriteType DEF Succeed
  <2>7. AskedFits'
    BY <1>3, <1>21, <2>2, <2>3, <2>4 DEF Succeed
  <2> QED BY <1>3, <2>2, <2>3, <2>4, <2>5, <2>6, <2>7, LeaveType DEF TypeOK, Succeed
<1>4. ASSUME NEW n \in Nodes, ConflictCrash(n) PROVE TypeOK'
  <2>1. "failed" \in Lifecycle /\ {} \in SUBSET Activation
    BY DEF Lifecycle
  <2>2. inflight' \subseteq Event
    BY <1>4, <2>1, PublishType DEF ConflictCrash
  <2>3. /\ lastWriter' \in [Keys -> Nodes \cup {NoWriter}]
        /\ branchWriter' \in [Keys -> Nodes \cup {NoWriter}]
    BY <1>4, WriteType DEF ConflictCrash
  <2>4. AskedFits'
    BY <1>4, <1>21, <2>1 DEF ConflictCrash
  <2> QED BY <1>4, <2>1, <2>2, <2>3, <2>4, LeaveType DEF TypeOK, ConflictCrash
<1>5. ASSUME NEW n \in Nodes, Retry(n) PROVE TypeOK'
  <2>1. AskedFits'
    BY <1>0, <1>5, FitsStep DEF TypeOK, Retry, CanStep, Runs
  <2> QED BY <1>5, <2>1 DEF TypeOK, Retry
<1>6. ASSUME NEW n \in Nodes, Fail(n) PROVE TypeOK'
  <2>1. visits[n] \in Nat
    BY DEF TypeOK
  <2>2. PICK decided \in SUBSET Undecided(n) :
          Leave(n, "failed", OutgoingActivations(n, FALSE, decided, visits[n]))
    BY <1>6 DEF Fail
  <2>3. OutgoingActivations(n, FALSE, decided, visits[n]) \in SUBSET Activation
    BY <2>1, OutgoingType
  <2>4. "failed" \in Lifecycle
    BY DEF Lifecycle
  <2>5. inflight' \subseteq Event
    <3>1. {} \in SUBSET Activation /\ Publish(n, visits[n], FALSE, {})
      BY <1>6 DEF Fail
    <3> QED BY <3>1, PublishType
  <2>6. AskedFits'
    BY <1>6, <1>21, <2>2, <2>3, <2>4 DEF Fail
  <2> QED BY <1>6, <2>2, <2>3, <2>4, <2>5, <2>6, LeaveType DEF TypeOK, Fail
<1>7. ASSUME NEW n \in Nodes, Crash(n) PROVE TypeOK'
  <2>1. "failed" \in Lifecycle /\ {} \in SUBSET Activation
    BY DEF Lifecycle
  <2>2. inflight' \subseteq Event
    BY <1>7, <2>1, PublishType DEF Crash
  <2>3. AskedFits'
    BY <1>7, <1>21, <2>1 DEF Crash
  <2> QED BY <1>7, <2>1, <2>2, <2>3, LeaveType DEF TypeOK, Crash
<1>23. ASSUME NEW n \in Nodes, Ask(n) PROVE TypeOK'
  <2>1. UNCHANGED <<argVars, life, attempt, inherited, trackers, lastActs, guarded, timedOut,
                    path, hubVars>>
    BY <1>23 DEF Ask
  <2>2. PICK did \in {"skipped", "ok", "failed"} :
          /\ deciding' = [deciding EXCEPT ![n] = did]
          /\ \/ did = "skipped" /\ Skips(n)
             \/ did # "skipped" /\ attempt[n] > 0 /\ visits' = visits
          /\ \/ UNCHANGED <<lastWriter, branchWriter>>
             \/ Write(n, Outputs(n))
    BY <1>23, AskCases
  <2>3. /\ lastWriter' \in [Keys -> Nodes \cup {NoWriter}]
        /\ branchWriter' \in [Keys -> Nodes \cup {NoWriter}]
    BY <2>2, WriteType DEF TypeOK
  <2>4. deciding' \in [Nodes -> Answered] /\ visits' \in [Nodes -> Nat]
    <3>1. deciding' \in [Nodes -> Answered]
      BY <2>2 DEF TypeOK, Answered
    <3>2. Skips(n) => visits' \in [Nodes -> Nat]
      BY <1>0 DEF Skips
    <3> QED BY <1>0, <2>2, <3>1, <3>2
  <2>5. \A m \in Nodes : m # n => deciding'[m] = deciding[m] /\ visits'[m] = visits[m]
    BY <1>0, <2>2 DEF TypeOK, Skips
  <2>6. CASE did = "skipped"
    <3>1. deciding'[n] = "skipped" /\ attempt'[n] = 0 /\ Exceeds(n, visits'[n])
      <4>1. visits'[n] = visits[n] + 1 /\ Exceeds(n, visits[n] + 1) /\ attempt[n] = 0
        BY <1>0, <2>2, <2>6 DEF Skips
      <4> QED BY <2>1, <2>2, <2>6, <4>1 DEF TypeOK
    <3>2. AskedFits'
      BY <1>0, <2>1, <2>5, <3>1 DEF AskedFits, Exceeds
    <3> QED BY <2>1, <2>3, <2>4, <3>2 DEF TypeOK
  <2>7. CASE did # "skipped"
    <3>1. deciding'[n] = did /\ attempt'[n] > 0
      BY <2>1, <2>2, <2>7 DEF TypeOK
    <3>2. AskedFits'
      BY <1>0, <2>1, <2>5, <2>7, <3>1 DEF AskedFits, Exceeds
    <3> QED BY <2>1, <2>3, <2>4, <3>2 DEF TypeOK
  <2> QED BY <2>6, <2>7
<1>24. ASSUME NEW n \in Nodes, Decide(n) PROVE TypeOK'
  <2>1. PICK decided \in SUBSET Undecided(n), ok \in BOOLEAN :
          /\ \E lf \in {"completed", "failed"} :
               Leave(n, lf, OutgoingActivations(n, ok, decided, visits[n]))
          /\ \/ inflight' = inflight
             \/ \E acts \in {{}, OutgoingActivations(n, ok, decided, visits[n])} :
                  Publish(n, visits[n], ok, acts)
    BY <1>24, DecideCases
  <2>2. OutgoingActivations(n, ok, decided, visits[n]) \in SUBSET Activation
    BY <1>0, OutgoingType
  <2>3. PICK lf \in Lifecycle : Leave(n, lf, OutgoingActivations(n, ok, decided, visits[n]))
    BY <2>1 DEF Lifecycle
  <2>4. inflight' \subseteq Event
    <3>1. {} \in SUBSET Activation
      OBVIOUS
    <3> QED BY <2>1, <2>2, <3>1, PublishType DEF TypeOK
  <2>5. UNCHANGED <<argVars, gcVars, main, doneFlag, pending, batch,
                    completedTerms, failed, execError, success>>
    BY <1>24 DEF Decide
  <2>6. AskedFits'
    BY <1>21, <2>2, <2>3, <2>5
  <2> QED BY <2>2, <2>3, <2>4, <2>5, <2>6, LeaveType DEF TypeOK
<1>8. ASSUME NEW n \in Nodes, BranchTimeout(n) PROVE TypeOK'
  <2>1. AskedFits'
    BY <1>8, <1>22 DEF BranchTimeout
  <2> QED BY <1>8, <2>1 DEF TypeOK, BranchTimeout
<1>9. ASSUME NEW n \in Nodes, PollTimeout(n) PROVE TypeOK'
  <2>1. AskedFits'
    BY <1>0, <1>9, FitsStep DEF TypeOK, PollTimeout, TakeDone
  <2>2. deciding' \in [Nodes -> Answered]
    BY <1>9 DEF TypeOK, PollTimeout, Answered
  <2> QED BY <1>9, <2>1, <2>2 DEF TypeOK, PollTimeout, TakeDone, Terminals, Lifecycle
<1>10. ASSUME NEW n \in Nodes, PollCompleted(n) PROVE TypeOK'
  <2>1. lastActs[n] \in SUBSET Activation /\ pending \ {n} \in SUBSET Nodes
    BY DEF TypeOK
  <2>2. Route(lastActs[n], pending \ {n})
    BY <1>10 DEF PollCompleted
  <2>3. AskedFits'
    BY <1>10, <1>22, <2>1, <2>2, RouteType DEF PollCompleted, TakeDone
  <2> QED BY <1>10, <2>1, <2>2, <2>3, RouteType DEF TypeOK, PollCompleted, TakeDone, Terminals
<1>11. ASSUME NEW n \in Nodes, PollFailed(n) PROVE TypeOK'
  <2>1. lastActs[n] \in SUBSET Activation /\ pending \ {n} \in SUBSET Nodes
    BY DEF TypeOK
  <2>2. Route(lastActs[n], pending \ {n})
    BY <1>11 DEF PollFailed
  <2>3. AskedFits'
    BY <1>11, <1>22, <2>1, <2>2, RouteType DEF PollFailed, TakeDone
  <2> QED BY <1>11, <2>1, <2>2, <2>3, RouteType DEF TypeOK, PollFailed, TakeDone, Terminals
<1>12. ASSUME NEW n \in Nodes, PollStale(n) PROVE TypeOK'
  <2>1. AskedFits'
    BY <1>12, <1>22 DEF PollStale, TakeDone
  <2> QED BY <1>12, <2>1 DEF TypeOK, PollStale, TakeDone, Terminals
<1>13. ASSUME NEW m \in inflight, Deliver(m) PROVE TypeOK'
  <2>1. m \in Event
    BY DEF TypeOK
  <2>2. m.acts \in SUBSET Activation /\ m.worker \in Nodes
    BY <2>1 DEF Event
  <2>3. Route(m.acts, {}) /\ {} \in SUBSET Nodes
    BY <1>13 DEF Deliver
  <2>4. execError' \in BOOLEAN /\ doneFlag' \in BOOLEAN
    BY <1>13 DEF TypeOK, Deliver
  <2>5. completedTerms' \subseteq graph.terminals /\ failed' \subseteq Nodes
    BY <1>13, <2>2 DEF TypeOK, Deliver, Terminals
  <2>6. inflight' \subseteq Event /\ UNCHANGED <<argVars, gcVars, main, batch, success>>
    BY <1>13 DEF TypeOK, Deliver
  <2>7. AskedFits'
    BY <1>22, <2>2, <2>3, <2>6, RouteType
  <2> QED BY <2>2, <2>3, <2>4, <2>5, <2>6, <2>7, RouteType DEF TypeOK
<1>14. ASSUME NEW m \in inflight, TimeoutWhilePublishing(m) PROVE TypeOK'
  <2>1. m.worker \in Nodes
    BY DEF TypeOK, Event
  <2>2. AskedFits'
    BY <1>14, <1>22 DEF TimeoutWhilePublishing
  <2> QED BY <1>14, <2>1, <2>2 DEF TypeOK, TimeoutWhilePublishing
<1>15. CASE Return
  <2>1. AskedFits'
    BY <1>15, <1>22 DEF Return
  <2> QED BY <1>15, <2>1 DEF TypeOK, Return, Verdict, MainState
<1>16. CASE PollReturn
  <2>1. AskedFits'
    BY <1>16, <1>22 DEF PollReturn
  <2> QED BY <1>16, <2>1 DEF TypeOK, PollReturn, Verdict, MainState, GraphDone
<1>17. CASE PollWait
  <2>1. AskedFits'
    BY <1>17, <1>22 DEF PollWait
  <2> QED BY <1>17, <2>1 DEF TypeOK, PollWait, DoneTasks
<1>18. CASE Cancel
  <2>1. AskedFits'
    BY <1>18, <1>22 DEF Cancel
  <2> QED BY <1>18, <2>1 DEF TypeOK, Cancel, MainState
<1>19. CASE UNCHANGED vars
  <2>1. AskedFits'
    BY <1>19, <1>22 DEF vars
  <2> QED BY <1>19, <2>1 DEF TypeOK, vars
<1> QED
  BY <1>1, <1>2, <1>3, <1>4, <1>5, <1>6, <1>7, <1>8, <1>9, <1>10, <1>11, <1>12,
     <1>13, <1>14, <1>15, <1>16, <1>17, <1>18, <1>19, <1>23, <1>24 DEF Next

\* Type correctness: whatever the graph, the executor and the bound.
THEOREM TypeCorrect == Spec => []TypeOK
  BY InitType, NextType, PTL DEF Spec
-----------------------------------------------------------------------------
(***************************************************************************)
(* The visit budget.  VisitBudget is not inductive: nothing in it says     *)
(* that visits counts the executions, resumed counts included.             *)
(***************************************************************************)

Occurrences(s, n) == {i \in DOMAIN s : s[i] = n}

\* An execution appended to the path is one more of its node and of no other.
LEMMA AppendOccurrences ==
  ASSUME NEW S, NEW s \in Seq(S), NEW n \in S, NEW m \in S
  PROVE  /\ Cardinality(Occurrences(s, m)) \in Nat
         /\ Cardinality(Occurrences(Append(s, n), m)) =
              Cardinality(Occurrences(s, m)) + (IF m = n THEN 1 ELSE 0)
<1>1. Len(s) \in Nat /\ DOMAIN s = 1 .. Len(s)
  OBVIOUS
<1>2. IsFiniteSet(Occurrences(s, m))
  <2>1. IsFiniteSet(1 .. Len(s))
    BY <1>1, FS_Interval
  <2>2. Occurrences(s, m) \subseteq 1 .. Len(s)
    BY <1>1 DEF Occurrences
  <2> QED BY <2>1, <2>2, FS_Subset
<1>3. Cardinality(Occurrences(s, m)) \in Nat
  BY <1>2, FS_CardinalityType
<1>4. /\ DOMAIN Append(s, n) = 1 .. Len(s) + 1
      /\ \A i \in 1 .. Len(s) : Append(s, n)[i] = s[i]
      /\ Append(s, n)[Len(s) + 1] = n
  BY <1>1
<1>5. CASE m = n
  <2>1. Occurrences(Append(s, n), m) = Occurrences(s, m) \cup {Len(s) + 1}
    BY <1>1, <1>4, <1>5 DEF Occurrences
  <2>2. Len(s) + 1 \notin Occurrences(s, m)
    BY <1>1 DEF Occurrences
  <2> QED BY <1>2, <1>3, <1>5, <2>1, <2>2, FS_AddElement
<1>6. CASE m # n
  <2>1. Occurrences(Append(s, n), m) = Occurrences(s, m)
    BY <1>1, <1>4, <1>6 DEF Occurrences
  <2> QED BY <1>3, <1>6, <2>1
<1> QED BY <1>3, <1>5, <1>6

BudgetInv ==
  \A n \in Nodes : /\ Executions(n) \in Nat
                   /\ Executions(n) <= visits[n]
                   /\ graph.maxVisits[n] > 0 => Executions(n) <= graph.maxVisits[n]

LEMMA InitBudget == Init => BudgetInv
<1> SUFFICES ASSUME Init, NEW n \in Nodes
             PROVE  Executions(n) = 0 /\ visits[n] \in Nat /\ graph.maxVisits[n] \in Nat
  BY DEF BudgetInv
<1>1. IsGraph(graph) /\ visits \in graph.restored
  BY GraphAssumption DEF Init
<1>2. visits[n] \in Nat /\ graph.maxVisits[n] \in Nat
  BY <1>1 DEF IsGraph
<1>3. {i \in DOMAIN path : path[i] = n} = {}
  BY DEF Init
<1>4. Executions(n) = 0
  BY <1>3, FS_EmptySet DEF Executions
<1> QED BY <1>2, <1>4

\* Only a worker's first step counts a visit or extends the path.
LEMMA PathSteps ==
  ASSUME [Next]_vars
  PROVE  /\ graph' = graph
         /\ \/ \E n \in Nodes : Start(n)
            \/ path' = path /\ \E n \in Nodes : visits' = [visits EXCEPT ![n] = @ + 1]
            \/ path' = path /\ visits' = visits
<1> USE DEF argVars, workerVars, gcVars, hubVars
<1>1. ASSUME NEW n \in Nodes, NodeStep(n) \/ BranchTimeout(n)
      PROVE  UNCHANGED <<graph, path, visits>>
  BY <1>1 DEF NodeStep, Succeed, ConflictCrash, Retry, Fail, Crash, BranchTimeout
<1>2. ASSUME NEW n \in Nodes, PollHandle(n)
      PROVE  UNCHANGED <<graph, path, visits>>
  BY <1>2 DEF PollHandle, PollTimeout, PollCompleted, PollFailed, PollStale, TakeDone
<1>3. ASSUME NEW m \in inflight, Deliver(m) \/ TimeoutWhilePublishing(m)
      PROVE  UNCHANGED <<graph, path, visits>>
  BY <1>3 DEF Deliver, TimeoutWhilePublishing
<1>4. ASSUME Return \/ PollReturn \/ PollWait \/ Cancel \/ UNCHANGED vars
      PROVE  UNCHANGED <<graph, path, visits>>
  BY <1>4 DEF Return, PollReturn, PollWait, Cancel, vars
<1>5. ASSUME NEW n \in Nodes, SkipVisit(n)
      PROVE  graph' = graph /\ path' = path /\ visits' = [visits EXCEPT ![n] = @ + 1]
  BY <1>5 DEF SkipVisit
<1>6. ASSUME NEW n \in Nodes, Start(n) PROVE graph' = graph
  BY <1>6 DEF Start
<1>7. ASSUME NEW n \in Nodes, Ask(n)
      PROVE  /\ graph' = graph /\ path' = path
             /\ visits' = visits \/ visits' = [visits EXCEPT ![n] = @ + 1]
  BY <1>7 DEF Ask
<1>8. ASSUME NEW n \in Nodes, Decide(n) PROVE UNCHANGED <<graph, path, visits>>
  BY <1>8 DEF Decide
<1> QED BY <1>1, <1>2, <1>3, <1>4, <1>5, <1>6, <1>7, <1>8 DEF Next, NodeStep, PollHandle

LEMMA NextBudget == TypeOK /\ BudgetInv /\ [Next]_vars => BudgetInv'
<1> SUFFICES ASSUME TypeOK, BudgetInv, [Next]_vars, NEW m \in Nodes
             PROVE  /\ Executions(m)' \in Nat
                    /\ Executions(m)' <= visits'[m]
                    /\ graph'.maxVisits[m] > 0 => Executions(m)' <= graph'.maxVisits[m]
  BY DEF BudgetInv
<1>1. /\ Executions(m) \in Nat /\ visits[m] \in Nat /\ Executions(m) <= visits[m]
      /\ graph.maxVisits[m] > 0 => Executions(m) <= graph.maxVisits[m]
  BY DEF TypeOK, BudgetInv
<1>2. graph' = graph /\ IsGraph(graph)
  BY PathSteps, GraphAssumption DEF TypeOK
<1>3. graph.maxVisits[m] \in Nat
  BY <1>2 DEF IsGraph
<1>4. ASSUME NEW n \in Nodes, Start(n)
      PROVE  /\ Executions(m)' \in Nat
             /\ Executions(m)' <= visits'[m]
             /\ graph'.maxVisits[m] > 0 => Executions(m)' <= graph'.maxVisits[m]
  <2>1. path' = Append(path, n) /\ visits' = [visits EXCEPT ![n] = @ + 1]
    BY <1>4 DEF Start
  <2>2. path \in Seq(Nodes) /\ visits \in [Nodes -> Nat]
    BY DEF TypeOK
  <2>3. /\ Executions(m) = Cardinality(Occurrences(path, m))
        /\ Executions(m)' = Cardinality(Occurrences(Append(path, n), m))
    BY <2>1 DEF Executions, Occurrences
  <2>4. Executions(m)' = Executions(m) + (IF m = n THEN 1 ELSE 0)
    BY <2>2, <2>3, AppendOccurrences
  <2>5. visits'[m] = visits[m] + (IF m = n THEN 1 ELSE 0)
    BY <1>1, <2>1, <2>2
  <2>6. m = n /\ graph.maxVisits[m] > 0 => visits[m] + 1 <= graph.maxVisits[m]
    BY <1>1, <1>3, <1>4 DEF Start, Exceeds
  <2> QED BY <1>1, <1>2, <1>3, <2>4, <2>5, <2>6
<1>5. ASSUME path' = path PROVE Executions(m)' = Executions(m)
  BY <1>5 DEF Executions
<1>6. ASSUME NEW n \in Nodes, visits' = [visits EXCEPT ![n] = @ + 1]
      PROVE  visits'[m] \in Nat /\ visits[m] <= visits'[m]
  BY <1>6 DEF TypeOK
<1> QED BY <1>1, <1>2, <1>3, <1>4, <1>5, <1>6, PathSteps

\* Whatever the graph's cycles and fan-outs, whatever visit counts a session
\* resumes with, and whatever the control loop does: no node executes more
\* often than its max_node_visits.
THEOREM VisitBudgetHolds == Spec => []VisitBudget
<1>1. BudgetInv => VisitBudget
  BY DEF BudgetInv, VisitBudget
<1> QED BY InitType, NextType, InitBudget, NextBudget, <1>1, PTL DEF Spec
-----------------------------------------------------------------------------
(***************************************************************************)
(* The first fan-out branch to write a key keeps it.                       *)
(***************************************************************************)

\* Under first_wins and error, a key some branch owns is not taken over.
LEMMA WriteKeeps ==
  ASSUME NEW n \in Nodes, NEW ks \in SUBSET (graph.outs[n] \ Conflicts(n)), Write(n, ks),
         NEW k \in Keys, branchWriter[k] # NoWriter, TypeOK
  PROVE  branchWriter'[k] = branchWriter[k]
<1>1. CASE k \in ks /\ IsBranch(n, inherited[n])
  <2>1. k \in graph.outs[n] /\ k \notin Conflicts(n)
    BY <1>1
  <2>2. branchWriter[k] = n
    BY <1>1, <2>1 DEF Conflicts
  <2> QED BY <1>1, <2>2 DEF Write
<1>2. CASE ~(k \in ks /\ IsBranch(n, inherited[n]))
  BY <1>2 DEF Write
<1> QED BY <1>1, <1>2

LEMMA KeepsStep ==
  ASSUME TypeOK, [Next]_vars, NEW k \in Keys, branchWriter[k] # NoWriter,
         executor.strategy \in {"first_wins", "error"}
  PROVE  branchWriter'[k] = branchWriter[k]
<1> USE DEF argVars, workerVars, gcVars, hubVars
<1>1. ASSUME NEW n \in Nodes, Write(n, Outputs(n)), executor.strategy = "error" => Conflicts(n) = {}
      PROVE  branchWriter'[k] = branchWriter[k]
  <2>1. Outputs(n) \in SUBSET (graph.outs[n] \ Conflicts(n))
    BY <1>1 DEF Outputs
  <2> QED BY <1>1, <2>1, WriteKeeps
<1>7. ASSUME NEW n \in Nodes, Succeed(n) PROVE branchWriter'[k] = branchWriter[k]
  BY <1>1, <1>7 DEF Succeed
<1>8. ASSUME NEW n \in Nodes, Ask(n) PROVE branchWriter'[k] = branchWriter[k]
  BY <1>1, <1>8, AskCases
<1>9. ASSUME NEW n \in Nodes, Decide(n) PROVE branchWriter' = branchWriter
  BY <1>9 DEF Decide
<1>2. ASSUME NEW n \in Nodes, ConflictCrash(n) PROVE branchWriter'[k] = branchWriter[k]
  <2>1. PICK ks \in SUBSET (graph.outs[n] \ Conflicts(n)) : Write(n, ks)
    BY <1>2 DEF ConflictCrash
  <2> QED BY <2>1, WriteKeeps
<1>3. ASSUME NEW n \in Nodes,
             Start(n) \/ SkipVisit(n) \/ Retry(n) \/ Fail(n) \/ Crash(n) \/ BranchTimeout(n)
      PROVE  branchWriter' = branchWriter
  BY <1>3 DEF Start, SkipVisit, Retry, Fail, Crash, BranchTimeout
<1>4. ASSUME NEW n \in Nodes, PollHandle(n) PROVE branchWriter' = branchWriter
  BY <1>4 DEF PollHandle, PollTimeout, PollCompleted, PollFailed, PollStale, TakeDone
<1>5. ASSUME NEW m \in inflight, Deliver(m) \/ TimeoutWhilePublishing(m)
      PROVE  branchWriter' = branchWriter
  BY <1>5 DEF Deliver, TimeoutWhilePublishing
<1>6. ASSUME Return \/ PollReturn \/ PollWait \/ Cancel \/ UNCHANGED vars
      PROVE  branchWriter' = branchWriter
  BY <1>6 DEF Return, PollReturn, PollWait, Cancel, vars
<1> QED BY <1>2, <1>3, <1>4, <1>5, <1>6, <1>7, <1>8, <1>9 DEF Next, PollHandle

\* Under first_wins and error no interleaving of branches, retries and failures
\* lets a later branch displace the first writer of a key.
THEOREM FirstBranchKeeps == Spec => FirstBranchKeepsKey
<1> DEFINE Keeps ==
      \A k \in Keys :
        executor.strategy \in {"first_wins", "error"} /\ branchWriter[k] # NoWriter
          => branchWriter'[k] = branchWriter[k]
<1>1. TypeOK /\ [Next]_vars => [Keeps]_vars
  BY KeepsStep
<1> QED BY <1>1, TypeCorrect, PTL DEF Spec, FirstBranchKeepsKey
-----------------------------------------------------------------------------
(***************************************************************************)
(* Success is earned.  What the verdict does not look at: a terminal that  *)
(* counts as completed and has not failed was visited, and the completion  *)
(* event of a run with terminals is set only for a reason that lasts.      *)
(***************************************************************************)

Reason(cts, fl) == Len(path) >= graph.maxSteps \/ TerminalReached(cts, fl)

Ran ==
  /\ \A n \in Nodes : attempt[n] > 0 \/ life[n] = "completed" => visits[n] > 0
  /\ \A m \in inflight : m.ok => visits[m.worker] > 0
  /\ \A t \in completedTerms \ failed : visits[t] > 0

EarnInv ==
  /\ Ran
  /\ doneFlag /\ graph.terminals # {} => execError \/ Reason(completedTerms, failed)

LEMMA InitEarn == Init => EarnInv
  BY DEF Init, EarnInv, Ran

\* A worker that leaves after an attempt was visited, and so was the one whose
\* event it publishes.
LEMMA LeaveRan ==
  ASSUME TypeOK, Ran, NEW n \in Nodes, NEW lf, NEW acts, NEW acts2, NEW ok \in BOOLEAN, visits[n] > 0,
         Leave(n, lf, acts), Publish(n, visits[n], ok, acts2) \/ inflight' = inflight,
         UNCHANGED <<visits, completedTerms, failed>>
  PROVE  Ran'
<1>1. \A m \in Nodes : attempt'[m] > 0 \/ life'[m] = "completed" => visits'[m] > 0
  BY DEF Ran, Leave, TypeOK
<1>2. \A m \in inflight' : m.ok => visits'[m.worker] > 0
  BY DEF Ran, Publish
<1> QED BY <1>1, <1>2 DEF Ran

\* Routing starts and resets workers; it completes none.
LEMMA RouteRan ==
  ASSUME TypeOK, Ran, NEW acts, NEW tracked, Route(acts, tracked), UNCHANGED visits
  PROVE  \A n \in Nodes : attempt'[n] > 0 \/ life'[n] = "completed" => visits'[n] > 0
<1>1. \A n \in Nodes : attempt'[n] = attempt[n] /\ life'[n] \in {"running", "pending", life[n]}
  BY DEF Route
<1> QED BY <1>1 DEF Ran

\* Whoever asks a model is in an attempt, or on a visit that is counted.
LEMMA AskedVisited ==
  ASSUME TypeOK, NEW n \in Nodes, deciding[n] # "no"
  PROVE  attempt[n] > 0 \/ (visits[n] > 0 /\ graph.maxVisits[n] > 0)
<1>1. deciding[n] \in {"ok", "failed", "skipped"} /\ visits[n] \in Nat
  BY DEF TypeOK, Answered
<1>2. graph.maxVisits[n] \in Nat
  BY GraphAssumption DEF TypeOK, IsGraph
<1> QED BY <1>1, <1>2 DEF TypeOK, AskedFits, Exceeds

LEMMA NextRan ==
  ASSUME TypeOK, Ran, [Next]_vars
  PROVE  Ran'
<1> USE DEF argVars, workerVars, gcVars, hubVars
<1>1. ASSUME NEW n \in Nodes, Start(n) PROVE Ran'
  <2>1. \A m \in Nodes : visits'[m] >= visits[m] /\ visits[m] \in Nat /\ visits'[m] \in Nat
    BY <1>1 DEF Start, TypeOK
  <2>2. visits'[n] > 0 /\ \A m \in Nodes \ {n} : attempt'[m] = attempt[m]
    BY <1>1 DEF Start, TypeOK
  <2>3. /\ \A m \in inflight : m.worker \in Nodes
        /\ completedTerms \subseteq Nodes
    BY GraphAssumption DEF TypeOK, Event, IsGraph
  <2> QED BY <1>1, <2>1, <2>2, <2>3 DEF Start, Ran
<1>2. ASSUME NEW n \in Nodes, SkipVisit(n) PROVE Ran'
  <2>1. \A m \in Nodes : visits'[m] >= visits[m] /\ visits[m] \in Nat /\ visits'[m] \in Nat
    BY <1>2 DEF SkipVisit, TypeOK
  <2>2. visits'[n] > 0
    BY <1>2 DEF SkipVisit, TypeOK
  <2>3. \A m \in Nodes \ {n} : attempt'[m] = attempt[m] /\ life'[m] = life[m]
    BY <1>2 DEF SkipVisit, Leave, TypeOK
  <2>4. /\ \A m \in inflight : m.worker \in Nodes
        /\ completedTerms \subseteq Nodes
    BY GraphAssumption DEF TypeOK, Event, IsGraph
  <2> QED BY <1>2, <2>1, <2>2, <2>3, <2>4 DEF SkipVisit, Ran
<1>3. ASSUME NEW n \in Nodes, Succeed(n) PROVE Ran'
  <2>1. visits[n] > 0
    BY <1>3 DEF Succeed, Ran
  <2> QED BY <1>3, <2>1, LeaveRan DEF Succeed
<1>4. ASSUME NEW n \in Nodes, ConflictCrash(n) \/ Crash(n) PROVE Ran'
  <2>1. attempt[n] > 0
    <3>1. CASE ConflictCrash(n)
      BY <3>1 DEF ConflictCrash
    <3>2. CASE Crash(n)
      <4>1. attempt[n] = 1
        BY <3>2 DEF Crash
      <4> QED BY <4>1
    <3> QED BY <1>4, <3>1, <3>2
  <2> QED
    <3>1. visits[n] > 0
      BY <2>1 DEF Ran
    <3>2. Leave(n, "failed", {}) /\ Publish(n, visits[n], FALSE, {})
          /\ UNCHANGED <<visits, completedTerms, failed>>
      BY <1>4 DEF ConflictCrash, Crash
    <3> QED BY <3>1, <3>2, LeaveRan
<1>5. ASSUME NEW n \in Nodes, Retry(n) PROVE Ran'
  BY <1>5 DEF Retry, Ran, TypeOK
<1>6. ASSUME NEW n \in Nodes, Fail(n) PROVE Ran'
  <2>1. graph.attempts[n] > 0
    BY GraphAssumption DEF TypeOK, IsGraph
  <2>2. visits[n] > 0
    BY <1>6, <2>1 DEF Fail, Ran
  <2>3. PICK acts : Leave(n, "failed", acts)
    BY <1>6 DEF Fail
  <2>4. Publish(n, visits[n], FALSE, {}) /\ UNCHANGED <<visits, completedTerms, failed>>
    BY <1>6 DEF Fail
  <2> QED BY <2>2, <2>3, <2>4, LeaveRan
<1>7. ASSUME NEW n \in Nodes, BranchTimeout(n) PROVE Ran'
  BY <1>7 DEF BranchTimeout, Ran
<1>8. ASSUME NEW n \in Nodes, PollTimeout(n) \/ PollStale(n) PROVE Ran'
  <2>1. /\ UNCHANGED <<visits, inflight>>
        /\ completedTerms' = completedTerms \cup Terminals(n) /\ failed' = failed \cup {n}
    BY <1>8 DEF PollTimeout, PollStale, TakeDone
  <2>2. \A m \in Nodes : attempt'[m] > 0 \/ life'[m] = "completed" =>
                          attempt[m] > 0 \/ life[m] = "completed"
    BY <1>8 DEF PollTimeout, PollStale, TypeOK
  <2> QED BY <2>1, <2>2 DEF Terminals, Ran
<1>9. ASSUME NEW n \in Nodes, PollCompleted(n) \/ PollFailed(n) PROVE Ran'
  <2>1. Route(lastActs[n], pending \ {n}) /\ UNCHANGED <<visits, inflight>>
    BY <1>9 DEF PollCompleted, PollFailed, TakeDone
  <2>2. \A t \in completedTerms' \ failed' : visits'[t] > 0
    BY <1>9 DEF PollCompleted, PollFailed, TakeDone, Terminals, Ran
  <2> QED BY <2>1, <2>2, RouteRan DEF Ran
<1>10. ASSUME NEW m \in inflight, Deliver(m) PROVE Ran'
  <2>1. Route(m.acts, {}) /\ UNCHANGED visits /\ inflight' \subseteq inflight
    BY <1>10 DEF Deliver
  <2>2. \A t \in completedTerms' \ failed' : visits'[t] > 0
    BY <1>10 DEF Deliver, Terminals, Ran
  <2> QED BY <2>1, <2>2, RouteRan DEF Ran
<1>11. ASSUME NEW m \in inflight, TimeoutWhilePublishing(m) PROVE Ran'
  BY <1>11 DEF TimeoutWhilePublishing, Ran
<1>12. CASE Return \/ PollReturn \/ PollWait \/ Cancel \/ UNCHANGED vars
  BY <1>12 DEF Return, PollReturn, PollWait, Cancel, vars, Ran
<1>13. ASSUME NEW n \in Nodes, Ask(n) PROVE Ran'
  <2>1. UNCHANGED <<life, attempt, inflight, completedTerms, failed>>
    BY <1>13 DEF Ask
  <2>2. visits' = visits \/ visits' = [visits EXCEPT ![n] = @ + 1]
    BY <1>13 DEF Ask
  <2>3. \A m \in Nodes : visits'[m] >= visits[m] /\ visits[m] \in Nat /\ visits'[m] \in Nat
    <3>1. visits \in [Nodes -> Nat]
      BY DEF TypeOK
    <3>2. CASE visits' = visits
      BY <3>1, <3>2
    <3>3. CASE visits' = [visits EXCEPT ![n] = @ + 1]
      BY <3>1, <3>3
    <3> QED BY <2>2, <3>2, <3>3
  <2>4. /\ \A m \in inflight : m.worker \in Nodes
        /\ completedTerms \subseteq Nodes
    BY GraphAssumption DEF TypeOK, Event, IsGraph
  <2> QED BY <2>1, <2>3, <2>4 DEF Ran
<1>14. ASSUME NEW n \in Nodes, Decide(n) PROVE Ran'
  <2>1. deciding[n] \in {"ok", "failed", "skipped"} /\ UNCHANGED <<visits, completedTerms, failed>>
    BY <1>14 DEF Decide
  <2>2. visits[n] > 0
    BY <2>1, AskedVisited DEF Ran
  <2> QED BY <1>14, <2>1, <2>2, DecideCases, LeaveRan
<1> QED
  BY <1>1, <1>2, <1>3, <1>4, <1>5, <1>6, <1>7, <1>8, <1>9, <1>10, <1>11, <1>12, <1>13, <1>14 DEF Next

\* What makes a run done stays: the path, the terminals counted and the failures
\* only grow.
LEMMA Lasting ==
  ASSUME TypeOK, [Next]_vars
  PROVE  /\ graph' = graph /\ executor' = executor
         /\ Len(path) >= graph.maxSteps => Len(path') >= graph.maxSteps
         /\ completedTerms \subseteq completedTerms' /\ failed \subseteq failed'
         /\ execError => execError'
<1> USE DEF argVars, workerVars, gcVars, hubVars
<1>1. ASSUME NEW n \in Nodes, Start(n)
      PROVE  UNCHANGED <<graph, executor, completedTerms, failed, execError>>
             /\ (Len(path) >= graph.maxSteps => Len(path') >= graph.maxSteps)
  <2>1. path' = Append(path, n) /\ path \in Seq(Nodes) /\ graph.maxSteps \in Nat
    BY <1>1, GraphAssumption DEF Start, TypeOK, IsGraph
  <2>2. Len(path') = Len(path) + 1 /\ Len(path) \in Nat
    BY <2>1
  <2> QED BY <1>1, <2>1, <2>2 DEF Start
<1>2. ASSUME NEW n \in Nodes, SkipVisit(n) \/ NodeStep(n) \/ BranchTimeout(n)
      PROVE  UNCHANGED <<graph, executor, path, completedTerms, failed, execError>>
  BY <1>2 DEF SkipVisit, NodeStep, Succeed, ConflictCrash, Retry, Fail, Crash, BranchTimeout
<1>8. ASSUME NEW n \in Nodes, Evaluation(n)
      PROVE  UNCHANGED <<graph, executor, path, completedTerms, failed, execError>>
  BY <1>8 DEF Evaluation, Ask, Decide
<1>3. ASSUME NEW n \in Nodes, PollHandle(n)
      PROVE  /\ UNCHANGED <<graph, executor, path, execError>>
             /\ completedTerms \subseteq completedTerms' /\ failed \subseteq failed'
  BY <1>3 DEF PollHandle, PollTimeout, PollCompleted, PollFailed, PollStale, TakeDone
<1>4. ASSUME NEW m \in inflight, Deliver(m)
      PROVE  /\ UNCHANGED <<graph, executor, path>> /\ (execError => execError')
             /\ completedTerms \subseteq completedTerms' /\ failed \subseteq failed'
  <2>1. execError => execError'
    BY <1>4, Zenon DEF Deliver
  <2> QED BY <1>4, <2>1 DEF Deliver
<1>5. ASSUME NEW m \in inflight, TimeoutWhilePublishing(m)
      PROVE  UNCHANGED <<graph, executor, path, completedTerms, failed, execError>>
  BY <1>5 DEF TimeoutWhilePublishing
<1>6. ASSUME Return \/ PollWait \/ Cancel \/ UNCHANGED vars
      PROVE  UNCHANGED <<graph, executor, path, completedTerms, failed, execError>>
  BY <1>6 DEF Return, PollWait, Cancel, vars
<1>7. ASSUME PollReturn
      PROVE  UNCHANGED <<graph, executor, path, completedTerms, failed>> /\ (execError => execError')
  <2>1. execError => execError'
    BY <1>7, Zenon DEF PollReturn
  <2> QED BY <1>7, <2>1 DEF PollReturn
<1> QED
  BY <1>1, <1>2, <1>3, <1>4, <1>5, <1>6, <1>7, <1>8 DEF Next, NodeStep, Evaluation, PollHandle

LEMMA NextEarn == TypeOK /\ EarnInv /\ [Next]_vars => EarnInv'
<1> SUFFICES ASSUME TypeOK, EarnInv, [Next]_vars PROVE EarnInv'
  OBVIOUS
<1> USE DEF argVars, workerVars, gcVars, hubVars
<1>1. Ran'
  BY NextRan DEF EarnInv
<1>2. ASSUME doneFlag' = doneFlag
      PROVE  doneFlag' /\ graph'.terminals # {} => execError' \/ Reason(completedTerms, failed)'
  BY <1>2, Lasting DEF EarnInv, Reason, TerminalReached
<1>3. ASSUME NEW m \in inflight, Deliver(m)
      PROVE  doneFlag' /\ graph'.terminals # {} => execError' \/ Reason(completedTerms, failed)'
  <2>1. CASE GraphDone(life', completedTerms', failed')
    BY <1>3, <2>1 DEF GraphDone, Reason, TerminalReached, Deliver
  <2>2. CASE ~GraphDone(life', completedTerms', failed')
               /\ Quiescent(life', completedTerms', failed')
    BY <1>3, <2>2 DEF Deliver
  <2>3. CASE ~GraphDone(life', completedTerms', failed')
               /\ ~Quiescent(life', completedTerms', failed')
    BY <1>2, <1>3, <2>3 DEF Deliver
  <2> QED BY <2>1, <2>2, <2>3
<1>8. ASSUME NEW n \in Nodes, Evaluation(n) PROVE doneFlag' = doneFlag
  BY <1>8 DEF Evaluation, Ask, Decide
<1>4. ASSUME NEW n \in Nodes, SkipVisit(n) \/ Start(n) \/ NodeStep(n) \/ BranchTimeout(n) \/ PollHandle(n)
      PROVE  doneFlag' = doneFlag
  BY <1>4 DEF SkipVisit, Start, NodeStep, Succeed, ConflictCrash, Retry, Fail, Crash, BranchTimeout,
              PollHandle, PollTimeout, PollCompleted, PollFailed, PollStale, TakeDone
<1>5. ASSUME NEW m \in inflight, TimeoutWhilePublishing(m) PROVE doneFlag' = doneFlag
  BY <1>5 DEF TimeoutWhilePublishing
<1>6. ASSUME Return \/ PollReturn \/ PollWait \/ Cancel \/ UNCHANGED vars PROVE doneFlag' = doneFlag
  BY <1>6 DEF Return, PollReturn, PollWait, Cancel, vars
<1>7. doneFlag' /\ graph'.terminals # {} => execError' \/ Reason(completedTerms, failed)'
  BY <1>2, <1>3, <1>4, <1>5, <1>6, <1>8 DEF Next, NodeStep, Evaluation, PollHandle
<1> QED BY <1>1, <1>7 DEF EarnInv

\* The step that returns a success.
\* execute() returns in one of two steps.
LEMMA Returning ==
  ASSUME [Next]_vars, main = "waiting", main' = "returned"
  PROVE  Return \/ PollReturn
<1> USE DEF argVars, workerVars, gcVars, hubVars
<1>1. ASSUME NEW n \in Nodes, SkipVisit(n) \/ Start(n) \/ NodeStep(n) \/ BranchTimeout(n) \/ PollHandle(n)
      PROVE  main' = main
  BY <1>1 DEF SkipVisit, Start, NodeStep, Succeed, ConflictCrash, Retry, Fail, Crash, BranchTimeout,
              PollHandle, PollTimeout, PollCompleted, PollFailed, PollStale, TakeDone
<1>2. ASSUME NEW m \in inflight, Deliver(m) \/ TimeoutWhilePublishing(m) PROVE main' = main
  BY <1>2 DEF Deliver, TimeoutWhilePublishing
<1>3. ASSUME PollWait \/ Cancel \/ UNCHANGED vars PROVE main' # "returned"
  BY <1>3 DEF PollWait, Cancel, vars
<1>4. ASSUME NEW n \in Nodes, Evaluation(n) PROVE main' = main
  BY <1>4 DEF Evaluation, Ask, Decide
<1> QED BY <1>1, <1>2, <1>3, <1>4 DEF Next, NodeStep, Evaluation, PollHandle

LEMMA EarnStep ==
  ASSUME TypeOK, EarnInv, [Next]_vars,
         main = "waiting", main' = "returned", success', graph.terminals # {}
  PROVE  \/ Len(path) >= graph.maxSteps
         \/ \E t \in graph.terminals : t \in completedTerms /\ t \notin failed /\ visits[t] > 0
<1>1. Return \/ PollReturn
  BY Returning
<1>2. \E err \in BOOLEAN : Verdict(err) /\ (err \/ Reason(completedTerms, failed))
  <2>1. CASE Return
    BY <2>1 DEF Return, EarnInv, TypeOK
  <2>2. CASE PollReturn
    <3>1. GraphDone(life, completedTerms, failed) => Reason(completedTerms, failed)
      BY DEF GraphDone, Reason
    <3>2. execError' = (execError \/ ~GraphDone(life, completedTerms, failed))
      BY <2>2 DEF PollReturn
    <3>3. execError' \in BOOLEAN /\ (execError' \/ Reason(completedTerms, failed))
      BY <3>1, <3>2, Zenon
    <3>4. Verdict(execError')
      BY <2>2 DEF PollReturn
    <3> QED BY <3>3, <3>4
  <2> QED BY <1>1, <2>1, <2>2
<1>3. /\ Reason(completedTerms, failed)
      /\ \/ graph.terminals \subseteq completedTerms /\ graph.terminals \cap failed = {}
         \/ failed = {}
  BY <1>2 DEF Verdict
<1>4. \A t \in completedTerms \ failed : visits[t] > 0
  BY DEF EarnInv, Ran
<1> QED BY <1>3, <1>4 DEF Reason, TerminalReached

\* A run below max_steps that reports success has a terminal node that was
\* visited, completed and never failed: whatever the graph, with or without an
\* event bus, whichever completions were lost, late or overtaken.
THEOREM Earned == Spec => EarnedSuccess
<1> DEFINE Earns ==
      main = "waiting" /\ main' = "returned" /\ success' /\ graph.terminals # {}
        => \/ Len(path) >= graph.maxSteps
           \/ \E t \in graph.terminals : t \in completedTerms /\ t \notin failed /\ visits[t] > 0
<1>1. TypeOK /\ EarnInv /\ [Next]_vars => [Earns]_vars
  BY EarnStep
<1> QED BY <1>1, InitType, NextType, InitEarn, NextEarn, PTL DEF Spec, EarnedSuccess
-----------------------------------------------------------------------------
(***************************************************************************)
(* The step budget of the polling loop.  StepBudget is not inductive: the  *)
(* workers that are RUNNING and have not counted their execution yet are   *)
(* what may still be added, and the loop starts new ones only while it     *)
(* handles a batch, below the limit.                                       *)
(***************************************************************************)

Armed == {n \in graph.nodes : life[n] = "running" /\ attempt[n] = 0}

InGraph ==
  /\ \A n \in Nodes : life[n] = "running" => n \in graph.nodes
  /\ \A n \in Nodes : \A a \in lastActs[n] : a.dst \in graph.nodes
  /\ \A m \in inflight : \A a \in m.acts : a.dst \in graph.nodes

StepInv ==
  /\ InGraph
  /\ ~executor.bus =>
       /\ inflight = {}
       /\ batch # {} => Len(path) < graph.maxSteps
       /\ Len(path) + Cardinality(Armed) <= graph.maxSteps - 1 + Cardinality(graph.nodes)

\* How many workers are armed is a number bounded by the size of the graph.
LEMMA ArmedBound ==
  ASSUME TypeOK, NEW S, S \subseteq graph.nodes
  PROVE  /\ IsFiniteSet(S)
         /\ Cardinality(S) \in Nat
         /\ Cardinality(graph.nodes) \in Nat
         /\ Cardinality(S) <= Cardinality(graph.nodes)
<1>1. IsFiniteSet(graph.nodes)
  BY GraphAssumption DEF TypeOK, IsGraph
<1> QED BY <1>1, FS_Subset, FS_CardinalityType

\* Edges lead to nodes of the graph.
LEMMA OutgoingInGraph ==
  ASSUME TypeOK, NEW n, NEW ok, NEW decided, NEW visit
  PROVE  \A a \in OutgoingActivations(n, ok, decided, visit) : a.dst \in graph.nodes
<1>1. Traversed(n, ok, decided) \subseteq graph.edges
  BY DEF Traversed, PriorityFilter, FirstOnly, OutEdges
<1>2. \A e \in graph.edges : e.dst \in graph.nodes
  BY GraphAssumption DEF TypeOK, IsGraph
<1>3. \A a \in OutgoingActivations(n, ok, decided, visit) :
        \E e \in Traversed(n, ok, decided) : a.dst = e.dst
  BY DEF OutgoingActivations
<1> QED BY <1>1, <1>2, <1>3

\* Routing starts only targets of the activations.
LEMMA RouteStarts ==
  ASSUME TypeOK, NEW acts, NEW tracked, Route(acts, tracked)
  PROVE  \A n \in Nodes :
           /\ life'[n] = "running" => life[n] = "running" \/ \E a \in acts : a.dst = n
           /\ lastActs'[n] = {} \/ lastActs'[n] = lastActs[n]
<1> DEFINE accepted == Accepted(acts)
           dsts     == {x.dst : x \in accepted}
           act(n)   == Target(accepted, n)
           starts   == {n \in dsts : IsComplete(TrackersAfter(act(n)))}
<1>1. \A n \in dsts : \E a \in acts : a.dst = n
  BY DEF Accepted
<1>2. starts \subseteq dsts
  OBVIOUS
<1>3. /\ life' = [n \in Nodes |-> IF n \in starts THEN "running"
                                  ELSE IF n \in dsts THEN "pending" ELSE life[n]]
      /\ lastActs' = [n \in Nodes |-> IF n \in dsts THEN {} ELSE lastActs[n]]
  BY DEF Route
<1> HIDE DEF dsts, starts
<1> QED BY <1>1, <1>2, <1>3

LEMMA InitStep == Init => StepInv
<1> SUFFICES ASSUME Init PROVE StepInv
  OBVIOUS
<1>1. TypeOK /\ IsGraph(graph)
  BY InitType, GraphAssumption DEF Init
<1>2. InGraph
  BY <1>1 DEF Init, InGraph, IsGraph
<1>3. Len(path) = 0 /\ graph.maxSteps \in Nat \ {0}
  BY <1>1 DEF Init, IsGraph
<1>4. Armed \subseteq graph.nodes
  BY DEF Armed
<1>5. /\ Cardinality(Armed) \in Nat /\ Cardinality(graph.nodes) \in Nat
      /\ Cardinality(Armed) <= Cardinality(graph.nodes)
  BY <1>1, <1>4, ArmedBound
<1>6. Len(path) + Cardinality(Armed) <= graph.maxSteps - 1 + Cardinality(graph.nodes)
  BY <1>3, <1>5
<1>7. inflight = {} /\ batch = {}
  BY DEF Init
<1> QED BY <1>2, <1>6, <1>7 DEF StepInv

\* A worker leaves, and publishes, with activations of nodes of the graph.
LEMMA LeaveInGraph ==
  ASSUME TypeOK, InGraph, NEW n \in Nodes, NEW lf \in {"completed", "failed"}, NEW ok \in BOOLEAN,
         NEW acts, NEW acts2, Leave(n, lf, acts),
         Publish(n, visits[n], ok, acts2) \/ inflight' = inflight,
         graph' = graph,
         \A a \in acts \cup acts2 : a.dst \in graph.nodes
  PROVE  InGraph'
<1>1. \A m \in Nodes : life'[m] = "running" => m \in graph.nodes
  BY DEF InGraph, Leave, TypeOK
<1>2. \A m \in Nodes : \A a \in lastActs'[m] : a.dst \in graph.nodes
  BY DEF InGraph, Leave, TypeOK
<1>3. \A m \in inflight' : \A a \in m.acts : a.dst \in graph.nodes
  BY DEF InGraph, Publish
<1> QED BY <1>1, <1>2, <1>3 DEF InGraph

LEMMA RouteInGraph ==
  ASSUME TypeOK, InGraph, NEW acts, NEW tracked, Route(acts, tracked),
         \A a \in acts : a.dst \in graph.nodes,
         inflight' \subseteq inflight, graph' = graph
  PROVE  InGraph'
<1>1. \A m \in Nodes : life'[m] = "running" => m \in graph.nodes
  BY RouteStarts DEF InGraph
<1>2. \A m \in Nodes : \A a \in lastActs'[m] : a.dst \in graph.nodes
  BY RouteStarts DEF InGraph
<1> QED BY <1>1, <1>2 DEF InGraph

LEMMA NextInGraph == TypeOK /\ InGraph /\ [Next]_vars => InGraph'
<1> SUFFICES ASSUME TypeOK, InGraph, [Next]_vars PROVE InGraph'
  OBVIOUS
<1> USE DEF argVars, workerVars, gcVars, hubVars
<1>1. ASSUME NEW n \in Nodes, Start(n) \/ Retry(n) \/ BranchTimeout(n) PROVE InGraph'
  BY <1>1 DEF Start, Retry, BranchTimeout, InGraph
<1>2. ASSUME NEW n \in Nodes, SkipVisit(n) PROVE InGraph'
  <2>1. PICK decided :
          Leave(n, "completed", OutgoingActivations(n, TRUE, decided, visits[n] + 1))
    BY <1>2 DEF SkipVisit
  <2>2. inflight' = inflight /\ graph' = graph
    BY <1>2 DEF SkipVisit
  <2> QED BY <2>1, <2>2, LeaveInGraph, OutgoingInGraph
<1>3. ASSUME NEW n \in Nodes, Succeed(n) PROVE InGraph'
  <2>1. PICK decided :
          LET acts == OutgoingActivations(n, TRUE, decided, visits[n])
          IN  Leave(n, "completed", acts) /\ Publish(n, visits[n], TRUE, acts)
    BY <1>3 DEF Succeed
  <2>2. graph' = graph
    BY <1>3 DEF Succeed
  <2> QED BY <2>1, <2>2, LeaveInGraph, OutgoingInGraph
<1>4. ASSUME NEW n \in Nodes, ConflictCrash(n) \/ Crash(n) PROVE InGraph'
  <2>1. /\ Leave(n, "failed", {}) /\ Publish(n, visits[n], FALSE, {})
        /\ graph' = graph
    BY <1>4 DEF ConflictCrash, Crash
  <2>2. \A a \in {} \cup {} : a.dst \in graph.nodes
    OBVIOUS
  <2> QED BY <2>1, <2>2, LeaveInGraph
<1>5. ASSUME NEW n \in Nodes, Fail(n) PROVE InGraph'
  <2>1. PICK acts : /\ Leave(n, "failed", acts)
                    /\ \A a \in acts : a.dst \in graph.nodes
    BY <1>5, OutgoingInGraph DEF Fail
  <2>2. Publish(n, visits[n], FALSE, {}) /\ graph' = graph
    BY <1>5 DEF Fail
  <2>3. \A a \in acts \cup {} : a.dst \in graph.nodes
    BY <2>1
  <2> QED BY <2>1, <2>2, <2>3, LeaveInGraph
<1>6. ASSUME NEW n \in Nodes, PollTimeout(n) \/ PollStale(n) PROVE InGraph'
  BY <1>6 DEF PollTimeout, PollStale, TakeDone, InGraph, TypeOK
<1>7. ASSUME NEW n \in Nodes, PollCompleted(n) \/ PollFailed(n) PROVE InGraph'
  <2>1. Route(lastActs[n], pending \ {n}) /\ inflight' = inflight /\ graph' = graph
    BY <1>7 DEF PollCompleted, PollFailed, TakeDone
  <2>2. \A a \in lastActs[n] : a.dst \in graph.nodes
    BY DEF InGraph
  <2> QED BY <2>1, <2>2, RouteInGraph
<1>8. ASSUME NEW m \in inflight, Deliver(m) PROVE InGraph'
  <2>1. Route(m.acts, {}) /\ inflight' \subseteq inflight /\ graph' = graph
    BY <1>8 DEF Deliver
  <2>2. \A a \in m.acts : a.dst \in graph.nodes
    BY DEF InGraph
  <2> QED BY <2>1, <2>2, RouteInGraph
<1>9. ASSUME NEW m \in inflight, TimeoutWhilePublishing(m) PROVE InGraph'
  BY <1>9 DEF TimeoutWhilePublishing, InGraph
<1>10. CASE Return \/ PollReturn \/ PollWait \/ Cancel \/ UNCHANGED vars
  BY <1>10 DEF Return, PollReturn, PollWait, Cancel, vars, InGraph
<1>11. ASSUME NEW n \in Nodes, Ask(n) PROVE InGraph'
  BY <1>11 DEF Ask, InGraph
<1>12. ASSUME NEW n \in Nodes, Decide(n) PROVE InGraph'
  <2>1. PICK decided \in SUBSET Undecided(n), ok \in BOOLEAN :
          /\ \E lf \in {"completed", "failed"} :
               Leave(n, lf, OutgoingActivations(n, ok, decided, visits[n]))
          /\ \/ inflight' = inflight
             \/ \E acts \in {{}, OutgoingActivations(n, ok, decided, visits[n])} :
                  Publish(n, visits[n], ok, acts)
    BY <1>12, DecideCases
  <2>2. \A a \in OutgoingActivations(n, ok, decided, visits[n]) : a.dst \in graph.nodes
    BY OutgoingInGraph
  <2>3. graph' = graph
    BY <1>12 DEF Decide
  <2>4. PICK lf \in {"completed", "failed"} :
          Leave(n, lf, OutgoingActivations(n, ok, decided, visits[n]))
    BY <2>1
  <2>5. \E acts \in {{}, OutgoingActivations(n, ok, decided, visits[n])} :
          Publish(n, visits[n], ok, acts) \/ inflight' = inflight
    BY <2>1
  <2> QED BY <2>2, <2>3, <2>4, <2>5, LeaveInGraph
<1> QED
  BY <1>1, <1>2, <1>3, <1>4, <1>5, <1>6, <1>7, <1>8, <1>9, <1>10, <1>11, <1>12 DEF Next

\* Nobody publishes without an event bus.
LEMMA NextQuietBus ==
  ASSUME TypeOK, ~executor.bus, inflight = {}, [Next]_vars
  PROVE  executor' = executor /\ graph' = graph /\ inflight' = {}
<1> USE DEF argVars, workerVars, gcVars, hubVars
<1>1. ASSUME NEW n \in Nodes, NodeStep(n) PROVE inflight' = {}
  BY <1>1 DEF NodeStep, Succeed, ConflictCrash, Retry, Fail, Crash, Publish
<1>2. ASSUME NEW n \in Nodes, Start(n) \/ SkipVisit(n) \/ BranchTimeout(n) \/ PollHandle(n)
      PROVE  inflight' = {}
  BY <1>2 DEF Start, SkipVisit, BranchTimeout, PollHandle, PollTimeout, PollCompleted,
              PollFailed, PollStale, TakeDone
<1>3. ASSUME Return \/ PollReturn \/ PollWait \/ Cancel \/ UNCHANGED vars
      PROVE  inflight' = {}
  BY <1>3 DEF Return, PollReturn, PollWait, Cancel, vars
<1>4. ASSUME NEW n \in Nodes, Evaluation(n) PROVE inflight' = {}
  BY <1>4 DEF Evaluation, Ask, Decide, Publish
<1> QED BY <1>1, <1>2, <1>3, <1>4, Lasting DEF Next, NodeStep, Evaluation, PollHandle

LEMMA NextStep == TypeOK /\ StepInv /\ [Next]_vars => StepInv'
<1> SUFFICES ASSUME TypeOK, StepInv, [Next]_vars PROVE StepInv'
  OBVIOUS
<1> USE DEF argVars, workerVars, gcVars, hubVars
<1>1. InGraph' /\ executor' = executor /\ graph' = graph
  BY NextInGraph, Lasting DEF StepInv
<1> DEFINE Limits == /\ batch # {} => Len(path) < graph.maxSteps
                     /\ Len(path) + Cardinality(Armed)
                          <= graph.maxSteps - 1 + Cardinality(graph.nodes)
<1> SUFFICES ASSUME ~executor.bus PROVE inflight' = {} /\ Limits'
  BY <1>1 DEF StepInv
<1>2. inflight = {} /\ Limits
  BY DEF StepInv
<1>3. inflight' = {}
  BY <1>2, NextQuietBus
<1>4. Armed \subseteq graph.nodes /\ Armed' \subseteq graph.nodes
  BY <1>1 DEF Armed
<1>5. /\ IsFiniteSet(Armed) /\ Cardinality(Armed) \in Nat /\ Cardinality(graph.nodes) \in Nat
      /\ IsFiniteSet(Armed') /\ Cardinality(Armed') \in Nat
      /\ Cardinality(Armed') <= Cardinality(graph.nodes)
  BY <1>4, ArmedBound
<1>6. Len(path) \in Nat /\ graph.maxSteps \in Nat
  BY GraphAssumption DEF TypeOK, IsGraph
<1>7. ASSUME path' = path, batch' = {} \/ batch' \subseteq batch, Armed' \subseteq Armed
      PROVE  Limits'
  <2>1. Cardinality(Armed') <= Cardinality(Armed)
    BY <1>5, <1>7, FS_Subset
  <2> QED BY <1>1, <1>2, <1>5, <1>6, <1>7, <2>1
<1>8. ASSUME path' = path, batch' \subseteq batch, batch # {}
      PROVE  Limits'
  <2>1. Len(path) <= graph.maxSteps - 1
    BY <1>2, <1>6, <1>8
  <2> QED BY <1>1, <1>2, <1>5, <1>6, <1>8, <2>1
<1>9. ASSUME NEW n \in Nodes, Start(n) PROVE Limits'
  <2>1. path' = Append(path, n) /\ path \in Seq(Nodes) /\ batch' = {}
    BY <1>9 DEF Start, CanStep, Runs, TypeOK
  <2>2. Len(path') = Len(path) + 1
    BY <2>1
  <2>3. n \in Armed
    BY <1>9 DEF Start, CanStep, Runs, Armed, StepInv, InGraph
  <2>4. Armed' = Armed \ {n}
    BY <1>1, <1>9, <2>3 DEF Start, Armed, TypeOK
  <2>5. Cardinality(Armed') = Cardinality(Armed) - 1
    BY <1>5, <2>3, <2>4, FS_RemoveElement
  <2> QED BY <1>1, <1>2, <1>5, <1>6, <2>1, <2>2, <2>5
<1>10. ASSUME NEW n \in Nodes, SkipVisit(n) \/ NodeStep(n) \/ BranchTimeout(n) PROVE Limits'
  <2>1. path' = path /\ batch' = batch
    BY <1>10 DEF SkipVisit, NodeStep, Succeed, ConflictCrash, Retry, Fail, Crash, BranchTimeout
  <2>2. \/ life' = life /\ attempt' = attempt
        \/ Retry(n)
        \/ \E lf \in {"completed", "failed"} : \E acts : Leave(n, lf, acts)
    BY <1>10 DEF SkipVisit, NodeStep, Succeed, ConflictCrash, Retry, Fail, Crash, BranchTimeout
  <2>3. ASSUME Retry(n) PROVE Armed' \subseteq Armed
    BY <1>1, <2>3 DEF Retry, Armed, TypeOK
  <2>4. ASSUME NEW lf \in {"completed", "failed"}, NEW acts, Leave(n, lf, acts)
        PROVE  Armed' \subseteq Armed
    BY <1>1, <2>4 DEF Leave, Armed, TypeOK
  <2>5. Armed' \subseteq Armed
    BY <1>1, <2>2, <2>3, <2>4 DEF Armed
  <2> QED BY <1>7, <2>1, <2>5
<1>15. ASSUME NEW n \in Nodes, Ask(n) PROVE Limits'
  <2>1. path' = path /\ batch' = batch /\ life' = life /\ attempt' = attempt
    BY <1>15 DEF Ask
  <2>2. Armed' = Armed
    BY <1>1, <2>1 DEF Armed
  <2> QED BY <1>7, <2>1, <2>2
<1>16. ASSUME NEW n \in Nodes, Decide(n) PROVE Limits'
  <2>1. path' = path /\ batch' = batch
    BY <1>16 DEF Decide
  <2>2. PICK lf \in {"completed", "failed"} : \E acts : Leave(n, lf, acts)
    BY <1>16, DecideCases
  <2>3. Armed' \subseteq Armed
    BY <1>1, <2>2 DEF Leave, Armed, TypeOK
  <2> QED BY <1>7, <2>1, <2>3
<1>11. ASSUME NEW n \in Nodes, PollHandle(n) PROVE Limits'
  <2>1. path' = path /\ batch' \subseteq batch /\ batch # {}
    BY <1>11 DEF PollHandle, PollTimeout, PollCompleted, PollFailed, PollStale, TakeDone
  <2> QED BY <1>8, <2>1
<1>12. ASSUME PollWait PROVE Limits'
  <2>1. path' = path /\ Armed' = Armed /\ Len(path) < graph.maxSteps
    BY <1>6, <1>12 DEF PollWait, GraphDone, Armed
  <2> QED BY <1>1, <1>2, <2>1
<1>13. ASSUME Return \/ PollReturn \/ Cancel \/ UNCHANGED vars PROVE Limits'
  <2>1. path' = path /\ batch' = batch /\ Armed' = Armed
    BY <1>13 DEF Return, PollReturn, Cancel, vars, Armed
  <2> QED BY <1>7, <2>1
<1>14. Limits'
  BY <1>2, <1>9, <1>10, <1>11, <1>12, <1>13, <1>15, <1>16 DEF Next, NodeStep, PollHandle
<1> QED BY <1>3, <1>14

\* In the polling loop max_steps is overshot by the other nodes of the graph at
\* most, whatever the fan-outs, the timeouts and the batches of done tasks.
THEOREM StepBudgetHolds == Spec => []StepBudget
<1>1. TypeOK /\ StepInv => StepBudget
  <2> SUFFICES ASSUME TypeOK, StepInv, ~executor.bus
               PROVE  Len(path) <= graph.maxSteps + Cardinality(graph.nodes) - 1
    BY DEF StepBudget
  <2>1. Armed \subseteq graph.nodes
    BY DEF Armed
  <2>2. Cardinality(Armed) \in Nat /\ Cardinality(graph.nodes) \in Nat
    BY <2>1, ArmedBound
  <2>3. Len(path) \in Nat /\ graph.maxSteps \in Nat
    BY GraphAssumption DEF TypeOK, IsGraph
  <2> QED BY <2>2, <2>3 DEF StepInv
<1> QED BY <1>1, InitType, NextType, InitStep, NextStep, PTL DEF Spec
-----------------------------------------------------------------------------
(***************************************************************************)
(* The join.  A tag of s belongs to a fan-out at s.  Every execution of a  *)
(* branch b is spent on one arrival at d at most: it is under way, or its  *)
(* completion waits to be handled, or its tag gates a pending d, or d has  *)
(* used it up.  JoinAfterBranches is what is left of that sum.             *)
(***************************************************************************)

TagsOf(s, tags) == {t \in tags : t.id[1] = s}

\* Every tag of s names the branches of s.
FanOut(s, tags) == \A t \in TagsOf(s, tags) : t.branches = SuccessTargets(s)

\* The tags passed through branch b of s, and through no other branch of s.
Through(s, b, tags) ==
  /\ TagsOf(s, tags) # {}
  /\ \A t \in TagsOf(s, tags) : t.via = b

\* What worker n sends on, for the join of s at d.
GoodActs(s, d, n, acts) ==
  \A a \in acts :
    /\ FanOut(s, a.tags)
    /\ a.dst \in SuccessTargets(s) => TagsOf(s, a.tags) # {}
    /\ a.dst = d => n \in SuccessTargets(s) /\ Through(s, n, a.tags)

Tagged(s, d) ==
  /\ \A n \in Nodes : /\ FanOut(s, inherited[n]) /\ FanOut(s, trackers[n])
                      /\ GoodActs(s, d, n, lastActs[n])
  /\ \A m \in inflight : GoodActs(s, d, m.worker, m.acts)
  /\ \A b \in SuccessTargets(s) : life[b] = "running" => Through(s, b, inherited[b])

One(p) == IF p THEN 1 ELSE 0

UnderWay(b)  == One(attempt[b] > 0)
Published(b) == Cardinality({m \in inflight : m.worker = b})
Polled(b)    == One(b \in pending /\ life[b] \in {"completed", "failed"})
Starting(d)  == One(life[d] = "running" /\ attempt[d] = 0)
Gating(s, d, b) == One(life[d] = "pending" /\ \E t \in TagsOf(s, trackers[d]) : t.via = b)

Spent(s, d, b) ==
  Executions(d) + Starting(d) + Gating(s, d, b) + UnderWay(b) + Published(b) + Polled(b)
    <= Executions(b)

\* The two control loops keep apart, and a branch is not gated by itself.
Books ==
  /\ executor.bus => pending = {}
  /\ ~executor.bus => inflight = {}
  /\ batch \subseteq pending
  /\ IsFiniteSet(inflight)
  /\ \A n \in Nodes : \A t \in trackers[n] : t.via # n

Join(s, d) == executor.parallel /\ s \in graph.nodes /\ d \in graph.nodes /\ IsJoin(s, d)

JoinInv ==
  /\ Books
  /\ \A s, d \in Nodes : Join(s, d) =>
       Tagged(s, d) /\ \A b \in SuccessTargets(s) : Spent(s, d, b)

LEMMA JoinFacts ==
  ASSUME TypeOK, NEW s, NEW d, Join(s, d)
  PROVE  /\ s \in Nodes /\ d \in Nodes /\ SuccessTargets(s) \subseteq Nodes
         /\ s \notin SuccessTargets(s) /\ d \notin SuccessTargets(s)
         /\ \A b \in SuccessTargets(s) : graph.maxVisits[b] = 0
<1>1. IsGraph(graph)
  BY GraphAssumption DEF TypeOK
<1>2. graph.nodes \subseteq Nodes /\ \A e \in graph.edges : e.dst \in Nodes
  BY <1>1 DEF IsGraph
<1>3. SuccessTargets(s) \subseteq Nodes
  BY <1>2 DEF SuccessTargets, OutEdges
<1> QED BY <1>2, <1>3 DEF Join, IsJoin

LEMMA CountTypes ==
  ASSUME TypeOK, BudgetInv, Books, NEW s, NEW d \in Nodes, NEW b \in Nodes
  PROVE  /\ Executions(d) \in Nat /\ Executions(b) \in Nat
         /\ Starting(d) \in {0, 1} /\ Gating(s, d, b) \in {0, 1}
         /\ UnderWay(b) \in {0, 1} /\ Polled(b) \in {0, 1}
         /\ Published(b) \in Nat
<1>1. IsFiniteSet({m \in inflight : m.worker = b})
  BY FS_Subset DEF Books
<1>2. Published(b) \in Nat
  BY <1>1, FS_CardinalityType DEF Published
<1>3. Executions(d) \in Nat /\ Executions(b) \in Nat
  BY DEF BudgetInv
<1> QED BY <1>2, <1>3 DEF Starting, Gating, UnderWay, Polled, One

\* What a worker evaluates respects the tags of every join.
LEMMA OutgoingGood ==
  ASSUME TypeOK, NEW s, NEW d, Join(s, d), Tagged(s, d),
         NEW n \in Nodes, life[n] = "running", NEW ok \in BOOLEAN, NEW decided, NEW visit
  PROVE  GoodActs(s, d, n, OutgoingActivations(n, ok, decided, visit))
<1> DEFINE es   == Traversed(n, ok, decided)
           dsts == {e.dst : e \in es}
           own(x) == [id |-> <<n, visit>>, branches |-> dsts, via |-> x]
           extra(x) == IF Cardinality(dsts) > 1 THEN {own(x)} ELSE {}
<1>1. es \subseteq {e \in OutEdges(n) : ShouldTraverse(e, ok, decided)}
  BY DEF Traversed, PriorityFilter, FirstOnly
<1>2. \A e \in es : e.src = n /\ e \in graph.edges
  BY <1>1 DEF OutEdges
<1>7. \A a \in OutgoingActivations(n, ok, decided, visit) :
        a.dst \in dsts /\ a.tags = inherited[n] \cup extra(a.dst)
  <2>1. OutgoingActivations(n, ok, decided, visit)
          = {[dst |-> x, tags |-> inherited[n] \cup extra(x)] : x \in dsts}
    BY Zenon DEF OutgoingActivations
  <2> HIDE DEF extra, dsts
  <2> QED BY <2>1
<1> SUFFICES ASSUME NEW x \in dsts
             PROVE  /\ FanOut(s, inherited[n] \cup extra(x))
                    /\ x \in SuccessTargets(s) => TagsOf(s, inherited[n] \cup extra(x)) # {}
                    /\ x = d => /\ n \in SuccessTargets(s)
                               /\ Through(s, n, inherited[n] \cup extra(x))
  <2> HIDE DEF extra, dsts
  <2> QED BY <1>7 DEF GoodActs
<1>3. n \in Sources(x)
  BY <1>2 DEF Sources
<1>4. FanOut(s, inherited[n])
  BY DEF Tagged
<1>5. CASE n = s
  <2>1. \A e \in OutEdges(s) : e.cond = "on_success"
    BY DEF Join, IsJoin
  <2>2. ok /\ es = OutEdges(s)
    <3>1. ok
      BY <1>1, <1>5, <2>1 DEF ShouldTraverse
    <3>2. {e \in OutEdges(s) : ShouldTraverse(e, ok, decided)} = OutEdges(s)
      BY <2>1, <3>1 DEF ShouldTraverse
    <3>3. PriorityFilter(OutEdges(s)) = OutEdges(s)
      BY <2>1 DEF PriorityFilter
    <3> QED BY <1>5, <3>1, <3>2, <3>3 DEF Traversed, Join
  <2>3. dsts = SuccessTargets(s)
    BY <2>1, <2>2 DEF SuccessTargets
  <2>4. Cardinality(dsts) > 1
    BY <2>3 DEF Join, IsJoin
  <2>5. extra(x) = {own(x)} /\ own(x).id[1] = s /\ own(x).branches = SuccessTargets(s)
    BY <1>5, <2>3, <2>4
  <2>6. x # d
    BY <2>3, JoinFacts
  <2> HIDE DEF own, dsts, extra
  <2> QED BY <1>4, <2>5, <2>6 DEF FanOut, TagsOf
<1>6. CASE n # s
  <2>1. \A t \in extra(x) : t.id[1] = n
    OBVIOUS
  <2> HIDE DEF extra, dsts
  <2>2. TagsOf(s, inherited[n] \cup extra(x)) = TagsOf(s, inherited[n])
    BY <1>6, <2>1 DEF TagsOf
  <2>3. x \in SuccessTargets(s) \cup {d} => n \in SuccessTargets(s)
    BY <1>3, <1>6 DEF Join, IsJoin
  <2>4. n \in SuccessTargets(s) => Through(s, n, inherited[n])
    BY DEF Tagged
  <2> QED BY <1>4, <2>2, <2>3, <2>4 DEF FanOut, Through
<1> QED BY <1>5, <1>6

\* Routing, seen from one worker: it is left alone, or an activation arrives at
\* it and starts it or makes it wait.
Untouched(n) ==
  /\ life'[n] = life[n] /\ trackers'[n] = trackers[n]
  /\ inherited'[n] = inherited[n] /\ lastActs'[n] = lastActs[n]

Arrival(n, a) ==
  /\ a.dst = n /\ life[n] # "running"
  /\ trackers'[n] = TrackersAfter(a) /\ lastActs'[n] = {}
  /\ \/ IsComplete(TrackersAfter(a)) /\ life'[n] = "running" /\ inherited'[n] = a.tags
     \/ ~IsComplete(TrackersAfter(a)) /\ life'[n] = "pending" /\ inherited'[n] = {}

LEMMA RouteCases ==
  ASSUME TypeOK, NEW acts, NEW tracked, Route(acts, tracked)
  PROVE  /\ \A n \in Nodes : Untouched(n) \/ \E a \in acts : Arrival(n, a)
         /\ attempt' = attempt /\ deciding' = deciding
         /\ executor.bus => pending' = pending
         /\ ~executor.bus => /\ tracked \subseteq pending'
                             /\ \A n \in Nodes : n \in pending' => n \in tracked \/ life'[n] = "running"
<1> DEFINE accepted == Accepted(acts)
           dsts     == {x.dst : x \in accepted}
           act(n)   == Target(accepted, n)
           starts   == {n \in dsts : IsComplete(TrackersAfter(act(n)))}
<1>1. \A n \in dsts : act(n) \in acts /\ act(n).dst = n /\ life[n] # "running"
  <2> SUFFICES ASSUME NEW n \in dsts
               PROVE  act(n) \in acts /\ act(n).dst = n /\ life[n] # "running"
    OBVIOUS
  <2>1. \E a \in accepted : a.dst = n
    OBVIOUS
  <2> HIDE DEF accepted
  <2>2. act(n) \in accepted /\ act(n).dst = n
    BY <2>1 DEF Target
  <2> QED BY <2>2 DEF accepted, Accepted
<1>2. \A n \in Nodes : n \in starts <=> n \in dsts /\ IsComplete(TrackersAfter(act(n)))
  OBVIOUS
<1>3. /\ life' = [n \in Nodes |-> IF n \in starts THEN "running"
                                  ELSE IF n \in dsts THEN "pending" ELSE life[n]]
      /\ trackers' = [n \in Nodes |-> IF n \in dsts THEN TrackersAfter(act(n))
                                      ELSE trackers[n]]
      /\ inherited' = [n \in Nodes |-> IF n \in starts THEN act(n).tags
                                       ELSE IF n \in dsts THEN {} ELSE inherited[n]]
      /\ lastActs' = [n \in Nodes |-> IF n \in dsts THEN {} ELSE lastActs[n]]
      /\ pending' = (IF executor.bus THEN pending ELSE tracked \cup starts)
      /\ attempt' = attempt /\ deciding' = deciding
  BY DEF Route
<1> HIDE DEF accepted, dsts, act, starts
<1>4. ASSUME NEW n \in Nodes, n \notin dsts PROVE Untouched(n)
  BY <1>2, <1>3, <1>4 DEF Untouched
<1>5. ASSUME NEW n \in Nodes, n \in dsts PROVE Arrival(n, act(n))
  BY <1>1, <1>2, <1>3, <1>5 DEF Arrival
<1>6. \A n \in Nodes : n \in starts => life'[n] = "running"
  BY <1>3
<1> QED BY <1>1, <1>3, <1>4, <1>5, <1>6

\* No worker waits for the branch it is itself.
LEMMA RouteApart ==
  ASSUME TypeOK, Books, NEW acts, NEW tracked, Route(acts, tracked)
  PROVE  \A m \in Nodes : \A t \in trackers'[m] : t.via # m
<1>1. \A m \in Nodes, a \in acts : Arrival(m, a) => \A t \in TrackersAfter(a) : t.via # m
  BY DEF Arrival, TrackersAfter, Books
<1>2. \A m \in Nodes : Untouched(m) \/ \E a \in acts : Arrival(m, a)
  BY RouteCases
<1> QED BY <1>1, <1>2 DEF Untouched, Arrival, Books

\* Routing what worker n sent on respects the tags of every join: a branch whose
\* tags are not all its own is never started.
LEMMA RouteTagged ==
  ASSUME TypeOK, Books, NEW s, NEW d, Join(s, d), Tagged(s, d), NEW n, NEW acts,
         acts \in SUBSET Activation, GoodActs(s, d, n, acts), NEW tracked, Route(acts, tracked),
         graph' = graph, inflight' \subseteq inflight
  PROVE  Tagged(s, d)'
<1> DEFINE B == SuccessTargets(s)
<1>1. B' = B
  BY DEF SuccessTargets, OutEdges
<1>2. \A m \in Nodes, a \in acts : Arrival(m, a) => FanOut(s, TrackersAfter(a))
  BY DEF Arrival, TrackersAfter, FanOut, TagsOf, Tagged, GoodActs
<1>3. \A m \in Nodes, a \in acts : Arrival(m, a) => \A t \in TrackersAfter(a) : t.via # m
  BY DEF Arrival, TrackersAfter, Books
<1>4. \A m \in Nodes : Untouched(m) \/ \E a \in acts : Arrival(m, a)
  BY RouteCases
<1>6. \A m \in Nodes : FanOut(s, trackers'[m])
  BY <1>2, <1>4 DEF Untouched, Arrival, Tagged
<1>7. \A m \in Nodes : FanOut(s, inherited'[m])
  BY <1>4 DEF Untouched, Arrival, Tagged, GoodActs, FanOut, TagsOf
<1>8. \A m \in Nodes : GoodActs(s, d, m, lastActs'[m])
  <2>1. \A m \in Nodes : GoodActs(s, d, m, {})
    BY DEF GoodActs
  <2>2. \A m \in Nodes : lastActs'[m] = lastActs[m] \/ lastActs'[m] = {}
    BY <1>4 DEF Untouched, Arrival
  <2>3. \A m \in Nodes : GoodActs(s, d, m, lastActs[m])
    BY DEF Tagged
  <2> QED BY <2>1, <2>2, <2>3
<1>9. ASSUME NEW b \in B, life'[b] = "running" PROVE Through(s, b, inherited'[b])
  <2>1. b \in Nodes
    BY JoinFacts
  <2>2. CASE Untouched(b)
    BY <1>9, <2>2 DEF Untouched, Tagged
  <2>3. ASSUME NEW a \in acts, Arrival(b, a) PROVE Through(s, b, inherited'[b])
    <3>1. IsComplete(TrackersAfter(a)) /\ inherited'[b] = a.tags /\ a.dst = b
      BY <1>9, <2>3 DEF Arrival
    <3>2. TagsOf(s, a.tags) # {}
      BY <3>1 DEF GoodActs
    <3>3. ASSUME NEW t \in TagsOf(s, a.tags), t.via # b PROVE FALSE
      <4>1. t \in TrackersAfter(a)
        BY <3>1, <3>3 DEF TrackersAfter, TagsOf
      <4>2. t.branches = B
        BY <1>2, <2>1, <2>3, <3>3, <4>1 DEF FanOut, TagsOf
      <4>3. {u.via : u \in {v \in TrackersAfter(a) : v.id = t.id}} = B
        BY <3>1, <4>1, <4>2 DEF IsComplete
      <4>4. \E u \in TrackersAfter(a) : u.via = b
        BY <4>3
      <4> QED BY <1>3, <2>1, <2>3, <4>4
    <3> QED BY <3>1, <3>2, <3>3 DEF Through
  <2> QED BY <1>4, <2>1, <2>2, <2>3
<1>10. \A m \in inflight' : GoodActs(s, d, m.worker, m.acts)
  BY DEF Tagged
<1>11. Tagged(s, d)'
  <2>1. /\ \A m \in Nodes : FanOut(s, inherited[m])' /\ FanOut(s, trackers[m])'
    BY <1>1, <1>6, <1>7 DEF FanOut
  <2>2. \A m \in Nodes : GoodActs(s, d, m, lastActs[m])'
    BY <1>1, <1>8 DEF GoodActs, FanOut, Through
  <2>3. \A m \in inflight' : GoodActs(s, d, m.worker, m.acts)'
    BY <1>1, <1>10 DEF GoodActs, FanOut, Through
  <2>4. \A b \in B' : life'[b] = "running" => Through(s, b, inherited[b])'
    BY <1>1, <1>9 DEF Through
  <2> QED BY <2>1, <2>2, <2>3, <2>4 DEF Tagged
<1> QED BY <1>11

\* An arrival at the join uses up what its branches have put there.
LEMMA RouteSums ==
  ASSUME TypeOK, Books, NEW s, NEW d, Join(s, d), Tagged(s, d), NEW n, NEW acts,
         acts \in SUBSET Activation, GoodActs(s, d, n, acts), NEW tracked, Route(acts, tracked),
         NEW b \in SuccessTargets(s)
  PROVE  /\ Starting(d)' + Gating(s, d, b)' <= Starting(d) + Gating(s, d, b) + One(b = n)
         /\ UnderWay(b)' = UnderWay(b)
<1>1. d \in Nodes /\ d \notin SuccessTargets(s)
  BY JoinFacts
<1>2. UnderWay(b)' = UnderWay(b) /\ attempt' = attempt
  BY RouteCases DEF UnderWay
<1>3. CASE Untouched(d)
  BY <1>2, <1>3 DEF Untouched, Starting, Gating, One
<1>4. ASSUME NEW a \in acts, Arrival(d, a)
      PROVE  Starting(d)' + Gating(s, d, b)' <= Starting(d) + Gating(s, d, b) + One(b = n)
  <2>1. /\ a.dst = d /\ life[d] # "running" /\ trackers'[d] = TrackersAfter(a)
        /\ n \in SuccessTargets(s) /\ Through(s, n, a.tags) /\ FanOut(s, a.tags)
    BY <1>4 DEF Arrival, GoodActs
  <2>2. ASSUME NEW u \in TagsOf(s, TrackersAfter(a)), u.via = b
        PROVE  Gating(s, d, b) = 1 \/ b = n
    <3>1. u \in a.tags \/ (life[d] = "pending" /\ u \in trackers[d])
      BY <2>1 DEF TrackersAfter, TagsOf
    <3>2. CASE u \in a.tags
      BY <2>1, <2>2, <3>2 DEF Through, TagsOf
    <3>3. CASE life[d] = "pending" /\ u \in trackers[d]
      BY <2>2, <3>3 DEF Gating, One, TagsOf
    <3> QED BY <3>1, <3>2, <3>3
  <2>3. CASE IsComplete(TrackersAfter(a)) /\ life'[d] = "running"
    <3>1. PICK t \in TagsOf(s, a.tags) : t.via = n
      BY <2>1 DEF Through
    <3>2. t \in TrackersAfter(a) /\ t.id[1] = s /\ t.branches = SuccessTargets(s)
      BY <1>1, <2>1, <3>1 DEF TrackersAfter, FanOut, TagsOf
    <3>3. {u.via : u \in {v \in TrackersAfter(a) : v.id = t.id}} = SuccessTargets(s)
      BY <2>3, <3>2 DEF IsComplete
    <3>4. \E u \in TrackersAfter(a) : u.id = t.id /\ u.via = b
      BY <3>3
    <3>5. Gating(s, d, b) = 1 \/ b = n
      BY <2>2, <3>2, <3>4 DEF TagsOf
    <3>6. Gating(s, d, b)' = 0 /\ Starting(d)' \in {0, 1}
      BY <2>3 DEF Gating, Starting, One
    <3> QED BY <3>5, <3>6 DEF One, Gating, Starting
  <2>4. CASE life'[d] = "pending"
    <3>1. Starting(d)' = 0
      BY <2>4 DEF Starting, One
    <3>2. Gating(s, d, b)' = 1 => Gating(s, d, b) = 1 \/ b = n
      BY <2>1, <2>2 DEF Gating, One
    <3> QED BY <3>1, <3>2 DEF One, Gating, Starting
  <2> QED BY <1>4, <2>3, <2>4 DEF Arrival
<1> QED BY <1>1, <1>2, <1>3, <1>4, RouteCases

\* Every step but a routing one: workers only leave RUNNING, and what they send
\* on is good.
LEMMA TaggedStep ==
  ASSUME TypeOK, NEW s, NEW d, Join(s, d), Tagged(s, d),
         UNCHANGED <<graph, inherited, trackers>>,
         \A m \in Nodes : lastActs'[m] = lastActs[m] \/ GoodActs(s, d, m, lastActs'[m]),
         \A m \in inflight' : m \in inflight \/ GoodActs(s, d, m.worker, m.acts),
         \A m \in Nodes : life'[m] = "running" => life[m] = "running"
  PROVE  Tagged(s, d)'
<1>1. SuccessTargets(s)' = SuccessTargets(s)
  BY DEF SuccessTargets, OutEdges
<1>2. \A m \in Nodes : FanOut(s, inherited[m])' /\ FanOut(s, trackers[m])'
  BY <1>1 DEF FanOut, Tagged
<1>3. \A m \in Nodes : GoodActs(s, d, m, lastActs[m])'
  <2>1. \A m \in Nodes : GoodActs(s, d, m, lastActs'[m])
    BY DEF Tagged
  <2> QED BY <1>1, <2>1 DEF GoodActs, FanOut, Through
<1>4. \A m \in inflight' : GoodActs(s, d, m.worker, m.acts)'
  <2>1. \A m \in inflight' : GoodActs(s, d, m.worker, m.acts)
    BY DEF Tagged
  <2> QED BY <1>1, <2>1 DEF GoodActs, FanOut, Through
<1>5. \A b \in SuccessTargets(s) : life'[b] = "running" => Through(s, b, inherited[b])'
  <2>1. \A b \in SuccessTargets(s) : life'[b] = "running" => Through(s, b, inherited'[b])
    BY JoinFacts DEF Tagged
  <2> QED BY <1>1, <2>1 DEF Through
<1> QED BY <1>1, <1>2, <1>3, <1>4, <1>5 DEF Tagged

\* One event more is at most one more event of its worker.
LEMMA PublishCount ==
  ASSUME TypeOK, Books, NEW n \in Nodes, NEW ok \in BOOLEAN, NEW acts,
         Publish(n, visits[n], ok, acts), NEW b \in Nodes
  PROVE  /\ IsFiniteSet(inflight')
         /\ ~executor.bus => inflight' = inflight
         /\ Published(b) \in Nat /\ Published(b)' \in Nat
         /\ Published(b)' <= Published(b) + One(b = n)
         /\ \A m \in inflight' : m \in inflight \/ (m.worker = n /\ m.acts = acts)
<1> DEFINE ev == [worker |-> n, visit |-> visits[n], ok |-> ok, acts |-> acts]
           of == {m \in inflight : m.worker = b}
<1>1. ev.worker = n /\ ev.acts = acts
  OBVIOUS
<1>2. inflight' = inflight \/ (executor.bus /\ inflight' = inflight \cup {ev})
  BY DEF Publish
<1>3. IsFiniteSet(inflight) /\ IsFiniteSet(of) /\ Cardinality(of) \in Nat
  BY FS_Subset, FS_CardinalityType DEF Books
<1>4. Published(b) = Cardinality(of)
  BY DEF Published
<1>5. CASE inflight' = inflight
  BY <1>3, <1>4, <1>5 DEF Published, One
<1>6. CASE executor.bus /\ inflight' = inflight \cup {ev}
  <2> HIDE DEF ev
  <2>1. {m \in inflight' : m.worker = b} = IF b = n THEN of \cup {ev} ELSE of
    BY <1>1, <1>6
  <2> HIDE DEF of
  <2>2. /\ IsFiniteSet(inflight') /\ Cardinality(of \cup {ev}) \in Nat
        /\ Cardinality(of \cup {ev}) <= Cardinality(of) + 1
    <3>1. IsFiniteSet(inflight \cup {ev}) /\ IsFiniteSet(of \cup {ev})
      BY <1>3, FS_AddElement
    <3>2. Cardinality(of \cup {ev}) = IF ev \in of THEN Cardinality(of) ELSE Cardinality(of) + 1
      BY <1>3, FS_AddElement
    <3> QED BY <1>3, <1>6, <3>1, <3>2
  <2>3. Published(b)' = IF b = n THEN Cardinality(of \cup {ev}) ELSE Cardinality(of)
    BY <2>1 DEF Published
  <2> QED BY <1>1, <1>3, <1>4, <1>6, <2>2, <2>3 DEF One
<1> QED BY <1>2, <1>5, <1>6

\* One event less is one less of its worker.
LEMMA ConsumeCount ==
  ASSUME Books, NEW m \in inflight, inflight' = inflight \ {m}, NEW b
  PROVE  /\ IsFiniteSet(inflight')
         /\ Published(b) \in Nat /\ Published(b)' \in Nat
         /\ Published(b)' = Published(b) - One(b = m.worker)
<1> DEFINE of == {x \in inflight : x.worker = b}
<1>1. IsFiniteSet(inflight) /\ IsFiniteSet(inflight') /\ IsFiniteSet(of) /\ Cardinality(of) \in Nat
  BY FS_Subset, FS_CardinalityType, FS_RemoveElement DEF Books
<1>2. CASE b = m.worker
  <2>1. {x \in inflight' : x.worker = b} = of \ {m} /\ m \in of
    BY <1>2
  <2>2. Cardinality(of \ {m}) = Cardinality(of) - 1 /\ IsFiniteSet(of \ {m})
    BY <1>1, <2>1, FS_RemoveElement
  <2>3. Cardinality(of \ {m}) \in Nat
    BY <2>2, FS_CardinalityType
  <2> QED BY <1>1, <1>2, <2>1, <2>2, <2>3 DEF Published, One
<1>3. CASE b # m.worker
  <2>1. {x \in inflight' : x.worker = b} = of
    BY <1>3
  <2> HIDE DEF of
  <2>2. Published(b) = Cardinality(of) /\ Published(b)' = Cardinality(of)
    BY <2>1 DEF Published, of
  <2> QED BY <1>1, <1>3, <2>2 DEF One
<1> QED BY <1>2, <1>3

LEMMA NextBooks == TypeOK /\ Books /\ [Next]_vars => Books'
<1> SUFFICES ASSUME TypeOK, Books, [Next]_vars PROVE Books'
  OBVIOUS
<1> USE DEF argVars, workerVars, gcVars, hubVars
<1>1. ASSUME NEW n \in Nodes,
             Start(n) \/ SkipVisit(n) \/ Retry(n) \/ BranchTimeout(n)
      PROVE  Books'
  BY <1>1 DEF Start, SkipVisit, Leave, Retry, BranchTimeout, Books
<1>2. ASSUME NEW n \in Nodes, Succeed(n) \/ ConflictCrash(n) \/ Fail(n) \/ Crash(n) PROVE Books'
  <2>1. UNCHANGED <<executor, pending, batch, trackers>>
    BY <1>2 DEF Succeed, ConflictCrash, Fail, Crash, Leave
  <2>2. PICK ok \in BOOLEAN : \E acts : Publish(n, visits[n], ok, acts)
    BY <1>2 DEF Succeed, ConflictCrash, Fail, Crash
  <2>3. IsFiniteSet(inflight') /\ (~executor.bus => inflight' = inflight)
    BY <2>2, PublishCount
  <2> QED BY <2>1, <2>3 DEF Books
<1>10. ASSUME NEW n \in Nodes, Ask(n) PROVE Books'
  BY <1>10 DEF Ask, Books
<1>11. ASSUME NEW n \in Nodes, Decide(n) PROVE Books'
  <2>1. UNCHANGED <<executor, pending, batch>> /\ trackers' = trackers
    BY <1>11, DecideCases DEF Decide, Leave
  <2>2. \/ inflight' = inflight
        \/ \E ok \in BOOLEAN : \E acts : Publish(n, visits[n], ok, acts)
    BY <1>11, DecideCases
  <2>3. IsFiniteSet(inflight') /\ (~executor.bus => inflight' = inflight)
    BY <2>2, PublishCount DEF Books
  <2> QED BY <2>1, <2>3 DEF Books
<1>3. ASSUME NEW n \in Nodes, PollTimeout(n) \/ PollStale(n) PROVE Books'
  BY <1>3 DEF PollTimeout, PollStale, TakeDone, Books
<1>4. ASSUME NEW n \in Nodes, PollCompleted(n) \/ PollFailed(n) PROVE Books'
  <2>1. /\ Route(lastActs[n], pending \ {n}) /\ n \in batch /\ batch' = batch \ {n}
        /\ UNCHANGED <<executor, inflight>>
    BY <1>4 DEF PollCompleted, PollFailed, TakeDone
  <2> QED BY <2>1, RouteCases, RouteApart DEF Books
<1>5. ASSUME NEW m \in inflight, Deliver(m) PROVE Books'
  <2>1. Route(m.acts, {}) /\ inflight' = inflight \ {m} /\ UNCHANGED <<executor, batch>>
    BY <1>5 DEF Deliver
  <2>2. executor.bus /\ IsFiniteSet(inflight')
    BY <2>1, ConsumeCount DEF Books
  <2> QED BY <2>1, <2>2, RouteCases, RouteApart DEF Books
<1>6. ASSUME NEW m \in inflight, TimeoutWhilePublishing(m) PROVE Books'
  <2>1. inflight' = inflight \ {m} /\ UNCHANGED <<executor, batch, pending, trackers>>
    BY <1>6 DEF TimeoutWhilePublishing
  <2> QED BY <2>1, ConsumeCount DEF Books
<1>7. CASE Return \/ PollReturn \/ Cancel \/ UNCHANGED vars
  BY <1>7 DEF Return, PollReturn, Cancel, vars, Books
<1>8. CASE PollWait
  BY <1>8 DEF PollWait, DoneTasks, Books
<1> QED BY <1>1, <1>2, <1>3, <1>4, <1>5, <1>6, <1>7, <1>8, <1>10, <1>11 DEF Next

LEMMA InitJoin == Init => JoinInv
<1> SUFFICES ASSUME Init PROVE JoinInv
  OBVIOUS
<1>1. TypeOK /\ BudgetInv
  BY InitType, InitBudget
<1>2. Books
  BY FS_EmptySet DEF Init, Books
<1>3. ASSUME NEW s \in Nodes, NEW d \in Nodes, Join(s, d) PROVE Tagged(s, d)
  <2>1. \A b \in SuccessTargets(s) : life[b] # "running"
    BY <1>1, <1>3, JoinFacts DEF Init, Join, IsJoin
  <2> QED BY <2>1 DEF Init, Tagged, FanOut, TagsOf, GoodActs
<1>4. ASSUME NEW s \in Nodes, NEW d \in Nodes, Join(s, d), NEW b \in SuccessTargets(s)
      PROVE  Spent(s, d, b)
  <2>1. b \in Nodes
    BY <1>1, <1>4, JoinFacts
  <2>2. {m \in inflight : m.worker = b} = {} /\ {i \in DOMAIN path : path[i] = d} = {}
    BY DEF Init
  <2>3. Published(b) = 0 /\ Executions(d) = 0 /\ Executions(b) \in Nat
    BY <1>1, <2>1, <2>2, FS_EmptySet DEF Published, Executions, BudgetInv
  <2>4. Starting(d) = 0
    BY <1>4 DEF Init, Starting, One, Join, IsJoin
  <2>5. Gating(s, d, b) = 0 /\ UnderWay(b) = 0
    BY <2>1 DEF Init, Gating, TagsOf, UnderWay, One
  <2>6. Polled(b) = 0
    BY <2>1 DEF Init, Polled, One
  <2> QED BY <2>3, <2>4, <2>5, <2>6 DEF Spent
<1> QED BY <1>2, <1>3, <1>4 DEF JoinInv

\* A worker's attempt ends: what was under way is published or left to the
\* polling loop; the join gets no more than it had.
LEMMA LeaveSums ==
  ASSUME TypeOK, Books, NEW d \in Nodes, NEW s, NEW b \in Nodes, NEW n \in Nodes, attempt[n] > 0,
         NEW lf \in {"completed", "failed"}, NEW acts, Leave(n, lf, acts),
         NEW ok \in BOOLEAN, NEW acts2, Publish(n, visits[n], ok, acts2),
         pending' = pending
  PROVE  /\ Starting(d)' <= Starting(d) /\ Gating(s, d, b)' <= Gating(s, d, b)
         /\ UnderWay(b)' + Published(b)' + Polled(b)'
              <= UnderWay(b) + Published(b) + Polled(b)
<1>1. /\ \A m \in Nodes \ {n} : life'[m] = life[m] /\ attempt'[m] = attempt[m]
      /\ life'[n] = lf /\ attempt'[n] = 0 /\ trackers' = trackers
  BY DEF Leave, TypeOK
<1>2. Starting(d)' <= Starting(d) /\ Gating(s, d, b)' <= Gating(s, d, b)
  BY <1>1 DEF Starting, Gating, One
<1>3. /\ Published(b) \in Nat /\ Published(b)' \in Nat
      /\ Published(b)' <= Published(b) + One(b = n)
      /\ ~executor.bus => inflight' = inflight
  BY PublishCount
<1>4. UnderWay(b)' + One(b = n) <= UnderWay(b)
  BY <1>1 DEF UnderWay, One, TypeOK
<1>5. CASE executor.bus
  <2>1. Polled(b) = 0 /\ Polled(b)' = 0
    BY <1>5 DEF Polled, One, Books
  <2> QED BY <1>2, <1>3, <1>4, <2>1 DEF UnderWay, One
<1>6. CASE ~executor.bus
  <2>1. Published(b)' = Published(b)
    BY <1>3, <1>6 DEF Published
  <2>2. Polled(b)' <= Polled(b) + One(b = n)
    BY <1>1 DEF Polled, One
  <2> QED BY <1>2, <1>3, <1>4, <2>1, <2>2 DEF UnderWay, Polled, One
<1> QED BY <1>5, <1>6

\* Each step keeps the sum below the executions of the branch.
LEMMA NextSpent ==
  ASSUME TypeOK, BudgetInv, Books, [Next]_vars, NEW s, NEW d, Join(s, d), Tagged(s, d),
         NEW b \in SuccessTargets(s), Spent(s, d, b)
  PROVE  Tagged(s, d)' /\ Spent(s, d, b)'
<1> USE DEF argVars, workerVars, gcVars, hubVars
<1>0. /\ d \in Nodes /\ b \in Nodes /\ d # b /\ graph.maxVisits[b] = 0
  BY JoinFacts
<1>20. /\ Executions(d) \in Nat /\ Executions(b) \in Nat
      /\ Starting(d) \in {0, 1} /\ Gating(s, d, b) \in {0, 1}
      /\ UnderWay(b) \in {0, 1} /\ Polled(b) \in {0, 1} /\ Published(b) \in Nat
  BY <1>0, CountTypes
<1>21. /\ Starting(d)' \in {0, 1} /\ Gating(s, d, b)' \in {0, 1}
      /\ UnderWay(b)' \in {0, 1} /\ Polled(b)' \in {0, 1}
  BY DEF Starting, Gating, UnderWay, Polled, One
<1>22. ASSUME path' = path,
             Starting(d)' + Gating(s, d, b)' + UnderWay(b)' + Published(b)' + Polled(b)'
               <= Starting(d) + Gating(s, d, b) + UnderWay(b) + Published(b) + Polled(b),
             Published(b)' \in Nat
      PROVE  Spent(s, d, b)'
  <2>1. Executions(d)' = Executions(d) /\ Executions(b)' = Executions(b)
    BY <1>22 DEF Executions
  <2> QED BY <1>20, <1>21, <1>22, <2>1 DEF Spent
<1>1. ASSUME NEW n \in Nodes, Start(n) PROVE Tagged(s, d)' /\ Spent(s, d, b)'
  <2>1. Tagged(s, d)'
    BY <1>1, TaggedStep DEF Start
  <2>2. /\ path' = Append(path, n) /\ path \in Seq(Nodes)
        /\ attempt[n] = 0 /\ life[n] = "running" /\ attempt'[n] = 1
        /\ \A m \in Nodes \ {n} : attempt'[m] = attempt[m]
        /\ UNCHANGED <<life, trackers, pending, inflight>>
    BY <1>1 DEF Start, CanStep, Runs, TypeOK
  <2>3. /\ Executions(d)' = Executions(d) + One(d = n)
        /\ Executions(b)' = Executions(b) + One(b = n)
    BY <1>0, <2>2, AppendOccurrences DEF Executions, Occurrences, One
  <2>4. Gating(s, d, b)' = Gating(s, d, b) /\ Published(b)' = Published(b) /\ Polled(b)' = Polled(b)
    BY <2>2 DEF Gating, Published, Polled
  <2>5. Starting(d)' + One(d = n) = Starting(d)
    BY <1>0, <2>2 DEF Starting, One
  <2>6. UnderWay(b)' = UnderWay(b) + One(b = n)
    BY <1>0, <2>2 DEF UnderWay, One
  <2>7. One(d = n) \in {0, 1} /\ One(b = n) \in {0, 1}
    BY DEF One
  <2> QED BY <1>20, <1>21, <2>1, <2>3, <2>4, <2>5, <2>6, <2>7 DEF Spent
<1>24. ASSUME NEW n \in Nodes, life[n] = "running", graph.maxVisits[n] > 0,
              NEW acts, Leave(n, "completed", acts), GoodActs(s, d, n, acts),
              UNCHANGED <<graph, inflight, pending, path>>
       PROVE  Tagged(s, d)' /\ Spent(s, d, b)'
  <2>1. /\ UNCHANGED <<inherited, trackers>>
        /\ \A m \in Nodes \ {n} : life'[m] = life[m] /\ attempt'[m] = attempt[m]
                                 /\ lastActs'[m] = lastActs[m]
        /\ life'[n] = "completed" /\ attempt'[n] = 0
        /\ lastActs'[n] = acts
    BY <1>24 DEF Leave, TypeOK
  <2>2. Tagged(s, d)'
    <3> HIDE DEF argVars, workerVars, gcVars, hubVars
    <3>1. \A m \in Nodes : lastActs'[m] = lastActs[m] \/ GoodActs(s, d, m, lastActs'[m])
      BY <1>24, <2>1
    <3> QED BY <1>24, <2>1, <3>1, TaggedStep
  <2>3. b # n
    BY <1>0, <1>24
  <2>4. /\ UnderWay(b)' = UnderWay(b) /\ Published(b)' = Published(b) /\ Polled(b)' = Polled(b)
        /\ Starting(d)' <= Starting(d) /\ Gating(s, d, b)' <= Gating(s, d, b)
    BY <1>0, <1>24, <2>1, <2>3 DEF UnderWay, Published, Polled, Starting, Gating, One
  <2> QED BY <1>20, <1>21, <1>22, <1>24, <2>2, <2>4
<1>2. ASSUME NEW n \in Nodes, SkipVisit(n) PROVE Tagged(s, d)' /\ Spent(s, d, b)'
  <2>1. PICK decided : Leave(n, "completed", OutgoingActivations(n, TRUE, decided, visits[n] + 1))
    BY <1>2 DEF SkipVisit
  <2>2. GoodActs(s, d, n, OutgoingActivations(n, TRUE, decided, visits[n] + 1))
    BY <1>2, OutgoingGood DEF SkipVisit, CanStep, Runs
  <2>3. /\ UNCHANGED <<graph, inflight, pending, path>>
        /\ life[n] = "running" /\ graph.maxVisits[n] > 0
    BY <1>2 DEF SkipVisit, CanStep, Runs, Exceeds
  <2> QED BY <1>24, <2>1, <2>2, <2>3
<1>3. ASSUME NEW n \in Nodes, attempt[n] > 0, life[n] = "running",
             NEW lf \in {"completed", "failed"}, NEW ok \in BOOLEAN, NEW acts, NEW acts2,
             Leave(n, lf, acts), Publish(n, visits[n], ok, acts2),
             UNCHANGED <<graph, pending, path>>,
             GoodActs(s, d, n, acts), GoodActs(s, d, n, acts2)
      PROVE  Tagged(s, d)' /\ Spent(s, d, b)'
  <2>1. /\ UNCHANGED <<inherited, trackers>>
        /\ \A m \in Nodes \ {n} : life'[m] = life[m] /\ lastActs'[m] = lastActs[m]
        /\ life'[n] = lf /\ lastActs'[n] = acts
    BY <1>3 DEF Leave, TypeOK
  <2>2. \A m \in inflight' : m \in inflight \/ GoodActs(s, d, m.worker, m.acts)
    <3>1. \A m \in inflight' : m \in inflight \/ (m.worker = n /\ m.acts = acts2)
      BY <1>3 DEF Publish
    <3> QED BY <1>3, <3>1
  <2>3. Tagged(s, d)'
    <3>1. \A m \in Nodes : lastActs'[m] = lastActs[m] \/ GoodActs(s, d, m, lastActs'[m])
      BY <1>3, <2>1
    <3> QED BY <1>3, <2>1, <2>2, <3>1, TaggedStep
  <2>4. Published(b)' \in Nat
    BY <1>0, <1>3, PublishCount
  <2>5. /\ Starting(d)' <= Starting(d) /\ Gating(s, d, b)' <= Gating(s, d, b)
        /\ UnderWay(b)' + Published(b)' + Polled(b)'
             <= UnderWay(b) + Published(b) + Polled(b)
    BY <1>0, <1>3, LeaveSums
  <2> QED BY <1>20, <1>21, <1>22, <1>3, <2>3, <2>4, <2>5
<1>23. \A n : GoodActs(s, d, n, {})
  BY DEF GoodActs
<1>4. ASSUME NEW n \in Nodes, Succeed(n) PROVE Tagged(s, d)' /\ Spent(s, d, b)'
  <2>1. PICK decided :
          LET acts == OutgoingActivations(n, TRUE, decided, visits[n])
          IN  Leave(n, "completed", acts) /\ Publish(n, visits[n], TRUE, acts)
    BY <1>4 DEF Succeed
  <2>2. GoodActs(s, d, n, OutgoingActivations(n, TRUE, decided, visits[n]))
    BY <1>4, OutgoingGood DEF Succeed, CanStep, Runs
  <2>3. attempt[n] > 0 /\ life[n] = "running" /\ UNCHANGED <<graph, pending, path>>
    BY <1>4 DEF Succeed, CanStep, Runs
  <2> QED BY <1>3, <2>1, <2>2, <2>3
<1>5. ASSUME NEW n \in Nodes, ConflictCrash(n) \/ Crash(n) \/ Fail(n)
      PROVE  Tagged(s, d)' /\ Spent(s, d, b)'
  <2>1. attempt[n] > 0
    <3>1. graph.attempts[n] > 0
      BY GraphAssumption DEF TypeOK, IsGraph
    <3>2. attempt[n] > 0 \/ attempt[n] = 1 \/ attempt[n] = graph.attempts[n]
      BY <1>5 DEF ConflictCrash, Crash, Fail
    <3> QED BY <3>1, <3>2
  <2>2. life[n] = "running" /\ UNCHANGED <<graph, pending, path>>
    BY <1>5 DEF ConflictCrash, Crash, Fail, CanStep, Runs
  <2>3. Publish(n, visits[n], FALSE, {})
    BY <1>5 DEF ConflictCrash, Crash, Fail
  <2>4. \E acts : Leave(n, "failed", acts) /\ GoodActs(s, d, n, acts)
    <3>1. \A decided : GoodActs(s, d, n, OutgoingActivations(n, FALSE, decided, visits[n]))
      BY <2>2, OutgoingGood
    <3> QED BY <1>5, <1>23, <3>1 DEF ConflictCrash, Crash, Fail
  <2> QED BY <1>3, <1>23, <2>1, <2>2, <2>3, <2>4
<1>25. ASSUME NEW n \in Nodes, Decide(n) PROVE Tagged(s, d)' /\ Spent(s, d, b)'
  <2>1. life[n] = "running" /\ UNCHANGED <<graph, pending, path>>
    BY <1>25 DEF Decide, Runs
  <2>2. \A ok \in BOOLEAN : \A decided : GoodActs(s, d, n, OutgoingActivations(n, ok, decided, visits[n]))
    BY <2>1, OutgoingGood
  <2>3. PICK decided :
          LET acts(ok) == OutgoingActivations(n, ok, decided, visits[n])
          IN  \/ /\ deciding[n] = "ok"
                 /\ Leave(n, "completed", acts(TRUE)) /\ Publish(n, visits[n], TRUE, acts(TRUE))
              \/ /\ deciding[n] = "failed"
                 /\ Leave(n, "failed", acts(FALSE)) /\ Publish(n, visits[n], FALSE, {})
              \/ /\ deciding[n] = "skipped"
                 /\ Leave(n, "completed", acts(TRUE)) /\ inflight' = inflight
    BY <1>25 DEF Decide
  <2>4. /\ deciding[n] \in {"ok", "failed"} => attempt[n] > 0
        /\ deciding[n] = "skipped" => graph.maxVisits[n] > 0
    BY DEF TypeOK, AskedFits, Exceeds
  <2>5. CASE deciding[n] = "ok"
    BY <1>3, <2>1, <2>2, <2>3, <2>4, <2>5
  <2>6. CASE deciding[n] = "failed"
    BY <1>3, <1>23, <2>1, <2>2, <2>3, <2>4, <2>6
  <2>7. CASE deciding[n] = "skipped"
    BY <1>24, <2>1, <2>2, <2>3, <2>4, <2>7
  <2> QED BY <2>3, <2>5, <2>6, <2>7
<1>26. ASSUME NEW n \in Nodes, Ask(n) PROVE Tagged(s, d)' /\ Spent(s, d, b)'
  <2>1. UNCHANGED <<graph, inherited, trackers, lastActs, inflight, life, attempt, pending, path>>
    BY <1>26 DEF Ask
  <2>2. /\ UnderWay(b)' = UnderWay(b) /\ Published(b)' = Published(b) /\ Polled(b)' = Polled(b)
        /\ Starting(d)' = Starting(d) /\ Gating(s, d, b)' = Gating(s, d, b)
    BY <2>1 DEF UnderWay, Published, Polled, Starting, Gating
  <2> QED BY <1>20, <1>22, <2>1, <2>2, TaggedStep
<1>6. ASSUME NEW n \in Nodes, Retry(n) \/ BranchTimeout(n) PROVE Tagged(s, d)' /\ Spent(s, d, b)'
  <2>1. UNCHANGED <<graph, inherited, trackers, lastActs, inflight, life, pending, path>>
    BY <1>6 DEF Retry, BranchTimeout
  <2>2. \A m \in Nodes : attempt'[m] = 0 <=> attempt[m] = 0
    BY <1>6 DEF Retry, BranchTimeout, TypeOK
  <2>3. attempt' \in [Nodes -> Nat] /\ attempt \in [Nodes -> Nat]
    <3>1. CASE Retry(n)
      BY <3>1 DEF Retry, TypeOK
    <3>2. CASE BranchTimeout(n)
      BY <3>2 DEF BranchTimeout, TypeOK
    <3> QED BY <1>6, <3>1, <3>2
  <2>4. /\ UnderWay(b)' = UnderWay(b) /\ Published(b)' = Published(b) /\ Polled(b)' = Polled(b)
        /\ Starting(d)' = Starting(d) /\ Gating(s, d, b)' = Gating(s, d, b)
    BY <1>0, <2>1, <2>2, <2>3 DEF UnderWay, Published, Polled, Starting, Gating, One
  <2> QED BY <1>20, <1>22, <2>1, <2>4, TaggedStep
<1>7. ASSUME NEW n \in Nodes, PollTimeout(n) \/ PollStale(n)
      PROVE  Tagged(s, d)' /\ Spent(s, d, b)'
  <2>1. /\ UNCHANGED <<graph, inherited, trackers, lastActs, inflight, path>>
        /\ pending' = pending \ {n}
        /\ \A m \in Nodes \ {n} : life'[m] = life[m] /\ attempt'[m] = attempt[m]
        /\ \/ life'[n] = "failed" /\ attempt'[n] = 0
           \/ life'[n] = life[n] /\ attempt'[n] = attempt[n]
    BY <1>7 DEF PollTimeout, PollStale, TakeDone, TypeOK
  <2>2. Tagged(s, d)'
    <3>1. \A m \in Nodes : life'[m] = "running" => life[m] = "running"
      BY <2>1
    <3> QED BY <2>1, <3>1, TaggedStep
  <2>3. Published(b)' = Published(b)
    BY <2>1 DEF Published
  <2>4. /\ UnderWay(b)' <= UnderWay(b) /\ Polled(b)' <= Polled(b)
        /\ Starting(d)' <= Starting(d) /\ Gating(s, d, b)' <= Gating(s, d, b)
    BY <1>0, <2>1 DEF UnderWay, Polled, Starting, Gating, One
  <2> QED BY <1>20, <1>21, <1>22, <2>1, <2>2, <2>3, <2>4
<1>8. ASSUME NEW n \in Nodes, PollCompleted(n) \/ PollFailed(n)
      PROVE  Tagged(s, d)' /\ Spent(s, d, b)'
  <2>1. /\ Route(lastActs[n], pending \ {n}) /\ n \in batch
        /\ life[n] \in {"completed", "failed"}
        /\ UNCHANGED <<graph, inflight, path>>
    BY <1>8 DEF PollCompleted, PollFailed, TakeDone
  <2>2. lastActs[n] \in SUBSET Activation /\ GoodActs(s, d, n, lastActs[n])
    BY DEF TypeOK, Tagged
  <2>3. Tagged(s, d)'
    BY <2>1, <2>2, RouteTagged
  <2>4. /\ Starting(d)' + Gating(s, d, b)' <= Starting(d) + Gating(s, d, b) + One(b = n)
        /\ UnderWay(b)' = UnderWay(b)
    BY <2>1, <2>2, RouteSums
  <2>5. Published(b)' = Published(b)
    BY <2>1 DEF Published
  <2>6. Polled(b)' + One(b = n) <= Polled(b)
    <3>1. ~executor.bus /\ n \in pending
      BY <2>1 DEF Books
    <3>2. /\ b \in pending' => (b \in pending /\ b # n) \/ life'[b] = "running"
          /\ life'[b] \in {life[b], "running", "pending"}
      BY <1>0, <2>1, <3>1, RouteCases DEF Untouched, Arrival
    <3>3. CASE b = n
      BY <2>1, <3>1, <3>2, <3>3 DEF Polled, One
    <3>4. CASE b # n
      BY <3>2, <3>4 DEF Polled, One
    <3> QED BY <3>3, <3>4
  <2>7. One(b = n) \in {0, 1}
    BY DEF One
  <2> QED BY <1>20, <1>21, <1>22, <2>1, <2>3, <2>4, <2>5, <2>6, <2>7
<1>9. ASSUME NEW m \in inflight, Deliver(m) PROVE Tagged(s, d)' /\ Spent(s, d, b)'
  <2>1. /\ Route(m.acts, {}) /\ inflight' = inflight \ {m} /\ UNCHANGED <<graph, executor, path>>
    BY <1>9 DEF Deliver
  <2>2. m.acts \in SUBSET Activation /\ GoodActs(s, d, m.worker, m.acts)
    BY DEF TypeOK, Tagged, Event
  <2>3. Tagged(s, d)'
    BY <2>1, <2>2, RouteTagged
  <2>4. /\ Starting(d)' + Gating(s, d, b)' <= Starting(d) + Gating(s, d, b) + One(b = m.worker)
        /\ UnderWay(b)' = UnderWay(b)
    BY <2>1, <2>2, RouteSums
  <2>5. Published(b)' \in Nat /\ Published(b)' = Published(b) - One(b = m.worker)
    BY <2>1, ConsumeCount
  <2>6. Polled(b)' = 0 /\ Polled(b) = 0
    <3>1. executor.bus
      BY DEF Books
    <3> QED BY <2>1, <3>1, RouteCases DEF Polled, One, Books
  <2>7. One(b = m.worker) \in {0, 1}
    BY DEF One
  <2> QED BY <1>20, <1>21, <1>22, <2>1, <2>3, <2>4, <2>5, <2>6, <2>7
<1>10. ASSUME NEW m \in inflight, TimeoutWhilePublishing(m)
       PROVE  Tagged(s, d)' /\ Spent(s, d, b)'
  <2>1. /\ UNCHANGED <<graph, inherited, trackers, lastActs, life, attempt, pending, path>>
        /\ inflight' = inflight \ {m}
    BY <1>10 DEF TimeoutWhilePublishing
  <2>2. Published(b)' \in Nat /\ Published(b)' = Published(b) - One(b = m.worker)
    BY <2>1, ConsumeCount
  <2>3. /\ UnderWay(b)' = UnderWay(b) /\ Polled(b)' = Polled(b)
        /\ Starting(d)' = Starting(d) /\ Gating(s, d, b)' = Gating(s, d, b)
    BY <2>1 DEF UnderWay, Polled, Starting, Gating
  <2>4. One(b = m.worker) \in {0, 1}
    BY DEF One
  <2> QED BY <1>20, <1>22, <2>1, <2>2, <2>3, <2>4, TaggedStep
<1>11. ASSUME Return \/ PollReturn \/ PollWait \/ Cancel \/ UNCHANGED vars
       PROVE  Tagged(s, d)' /\ Spent(s, d, b)'
  <2>1. UNCHANGED <<graph, inherited, trackers, lastActs, inflight, life, attempt, pending, path>>
    BY <1>11 DEF Return, PollReturn, PollWait, Cancel, vars
  <2>2. /\ UnderWay(b)' = UnderWay(b) /\ Published(b)' = Published(b) /\ Polled(b)' = Polled(b)
        /\ Starting(d)' = Starting(d) /\ Gating(s, d, b)' = Gating(s, d, b)
    BY <2>1 DEF UnderWay, Published, Polled, Starting, Gating
  <2> QED BY <1>20, <1>22, <2>1, <2>2, TaggedStep
<1> QED
  BY <1>1, <1>2, <1>4, <1>5, <1>6, <1>7, <1>8, <1>9, <1>10, <1>11, <1>25, <1>26 DEF Next

LEMMA NextJoin == TypeOK /\ BudgetInv /\ JoinInv /\ [Next]_vars => JoinInv'
<1> SUFFICES ASSUME TypeOK, BudgetInv, JoinInv, [Next]_vars PROVE JoinInv'
  OBVIOUS
<1>1. Books /\ Books'
  BY NextBooks DEF JoinInv
<1>2. ASSUME NEW s, NEW d
      PROVE  SuccessTargets(s)' = SuccessTargets(s) /\ (Join(s, d)' => Join(s, d))
  BY Lasting DEF Join, IsJoin, SuccessTargets, Sources, OutEdges
<1>3. ASSUME NEW s \in Nodes, NEW d \in Nodes, Join(s, d)
      PROVE  Tagged(s, d)' /\ \A b \in SuccessTargets(s) : Spent(s, d, b)'
  <2>1. Tagged(s, d) /\ \A b \in SuccessTargets(s) : Spent(s, d, b)
    BY <1>3 DEF JoinInv
  <2>2. PICK b0 \in SuccessTargets(s) : TRUE
    BY <1>3, FS_EmptySet DEF Join, IsJoin
  <2> QED BY <1>1, <1>3, <2>1, <2>2, NextSpent
<1> QED BY <1>1, <1>2, <1>3 DEF JoinInv

\* Whatever the graph, a node that joins the branches of a fan-out executes no
\* more often than any of the branches: with or without an event bus, in every
\* order of completions, failures, retries, timeouts and repeated fan-outs.
THEOREM JoinWaits == Spec => []JoinAfterBranches
<1>1. TypeOK /\ BudgetInv /\ JoinInv => JoinAfterBranches
  <2> SUFFICES ASSUME TypeOK, BudgetInv, JoinInv, executor.parallel,
                      NEW s \in graph.nodes, NEW d \in graph.nodes, IsJoin(s, d),
                      NEW b \in SuccessTargets(s)
               PROVE  Executions(d) <= Executions(b)
    BY DEF JoinAfterBranches
  <2>1. Join(s, d)
    BY DEF Join
  <2>2. s \in Nodes /\ d \in Nodes /\ b \in Nodes
    BY <2>1, JoinFacts
  <2>3. Books /\ Spent(s, d, b)
    BY <2>1, <2>2 DEF JoinInv
  <2>4. /\ Executions(d) \in Nat /\ Executions(b) \in Nat
        /\ Starting(d) \in {0, 1} /\ Gating(s, d, b) \in {0, 1}
        /\ UnderWay(b) \in {0, 1} /\ Polled(b) \in {0, 1} /\ Published(b) \in Nat
    BY <2>2, <2>3, CountTypes
  <2> QED BY <2>3, <2>4 DEF Spent
<1> QED BY InitType, NextType, InitBudget, NextBudget, InitJoin, NextJoin, <1>1, PTL DEF Spec
-----------------------------------------------------------------------------
(***************************************************************************)
(* A polling run leaves nothing running behind.  What could go wrong is    *)
(* that a worker that is done, but not handled yet, is started anew by     *)
(* another one: the loop would then drop the new task with the old one.    *)
(* It cannot, because two workers that are tracked at the same time have   *)
(* gone through different branches of some fan-out (Split), and what comes *)
(* from one of them waits at the other for the branch the other is on      *)
(* (Blocked), which never arrives.                                         *)
(*                                                                         *)
(* The tags with which a worker was started are its strand, which the      *)
(* program forgets when the worker is reset; r orders the fan-outs by the  *)
(* time they were made, all of them below limit.                           *)
(***************************************************************************)

\* Two strands part at a fan-out, and no later fan-out is in both of them.
Split(r, A, B) ==
  \E s \in A, t \in B :
    /\ s.id = t.id /\ s.branches = t.branches /\ s.via # t.via
    /\ \A u \in A, v \in B : u.id = v.id /\ u.id # s.id => r[u.id] < r[s.id]

\* A strand goes through one branch of each fan-out on it, and the fan-outs
\* were made one after the other.
Single(r, A) ==
  /\ \A s, t \in A : (s.id = t.id => s = t) /\ (r[s.id] = r[t.id] => s.id = t.id)
  /\ \A s \in A : s.via \in s.branches

\* Where n was a branch of a fan-out on its strand, it was started as that one.
OwnBranch(A, n) == \A s \in A : s.via = n \/ n \notin s.branches

\* The tags received lack the strand's own branch of the last fan-out they
\* have in common with the strand.
Blocked(r, T, A) ==
  \E s \in T, t \in A :
    /\ s.id = t.id /\ s.branches = t.branches /\ s.via # t.via
    /\ \A u \in T : u.id = s.id => u.via # t.via
    /\ \A u \in T, v \in A : u.id = v.id /\ u.id # s.id => r[u.id] < r[s.id]

\* What a worker with a strand sends on: one activation or a fan-out.
SendsOn(A, id, acts) ==
  \/ \A a, b \in acts : a = b /\ a.tags = A
  \/ \E D \in SUBSET Nodes : \A a \in acts :
       a.dst \in D /\ a.tags = A \cup {[id |-> id, branches |-> D, via |-> a.dst]}

\* The visit of a worker that may still be a fan-out.
Visit(n) == <<n, visits[n]>>
Busy(n) == attempt[n] > 0 \/ deciding[n] # "no"
Executes(n) == Busy(n) \/ life[n] \in {"completed", "failed"}

Strands(r, limit, strand) ==
  /\ \A n \in pending : life[n] # "pending" => strand[n] = inherited[n]
  /\ \A n \in pending : Single(r, strand[n]) /\ OwnBranch(strand[n], n)
  /\ \A m, n \in pending : m # n => Split(r, strand[m], strand[n])
  /\ \A n \in pending : \A s \in strand[n] : s.id[2] <= visits[s.id[1]] /\ r[s.id] < limit
  /\ \A n \in pending : Executes(n) =>
       /\ \A s \in strand[n] : r[s.id] < r[Visit(n)]
       /\ \A m \in pending : \A s \in strand[m] : s.id # Visit(n)
  /\ \A n \in pending : life[n] \in {"completed", "failed"} =>
       SendsOn(strand[n], Visit(n), lastActs[n])
  /\ \A n \in pending : life[n] = "pending" => Blocked(r, trackers[n], strand[n])

Apart ==
  ~executor.bus =>
    \E r \in [Nodes \X Nat -> Nat], limit \in Nat, strand \in [Nodes -> SUBSET Tag] :
      Strands(r, limit, strand)

\* Only what is running executes, and the polling loop tracks what is running.
TracksRunning ==
  ~executor.bus =>
    /\ \A n \in Nodes : Busy(n) => life[n] = "running"
    /\ \A n \in Nodes : life[n] = "running" => n \in pending
    /\ \A n \in batch : life[n] # "running" \/ n \in timedOut

QuietInv == Books /\ Apart /\ TracksRunning

\* Parting does not depend on the order of the two.
LEMMA SplitBoth == ASSUME NEW r, NEW A, NEW B, Split(r, A, B) PROVE Split(r, B, A)
<1>1. PICK s \in A, t \in B :
        /\ s.id = t.id /\ s.branches = t.branches /\ s.via # t.via
        /\ \A u \in A, v \in B : u.id = v.id /\ u.id # s.id => r[u.id] < r[s.id]
  BY DEF Split
<1>2. \A u \in B, v \in A : u.id = v.id /\ u.id # t.id => r[u.id] < r[t.id]
  BY <1>1
<1> QED BY <1>1, <1>2 DEF Split

\* A new fan-out on one of the strands does not matter to the other.
LEMMA SplitOn ==
  ASSUME NEW r, NEW A, NEW B, Split(r, A, B), NEW o, \A t \in B : t.id # o.id
  PROVE  Split(r, A \cup {o}, B)
<1>1. PICK s \in A, t \in B :
        /\ s.id = t.id /\ s.branches = t.branches /\ s.via # t.via
        /\ \A u \in A, v \in B : u.id = v.id /\ u.id # s.id => r[u.id] < r[s.id]
  BY DEF Split
<1>2. \A u \in A \cup {o}, v \in B : u.id = v.id /\ u.id # s.id => r[u.id] < r[s.id]
  BY <1>1
<1> QED BY <1>1, <1>2 DEF Split

\* The branches of a fan-out part there.
LEMMA SplitHere ==
  ASSUME NEW r, NEW A, NEW o, NEW p, o.id = p.id, o.branches = p.branches, o.via # p.via,
         \A s \in A : r[s.id] < r[o.id]
  PROVE  Split(r, A \cup {o}, A \cup {p})
<1>1. \A u \in A \cup {o}, v \in A \cup {p} : u.id = v.id /\ u.id # o.id => r[u.id] < r[o.id]
  OBVIOUS
<1> QED BY <1>1 DEF Split

\* What waits for a branch that has not arrived does not start.
LEMMA BlockedWaits ==
  ASSUME NEW r, NEW T, NEW A, Blocked(r, T, A), Single(r, A)
  PROVE  ~IsComplete(T)
<1>1. PICK s \in T, t \in A :
        /\ s.id = t.id /\ s.branches = t.branches
        /\ \A u \in T : u.id = s.id => u.via # t.via
  BY DEF Blocked
<1>2. t.via \in s.branches
  BY <1>1 DEF Single
<1>3. t.via \notin {u.via : u \in {v \in T : v.id = s.id}}
  BY <1>1
<1> QED BY <1>1, <1>2, <1>3 DEF IsComplete

\* An activation of another strand makes a tracked worker wait for the branch it
\* was started as, whatever has arrived before.
LEMMA ArrivalBlocks ==
  ASSUME NEW r \in [Nodes \X Nat -> Nat], NEW y, NEW A \in SUBSET Tag, NEW B \in SUBSET Tag,
         NEW T \in SUBSET Tag, Split(r, A, B), Single(r, A), Single(r, B), OwnBranch(B, y),
         T = {} \/ Blocked(r, T, B)
  PROVE  Blocked(r, T \cup {t \in A : t.via # y}, B)
<1> DEFINE U == T \cup {t \in A : t.via # y}
<1>1. PICK s \in A, t \in B :
        /\ s.id = t.id /\ s.branches = t.branches /\ s.via # t.via
        /\ \A u \in A, v \in B : u.id = v.id /\ u.id # s.id => r[u.id] < r[s.id]
  BY DEF Split
<1>2. s.via # y
  BY <1>1 DEF Single, OwnBranch
<1>3. s \in U
  BY <1>1, <1>2
<1>4. \A u \in A : u.id = s.id => u.via # t.via
  BY <1>1 DEF Single
<1>5. \A u \in A \cup B \cup T : r[u.id] \in Nat
  BY DEF Tag
<1>6. CASE T = {}
  <2>1. \A u \in U : u.id = s.id => u.via # t.via
    BY <1>4, <1>6
  <2>2. \A u \in U, v \in B : u.id = v.id /\ u.id # s.id => r[u.id] < r[s.id]
    BY <1>1, <1>6
  <2> HIDE DEF U
  <2> QED BY <1>1, <1>3, <2>1, <2>2 DEF Blocked, U
<1>7. CASE T # {}
  <2>1. PICK p \in T, q \in B :
          /\ p.id = q.id /\ p.branches = q.branches /\ p.via # q.via
          /\ \A u \in T : u.id = p.id => u.via # q.via
          /\ \A u \in T, v \in B : u.id = v.id /\ u.id # p.id => r[u.id] < r[p.id]
    BY <1>7 DEF Blocked
  <2>2. CASE r[p.id] < r[s.id]
    <3>1. \A u \in T : u.id # s.id
      BY <1>1, <1>5, <2>1, <2>2
    <3>2. \A u \in U : u.id = s.id => u.via # t.via
      BY <1>4, <3>1
    <3>3. \A u \in T, v \in B : u.id = v.id => r[u.id] < r[s.id]
      BY <1>1, <1>5, <2>1, <2>2, <3>1
    <3>4. \A u \in U, v \in B : u.id = v.id /\ u.id # s.id => r[u.id] < r[s.id]
      BY <1>1, <3>3
    <3> HIDE DEF U
    <3> QED BY <1>1, <1>3, <3>2, <3>4 DEF Blocked, U
  <2>3. CASE p.id = s.id
    <3>1. q = t
      BY <1>1, <2>1, <2>3 DEF Single
    <3>2. \A u \in U : u.id = p.id => u.via # q.via
      BY <1>4, <2>1, <2>3, <3>1
    <3>3. \A u \in U, v \in B : u.id = v.id /\ u.id # p.id => r[u.id] < r[p.id]
      BY <1>1, <2>1, <2>3
    <3>4. p \in U
      OBVIOUS
    <3> HIDE DEF U
    <3> QED BY <2>1, <3>2, <3>3, <3>4 DEF Blocked, U
  <2>4. CASE p.id # s.id /\ ~(r[p.id] < r[s.id])
    <3>1. r[s.id] < r[p.id]
      <4>1. r[s.id] # r[p.id]
        BY <1>1, <2>1, <2>4 DEF Single
      <4> QED BY <1>1, <1>5, <2>1, <2>4, <4>1
    <3>2. \A u \in A, v \in B : u.id = v.id => r[u.id] < r[p.id]
      BY <1>1, <1>5, <2>1, <3>1
    <3>3. \A u \in A : u.id # p.id
      BY <1>5, <2>1, <3>2
    <3>4. \A u \in U : u.id = p.id => u.via # q.via
      BY <2>1, <3>3
    <3>5. \A u \in U, v \in B : u.id = v.id /\ u.id # p.id => r[u.id] < r[p.id]
      BY <2>1, <3>2
    <3>6. p \in U
      OBVIOUS
    <3> HIDE DEF U
    <3> QED BY <2>1, <3>4, <3>5, <3>6 DEF Blocked, U
  <2> QED BY <2>2, <2>3, <2>4
<1> QED BY <1>6, <1>7


\* What a worker sends on: its strand, with a new fan-out if there are several
\* receivers.
LEMMA OutgoingSends ==
  ASSUME TypeOK, NEW n \in Nodes, NEW ok, NEW decided, NEW visit \in Nat
  PROVE  SendsOn(inherited[n], <<n, visit>>, OutgoingActivations(n, ok, decided, visit))
<1> DEFINE es   == Traversed(n, ok, decided)
           dsts == {e.dst : e \in es}
           own(d) == [id |-> <<n, visit>>, branches |-> dsts, via |-> d]
           extra(d) == IF Cardinality(dsts) > 1 THEN {own(d)} ELSE {}
           acts == {[dst |-> d, tags |-> inherited[n] \cup extra(d)] : d \in dsts}
<1>1. acts = OutgoingActivations(n, ok, decided, visit)
  BY DEF OutgoingActivations
<1>2. es \subseteq graph.edges
  BY DEF Traversed, PriorityFilter, FirstOnly, OutEdges
<1>3. IsGraph(graph)
  BY GraphAssumption DEF TypeOK
<1>4. dsts \subseteq graph.nodes /\ IsFiniteSet(graph.nodes) /\ graph.nodes \subseteq Nodes
  BY <1>2, <1>3 DEF IsGraph
<1>5. IsFiniteSet(dsts) /\ dsts \in SUBSET Nodes
  BY <1>4, FS_Subset
<1> HIDE DEF es, dsts
<1>6. CASE Cardinality(dsts) > 1
  <2>1. \A a \in acts : a.dst \in dsts /\
          a.tags = inherited[n] \cup {[id |-> <<n, visit>>, branches |-> dsts, via |-> a.dst]}
    BY <1>6
  <2> HIDE DEF acts
  <2> QED BY <1>1, <1>5, <2>1 DEF SendsOn
<1>7. CASE ~(Cardinality(dsts) > 1)
  <2>1. \A d, e \in dsts : d = e
    <3>1. SUFFICES ASSUME NEW d \in dsts, NEW e \in dsts, d # e PROVE FALSE
      OBVIOUS
    <3>2. Cardinality({d, e}) = 2
      <4>1. Cardinality({d}) = 1 /\ IsFiniteSet({d})
        BY FS_Singleton
      <4>2. Cardinality({d} \cup {e}) = 2
        BY <3>1, <4>1, FS_AddElement
      <4>3. {d} \cup {e} = {d, e}
        OBVIOUS
      <4> QED BY <4>2, <4>3
    <3>3. Cardinality({d, e}) <= Cardinality(dsts) /\ Cardinality(dsts) \in Nat
      BY <1>5, FS_Subset, FS_CardinalityType
    <3> QED BY <1>7, <3>2, <3>3
  <2>2. \A a, b \in acts : a = b /\ a.tags = inherited[n]
    BY <1>7, <2>1
  <2> HIDE DEF acts
  <2> QED BY <1>1, <2>2 DEF SendsOn
<1> QED BY <1>6, <1>7

\* A step that starts no worker, makes none wait and counts no visit keeps the
\* strands of those that stay tracked.
LEMMA StrandsStay ==
  ASSUME NEW r, NEW limit, NEW strand, Strands(r, limit, strand),
         pending' \subseteq pending, visits' = visits,
         \A n \in pending' : /\ life'[n] = life[n] /\ inherited'[n] = inherited[n]
                             /\ trackers'[n] = trackers[n] /\ lastActs'[n] = lastActs[n]
                             /\ Busy(n)' => Busy(n)
  PROVE  Strands(r, limit, strand)'
<1>1. \A n \in pending' : n \in pending /\ Visit(n)' = Visit(n) /\ (Executes(n)' => Executes(n))
  BY DEF Visit, Executes
<1>2. \A n \in pending' : life'[n] # "pending" => strand[n] = inherited'[n]
  BY <1>1 DEF Strands
<1>3. \A n \in pending' : Single(r, strand[n]) /\ OwnBranch(strand[n], n)
  BY <1>1 DEF Strands
<1>4. \A m, n \in pending' : m # n => Split(r, strand[m], strand[n])
  BY <1>1 DEF Strands
<1>5. \A n \in pending' : \A s \in strand[n] : s.id[2] <= visits'[s.id[1]] /\ r[s.id] < limit
  BY <1>1 DEF Strands
<1>6. \A n \in pending' : Executes(n)' =>
        /\ \A s \in strand[n] : r[s.id] < r[Visit(n)']
        /\ \A m \in pending' : \A s \in strand[m] : s.id # Visit(n)'
  BY <1>1 DEF Strands
<1>7. \A n \in pending' : life'[n] \in {"completed", "failed"} =>
        SendsOn(strand[n], Visit(n)', lastActs'[n])
  BY <1>1 DEF Strands
<1>8. \A n \in pending' : life'[n] = "pending" => Blocked(r, trackers'[n], strand[n])
  BY <1>1 DEF Strands
<1> QED BY <1>2, <1>3, <1>4, <1>5, <1>6, <1>7, <1>8 DEF Strands

\* A worker that leaves keeps its strand, and sends it on.
LEMMA StrandsLeave ==
  ASSUME TypeOK, NEW r, NEW limit, NEW strand, Strands(r, limit, strand),
         NEW n \in pending, Busy(n), life[n] = "running", NEW lf \in {"completed", "failed"}, NEW acts,
         Leave(n, lf, acts), SendsOn(inherited[n], Visit(n), acts),
         pending' = pending, visits' = visits
  PROVE  Strands(r, limit, strand)'
<1>1. \A m \in pending : /\ Visit(m)' = Visit(m) /\ (Executes(m)' => Executes(m))
                         /\ inherited'[m] = inherited[m] /\ trackers'[m] = trackers[m]
                         /\ m # n => life'[m] = life[m] /\ lastActs'[m] = lastActs[m]
  BY DEF Visit, Executes, Busy, Leave, TypeOK
<1>2. life'[n] = lf /\ lastActs'[n] = acts /\ strand[n] = inherited[n]
  BY DEF Leave, TypeOK, Strands
<1>3. \A m \in pending : life'[m] # "pending" => strand[m] = inherited'[m]
  BY <1>1, <1>2 DEF Strands
<1>4. \A m \in pending : Single(r, strand[m]) /\ OwnBranch(strand[m], m)
  BY DEF Strands
<1>5. \A k, m \in pending : k # m => Split(r, strand[k], strand[m])
  BY DEF Strands
<1>6. \A m \in pending : \A s \in strand[m] : s.id[2] <= visits'[s.id[1]] /\ r[s.id] < limit
  BY DEF Strands
<1>7. \A m \in pending : Executes(m)' =>
        /\ \A s \in strand[m] : r[s.id] < r[Visit(m)']
        /\ \A k \in pending : \A s \in strand[k] : s.id # Visit(m)'
  BY <1>1 DEF Strands
<1>8. \A m \in pending : life'[m] \in {"completed", "failed"} =>
        SendsOn(strand[m], Visit(m)', lastActs'[m])
  BY <1>1, <1>2 DEF Strands
<1>9. \A m \in pending : life'[m] = "pending" => Blocked(r, trackers'[m], strand[m])
  BY <1>1, <1>2 DEF Strands
<1> QED BY <1>3, <1>4, <1>5, <1>6, <1>7, <1>8, <1>9 DEF Strands


\* A worker whose visit is counted executes, or has skipped it and sends its
\* strand on.
LEMMA StrandsCounted ==
  ASSUME TypeOK, NEW r \in [Nodes \X Nat -> Nat], NEW limit \in Nat,
         NEW strand \in [Nodes -> SUBSET Tag], Strands(r, limit, strand),
         NEW n \in pending, life[n] = "running", ~Busy(n),
         visits' = [visits EXCEPT ![n] = @ + 1], pending' = pending,
         UNCHANGED <<inherited, trackers>>,
         \A m \in pending : m # n => /\ life'[m] = life[m] /\ lastActs'[m] = lastActs[m]
                                     /\ Busy(m)' = Busy(m),
         \/ life'[n] = "running"
         \/ life'[n] = "completed" /\ SendsOn(inherited[n], <<n, visits[n] + 1>>, lastActs'[n])
  PROVE  \E q \in [Nodes \X Nat -> Nat] : Strands(q, limit, strand)'
<1> DEFINE v == <<n, visits[n] + 1>>
<1>0. PICK q : q = [r EXCEPT ![v] = limit]
  OBVIOUS
<1>1. pending \subseteq Nodes /\ n \in Nodes /\ visits \in [Nodes -> Nat] /\ v \in Nodes \X Nat
  BY DEF TypeOK
<1>2. \A m \in pending : \A s \in strand[m] : s \in Tag /\ s.id \in Nodes \X Nat
  BY <1>1 DEF Tag
<1>3. \A m \in pending : \A s \in strand[m] : s.id[1] \in Nodes /\ s.id[2] \in Nat /\ s.id[2] <= visits[s.id[1]]
  BY <1>2 DEF Strands
<1>4. \A m \in pending : \A s \in strand[m] : s.id # v
  BY <1>1, <1>3
<1>5. q \in [Nodes \X Nat -> Nat] /\ q[v] = limit /\ \A i \in Nodes \X Nat : i # v => q[i] = r[i]
  BY <1>0, <1>1
<1>6. Visit(n)' = v /\ \A m \in pending : m # n => Visit(m)' = Visit(m) /\ Visit(m) # v /\ Visit(m) \in Nodes \X Nat
  BY <1>1 DEF Visit
<1>7. ~Executes(n)
  BY DEF Executes
<1> HIDE DEF v
<1>8. \A m \in pending : \A s \in strand[m] : q[s.id] = r[s.id] /\ q[s.id] < limit
  BY <1>2, <1>4, <1>5 DEF Strands
<1>9. \A m \in pending : \A s \in strand[m] : s.id[2] <= visits'[s.id[1]]
  BY <1>1, <1>3
<1>10. \A m \in pending : Single(q, strand[m]) /\ OwnBranch(strand[m], m)
  BY <1>8 DEF Strands, Single
<1>11. ASSUME NEW k \in pending, NEW m \in pending, k # m PROVE Split(q, strand[k], strand[m])
  <2>1. Split(r, strand[k], strand[m])
    BY <1>11 DEF Strands
  <2> QED BY <1>8, <2>1 DEF Split
<1>12. ASSUME NEW m \in pending, Executes(m) \/ m = n
       PROVE  /\ \A s \in strand[m] : q[s.id] < q[Visit(m)']
              /\ \A k \in pending : \A s \in strand[k] : s.id # Visit(m)'
  <2>1. CASE m = n
    BY <1>4, <1>5, <1>6, <1>8, <2>1
  <2>2. CASE m # n
    <3>1. Executes(m) /\ Visit(m)' = Visit(m) /\ q[Visit(m)] = r[Visit(m)]
      BY <1>5, <1>6, <1>12, <2>2
    <3> QED BY <1>8, <3>1 DEF Strands
  <2> QED BY <2>1, <2>2
<1>13. ASSUME NEW m \in pending, life[m] = "pending" PROVE Blocked(q, trackers[m], strand[m])
  <2>1. Blocked(r, trackers[m], strand[m])
    BY <1>13 DEF Strands
  <2>2. trackers[m] \subseteq Tag
    BY <1>1 DEF TypeOK
  <2>3. PICK p \in trackers[m], t \in strand[m] :
    /\ p.id = t.id /\ p.branches = t.branches /\ p.via # t.via
    /\ \A u \in trackers[m] : u.id = p.id => u.via # t.via
    /\ \A u \in trackers[m], w \in strand[m] : u.id = w.id /\ u.id # p.id => r[u.id] < r[p.id]
    BY <2>1 DEF Blocked
  <2>4. q[p.id] = r[p.id]
    BY <1>8, <2>3
  <2>5. \A u \in trackers[m], w \in strand[m] : u.id = w.id /\ u.id # p.id => q[u.id] < q[p.id]
    BY <1>8, <2>3, <2>4
  <2> QED BY <2>3, <2>5 DEF Blocked
<1>14. \A m \in pending : Executes(m)' => Executes(m) \/ m = n
  BY DEF Executes
<1>15. \A m \in pending' : life'[m] # "pending" => strand[m] = inherited'[m]
  BY DEF Strands
<1>16. \A m \in pending' : life'[m] \in {"completed", "failed"} =>
         SendsOn(strand[m], Visit(m)', lastActs'[m])
  <2>1. strand[n] = inherited[n] /\ (life'[n] = "completed" => SendsOn(inherited[n], v, lastActs'[n]))
    BY DEF Strands, v
  <2> QED BY <1>6, <2>1 DEF Strands
<1>17. \A m \in pending' : Executes(m)' =>
         /\ \A s \in strand[m] : q[s.id] < q[Visit(m)']
         /\ \A k \in pending' : \A s \in strand[k] : s.id # Visit(m)'
  BY <1>12, <1>14
<1>18. Strands(q, limit, strand)'
  BY <1>8, <1>9, <1>10, <1>11, <1>13, <1>15, <1>16, <1>17 DEF Strands
<1> QED BY <1>5, <1>18

\* Handling a finished worker: what is tracked besides is left alone or waits
\* for a branch that never arrives, and what is started parts from it and from
\* the other branches.
LEMMA StrandsRoute ==
  ASSUME TypeOK, TypeOK', Books, NEW r \in [Nodes \X Nat -> Nat], NEW limit \in Nat,
         NEW strand \in [Nodes -> SUBSET Tag], Strands(r, limit, strand), ~executor.bus,
         NEW n \in pending, life[n] \in {"completed", "failed"},
         Route(lastActs[n], pending \ {n}), visits' = visits,
         \A m \in Nodes : Busy(m) => life[m] = "running",
         \A m \in Nodes : life[m] = "running" => m \in pending
  PROVE  /\ \E limit2 \in Nat, strand2 \in [Nodes -> SUBSET Tag] : Strands(r, limit2, strand2)'
         /\ \A m \in pending \ {n} : Untouched(m) \/ life'[m] = "pending"
<1> DEFINE P == pending \ {n}
           acts == lastActs[n]
           A == strand[n]
           v == Visit(n)
           own(a, D) == [id |-> v, branches |-> D, via |-> a.dst]
<1>1. PICK L : L = limit + r[v] + 1
  OBVIOUS
<1>2. PICK S : S = [m \in Nodes |-> IF m \in P THEN strand[m] ELSE inherited'[m]]
  OBVIOUS
<1>3. /\ pending \subseteq Nodes /\ n \in Nodes /\ pending' \subseteq Nodes
      /\ v \in Nodes \X Nat /\ r[v] \in Nat /\ Executes(n)
      /\ acts \in SUBSET Activation /\ A \in SUBSET Tag
  BY DEF TypeOK, Visit, Executes
<1>4. L \in Nat /\ limit <= L /\ r[v] < L
  BY <1>1, <1>3
<1>5. S \in [Nodes -> SUBSET Tag]
  <2>1. inherited' \in [Nodes -> SUBSET Tag]
    BY DEF TypeOK
  <2> QED BY <1>2, <2>1
<1>6. \A m \in Nodes : Untouched(m) \/ \E a \in acts : Arrival(m, a)
  BY RouteCases
<1>7. (\A m \in Nodes : Busy(m)' = Busy(m)) /\ P \subseteq pending'
      /\ \A m \in pending' : m \in P \/ life'[m] = "running"
  BY <1>3, RouteCases DEF Busy
<1>8. \A s \in A : r[s.id] < r[v] /\ s.id # v /\ r[s.id] \in Nat
  <2>1. \A s \in A : s.id \in Nodes \X Nat
    BY <1>3 DEF Tag
  <2> QED BY <1>3, <2>1 DEF Strands
<1>9. \A m \in P : \A s \in strand[m] : s.id # v
  BY <1>3 DEF Strands
<1>10. SendsOn(A, v, acts)
  BY DEF Strands
<1>11. Single(r, A) /\ \A m \in P : Single(r, strand[m]) /\ OwnBranch(strand[m], m)
  BY DEF Strands
<1> HIDE DEF v, A, acts
<1>12. \A a \in acts : \/ a.tags = A
                       \/ \E D \in SUBSET Nodes : a.dst \in D /\ a.tags = A \cup {own(a, D)}
  BY <1>10 DEF SendsOn
<1>13. ASSUME NEW a \in acts PROVE Single(r, a.tags)
  <2>1. CASE a.tags = A
    BY <1>11, <2>1
  <2>2. ASSUME NEW D \in SUBSET Nodes, a.dst \in D, a.tags = A \cup {own(a, D)}
        PROVE  Single(r, a.tags)
    BY <1>3, <1>8, <1>11, <2>2 DEF Single
  <2> QED BY <1>12, <2>1, <2>2
<1>14. ASSUME NEW a \in acts, NEW m \in P PROVE Split(r, a.tags, strand[m])
  <2>1. Split(r, A, strand[m])
    BY DEF Strands, A
  <2>2. ASSUME NEW D \in SUBSET Nodes, a.tags = A \cup {own(a, D)}
        PROVE  Split(r, a.tags, strand[m])
    <3>1. PICK o : o = own(a, D)
      OBVIOUS
    <3>2. \A t \in strand[m] : t.id # o.id
      BY <1>9, <3>1
    <3>3. Split(r, A \cup {o}, strand[m])
      BY <2>1, <3>2, SplitOn
    <3> QED BY <2>2, <3>1, <3>3
  <2> QED BY <1>12, <2>1, <2>2
<1>15. ASSUME NEW m \in P
       PROVE  \/ Untouched(m)
              \/ life'[m] = "pending" /\ life[m] # "running" /\ Blocked(r, trackers'[m], strand[m])
  <2>1. SUFFICES ASSUME NEW a \in acts, Arrival(m, a)
                 PROVE  life'[m] = "pending" /\ Blocked(r, trackers'[m], strand[m])
    BY <1>3, <1>6 DEF Arrival
  <2> DEFINE T == IF life[m] = "pending" THEN trackers[m] ELSE {}
  <2>2. T = {} \/ Blocked(r, T, strand[m])
    BY DEF Strands
  <2>3. T \in SUBSET Tag /\ a.tags \in SUBSET Tag /\ strand[m] \in SUBSET Tag
    BY <1>3 DEF TypeOK, Activation
  <2>4. TrackersAfter(a) = T \cup {t \in a.tags : t.via # m}
    BY <2>1 DEF Arrival, TrackersAfter
  <2> HIDE DEF T
  <2>5. Blocked(r, TrackersAfter(a), strand[m])
    <3>1. /\ Single(r, a.tags) /\ Single(r, strand[m]) /\ OwnBranch(strand[m], m)
          /\ Split(r, a.tags, strand[m])
      BY <1>11, <1>13, <1>14
    <3>2. Blocked(r, T \cup {t \in a.tags : t.via # m}, strand[m])
      BY <2>2, <2>3, <3>1, ArrivalBlocks
    <3> QED BY <2>4, <3>2
  <2>6. ~IsComplete(TrackersAfter(a))
    BY <1>11, <2>5, BlockedWaits
  <2> QED BY <2>1, <2>5, <2>6 DEF Arrival
<1>16. ASSUME NEW m \in pending', m \notin P
       PROVE  /\ life'[m] = "running" /\ ~Busy(m)'
              /\ \E a \in acts : a.dst = m /\ S[m] = a.tags /\ inherited'[m] = a.tags /\ OwnBranch(a.tags, m)
  <2>1. life'[m] = "running" /\ m \in Nodes
    BY <1>3, <1>7, <1>16
  <2>2. PICK a \in acts : Arrival(m, a)
    BY <1>6, <1>16, <2>1 DEF Untouched
  <2>3. IsComplete(TrackersAfter(a)) /\ inherited'[m] = a.tags /\ a.dst = m /\ life[m] # "running"
    BY <2>1, <2>2 DEF Arrival
  <2>4. \A t \in TrackersAfter(a) : t.via # m
    BY <2>1, <2>2, RouteApart DEF Arrival
  <2>5. ASSUME NEW s \in a.tags, s.via # m PROVE m \notin s.branches
    <3>1. s \in TrackersAfter(a)
      BY <2>3, <2>5 DEF TrackersAfter
    <3>2. {u.via : u \in {w \in TrackersAfter(a) : w.id = s.id}} = s.branches
      BY <2>3, <3>1 DEF IsComplete
    <3> QED BY <2>4, <3>2
  <2>6. ~Busy(m)'
    BY <1>7, <2>1, <2>3
  <2> QED BY <1>2, <1>16, <2>1, <2>3, <2>5, <2>6 DEF OwnBranch
<1>17. \A m \in P : S[m] = strand[m]
  BY <1>2, <1>3
<1> HIDE DEF P
<1>18. \A m \in pending' : life'[m] # "pending" => S[m] = inherited'[m]
  <2>1. \A m \in P : life'[m] # "pending" => strand[m] = inherited'[m]
    BY <1>15 DEF Untouched, Strands, P
  <2> QED BY <1>16, <1>17, <2>1
<1>19. \A m \in pending' : Single(r, S[m]) /\ OwnBranch(S[m], m)
  BY <1>11, <1>13, <1>16, <1>17
<1>20. ASSUME NEW k \in pending', NEW m \in pending', k # m PROVE Split(r, S[k], S[m])
  <2>1. CASE k \in P /\ m \in P
    BY <1>17, <1>20, <2>1 DEF Strands, P
  <2>2. CASE k \notin P /\ m \in P
    BY <1>14, <1>16, <1>17, <2>2
  <2>3. CASE k \in P /\ m \notin P
    BY <1>14, <1>16, <1>17, <2>3, SplitBoth
  <2>4. CASE k \notin P /\ m \notin P
    <3>1. PICK a \in acts, b \in acts : a.dst = k /\ b.dst = m /\ S[k] = a.tags /\ S[m] = b.tags
      BY <1>16, <2>4
    <3>2. PICK D \in SUBSET Nodes : a.tags = A \cup {own(a, D)} /\ b.tags = A \cup {own(b, D)}
      BY <1>10, <1>20, <3>1 DEF SendsOn
    <3>3. Split(r, A \cup {own(a, D)}, A \cup {own(b, D)})
      BY <1>8, <1>20, <3>1, SplitHere
    <3> QED BY <3>1, <3>2, <3>3
  <2> QED BY <2>1, <2>2, <2>3, <2>4
<1>21. \A m \in pending' : \A s \in S[m] : s.id[2] <= visits'[s.id[1]] /\ r[s.id] < L
  <2>1. \A m \in pending : \A s \in strand[m] : s.id \in Nodes \X Nat /\ r[s.id] \in Nat
    BY <1>3 DEF Tag
  <2>2. \A m \in pending : \A s \in strand[m] : s.id[2] <= visits'[s.id[1]] /\ r[s.id] < L
    BY <1>4, <2>1 DEF Strands
  <2>3. v[2] <= visits'[v[1]] /\ r[v] < L
    BY <1>3, <1>4 DEF v, Visit, TypeOK
  <2>4. \A a \in acts : \A s \in a.tags : s \in A \/ s.id = v
    BY <1>12
  <2> QED BY <1>16, <1>17, <2>2, <2>3, <2>4 DEF A, P
<1>22. \A m \in pending' : Executes(m)' => m \in P /\ Untouched(m) /\ Visit(m)' = Visit(m) /\ Executes(m)
  <2>1. ASSUME NEW m \in P, Executes(m)' PROVE Untouched(m) /\ Executes(m)
    <3>1. m \in Nodes
      BY <1>3 DEF P
    <3> QED BY <1>7, <1>15, <2>1, <3>1 DEF Executes, Untouched
  <2>2. \A m \in pending' : m \notin P => ~Executes(m)'
    BY <1>16 DEF Executes
  <2>3. \A m \in Nodes : Visit(m)' = Visit(m)
    BY DEF Visit
  <2> QED BY <1>3, <2>1, <2>2, <2>3
<1>23. \A m \in pending' : Executes(m)' =>
         /\ \A s \in S[m] : r[s.id] < r[Visit(m)']
         /\ \A k \in pending' : \A s \in S[k] : s.id # Visit(m)'
  <2>1. SUFFICES ASSUME NEW m \in P, Executes(m)
                 PROVE  /\ \A s \in strand[m] : r[s.id] < r[Visit(m)]
                        /\ \A k \in pending' : \A s \in S[k] : s.id # Visit(m)
    BY <1>17, <1>22
  <2>2. /\ \A s \in strand[m] : r[s.id] < r[Visit(m)]
        /\ \A k \in pending : \A s \in strand[k] : s.id # Visit(m)
    BY <2>1 DEF Strands, P
  <2>3. v # Visit(m)
    BY DEF v, Visit, P
  <2>4. \A a \in acts : \A s \in a.tags : s \in A \/ s.id = v
    BY <1>12
  <2> QED BY <1>16, <1>17, <2>2, <2>3, <2>4 DEF A, P
<1>24. \A m \in pending' : life'[m] \in {"completed", "failed"} =>
         SendsOn(S[m], Visit(m)', lastActs'[m])
  <2>1. \A m \in pending' : life'[m] \in {"completed", "failed"} => Executes(m)'
    BY DEF Executes
  <2> QED BY <1>17, <1>22, <2>1 DEF Untouched, Strands, P
<1>25. \A m \in pending' : life'[m] = "pending" => Blocked(r, trackers'[m], S[m])
  <2>1. \A m \in pending' : life'[m] = "pending" => m \in P
    BY <1>16
  <2> QED BY <1>15, <1>17, <2>1 DEF Untouched, Strands, P
<1>26. Strands(r, L, S)'
  BY <1>18, <1>19, <1>20, <1>21, <1>23, <1>24, <1>25 DEF Strands
<1> QED BY <1>4, <1>5, <1>15, <1>26 DEF P

\* Routing starts only what the polling loop tracks, and takes no timeout back
\* from a running worker.
LEMMA RouteTracks ==
  ASSUME TypeOK, NEW acts, NEW tracked, Route(acts, tracked), ~executor.bus
  PROVE  \A n \in Nodes :
           /\ life'[n] = "running" => life[n] = "running" \/ n \in pending'
           /\ life[n] = "running" => (n \in timedOut => n \in timedOut')
<1> DEFINE accepted == Accepted(acts)
           dsts     == {x.dst : x \in accepted}
           act(n)   == Target(accepted, n)
           starts   == {n \in dsts : IsComplete(TrackersAfter(act(n)))}
<1>1. \A n \in dsts : life[n] # "running"
  BY DEF Accepted
<1>2. /\ life' = [n \in Nodes |-> IF n \in starts THEN "running"
                                  ELSE IF n \in dsts THEN "pending" ELSE life[n]]
      /\ timedOut' = timedOut \ dsts
      /\ pending' = tracked \cup starts
  BY DEF Route
<1> HIDE DEF dsts, starts
<1> QED BY <1>1, <1>2

LEMMA InitQuiet == Init => QuietInv
<1> SUFFICES ASSUME Init PROVE QuietInv
  OBVIOUS
<1>1. TypeOK /\ Books
  BY InitType, InitJoin DEF JoinInv
<1>2. \A n \in Nodes : ~Busy(n) /\ inherited[n] = {} /\ (life[n] = "running" => n = graph.entry)
  BY DEF Init, Busy
<1>3. ~executor.bus => pending = {graph.entry}
  BY DEF Init
<1>4. TracksRunning
  BY <1>2, <1>3 DEF Init, TracksRunning
<1>5. ASSUME ~executor.bus PROVE Apart
  <2>1. PICK r \in [Nodes \X Nat -> Nat], strand \in [Nodes -> SUBSET Tag] :
          r = [i \in Nodes \X Nat |-> 0] /\ strand = [n \in Nodes |-> {}]
    OBVIOUS
  <2>2. /\ \A n \in pending : n \in Nodes /\ n = graph.entry /\ strand[n] = {} /\ life[n] = "running"
        /\ \A m, n \in pending : m = n
    BY <1>1, <1>3, <1>5, <2>1 DEF Init, TypeOK
  <2>3. \A n \in pending : ~Executes(n)
    BY <1>2, <2>2 DEF Executes
  <2>4. Strands(r, 0, strand)
    BY <1>2, <2>2, <2>3 DEF Strands, Single, OwnBranch
  <2> QED BY <2>4 DEF Apart
<1> QED BY <1>1, <1>4, <1>5 DEF QuietInv, Apart

\* What leaves the workers alone, or stops tracking one, keeps them apart.
LEMMA ApartStays ==
  ASSUME Apart, executor' = executor, pending' \subseteq pending, visits' = visits,
         \A n \in pending' : /\ life'[n] = life[n] /\ inherited'[n] = inherited[n]
                             /\ trackers'[n] = trackers[n] /\ lastActs'[n] = lastActs[n]
                             /\ Busy(n)' => Busy(n)
  PROVE  Apart'
<1> SUFFICES ASSUME ~executor.bus
             PROVE  \E r \in [Nodes \X Nat -> Nat], limit \in Nat, strand \in [Nodes -> SUBSET Tag] :
                      Strands(r, limit, strand)'
  BY DEF Apart
<1>1. PICK r \in [Nodes \X Nat -> Nat], limit \in Nat, strand \in [Nodes -> SUBSET Tag] :
        Strands(r, limit, strand)
  BY DEF Apart
<1>2. Strands(r, limit, strand)'
  BY <1>1, StrandsStay
<1> QED BY <1>2

\* A worker's own steps.
LEMMA NextQuietWorker ==
  ASSUME TypeOK, QuietInv, ~executor.bus, NEW n \in Nodes,
         Start(n) \/ SkipVisit(n) \/ NodeStep(n) \/ Evaluation(n) \/ BranchTimeout(n)
  PROVE  Apart' /\ TracksRunning'
<1> USE DEF argVars, workerVars, gcVars, hubVars
<1>1. PICK r \in [Nodes \X Nat -> Nat], limit \in Nat, strand \in [Nodes -> SUBSET Tag] :
        Strands(r, limit, strand)
  BY DEF QuietInv, Apart
<1>2. life[n] = "running" /\ n \in pending /\ batch = {} /\ UNCHANGED <<executor, pending, batch>>
  <2>1. life[n] = "running" /\ batch = {} /\ UNCHANGED <<executor, pending, batch>>
    BY DEF Start, SkipVisit, NodeStep, Succeed, ConflictCrash, Retry, Fail, Crash, BranchTimeout,
           Evaluation, Ask, Decide, CanStep, Runs
  <2> QED BY <2>1 DEF QuietInv, TracksRunning
<1>3. CASE Start(n) \/ SkipVisit(n)
  <2>1. /\ ~Busy(n) /\ visits' = [visits EXCEPT ![n] = @ + 1] /\ UNCHANGED <<inherited, trackers>>
        /\ \A m \in Nodes : m # n => /\ life'[m] = life[m] /\ lastActs'[m] = lastActs[m]
                                     /\ Busy(m)' = Busy(m)
    <3>1. /\ attempt[n] = 0 /\ deciding[n] = "no"
          /\ visits' = [visits EXCEPT ![n] = @ + 1] /\ UNCHANGED <<inherited, trackers>>
      BY <1>3 DEF Start, SkipVisit, Leave, CanStep
    <3>2. \A m \in Nodes : m # n => /\ life'[m] = life[m] /\ lastActs'[m] = lastActs[m]
                                    /\ attempt'[m] = attempt[m] /\ deciding'[m] = deciding[m]
      BY <1>3 DEF Start, SkipVisit, Leave, TypeOK
    <3> QED BY <3>1, <3>2 DEF Busy
  <2>2. \/ life'[n] = "running"
        \/ /\ life'[n] = "completed" /\ ~Busy(n)'
           /\ SendsOn(inherited[n], <<n, visits[n] + 1>>, lastActs'[n])
    <3>1. CASE SkipVisit(n)
      <4>1. PICK decided : Leave(n, "completed", OutgoingActivations(n, TRUE, decided, visits[n] + 1))
        BY <3>1 DEF SkipVisit
      <4>2. visits[n] + 1 \in Nat
        BY DEF TypeOK
      <4>3. SendsOn(inherited[n], <<n, visits[n] + 1>>, OutgoingActivations(n, TRUE, decided, visits[n] + 1))
        BY <4>2, OutgoingSends
      <4>4. /\ life'[n] = "completed" /\ attempt'[n] = 0 /\ deciding'[n] = "no"
            /\ lastActs'[n] = OutgoingActivations(n, TRUE, decided, visits[n] + 1)
        BY <4>1 DEF Leave, TypeOK
      <4>5. ~Busy(n)'
        BY <4>4 DEF Busy
      <4>6. SendsOn(inherited[n], <<n, visits[n] + 1>>, lastActs'[n])
        BY <4>3, <4>4, Zenon
      <4> QED BY <4>4, <4>5, <4>6, Zenon
    <3>2. CASE Start(n)
      BY <1>2, <3>2 DEF Start
    <3> QED BY <1>3, <3>1, <3>2
  <2>3. \A m \in pending : m \in Nodes
    BY DEF TypeOK
  <2>4. \E q \in [Nodes \X Nat -> Nat] : Strands(q, limit, strand)'
    BY <1>1, <1>2, <2>1, <2>2, <2>3, StrandsCounted
  <2>5. TracksRunning'
    BY <1>2, <2>1, <2>2 DEF QuietInv, TracksRunning
  <2> QED BY <1>2, <2>4, <2>5 DEF Apart
<1>6. CASE Ask(n)
  <2>1. PICK did \in {"skipped", "ok", "failed"} :
          /\ deciding' = [deciding EXCEPT ![n] = did]
          /\ \/ did = "skipped" /\ Skips(n)
             \/ did # "skipped" /\ attempt[n] > 0 /\ visits' = visits
    BY <1>6, AskCases
  <2>2. /\ UNCHANGED <<life, attempt, inherited, trackers, lastActs>>
        /\ life[n] = "running" /\ deciding[n] = "no"
    BY <1>6 DEF Ask, CanStep, Runs
  <2>3. \A m \in Nodes : m # n => Busy(m)' = Busy(m)
    BY <2>1, <2>2 DEF Busy, TypeOK
  <2>4. \A m \in pending : m \in Nodes
    BY DEF TypeOK
  <2>5. TracksRunning'
    BY <1>2, <2>2, <2>3 DEF QuietInv, TracksRunning
  <2>6. CASE did = "skipped"
    <3>1. ~Busy(n) /\ visits' = [visits EXCEPT ![n] = @ + 1]
      BY <2>1, <2>2, <2>6 DEF Busy, Skips
    <3>2. \E q \in [Nodes \X Nat -> Nat] : Strands(q, limit, strand)'
      BY <1>1, <1>2, <2>2, <2>3, <2>4, <3>1, StrandsCounted
    <3> QED BY <1>2, <2>5, <3>2 DEF Apart
  <2>7. CASE did # "skipped"
    <3>1. visits' = visits /\ \A m \in Nodes : Busy(m)' => Busy(m)
      BY <2>1, <2>3, <2>7 DEF Busy
    <3>2. Apart'
      BY <1>2, <2>2, <2>4, <3>1, ApartStays DEF QuietInv
    <3> QED BY <2>5, <3>2
  <2> QED BY <2>6, <2>7
<1>7. CASE Decide(n)
  <2>1. Busy(n) /\ UNCHANGED <<visits, pending>>
    BY <1>7 DEF Decide, Busy
  <2>2. PICK lf \in {"completed", "failed"} : \E acts :
          Leave(n, lf, acts) /\ SendsOn(inherited[n], Visit(n), acts)
    <3>1. visits[n] \in Nat
      BY DEF TypeOK
    <3>2. \A ok, decided : SendsOn(inherited[n], Visit(n), OutgoingActivations(n, ok, decided, visits[n]))
      BY <3>1, OutgoingSends DEF Visit
    <3> QED BY <1>7, <3>2, DecideCases
  <2>3. Strands(r, limit, strand)'
    BY <1>1, <1>2, <2>1, <2>2, StrandsLeave
  <2>4. TracksRunning'
    <3>1. \A m \in Nodes : /\ life'[m] = "running" => life[m] = "running" /\ m # n
                           /\ Busy(m)' => Busy(m) /\ m # n
                           /\ m # n => life'[m] = life[m]
      BY <2>2 DEF Leave, TypeOK, Busy
    <3> QED BY <1>2, <3>1 DEF QuietInv, TracksRunning
  <2> QED BY <1>1, <1>2, <2>3, <2>4 DEF Apart
<1>4. CASE Succeed(n) \/ ConflictCrash(n) \/ Fail(n) \/ Crash(n)
  <2>1. graph.attempts[n] > 0
    BY GraphAssumption DEF TypeOK, IsGraph
  <2>2. attempt[n] > 0 /\ visits' = visits
    <3>1. attempt[n] > 0 \/ attempt[n] = graph.attempts[n] \/ attempt[n] = 1
      BY <1>4 DEF Succeed, ConflictCrash, Fail, Crash
    <3>2. visits' = visits
      BY <1>4 DEF Succeed, ConflictCrash, Fail, Crash
    <3> QED BY <2>1, <3>1, <3>2
  <2>3. \E lf \in {"completed", "failed"} : \E acts :
          Leave(n, lf, acts) /\ SendsOn(inherited[n], Visit(n), acts)
    <3>1. visits[n] \in Nat
      BY DEF TypeOK
    <3>2. \A ok, decided : SendsOn(inherited[n], Visit(n), OutgoingActivations(n, ok, decided, visits[n]))
      BY <3>1, OutgoingSends DEF Visit
    <3>3. SendsOn(inherited[n], Visit(n), {})
      BY DEF SendsOn
    <3> QED BY <1>4, <3>2, <3>3 DEF Succeed, ConflictCrash, Fail, Crash
  <2>4. PICK lf \in {"completed", "failed"} : \E acts :
          Leave(n, lf, acts) /\ SendsOn(inherited[n], Visit(n), acts)
    BY <2>3
  <2>5. Strands(r, limit, strand)'
    BY <1>1, <1>2, <2>2, <2>4, StrandsLeave DEF Busy
  <2>6. TracksRunning'
    <3>1. \A m \in Nodes : /\ life'[m] = "running" => life[m] = "running" /\ m # n
                           /\ Busy(m)' => Busy(m) /\ m # n
                           /\ m # n => life'[m] = life[m]
      BY <2>4 DEF Leave, TypeOK, Busy
    <3> QED BY <1>2, <3>1 DEF QuietInv, TracksRunning
  <2> QED BY <1>1, <1>2, <2>5, <2>6 DEF Apart
<1>5. CASE Retry(n) \/ BranchTimeout(n)
  <2>1. /\ UNCHANGED <<life, inherited, trackers, lastActs, visits>>
        /\ \A m \in Nodes : Busy(m)' => Busy(m)
    <3>1. UNCHANGED <<life, inherited, trackers, lastActs, visits, deciding>>
      BY <1>5 DEF Retry, BranchTimeout
    <3>2. attempt' = attempt \/ (attempt[n] > 0 /\ attempt' = [attempt EXCEPT ![n] = @ + 1])
      BY <1>5 DEF Retry, BranchTimeout
    <3> QED BY <3>1, <3>2 DEF TypeOK, Busy
  <2>2. Apart'
    BY <1>2, <2>1, ApartStays DEF QuietInv, TypeOK
  <2> QED BY <1>2, <2>1, <2>2 DEF QuietInv, TracksRunning
<1> QED BY <1>3, <1>4, <1>5, <1>6, <1>7 DEF NodeStep, Evaluation

\* The polling loop's handling of one done task.
LEMMA NextQuietPoll ==
  ASSUME TypeOK, TypeOK', QuietInv, ~executor.bus, NEW n \in Nodes, PollHandle(n)
  PROVE  Apart' /\ TracksRunning'
<1> USE DEF argVars, workerVars, gcVars, hubVars
<1>1. n \in batch /\ n \in pending /\ batch' = batch \ {n} /\ UNCHANGED <<executor, visits>>
  BY DEF PollHandle, PollTimeout, PollCompleted, PollFailed, PollStale, TakeDone, QuietInv, Books
<1>2. CASE PollTimeout(n) \/ PollStale(n)
  <2>1. /\ pending' = pending \ {n} /\ UNCHANGED <<inherited, trackers, lastActs, timedOut>>
        /\ \A m \in Nodes : /\ m # n => life'[m] = life[m]
                            /\ Busy(m)' => Busy(m)
                            /\ ~Busy(n)' \/ life[n] # "running"
                            /\ life'[n] # "running"
    <3>1. CASE PollTimeout(n)
      <4>1. /\ pending' = pending \ {n} /\ UNCHANGED <<inherited, trackers, lastActs, timedOut>>
            /\ life' = [life EXCEPT ![n] = "failed"]
            /\ attempt' = [attempt EXCEPT ![n] = 0]
            /\ deciding' = [deciding EXCEPT ![n] = "no"]
        BY <3>1 DEF PollTimeout
      <4>2. /\ \A m \in Nodes : m # n => /\ life'[m] = life[m] /\ attempt'[m] = attempt[m]
                                          /\ deciding'[m] = deciding[m]
            /\ n \in Nodes => life'[n] = "failed" /\ attempt'[n] = 0 /\ deciding'[n] = "no"
        BY <4>1 DEF TypeOK
      <4> QED BY <4>1, <4>2 DEF Busy
    <3>2. CASE PollStale(n)
      <4>1. /\ pending' = pending \ {n} /\ UNCHANGED <<inherited, trackers, lastActs, timedOut>>
            /\ life' = life /\ attempt' = attempt /\ deciding' = deciding
        BY <3>2 DEF PollStale
      <4>2. life[n] # "running"
        BY <1>1, <3>2 DEF PollStale, QuietInv, TracksRunning
      <4> QED BY <4>1, <4>2 DEF Busy
    <3> QED BY <1>2, <3>1, <3>2
  <2>2. Apart'
    BY <1>1, <2>1, ApartStays DEF QuietInv, TypeOK
  <2>3. TracksRunning'
    BY <1>1, <2>1 DEF QuietInv, TracksRunning, TypeOK
  <2> QED BY <2>2, <2>3
<1>3. CASE PollCompleted(n) \/ PollFailed(n)
  <2>1. life[n] \in {"completed", "failed"} /\ Route(lastActs[n], pending \ {n})
    BY <1>3 DEF PollCompleted, PollFailed
  <2>2. PICK r \in [Nodes \X Nat -> Nat], limit \in Nat, strand \in [Nodes -> SUBSET Tag] :
          Strands(r, limit, strand)
    BY DEF QuietInv, Apart
  <2>3. /\ \E limit2 \in Nat, strand2 \in [Nodes -> SUBSET Tag] : Strands(r, limit2, strand2)'
        /\ \A m \in pending \ {n} : Untouched(m) \/ life'[m] = "pending"
    <3>1. Books /\ \A m \in Nodes : /\ Busy(m) => life[m] = "running"
                                    /\ life[m] = "running" => m \in pending
      BY DEF QuietInv, TracksRunning
    <3> QED BY <1>1, <2>1, <2>2, <3>1, StrandsRoute
  <2>4. Apart'
    BY <1>1, <2>3 DEF Apart
  <2>5. TracksRunning'
    <3>1. \A m \in Nodes : /\ life'[m] = "running" => life[m] = "running" \/ m \in pending'
                           /\ life[m] = "running" => (m \in timedOut => m \in timedOut')
      BY <2>1, RouteTracks
    <3>2. /\ \A m \in Nodes : Busy(m)' = Busy(m)
          /\ pending \ {n} \subseteq pending'
          /\ \A m \in Nodes : life[m] = "running" => life'[m] = "running"
      BY <2>1, RouteCases DEF Untouched, Arrival, Busy
    <3>3. batch \ {n} \subseteq pending \ {n} /\ pending \subseteq Nodes
      BY DEF QuietInv, Books, TypeOK
    <3>4. \A m \in batch \ {n} : life'[m] = "running" => m \in timedOut'
      BY <2>3, <3>1, <3>3 DEF Untouched, QuietInv, TracksRunning
    <3> QED BY <1>1, <2>1, <3>1, <3>2, <3>3, <3>4 DEF QuietInv, TracksRunning
  <2> QED BY <2>4, <2>5
<1> QED BY <1>2, <1>3 DEF PollHandle

LEMMA NextQuiet == TypeOK /\ QuietInv /\ [Next]_vars => QuietInv'
<1> SUFFICES ASSUME TypeOK, QuietInv, [Next]_vars PROVE QuietInv'
  OBVIOUS
<1> USE DEF argVars, workerVars, gcVars, hubVars
<1>1. TypeOK' /\ Books' /\ executor' = executor
  BY NextType, NextBooks, Lasting DEF QuietInv
<1>2. executor.bus => Apart' /\ TracksRunning'
  BY <1>1 DEF Apart, TracksRunning
<1> SUFFICES ASSUME ~executor.bus PROVE Apart' /\ TracksRunning'
  BY <1>1, <1>2 DEF QuietInv
<1>3. inflight = {}
  BY DEF QuietInv, Books
<1>4. ASSUME NEW n \in Nodes,
             Start(n) \/ SkipVisit(n) \/ NodeStep(n) \/ Evaluation(n) \/ BranchTimeout(n)
      PROVE  Apart' /\ TracksRunning'
  BY <1>4, NextQuietWorker
<1>5. ASSUME NEW n \in Nodes, PollHandle(n) PROVE Apart' /\ TracksRunning'
  BY <1>1, <1>5, NextQuietPoll
<1>6. CASE Return \/ PollReturn \/ PollWait \/ Cancel \/ UNCHANGED vars
  <2>1. /\ UNCHANGED <<life, inherited, trackers, lastActs, timedOut, visits, pending>>
        /\ \A n \in Nodes : Busy(n)' = Busy(n)
    BY <1>6 DEF Return, PollReturn, PollWait, Cancel, vars, Busy
  <2>2. batch' = batch \/ batch' \subseteq DoneTasks
    BY <1>6 DEF Return, PollReturn, PollWait, Cancel, vars
  <2>3. Apart'
    <3>1. pending \subseteq Nodes /\ Apart
      BY DEF TypeOK, QuietInv
    <3> QED BY <1>1, <2>1, <3>1, ApartStays
  <2> QED BY <1>1, <2>1, <2>2, <2>3 DEF QuietInv, TracksRunning, DoneTasks, TypeOK
<1> QED BY <1>3, <1>4, <1>5, <1>6 DEF Next, NodeStep, Evaluation, PollHandle

\* When a polling run returns, no node is executing, unless it hit max_steps:
\* it returns with nothing tracked, or with a check of every worker, and what is
\* not tracked does not run.
THEOREM QuietEnds == Spec => QuietReturn
<1> DEFINE Quiets ==
      ~executor.bus /\ main = "waiting" /\ main' = "returned"
        => \/ Len(path) >= graph.maxSteps
           \/ \A n \in graph.nodes : life[n] # "running"
<1>1. TypeOK /\ QuietInv /\ [Next]_vars => [Quiets]_vars
  <2> SUFFICES ASSUME TypeOK, QuietInv, [Next]_vars, ~executor.bus, main = "waiting", main' = "returned"
               PROVE  \/ Len(path) >= graph.maxSteps
                      \/ \A n \in graph.nodes : life[n] # "running"
    OBVIOUS
  <2>1. PollReturn
    BY Returning DEF Return
  <2>2. GraphDone(life, completedTerms, failed) \/ pending = {}
    BY <2>1 DEF PollReturn
  <2>3. graph.nodes \subseteq Nodes
    BY GraphAssumption DEF TypeOK, IsGraph
  <2> QED BY <2>2, <2>3 DEF GraphDone, NoneRunning, QuietInv, TracksRunning
<1> QED BY <1>1, InitType, NextType, InitQuiet, NextQuiet, PTL DEF Spec, QuietReturn
=============================================================================
