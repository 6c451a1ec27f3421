---------------------------- MODULE MCWorkerGraph ----------------------------
(***************************************************************************)
(* Small graphs for WorkerGraph: a fan-out with a join, a bounded feedback *)
(* loop, a fallback on failure, and a graph without terminals.             *)
(***************************************************************************)
EXTENDS WorkerGraph

CONSTANTS a, b, c, d, k

E(s, t, cnd, pr, i) == [src |-> s, dst |-> t, cond |-> cnd, prio |-> pr, pos |-> i]

Zero == [n \in Nodes |-> 0]
Once == [n \in Nodes |-> 1]

\* a fans out to b and c, which d joins; c may send work back to b;
\* b and c write the same key.
Diamond ==
  [nodes |-> {a, b, c, d}, entry |-> a, terminals |-> {d},
   edges |-> {E(a, b, "on_success", 0, 1), E(a, c, "on_success", 0, 2),
              E(b, d, "on_success", 0, 3), E(c, d, "on_success", 0, 4),
              E(c, b, "llm_decide", 0, 5)},
   maxSteps |-> 10, maxVisits |-> Zero, attempts |-> Once,
   outs |-> [n \in Nodes |-> IF n \in {b, c} THEN {k} ELSE {}],
   restored |-> {Zero}]

\* b sends the work back to a or on to c; a may run twice, the run may take
\* four steps, and a resumed session may bring a count for a.
Loop ==
  [nodes |-> {a, b, c}, entry |-> a, terminals |-> {c},
   edges |-> {E(a, b, "on_success", 0, 1), E(b, a, "conditional", 1, 2),
              E(b, c, "conditional", 0, 3)},
   maxSteps |-> 4, maxVisits |-> [Zero EXCEPT ![a] = 2], attempts |-> Once,
   outs |-> [n \in Nodes |-> {}],
   restored |-> {Zero, [Zero EXCEPT ![a] = 1]}]

\* b is the fallback of a, which is tried twice; both lead on to c, and d is
\* an alternative terminal next to c.
Fallback ==
  [nodes |-> {a, b, c, d}, entry |-> a, terminals |-> {c, d},
   edges |-> {E(a, b, "on_failure", 0, 1), E(a, c, "on_success", 0, 2),
              E(b, c, "always", 0, 3), E(a, d, "llm_decide", 0, 4)},
   maxSteps |-> 10, maxVisits |-> Zero, attempts |-> [Once EXCEPT ![a] = 2],
   outs |-> [n \in Nodes |-> {}],
   restored |-> {Zero}]

\* No terminal: the event-driven run is over when every node has run, so not
\* if b, the fallback of a, is never needed.  The edges to b and c do not stand
\* in the order of their priorities, and a's visits may be used up by a count
\* that a session brings in.
Endless ==
  [nodes |-> {a, b, c}, entry |-> a, terminals |-> {},
   edges |-> {E(a, b, "on_failure", 0, 1), E(a, c, "llm_decide", 1, 2),
              E(b, c, "always", 0, 3)},
   maxSteps |-> 10, maxVisits |-> [Zero EXCEPT ![a] = 1], attempts |-> Once,
   outs |-> [n \in Nodes |-> {}],
   restored |-> {Zero, [Zero EXCEPT ![a] = 1]}]

MCGraphs == {Diamond, Loop, Fallback, Endless}

X(bs, p, t, st) == [bus |-> bs, parallel |-> p, timeout |-> t, strategy |-> st]

MCExecutors ==
  {X(TRUE, TRUE, TRUE, "error"), X(TRUE, FALSE, FALSE, "last_wins"),
   X(FALSE, TRUE, TRUE, "first_wins"), X(FALSE, TRUE, TRUE, "error"),
   X(FALSE, FALSE, FALSE, "last_wins")}

\* The loop run by an event-driven executor, and the fallback alone.
EventDriven == {X(TRUE, TRUE, FALSE, "last_wins")}
LoopOnly == {Loop}
FallbackOnly == {Fallback}

\* A plain diamond in which every node succeeds.
PlainDiamond ==
  {[Diamond EXCEPT !.edges = {e \in @ : e.cond = "on_success"}]}
=============================================================================
