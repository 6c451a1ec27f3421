--------------------------- MODULE ExclusiveStream ---------------------------
(***************************************************************************)
(* What an ExecutionManager promises its callers: at most one execution is *)
(* alive on a stream, a closed stream accepts none, and an execution that  *)
(* was accepted stays until its own task is over.                          *)
(***************************************************************************)
CONSTANT Ids  \* execution ids

VARIABLES
  open,       \* the stream accepts executions
  alive       \* executions whose task is not over

vars == <<open, alive>>

Init == open = FALSE /\ alive = {}

Open == ~open /\ open' = TRUE /\ UNCHANGED alive

Close == open /\ open' = FALSE /\ UNCHANGED alive

Accept(i) == open /\ alive = {} /\ alive' = {i} /\ UNCHANGED open

Leave(i) == i \in alive /\ alive' = alive \ {i} /\ UNCHANGED open

Next == Open \/ Close \/ (\E i \in Ids : Accept(i) \/ Leave(i))

Spec == Init /\ [][Next]_vars
=============================================================================
