----------------------------- MODULE MCTaskList -----------------------------
(***************************************************************************)
(* Three ids and one agent for TaskList.  A call of update_task sets one   *)
(* field or one link, or starts a task as its owner; calls that do more    *)
(* are sequences of these, as nothing happens between the parts of one     *)
(* call.                                                                   *)
(***************************************************************************)
EXTENDS TaskList

CONSTANT a1

Untouched == [status |-> Keep, owner |-> Keep, blocks |-> {}, blockedBy |-> {}]

MCPatches ==
  {[Untouched EXCEPT !.status = "completed"],
   [Untouched EXCEPT !.status = "in_progress", !.owner = a1]}
    \cup {[Untouched EXCEPT !.blocks = {i}] : i \in Ids}
    \cup {[Untouched EXCEPT !.blockedBy = {i}] : i \in Ids}
=============================================================================
