------------------------------ MODULE TaskList ------------------------------
(***************************************************************************)
(* One task list of the TaskStore (tasks/store.py) and the steering        *)
(* message of the task_update tool (tasks/tools/session_tools.py).         *)
(*                                                                         *)
(* A store operation reads the list's document, changes it and replaces    *)
(* it atomically, all under the list's lock: it is one action, whoever     *)
(* calls it.  An operation that cannot get the lock raises and changes     *)
(* nothing.  Subjects, descriptions, metadata and times are left out.      *)
(***************************************************************************)
EXTENDS Naturals, FiniteSets

CONSTANTS
  Agents,     \* owners and claimants
  NoOwner,    \* owner None
  Keep,       \* an argument of update_task that is not given
  Patches,    \* the arguments update_task may be called with
  MaxId,      \* bound: ids of one behaviour
  BatchSizes  \* lengths of the specs of create_task (1) and create_tasks_batch

Ids == 1 .. MaxId
Status == {"pending", "in_progress", "completed"}
Owners == Agents \cup {NoOwner}
Task == [status : Status, owner : Owners, blocks : SUBSET Ids, blockedBy : SUBSET Ids]
Patch == [status : Status \cup {Keep}, owner : Owners \cup {Keep},
          blocks : SUBSET Ids, blockedBy : SUBSET Ids]

ASSUME MaxIdAssumption == MaxId \in Nat
ASSUME PatchAssumption == Patches \subseteq Patch
ASSUME KeepAssumption == Keep \notin Status \cup Owners
ASSUME BatchAssumption == BatchSizes \subseteq Nat \ {0}

VARIABLES
  stage,   \* what is on disk: nothing, the files of the older layout, tasks.json
  hwm,     \* highwatermark
  tasks,   \* the records, by id
  issued,  \* every id that ever named a task of this list
  early,   \* history: the links made towards a task that did not exist then
  hint     \* the steering of the last update: see Steering

vars == <<stage, hwm, tasks, issued, early, hint>>

Stage == {"none", "legacy", "doc"}
\* <<x, "blocks", y>>: the task x names y among the tasks it blocks.
Links == Ids \X {"blocks", "blockedBy"} \X Ids
Hint == {"none", "in_progress", "next_pending", "all_complete"}

New(o) == [status |-> "pending", owner |-> o, blocks |-> {}, blockedBy |-> {}]
NoTasks == [i \in {} |-> New(NoOwner)]

\* A list of the older layout names its deleted ids by its high-water-mark.
Init ==
  /\ \/ stage = "none" /\ hwm = 0 /\ tasks = NoTasks
     \/ /\ stage = "legacy"
        /\ hwm \in 0 .. MaxId
        /\ \E old \in SUBSET Ids : tasks = [i \in old |-> New(NoOwner)]
  /\ issued = DOMAIN tasks \cup 1 .. hwm
  /\ early = {}
  /\ hint = "none"
-----------------------------------------------------------------------------
\* max(highest id of a task, highwatermark)
Highest(m) ==
  /\ m \in DOMAIN tasks \cup {hwm}
  /\ \A i \in DOMAIN tasks \cup {hwm} : i <= m

\* _read_doc_unsafe: m is the high-water-mark of the document as read; reading
\* the older layout migrates it.
Loaded(m) ==
  \/ stage = "legacy" /\ Highest(m)
  \/ stage # "legacy" /\ m = hwm

Save(h, ts) == stage' = "doc" /\ hwm' = h /\ tasks' = ts

\* ensure_task_list, get_task, list_tasks: they create or migrate at most.
Ensure ==
  /\ stage # "doc"
  /\ \E m \in 0 .. MaxId : Loaded(m) /\ Save(m, tasks)
  /\ hint' = "none" /\ UNCHANGED <<issued, early>>

\* Seeded fault: the next id follows the highest task there is.
FaultNextId(base) ==
  /\ base \in DOMAIN tasks \cup {0}
  /\ \A i \in DOMAIN tasks : i <= base

\* _next_id_for_doc: base is the id before the next one.
NextId(base) == Highest(base)

\* create_task and create_tasks_batch.
Create(k, o) ==
  /\ \E base \in 0 .. MaxId :
       LET new == base + 1 .. base + k
       IN  /\ NextId(base) /\ base + k <= MaxId
           /\ Save(IF base + k > hwm THEN base + k ELSE hwm,
                   [i \in DOMAIN tasks \cup new |-> IF i \in new THEN New(o) ELSE tasks[i]])
           /\ issued' = issued \cup new
  /\ hint' = "none" /\ UNCHANGED early

\* Seeded fault: only the task itself learns of its new links.
FaultLinked(i, p) ==
  [j \in DOMAIN tasks |->
     IF j # i THEN tasks[j]
     ELSE [tasks[i] EXCEPT !.blocks = @ \cup (p.blocks \ {i}),
                           !.blockedBy = @ \cup (p.blockedBy \ {i})]]

\* The links of _update_task_in_doc: the task at the other end, if it exists,
\* gets the mirror of a link that is new.
Linked(i, p) ==
  LET blocks    == p.blocks \ (tasks[i].blocks \cup {i})
      blockedBy == p.blockedBy \ (tasks[i].blockedBy \cup {i})
  IN  [j \in DOMAIN tasks |->
         IF j = i
         THEN [tasks[i] EXCEPT !.blocks = @ \cup blocks, !.blockedBy = @ \cup blockedBy]
         ELSE [tasks[j] EXCEPT !.blocks = @ \cup (IF j \in blockedBy THEN {i} ELSE {}),
                               !.blockedBy = @ \cup (IF j \in blocks THEN {i} ELSE {})]]

Given(arg, old) == IF arg = Keep THEN old ELSE arg

\* Seeded fault: a status that is not given is stored all the same.
FaultPatched(i, p) ==
  LET t == Linked(i, p)[i]
  IN  [Linked(i, p) EXCEPT ![i] = [t EXCEPT !.status = p.status, !.owner = Given(p.owner, t.owner)]]

Patched(i, p) ==
  LET t == Linked(i, p)[i]
  IN  [Linked(i, p) EXCEPT ![i] = [t EXCEPT !.status = Given(p.status, t.status),
                                            !.owner  = Given(p.owner, t.owner)]]

\* What task_update says of the remaining work after a completion.
Completed(ts) == {j \in DOMAIN ts : ts[j].status = "completed"}
Steering(ts) ==
  IF \E j \in DOMAIN ts : ts[j].status = "in_progress" THEN "in_progress"
  ELSE IF \E j \in DOMAIN ts : ts[j].status = "pending" /\ ts[j].blockedBy \subseteq Completed(ts)
  THEN "next_pending" ELSE "all_complete"

\* update_task, and task_update's message about a task it has just completed.
Update(i, p) ==
  /\ i \in DOMAIN tasks
  /\ \E m \in 0 .. MaxId : Loaded(m) /\ Save(m, Patched(i, p))
  /\ early' = early \cup {<<i, "blocks", j>> : j \in p.blocks \ DOMAIN tasks}
                    \cup {<<i, "blockedBy", j>> : j \in p.blockedBy \ DOMAIN tasks}
  /\ hint' = IF p.status = "completed" /\ tasks[i].status # "completed"
             THEN Steering(Patched(i, p)) ELSE "none"
  /\ UNCHANGED issued

\* The cascade of delete_task.
Without(i) ==
  [j \in DOMAIN tasks \ {i} |->
     [tasks[j] EXCEPT !.blocks = @ \ {i}, !.blockedBy = @ \ {i}]]

Delete(i) ==
  /\ i \in DOMAIN tasks
  /\ \E m \in 0 .. MaxId : Loaded(m) /\ Save(IF i > m THEN i ELSE m, Without(i))
  /\ early' = {l \in early : i \notin {l[1], l[3]}}
  /\ hint' = "none" /\ UNCHANGED issued

Reset ==
  /\ stage # "none"
  /\ \E m \in 0 .. MaxId : Highest(m) /\ Save(m, NoTasks)
  /\ early' = {}
  /\ hint' = "none" /\ UNCHANGED issued

\* claim_task_with_busy_check, when the answer is "ok".
Claim(i, a) ==
  /\ i \in DOMAIN tasks
  /\ tasks[i].status # "completed"
  /\ tasks[i].owner \in {NoOwner, a}
  /\ \A b \in tasks[i].blockedBy \cap DOMAIN tasks : tasks[b].status = "completed"
  /\ \E m \in 0 .. MaxId : Loaded(m) /\ Save(m, [tasks EXCEPT ![i].owner = a])
  /\ hint' = "none" /\ UNCHANGED <<issued, early>>

Next ==
  \/ Ensure
  \/ \E k \in BatchSizes, o \in Owners : Create(k, o)
  \/ \E i \in Ids, p \in Patches : Update(i, p)
  \/ \E i \in Ids : Delete(i)
  \/ Reset
  \/ \E i \in Ids, a \in Agents : Claim(i, a)

Spec == Init /\ [][Next]_vars
-----------------------------------------------------------------------------
(***************************************************************************)
(* Properties                                                              *)
(***************************************************************************)

\* Every variable has its type.
TypeOK ==
  /\ stage \in Stage
  /\ hwm \in 0 .. MaxId
  /\ DOMAIN tasks \subseteq Ids
  /\ tasks \in [DOMAIN tasks -> Task]
  /\ issued \subseteq Ids
  /\ early \subseteq Links
  /\ hint \in Hint

\* "monotonic, never reused" (TaskRecord.id): however creations, batches,
\* deletions, resets and the migration of the older layout follow each other, a
\* new task gets an id above every id ever issued.
IdsNeverReused ==
  [][\A i \in DOMAIN tasks' \ DOMAIN tasks : \A j \in issued : j < i]_vars

\* Links are bidirectional, from a lower id to a higher one and back: a task
\* names only tasks that exist and name it in turn, whatever was updated,
\* deleted or reset since.  The exception is a link made before the task it
\* names existed, which nothing mirrors when that task appears.
Mirrored(x) ==
  /\ \A y \in tasks[x].blocks :
       <<x, "blocks", y>> \in early \/ (y \in DOMAIN tasks /\ x \in tasks[y].blockedBy)
  /\ \A y \in tasks[x].blockedBy :
       <<x, "blockedBy", y>> \in early \/ (y \in DOMAIN tasks /\ x \in tasks[y].blocks)
LinksMirrored == \A x \in DOMAIN tasks : Mirrored(x)

\* "All tasks complete. Wrap up": task_update says so only when they are.
WrapUpWhenDone == hint = "all_complete" => DOMAIN tasks = Completed(tasks)
=============================================================================
