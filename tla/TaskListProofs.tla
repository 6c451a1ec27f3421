--------------------------- MODULE TaskListProofs ---------------------------
(***************************************************************************)
(* For every number of ids, every set of agents and every call of          *)
(* update_task: the types, that ids are never reused, and that links are   *)
(* mirrored.                                                               *)
(***************************************************************************)
EXTENDS TaskList, TLAPS

\* What keeps an id from being issued again: the high-water-mark is not below
\* any issued id, or, before the migration, a task of the older layout is.
IdsRemembered ==
  /\ DOMAIN tasks \subseteq issued
  /\ stage # "legacy" => \A i \in issued : i <= hwm
  /\ stage = "legacy" => \A i \in issued : i <= hwm \/ i \in DOMAIN tasks

\* The document as an operation reads it remembers every issued id.
LEMMA LoadedRemembers ==
  ASSUME TypeOK, IdsRemembered, NEW m \in 0 .. MaxId, Loaded(m) \/ Highest(m)
  PROVE  \A i \in issued : i <= m
  BY MaxIdAssumption DEF TypeOK, IdsRemembered, Loaded, Highest, Ids

-----------------------------------------------------------------------------
\* The records of a list after new links are records of the same list.
LEMMA LinkedType ==
  ASSUME TypeOK, NEW i \in DOMAIN tasks, NEW p \in Patches
  PROVE  /\ DOMAIN Linked(i, p) = DOMAIN tasks
         /\ Linked(i, p) \in [DOMAIN tasks -> Task]
  <1>1. DOMAIN Linked(i, p) = DOMAIN tasks
    BY DEF Linked
  <1>2. ASSUME NEW j \in DOMAIN tasks
        PROVE  Linked(i, p)[j] \in Task
    BY <1>2, PatchAssumption DEF Linked, TypeOK, Task, Patch
  <1>3. Linked(i, p) \in [DOMAIN tasks -> Task]
    BY <1>2 DEF Linked
  <1> QED
    BY <1>1, <1>3

\* A status and an owner that are given replace the old ones; links stay.
LEMMA PatchedType ==
  ASSUME TypeOK, NEW i \in DOMAIN tasks, NEW p \in Patches
  PROVE  /\ DOMAIN Patched(i, p) = DOMAIN tasks
         /\ Patched(i, p) \in [DOMAIN tasks -> Task]
         /\ \A j \in DOMAIN tasks : /\ Patched(i, p)[j].blocks = Linked(i, p)[j].blocks
                                    /\ Patched(i, p)[j].blockedBy = Linked(i, p)[j].blockedBy
  <1>1. Linked(i, p)[i] \in Task
    BY LinkedType
  <1> DEFINE t == [Linked(i, p)[i] EXCEPT !.status = Given(p.status, Linked(i, p)[i].status),
                                       !.owner  = Given(p.owner, Linked(i, p)[i].owner)]
  <1>2. /\ t \in Task
        /\ t.blocks = Linked(i, p)[i].blocks
        /\ t.blockedBy = Linked(i, p)[i].blockedBy
    BY <1>1, PatchAssumption DEF Task, Patch, Given
  <1>3. Patched(i, p) = [Linked(i, p) EXCEPT ![i] = t]
    BY DEF Patched
  <1>4. /\ DOMAIN Patched(i, p) = DOMAIN tasks
        /\ Patched(i, p)[i] = t
        /\ \A j \in DOMAIN tasks \ {i} : Patched(i, p)[j] = Linked(i, p)[j]
        /\ Patched(i, p) \in [DOMAIN tasks -> Task]
    <2> HIDE DEF t
    <2> QED
      BY LinkedType, <1>2, <1>3
  <1> HIDE DEF t
  <1> QED
    BY <1>2, <1>4

-----------------------------------------------------------------------------
\* One step per operation: what it does to the documents' types.
LEMMA NextType ==
  ASSUME TypeOK, IdsRemembered, [Next]_vars
  PROVE  TypeOK'
  <1> USE MaxIdAssumption
  <1>1. CASE Ensure
    BY <1>1 DEF Ensure, Save, TypeOK, Stage, Hint
  <1>2. ASSUME NEW k \in BatchSizes, NEW o \in Owners, Create(k, o)
        PROVE  TypeOK'
    <2>1. PICK base \in 0 .. MaxId :
            LET new == base + 1 .. base + k
            IN  /\ base + k <= MaxId
                /\ Save(IF base + k > hwm THEN base + k ELSE hwm,
                        [i \in DOMAIN tasks \cup new |-> IF i \in new THEN New(o) ELSE tasks[i]])
                /\ issued' = issued \cup new
      BY <1>2 DEF Create
    <2> DEFINE new == base + 1 .. base + k
    <2>2. k \in Nat /\ new \subseteq Ids
      BY <2>1, BatchAssumption DEF Ids
    <2>3. New(o) \in Task
      BY DEF New, Task, Status
    <2>4. /\ DOMAIN tasks' = DOMAIN tasks \cup new
          /\ tasks' \in [DOMAIN tasks \cup new -> Task]
      BY <2>1, <2>3 DEF Save, TypeOK
    <2>5. hwm' \in 0 .. MaxId /\ stage' \in Stage /\ issued' \subseteq Ids
      BY <2>1, <2>2 DEF Save, TypeOK, Stage
    <2>6. hint' \in Hint /\ early' \subseteq Links
      BY <1>2 DEF Create, Hint, TypeOK
    <2> QED
      BY <2>2, <2>4, <2>5, <2>6 DEF TypeOK
  <1>3. ASSUME NEW i \in Ids, NEW p \in Patches, Update(i, p)
        PROVE  TypeOK'
    <2>1. i \in DOMAIN tasks /\ tasks' = Patched(i, p)
      BY <1>3 DEF Update, Save
    <2>2. hint' \in Hint
      BY <1>3 DEF Update, Steering, Hint
    <2>3. p.blocks \subseteq Ids /\ p.blockedBy \subseteq Ids
      BY PatchAssumption DEF Patch
    <2>4. early' \subseteq Links
      BY <1>3, <2>3 DEF Update, TypeOK, Links
    <2> QED
      BY <1>3, <2>1, <2>2, <2>4, PatchedType DEF Update, Save, TypeOK, Stage
  <1>4. ASSUME NEW i \in Ids, Delete(i)
        PROVE  TypeOK'
    <2>1. tasks' = Without(i) /\ hwm' \in 0 .. MaxId
      BY <1>4 DEF Delete, Save, Ids
    <2>2. \A j \in DOMAIN tasks : [tasks[j] EXCEPT !.blocks = @ \ {i}, !.blockedBy = @ \ {i}] \in Task
      BY DEF TypeOK, Task
    <2>3. /\ DOMAIN tasks' = DOMAIN tasks \ {i}
          /\ tasks' \in [DOMAIN tasks \ {i} -> Task]
      BY <2>1, <2>2 DEF Without
    <2> QED
      BY <1>4, <2>1, <2>3 DEF Delete, Save, TypeOK, Stage, Hint
  <1>5. CASE Reset
    <2>1. DOMAIN tasks' = {} /\ tasks' \in [{} -> Task]
      BY <1>5 DEF Reset, Save, NoTasks
    <2> QED
      BY <1>5, <2>1 DEF Reset, Save, TypeOK, Stage, Hint
  <1>6. ASSUME NEW i \in Ids, NEW a \in Agents, Claim(i, a)
        PROVE  TypeOK'
    <2>1. i \in DOMAIN tasks /\ tasks' = [tasks EXCEPT ![i].owner = a]
      BY <1>6 DEF Claim, Save
    <2>2. [tasks[i] EXCEPT !.owner = a] \in Task
      BY <2>1 DEF TypeOK, Task, Owners
    <2> QED
      BY <1>6, <2>1, <2>2 DEF Claim, Save, TypeOK, Stage, Hint
  <1>7. CASE UNCHANGED vars
    BY <1>7 DEF vars, TypeOK
  <1> QED
    BY <1>1, <1>2, <1>3, <1>4, <1>5, <1>6, <1>7 DEF Next

\* What every step keeps of the issued ids.
LEMMA NextRemembers ==
  ASSUME TypeOK, IdsRemembered, [Next]_vars
  PROVE  IdsRemembered'
  <1> USE MaxIdAssumption
  <1>1. CASE Ensure
    BY <1>1, LoadedRemembers DEF Ensure, Save, IdsRemembered
  <1>2. ASSUME NEW k \in BatchSizes, NEW o \in Owners, Create(k, o)
        PROVE  IdsRemembered'
    <2>1. PICK base \in 0 .. MaxId :
            LET new == base + 1 .. base + k
            IN  /\ Highest(base)
                /\ Save(IF base + k > hwm THEN base + k ELSE hwm,
                        [i \in DOMAIN tasks \cup new |-> IF i \in new THEN New(o) ELSE tasks[i]])
                /\ issued' = issued \cup new
      BY <1>2 DEF Create, NextId
    <2> DEFINE new == base + 1 .. base + k
    <2>2. k \in Nat /\ hwm <= base /\ hwm \in Nat
      BY <2>1, BatchAssumption DEF Highest, TypeOK
    <2>3. \A i \in issued \cup new : i <= base + k
      BY <2>1, <2>2, LoadedRemembers DEF TypeOK, Ids
    <2>4. stage' = "doc" /\ DOMAIN tasks' = DOMAIN tasks \cup new /\ hwm' >= base + k
      BY <2>1, <2>2 DEF Save
    <2>5. hwm' \in Nat /\ base + k \in Nat /\ \A i \in issued \cup new : i \in Nat
      BY <2>1, <2>2 DEF Save, TypeOK, Ids
    <2>6. \A i \in issued' : i <= hwm'
      BY <2>1, <2>3, <2>4, <2>5
    <2> QED
      BY <2>1, <2>4, <2>6 DEF IdsRemembered
  <1>3. ASSUME NEW i \in Ids, NEW p \in Patches, Update(i, p)
        PROVE  IdsRemembered'
    BY <1>3, PatchedType, LoadedRemembers DEF Update, Save, IdsRemembered
  <1>4. ASSUME NEW i \in Ids, Delete(i)
        PROVE  IdsRemembered'
    <2>1. PICK m \in 0 .. MaxId : Loaded(m) /\ Save(IF i > m THEN i ELSE m, Without(i))
      BY <1>4 DEF Delete
    <2>2. \A j \in issued : j <= hwm'
      BY <2>1, LoadedRemembers DEF Save, Ids, TypeOK
    <2>3. DOMAIN tasks' \subseteq DOMAIN tasks
      BY <2>1 DEF Save, Without
    <2> QED
      BY <1>4, <2>1, <2>2, <2>3 DEF Delete, Save, IdsRemembered
  <1>5. CASE Reset
    BY <1>5, LoadedRemembers DEF Reset, Save, NoTasks, IdsRemembered
  <1>6. ASSUME NEW i \in Ids, NEW a \in Agents, Claim(i, a)
        PROVE  IdsRemembered'
    BY <1>6, LoadedRemembers DEF Claim, Save, IdsRemembered
  <1>7. CASE UNCHANGED vars
    BY <1>7 DEF vars, IdsRemembered
  <1> QED
    BY <1>1, <1>2, <1>3, <1>4, <1>5, <1>6, <1>7 DEF Next

LEMMA InitSound == Init => TypeOK /\ IdsRemembered
  <1> SUFFICES ASSUME Init PROVE TypeOK /\ IdsRemembered
    OBVIOUS
  <1>1. New(NoOwner) \in Task
    BY DEF New, Task, Status, Owners
  <1>2. CASE stage = "none"
    BY <1>2, MaxIdAssumption DEF Init, TypeOK, NoTasks, IdsRemembered, Stage, Hint
  <1>3. CASE stage = "legacy"
    BY <1>1, <1>3, MaxIdAssumption DEF Init, TypeOK, IdsRemembered, Stage, Hint, Ids
  <1> QED
    BY <1>2, <1>3 DEF Init

\* Every behaviour keeps the types and remembers the issued ids.
THEOREM TypeCorrect == Spec => [](TypeOK /\ IdsRemembered)
  <1>1. TypeOK /\ IdsRemembered /\ [Next]_vars => (TypeOK /\ IdsRemembered)'
    BY NextType, NextRemembers
  <1> QED
    BY InitSound, <1>1, PTL DEF Spec

\* TaskRecord.id is "monotonic, never reused": a task that appears has an id
\* above every id ever issued on its list.
THEOREM NeverReused == Spec => IdsNeverReused
  <1> DEFINE Fresh == \A i \in DOMAIN tasks' \ DOMAIN tasks : \A j \in issued : j < i
  <1>1. TypeOK /\ IdsRemembered /\ [Next]_vars => [Fresh]_vars
    <2> SUFFICES ASSUME TypeOK, IdsRemembered, Next
                 PROVE  Fresh
      OBVIOUS
    <2> USE MaxIdAssumption
    <2>1. ASSUME NEW k \in BatchSizes, NEW o \in Owners, Create(k, o)
          PROVE  Fresh
      <3>1. PICK base \in 0 .. MaxId :
              /\ Highest(base)
              /\ DOMAIN tasks' = DOMAIN tasks \cup (base + 1 .. base + k)
        BY <2>1 DEF Create, NextId, Save
      <3>2. \A j \in issued : j <= base /\ j \in Nat
        BY <3>1, LoadedRemembers DEF TypeOK, Ids
      <3>3. k \in Nat
        BY BatchAssumption
      <3> QED
        BY <3>1, <3>2, <3>3
    <2>2. ASSUME NEW i \in Ids, NEW p \in Patches, Update(i, p)
          PROVE  Fresh
      BY <2>2, PatchedType DEF Update, Save
    <2>3. CASE Ensure
      BY <2>3 DEF Ensure, Save
    <2>4. ASSUME NEW i \in Ids, Delete(i)
          PROVE  Fresh
      BY <2>4 DEF Delete, Save, Without
    <2>5. CASE Reset
      BY <2>5 DEF Reset, Save, NoTasks
    <2>6. ASSUME NEW i \in Ids, NEW a \in Agents, Claim(i, a)
          PROVE  Fresh
      BY <2>6 DEF Claim, Save
    <2> QED
      BY <2>1, <2>2, <2>3, <2>4, <2>5, <2>6 DEF Next
  <1> QED
    BY TypeCorrect, <1>1, PTL DEF Spec, IdsNeverReused

-----------------------------------------------------------------------------
\* What new links do to the records: the task's own ends, and the other end of
\* a link that is new.
LEMMA LinkedEnds ==
  ASSUME TypeOK, NEW i \in DOMAIN tasks, NEW p \in Patches, NEW j \in DOMAIN tasks
  PROVE  /\ Linked(i, p)[j].blocks =
              tasks[j].blocks
                \cup (IF j = i THEN p.blocks \ (tasks[i].blocks \cup {i})
                     ELSE IF j \in p.blockedBy \ (tasks[i].blockedBy \cup {i}) THEN {i} ELSE {})
         /\ Linked(i, p)[j].blockedBy =
              tasks[j].blockedBy
                \cup (IF j = i THEN p.blockedBy \ (tasks[i].blockedBy \cup {i})
                     ELSE IF j \in p.blocks \ (tasks[i].blocks \cup {i}) THEN {i} ELSE {})
  <1>1. tasks[j] \in Task
    BY DEF TypeOK
  <1> QED
    BY <1>1 DEF Linked, Task

\* _update_task_in_doc keeps links mirrored: both ends of a new link change if
\* both tasks exist, and the link is noted as early if they do not.
LEMMA UpdateMirrors ==
  ASSUME TypeOK, LinksMirrored, NEW i \in DOMAIN tasks, NEW p \in Patches, Update(i, p),
         NEW x \in DOMAIN tasks
  PROVE  Mirrored(x)'
  <1>1. tasks' = Patched(i, p)
    BY DEF Update, Save
  <1>2. DOMAIN tasks' = DOMAIN tasks
    BY <1>1, PatchedType
  <1> DEFINE bs == p.blocks \ (tasks[i].blocks \cup {i})
             cs == p.blockedBy \ (tasks[i].blockedBy \cup {i})
  <1>3. \A j \in DOMAIN tasks :
          /\ tasks'[j].blocks =
               tasks[j].blocks \cup (IF j = i THEN bs ELSE IF j \in cs THEN {i} ELSE {})
          /\ tasks'[j].blockedBy =
               tasks[j].blockedBy \cup (IF j = i THEN cs ELSE IF j \in bs THEN {i} ELSE {})
    BY <1>1, PatchedType, LinkedEnds
  <1>4. early \subseteq early'
    BY DEF Update
  <1>5. \A y \in bs : <<i, "blocks", y>> \in early' \/ y \in DOMAIN tasks
    BY DEF Update
  <1>6. \A y \in cs : <<i, "blockedBy", y>> \in early' \/ y \in DOMAIN tasks
    BY DEF Update
  <1>7. i \notin bs /\ i \notin cs
    OBVIOUS
  <1>8. Mirrored(x)
    BY DEF LinksMirrored
  <1> HIDE DEF bs, cs
  <1>9. ASSUME NEW y \in tasks'[x].blocks
        PROVE  <<x, "blocks", y>> \in early' \/ (y \in DOMAIN tasks /\ x \in tasks'[y].blockedBy)
    <2>1. CASE y \in tasks[x].blocks
      BY <1>3, <1>4, <1>8, <2>1 DEF Mirrored
    <2>2. CASE y \notin tasks[x].blocks /\ x = i
      BY <1>3, <1>5, <1>7, <1>9, <2>2
    <2>3. CASE y \notin tasks[x].blocks /\ x # i
      <3>1. x \in cs /\ y = i
        BY <1>3, <1>9, <2>3
      <3> QED
        BY <1>3, <3>1
    <2> QED
      BY <2>1, <2>2, <2>3
  <1>10. ASSUME NEW y \in tasks'[x].blockedBy
         PROVE  <<x, "blockedBy", y>> \in early' \/ (y \in DOMAIN tasks /\ x \in tasks'[y].blocks)
    <2>1. CASE y \in tasks[x].blockedBy
      BY <1>3, <1>4, <1>8, <2>1 DEF Mirrored
    <2>2. CASE y \notin tasks[x].blockedBy /\ x = i
      BY <1>3, <1>6, <1>7, <1>10, <2>2
    <2>3. CASE y \notin tasks[x].blockedBy /\ x # i
      <3>1. x \in bs /\ y = i
        BY <1>3, <1>10, <2>3
      <3> QED
        BY <1>3, <3>1
    <2> QED
      BY <2>1, <2>2, <2>3
  <1> QED
    BY <1>2, <1>9, <1>10 DEF Mirrored

\* A step that keeps the tasks, their links and what is early keeps them mirrored.
LEMMA SameLinks ==
  ASSUME LinksMirrored, early' = early, DOMAIN tasks' = DOMAIN tasks,
         \A j \in DOMAIN tasks : /\ tasks'[j].blocks = tasks[j].blocks
                                /\ tasks'[j].blockedBy = tasks[j].blockedBy
  PROVE  LinksMirrored'
  BY DEF LinksMirrored, Mirrored

LEMMA NextMirrors ==
  ASSUME TypeOK, LinksMirrored, [Next]_vars
  PROVE  LinksMirrored'
  <1>1. CASE Ensure
    BY <1>1, SameLinks DEF Ensure, Save
  <1>2. ASSUME NEW k \in BatchSizes, NEW o \in Owners, Create(k, o)
        PROVE  LinksMirrored'
    <2>1. PICK base \in 0 .. MaxId :
            LET new == base + 1 .. base + k
            IN  /\ Highest(base)
                /\ tasks' = [i \in DOMAIN tasks \cup new |-> IF i \in new THEN New(o) ELSE tasks[i]]
      BY <1>2 DEF Create, NextId, Save
    <2> DEFINE new == base + 1 .. base + k
    <2>2. \A i \in DOMAIN tasks : i <= base /\ i \in Nat
      BY <2>1, MaxIdAssumption DEF Highest, TypeOK, Ids
    <2>3. k \in Nat /\ \A i \in new : base < i /\ i \in Nat
      BY MaxIdAssumption, BatchAssumption
    <2>4. DOMAIN tasks \cap new = {}
      BY <2>2, <2>3, MaxIdAssumption
    <2>5. /\ DOMAIN tasks' = DOMAIN tasks \cup new
          /\ \A i \in DOMAIN tasks : tasks'[i] = tasks[i]
          /\ \A i \in new : tasks'[i].blocks = {} /\ tasks'[i].blockedBy = {}
      BY <2>1, <2>4 DEF New
    <2>6. early' = early
      BY <1>2 DEF Create
    <2> HIDE DEF new
    <2> QED
      BY <2>5, <2>6 DEF LinksMirrored, Mirrored
  <1>3. ASSUME NEW i \in Ids, NEW p \in Patches, Update(i, p)
        PROVE  LinksMirrored'
    <2>1. i \in DOMAIN tasks /\ tasks' = Patched(i, p)
      BY <1>3 DEF Update, Save
    <2>2. \A x \in DOMAIN tasks : Mirrored(x)'
      BY <1>3, <2>1, UpdateMirrors
    <2> QED
      BY <2>1, <2>2, PatchedType DEF LinksMirrored
  <1>4. ASSUME NEW i \in Ids, Delete(i)
        PROVE  LinksMirrored'
    <2>1. tasks' = Without(i) /\ early' = {l \in early : i \notin {l[1], l[3]}}
      BY <1>4 DEF Delete, Save
    <2>2. \A j \in DOMAIN tasks \ {i} : /\ tasks'[j].blocks = tasks[j].blocks \ {i}
                                       /\ tasks'[j].blockedBy = tasks[j].blockedBy \ {i}
      BY <2>1 DEF Without, TypeOK, Task
    <2>3. DOMAIN tasks' = DOMAIN tasks \ {i}
      BY <2>1 DEF Without
    <2>4. \A x \in DOMAIN tasks \ {i}, e \in {"blocks", "blockedBy"} :
            \A y : y # i /\ <<x, e, y>> \in early => <<x, e, y>> \in early'
      BY <2>1
    <2> QED
      BY <2>2, <2>3, <2>4 DEF LinksMirrored, Mirrored
  <1>5. CASE Reset
    BY <1>5 DEF Reset, Save, NoTasks, LinksMirrored
  <1>6. ASSUME NEW i \in Ids, NEW a \in Agents, Claim(i, a)
        PROVE  LinksMirrored'
    <2>1. i \in DOMAIN tasks /\ tasks' = [tasks EXCEPT ![i].owner = a] /\ early' = early
      BY <1>6 DEF Claim, Save
    <2>2. \A j \in DOMAIN tasks : /\ tasks'[j].blocks = tasks[j].blocks
                                 /\ tasks'[j].blockedBy = tasks[j].blockedBy
      BY <2>1 DEF TypeOK, Task
    <2> QED
      BY <2>1, <2>2, SameLinks
  <1>7. CASE UNCHANGED vars
    BY <1>7 DEF vars, LinksMirrored, Mirrored
  <1> QED
    BY <1>1, <1>2, <1>3, <1>4, <1>5, <1>6, <1>7 DEF Next

\* Links are bidirectional, whichever end has the lower id, except those made
\* before the task they name existed: at every time, a task names only tasks
\* that exist and name it in turn.
THEOREM Mirroring == Spec => []LinksMirrored
  <1>1. Init => LinksMirrored
    <2> SUFFICES ASSUME Init, NEW x \in DOMAIN tasks
                 PROVE  Mirrored(x)
      BY DEF LinksMirrored
    <2>1. tasks[x] = New(NoOwner)
      BY DEF Init, NoTasks
    <2> QED
      BY <2>1 DEF New, Mirrored
  <1>2. TypeOK /\ LinksMirrored /\ [Next]_vars => LinksMirrored'
    BY NextMirrors
  <1> QED
    BY TypeCorrect, <1>1, <1>2, PTL DEF Spec
=============================================================================
