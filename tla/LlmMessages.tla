---------------------------- MODULE LlmMessages ----------------------------
(***************************************************************************)
(* What NodeConversation.to_llm_messages sends to the model                *)
(* (agent_loop/conversation.py): the stored messages, with the pairs of    *)
(* tool call and tool result repaired and the sequence sanitised.          *)
(*                                                                         *)
(* Contents are left out.  A message is named by its id; the calls of an   *)
(* assistant message are numbered, and a result names its call by the pair *)
(* <<id of the assistant message, number of the call>>.  "pictured" are    *)
(* the ids of the user messages that have images at the moment; it is any  *)
(* set, since injected input may bring images and evict_old_images takes   *)
(* them from older messages.                                               *)
(***************************************************************************)
EXTENDS Naturals, Sequences, FiniteSets, SequencesExt

NoCall == <<0, 0>>

Message(id, seq, role, calls, tid) ==
  [id |-> id, seq |-> seq, role |-> role, calls |-> calls, tid |-> tid]

CallsOf(m) == {<<m.id, k>> : k \in 1 .. m.calls}

AllCalls(msgs) == UNION {CallsOf(msgs[i]) : i \in DOMAIN msgs}

\* The result invented for a call that has none; it has no message of its own.
Interrupted(tid) == Message(0, 0, "tool", 0, tid)

\* "ERROR: Tool execution was interrupted." for every call still open
Patched(acc) ==
  [out |-> acc.out \o [i \in 1 .. Cardinality(acc.open) |->
                         Interrupted(SetToSeq(acc.open)[i])],
   open |-> {}, seen |-> acc.seen \cup acc.open]

RepairResult(acc, m, known) ==
  IF m.tid \in known \cap acc.open /\ m.tid \notin acc.seen
  THEN [out |-> Append(acc.out, m), open |-> acc.open \ {m.tid}, seen |-> acc.seen \cup {m.tid}]
  ELSE acc

FaultRepairOther(acc, m) ==
  [out |-> Append(acc.out, m), open |-> acc.open \cup (CallsOf(m) \ acc.seen), seen |-> acc.seen]
RepairOther(acc, m) ==
  LET p == Patched(acc)
  IN  [out |-> Append(p.out, m), open |-> CallsOf(m) \ p.seen, seen |-> p.seen]

Repair(acc, m, known) ==
  IF m.role = "tool" THEN RepairResult(acc, m, known) ELSE RepairOther(acc, m)

\* The loop over the messages: what it has after the first n, for every n.
RepairUpTo(msgs) ==
  LET F[n \in 0 .. Len(msgs)] ==
        IF n = 0 THEN [out |-> <<>>, open |-> {}, seen |-> {}]
        ELSE Repair(F[n - 1], msgs[n], AllCalls(msgs))
  IN  F

RepairOrphanedToolCalls(msgs) == Patched(RepairUpTo(msgs)[Len(msgs)]).out

\* A user message whose content is a string: one with images is sent as a list.
TextUser(m, pictured) == m.role = "user" /\ m.id \notin pictured

\* Two consecutive user messages of text become one, which keeps the first
\* one's id; one with images is merged with nothing.
Merge(acc, m, pictured) ==
  IF acc # <<>> /\ TextUser(m, pictured) /\ TextUser(Last(acc), pictured)
  THEN acc ELSE Append(acc, m)

MergeUpTo(msgs, pictured) ==
  LET F[n \in 0 .. Len(msgs)] == IF n = 0 THEN <<>> ELSE Merge(F[n - 1], msgs[n], pictured)
  IN  F

MergeUsers(msgs, pictured) == MergeUpTo(msgs, pictured)[Len(msgs)]

DropLeading(msgs) ==
  LET users == {i \in DOMAIN msgs : msgs[i].role = "user"}
  IN  IF users = {} THEN <<>>
      ELSE SubSeq(msgs, CHOOSE i \in users : \A j \in users : i <= j, Len(msgs))

SanitizeForApi(msgs, pictured) == DropLeading(MergeUsers(msgs, pictured))

ToLlmMessages(msgs, pictured) == SanitizeForApi(RepairOrphanedToolCalls(msgs), pictured)
-----------------------------------------------------------------------------
\* What a strict API demands, written without the repair: the sequence starts
\* with a user message, every assistant message is followed at once by one
\* result for each of its calls, and there is no other result.  Two user
\* messages are next to each other only if one of them has images, which is
\* more than rule 1 of _sanitize_for_api allows.
WellFormed(msgs, pictured) ==
  /\ msgs # <<>> => msgs[1].role = "user"
  /\ \A i \in 2 .. Len(msgs) :
       TextUser(msgs[i], pictured) => ~TextUser(msgs[i - 1], pictured)
  /\ \A i \in DOMAIN msgs : msgs[i].role = "assistant" =>
       /\ i + msgs[i].calls <= Len(msgs)
       /\ {msgs[i + k].tid : k \in 1 .. msgs[i].calls} = CallsOf(msgs[i])
  /\ \A i \in DOMAIN msgs : msgs[i].role = "tool" =>
       \E j \in 1 .. i - 1 : msgs[j].role = "assistant" /\ i - j <= msgs[j].calls

\* The calls whose recorded results a sequence shows.
Answered(msgs) == {msgs[i].tid : i \in {j \in DOMAIN msgs : msgs[j].role = "tool" /\ msgs[j].id # 0}}
=============================================================================
