---------------------------- MODULE Conversation ----------------------------
(***************************************************************************)
(* NodeConversation (agent_loop/conversation.py) over the file store       *)
(* (storage/conversation_store.py): messages in memory, written through to *)
(* one file per message, a cursor with the next sequence number and the    *)
(* partial checkpoint of the stream under way.                             *)
(*                                                                         *)
(* A public operation changes the memory and then awaits a few calls of    *)
(* the store one after the other: todo holds the calls that are left.  The *)
(* process may die between any two of them.  Only the agent loop uses a    *)
(* conversation, so no two operations overlap; the exception is the        *)
(* checkpoint of a cancelled stream, whose thread goes on writing (late).  *)
(* A conversation is restored with the phase and run it was written with.  *)
(***************************************************************************)
EXTENDS LlmMessages, Subsequences, Integers

CONSTANTS
  MaxMessages, \* bound: messages of one behaviour
  MaxCalls,    \* bound: tool calls of one assistant message
  MaxCrashes   \* bound: crashes of one behaviour

ASSUME BoundsAssumption ==
  MaxMessages \in Nat /\ MaxCalls \in Nat /\ MaxCrashes \in Nat

Ids == 1 .. MaxMessages
Messages == [id : Ids, seq : Nat, role : {"user", "assistant", "tool"},
             calls : 0 .. MaxCalls, tid : {NoCall} \cup Ids \X (1 .. MaxCalls)]
NoCursor == -1

VARIABLES
  mem,       \* _messages
  nextSeq,   \* _next_seq
  metaDone,  \* _meta_persisted
  op,        \* the operation under way
  turn,      \* what the agent loop is doing with the conversation
  late,      \* the partial a cancelled stream is still writing
  meta,      \* meta.json exists
  parts,     \* parts/: the messages on disk, one per seq
  partials,  \* partials/, likewise
  cursor,    \* next_seq of cursor.json
  issued,    \* number of messages made so far
  acked,     \* messages whose operation has returned, until compacted
  stream,    \* id of the stream whose checkpoint must survive, or 0
  reused,    \* a restart has found a part at or above next_seq
  crashes

memory == <<mem, nextSeq, metaDone>>
disk == <<meta, parts, partials, cursor>>
vars == <<memory, disk, op, turn, late, issued, acked, stream, reused, crashes>>

\* turn: down, idle, streaming (out: calls received so far), or running the
\* calls of the last assistant message (due: the calls not answered yet).
Down == [at |-> "down", out |-> 0, due |-> <<>>]
Idle == [at |-> "idle", out |-> 0, due |-> <<>>]
Streaming(k) == [at |-> "stream", out |-> k, due |-> <<>>]
Running(due) == IF due = <<>> THEN Idle ELSE [at |-> "tools", out |-> 0, due |-> due]

\* An operation: the store calls left, the memory and the messages
\* acknowledged once it is through.
Op(kind, todo, m, ack) == [kind |-> kind, todo |-> todo, mem |-> m, ack |-> ack]
NoOp == Op("none", <<>>, <<>>, {})

Call(do, m, n) == [do |-> do, m |-> m, n |-> n]
NoMessage == Message(1, 0, "user", 0, NoCall)
WriteMeta == Call("meta", NoMessage, 0)
WritePart(m) == Call("part", m, 0)
WriteNextSeq == Call("cursor", NoMessage, 0)
WritePartial(m) == Call("partial", m, 0)
ClearPartial(n) == Call("clear", NoMessage, n)
DeletePartsBefore(n) == Call("delete", NoMessage, n)

Init ==
  /\ mem = <<>> /\ nextSeq = 0 /\ metaDone = FALSE
  /\ meta = FALSE /\ parts = {} /\ partials = {} /\ cursor = NoCursor
  /\ op = NoOp /\ turn = Idle /\ late = {}
  /\ issued = 0 /\ acked = {} /\ stream = 0 /\ reused = FALSE /\ crashes = 0
-----------------------------------------------------------------------------
\* The operations of the agent loop

Quiet(at) == turn.at = at /\ op = NoOp

PersistMeta == IF metaDone THEN <<>> ELSE <<WriteMeta>>

\* _persist
FaultPersist(m) == PersistMeta \o <<ClearPartial(m.seq), WritePart(m), WriteNextSeq>>
Persist(m) == PersistMeta \o <<WritePart(m), WriteNextSeq, ClearPartial(m.seq)>>

\* The common part of add_user_message, add_assistant_message and
\* add_tool_result.
Add(m) ==
  /\ mem' = Append(mem, m)
  /\ nextSeq' = nextSeq + 1
  /\ op' = Op("add", Persist(m), Append(mem, m), {m})
  /\ UNCHANGED <<metaDone, disk, acked, stream, reused, crashes>>

Issue == issued < MaxMessages /\ issued' = issued + 1

\* User input between two turns, a nudge of the loop, or (while no call of the
\* last assistant message is answered) the priority drain of injected input.
AddUserMessage ==
  /\ Quiet("idle") \/ (Quiet("tools") /\ Last(mem).role # "tool")
  /\ Issue
  /\ Add(Message(issued + 1, nextSeq, "user", 0, NoCall))
  /\ UNCHANGED <<turn, late>>

\* A request is made if there is anything to send (with images or without).
StartStream ==
  /\ Quiet("idle") /\ ToLlmMessages(mem, {}) # <<>>
  /\ Issue
  /\ turn' = Streaming(0)
  /\ UNCHANGED <<memory, disk, op, late, acked, stream, reused, crashes>>

StreamMessage(k) == Message(issued, nextSeq, "assistant", k, NoCall)

\* checkpoint_partial_assistant: on text (k calls as before) or a new call.
CheckpointPartialAssistant(k) ==
  /\ Quiet("stream")
  /\ k \in {turn.out, turn.out + 1} /\ k <= MaxCalls
  /\ turn' = Streaming(k)
  /\ op' = Op("checkpoint", PersistMeta \o <<WritePartial(StreamMessage(k))>>, mem, {})
  /\ UNCHANGED <<memory, disk, late, issued, acked, stream, reused, crashes>>

\* The stream has ended: its message is recorded and its calls are run.
EndStream ==
  /\ Quiet("stream")
  /\ Add(StreamMessage(turn.out))
  /\ turn' = Running([k \in 1 .. turn.out |-> <<issued, k>>])
  /\ UNCHANGED <<issued, late>>

\* cancel_current_turn or the watchdog: what has arrived is recorded as a
\* truncated message; the thread of a checkpoint under way goes on.
CutStream ==
  /\ turn.at = "stream" /\ op.kind \in {"none", "checkpoint"}
  /\ late' = late \cup {op.todo[i].m : i \in {j \in DOMAIN op.todo : j = 1 /\ op.todo[j].do = "partial"}}
  /\ Add(StreamMessage(turn.out))
  /\ turn' = Idle
  /\ UNCHANGED issued

\* The stream fails or ends empty: nothing is recorded, and its checkpoint
\* stays until the next message takes the seq.
FailStream ==
  /\ Quiet("stream")
  /\ turn' = Idle
  /\ stream' = 0
  /\ UNCHANGED <<memory, disk, op, late, issued, acked, reused, crashes>>

\* The call due next is answered: by its result, by the stub of a cancelled
\* call, or by the notice that it was discarded.
AddToolResult ==
  /\ Quiet("tools")
  /\ turn' = Running(Tail(turn.due))
  /\ Issue
  /\ \A i \in DOMAIN mem : mem[i].tid # Head(turn.due)
  /\ Add(Message(issued + 1, nextSeq, "tool", 0, Head(turn.due)))
  /\ UNCHANGED late

\* compact and compact_preserving_structure (structure): the messages before
\* the split become one user message; with structure, those that are part of
\* a tool call are kept beside it.
FaultStructural(m) == m.calls > 0
Structural(m) == m.role = "tool" \/ m.calls > 0

\* The split moves on past results whose call would be compacted.
PastResults(split) ==
  CHOOSE s \in split .. Len(mem) :
    /\ s = Len(mem) \/ mem[s + 1].role # "tool"
    /\ \A i \in split .. s - 1 : mem[i + 1].role = "tool"

\* The summary takes a seq just before the first message kept.
FaultSummarySeq(kept, recent) ==
  IF kept # <<>> THEN kept[1].seq - 2
  ELSE IF recent # <<>> THEN recent[1].seq - 1 ELSE nextSeq
FaultSummaryLast(kept, recent) == nextSeq + Len(kept) + Len(recent)
SummarySeq(kept, recent) ==
  IF kept # <<>> THEN kept[1].seq - 1
  ELSE IF recent # <<>> THEN recent[1].seq - 1 ELSE nextSeq

Compact(split, structure) ==
  LET s == PastResults(split)
      recent == SubSeq(mem, s + 1, Len(mem))
      kept == IF structure THEN Kept(SubSeq(mem, 1, s), {m \in Range(mem) : Structural(m)}) ELSE <<>>
      boundary == IF recent # <<>> THEN recent[1].seq ELSE nextSeq'
      summary == Message(issued + 1, SummarySeq(kept, recent), "user", 0, NoCall)
  IN  /\ Quiet("idle")
      /\ Issue
      /\ nextSeq' = IF kept = <<>> /\ recent = <<>> THEN nextSeq + 1 ELSE nextSeq
      /\ op' = Op(IF structure THEN "structure" ELSE "summary",
                  <<DeletePartsBefore(boundary), WritePart(summary)>>
                    \o [i \in DOMAIN kept |-> WritePart(kept[i])] \o <<WriteNextSeq>>,
                  <<summary>> \o kept \o recent,
                  {summary} \cup {kept[i] : i \in DOMAIN kept})
      /\ UNCHANGED <<mem, metaDone, disk, turn, late, acked, stream, reused, crashes>>
-----------------------------------------------------------------------------
\* The calls of the store

\* A write replaces the file of that seq.
Put(files, m) == {f \in files : f.seq # m.seq} \cup {m}

Due(do) == op.todo # <<>> /\ Head(op.todo).do = do

\* One call of the operation is through; left are the acknowledged messages
\* it has not compacted.
Proceed(left) ==
  IF Len(op.todo) = 1
  THEN /\ op' = NoOp
       /\ mem' = op.mem
       /\ acked' = left \cup op.ack
  ELSE /\ op' = [op EXCEPT !.todo = Tail(@)]
       /\ acked' = left
       /\ UNCHANGED mem

elsewhere == <<nextSeq, turn, late, issued, reused, crashes>>

StoreMeta ==
  /\ Due("meta")
  /\ meta' = TRUE /\ metaDone' = TRUE
  /\ Proceed(acked)
  /\ UNCHANGED <<parts, partials, cursor, stream, elsewhere>>

StorePart ==
  /\ Due("part")
  /\ parts' = Put(parts, Head(op.todo).m)
  /\ Proceed(acked)
  /\ UNCHANGED <<meta, metaDone, partials, cursor, stream, elsewhere>>

StoreCursor ==
  /\ Due("cursor")
  /\ cursor' = nextSeq
  /\ Proceed(acked)
  /\ UNCHANGED <<meta, metaDone, parts, partials, stream, elsewhere>>

StorePartial ==
  /\ Due("partial")
  /\ partials' = Put(partials, Head(op.todo).m)
  /\ stream' = Head(op.todo).m.id
  /\ Proceed(acked)
  /\ UNCHANGED <<meta, metaDone, parts, cursor, elsewhere>>

StoreClear ==
  /\ Due("clear")
  /\ partials' = {p \in partials : p.seq # Head(op.todo).n}
  /\ stream' = IF Len(op.todo) = 1 /\ \E m \in op.ack : m.id = stream THEN 0 ELSE stream
  /\ Proceed(acked)
  /\ UNCHANGED <<meta, metaDone, parts, cursor, elsewhere>>

FaultStoreDelete ==
  /\ Due("delete")
  /\ parts' = {p \in parts : p.seq > Head(op.todo).n}
  /\ Proceed({m \in acked : m.seq >= Head(op.todo).n})
  /\ UNCHANGED <<meta, metaDone, partials, cursor, stream, elsewhere>>

StoreDelete ==
  /\ Due("delete")
  /\ parts' = {p \in parts : p.seq >= Head(op.todo).n}
  /\ Proceed({m \in acked : m.seq >= Head(op.todo).n})
  /\ UNCHANGED <<meta, metaDone, partials, cursor, stream, elsewhere>>

StoreLate ==
  /\ \E p \in late : partials' = Put(partials, p) /\ late' = late \ {p}
  /\ UNCHANGED <<memory, meta, parts, cursor, op, turn, issued, acked, stream, reused, crashes>>

Store == StoreMeta \/ StorePart \/ StoreCursor \/ StorePartial \/ StoreClear \/ StoreDelete
-----------------------------------------------------------------------------
\* Crash and restart

Before(f, files) == Cardinality({g \in files : g.seq < f.seq})

\* The files of a directory in the order of their names, which are their seqs.
BySeq(files) == [i \in 1 .. Cardinality(files) |-> CHOOSE f \in files : Before(f, files) = i - 1]

Crash ==
  /\ turn.at # "down" /\ crashes < MaxCrashes
  /\ crashes' = crashes + 1
  /\ mem' = <<>> /\ nextSeq' = 0 /\ metaDone' = FALSE
  /\ op' = NoOp /\ turn' = Down /\ late' = {}
  /\ UNCHANGED <<disk, issued, acked, stream, reused>>

\* The next_seq of a restart, before the partials are looked at.
NextSeqOnDisk ==
  IF cursor # NoCursor THEN cursor
  ELSE IF parts # {} THEN Last(BySeq(parts)).seq + 1 ELSE 0

Meaningful(p) == p.seq >= NextSeqOnDisk

RestoredMessages == BySeq(parts) \o BySeq({p \in partials : Meaningful(p)})

\* restore.  Without any message the loop clears the store and starts afresh.
Restore ==
  /\ turn.at = "down"
  /\ turn' = Idle
  /\ IF meta /\ RestoredMessages # <<>>
     THEN /\ mem' = RestoredMessages
          /\ partials' = {p \in partials : Meaningful(p)}
          /\ nextSeq' = IF partials' = {} THEN NextSeqOnDisk ELSE Last(BySeq(partials')).seq + 1
          /\ UNCHANGED <<meta, parts, cursor>>
     ELSE /\ mem' = <<>> /\ nextSeq' = 0
          /\ meta' = FALSE /\ parts' = {} /\ partials' = {} /\ cursor' = NoCursor
  /\ stream' = 0
  /\ reused' = (reused \/ \E p \in parts : p.seq >= NextSeqOnDisk)
  /\ UNCHANGED <<metaDone, op, late, issued, acked, crashes>>

Next ==
  \/ AddUserMessage \/ AddToolResult
  \/ StartStream \/ EndStream \/ CutStream \/ FailStream
  \/ \E k \in 0 .. MaxCalls : CheckpointPartialAssistant(k)
  \/ \E split \in DOMAIN mem, structure \in BOOLEAN : Compact(split, structure)
  \/ Store \/ StoreLate
  \/ Crash \/ Restore

Spec == Init /\ [][Next]_vars
-----------------------------------------------------------------------------
Calls == [do : {"meta", "part", "cursor", "partial", "clear", "delete"}, m : Messages, n : Nat]

\* Every variable has its type; a seq is never negative, not even one taken
\* from before the first kept message by a compaction.
TypeOK ==
  /\ mem \in Seq(Messages) /\ nextSeq \in Nat /\ metaDone \in BOOLEAN
  /\ op \in [kind : {"none", "add", "checkpoint", "summary", "structure"},
             todo : Seq(Calls), mem : Seq(Messages), ack : SUBSET Messages]
  /\ turn \in [at : {"down", "idle", "stream", "tools"}, out : 0 .. MaxCalls,
               due : Seq(Ids \X (1 .. MaxCalls))]
  /\ meta \in BOOLEAN /\ cursor \in Nat \cup {NoCursor}
  /\ parts \subseteq Messages /\ partials \subseteq Messages /\ late \subseteq Messages
  /\ acked \subseteq Messages /\ issued \in 0 .. MaxMessages /\ stream \in 0 .. MaxMessages
  /\ reused \in BOOLEAN /\ crashes \in 0 .. MaxCrashes

\* A message whose add_* has returned is on disk under its seq, through later
\* messages, crashes, restarts and compactions, until a compaction takes it:
\* no later write takes its seq.  (A restart whose cursor is behind a part
\* hands that seq out again; see NoDoubleLoad.)
AckedOnDisk == reused \/ acked \subseteq parts

AckedOf(msgs) == Kept(msgs, acked)

\* Between two operations a restart would bring back the acknowledged messages
\* in the order the memory has them, compactions included.
RestartKeepsOrder ==
  (turn.at # "down" /\ op = NoOp /\ ~reused) => AckedOf(RestoredMessages) = AckedOf(mem)

\* What a stream has checkpointed is found by a restart at any moment, as a
\* partial that still counts or as the real message.
StreamSurvives ==
  stream # 0 => \E m \in parts \cup {p \in partials : Meaningful(p)} : m.id = stream

\* The user messages that may have images: any of them.
Pictured(msgs) == SUBSET {m.id : m \in {n \in Range(msgs) : n.role = "user"}}

EachOnce(msgs) == \A i, j \in DOMAIN msgs : msgs[i].id = msgs[j].id => i = j

\* Whatever was cut, cancelled, injected, compacted or lost in a crash, and
\* whichever late checkpoint a restart finds beside its message, the memory has
\* no message twice (see NoDoubleLoad for the exception), and the request the
\* model gets pairs every call with one result and never has two user messages
\* of text in a row, whichever messages have images (to_llm_messages).
RequestWellFormed ==
  /\ reused \/ EachOnce(mem)
  /\ EachOnce(mem) =>
       \A pictured \in Pictured(mem) : WellFormed(ToLlmMessages(mem, pictured), pictured)

\* Every recorded result in the request of the one memory is in that of the other.
ShowsAll(before, after) ==
  \A pictured \in Pictured(before) :
    Answered(ToLlmMessages(before, pictured)) \subseteq Answered(ToLlmMessages(after, pictured))

\* The structure-preserving compaction shows the model every tool result the
\* model saw before it.
CompactionKeepsResults ==
  [][ (op.kind = "structure" /\ op' = NoOp /\ turn'.at # "down")
      => ShowsAll(mem, mem') ]_vars
-----------------------------------------------------------------------------
\* "it does NOT appear in read_parts() and cannot be double-loaded"
\* (checkpoint_partial_assistant): a restart never has a message twice.
NoDoubleLoad == EachOnce(mem)

\* A tool that has run is not reported to the model as interrupted: every
\* recorded result of a recorded call is in the request.
ResultsReachModel ==
  \A i, j \in DOMAIN mem : mem[i].tid \in CallsOf(mem[j]) => mem[i].tid \in Answered(ToLlmMessages(mem, {}))
=============================================================================
