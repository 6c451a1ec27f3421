------------------------- MODULE ConversationProofs -------------------------
(***************************************************************************)
(* What a conversation keeps through crashes, cancelled streams and        *)
(* compactions, and what it sends to the model, for every bound on         *)
(* messages, calls and crashes.                                            *)
(*                                                                         *)
(* Invariant: the memory, the files and the calls of the store that are    *)
(* left in the operation determine each other.  What is left is in the     *)
(* order of the code (Shape); an id has one seq wherever copies of the     *)
(* message are (OneSeq); the next seq on disk is behind the one in memory  *)
(* by at most the message that is being written (Ordered); what is         *)
(* acknowledged is in memory, and no write that is left replaces it unless *)
(* a deletion has given it up (Acknowledged); the checkpoint of a stream   *)
(* is not removed before its message is on disk (Streamed).  There is one  *)
(* lemma per action; the six calls of the store are one, Stored.           *)
(*                                                                         *)
(* Requests: while the messages are repaired, all assistant messages but   *)
(* the last are followed by their results, and the last one by those that  *)
(* are no longer open (Half); merging user messages moves no result away   *)
(* from its call.  Both are inductions over the list.  A compaction of     *)
(* structure opens every call in the shorter list that it opens in the     *)
(* longer one, so no result is dropped that was kept before (ShowsMore).   *)
(***************************************************************************)
EXTENDS Conversation, SubsequencesProofs, FiniteSetTheorems

\* There is a process, and a list is in the order of its seqs.
Up == turn.at # "down"
Sorted(msgs) == \A i, j \in DOMAIN msgs : i < j => msgs[i].seq < msgs[j].seq

\* What the calls that are left will write, and which calls are left.
Writes(todo, do) == {todo[i].m : i \in {j \in DOMAIN todo : todo[j].do = do}}
Waiting(todo, do) == \E i \in DOMAIN todo : todo[i].do = do

\* The calls come in the order in which _persist and the compactions make them.
InOrder(todo) ==
  \A i, j \in DOMAIN todo : i < j =>
    /\ todo[j].do \notin {"meta", "delete"}
    /\ todo[i].do \in {"cursor", "clear"} => todo[j].do = "clear"

\* All calls that are left are of these sorts.
Only(todo, dos) == \A i \in DOMAIN todo : todo[i].do \in dos

\* What an operation may be and what it may run beside.
Shape ==
  /\ op.kind = "none" => op = NoOp
  /\ op.kind # "none" => op.todo # <<>>
  /\ InOrder(op.todo)
  /\ Waiting(op.todo, "part") => Waiting(op.todo, "cursor")
  /\ op.kind = "add" =>
       /\ Only(op.todo, {"meta", "part", "cursor", "clear"}) /\ Waiting(op.todo, "clear")
       /\ op.mem = mem /\ mem # <<>> /\ op.ack = {Last(mem)} /\ Last(mem).seq + 1 = nextSeq
       /\ turn.at \in {"idle", "tools"}
  /\ op.kind = "checkpoint" =>
       /\ Only(op.todo, {"meta", "partial"})
       /\ op.mem = mem /\ op.ack = {} /\ turn.at = "stream"
       /\ Writes(op.todo, "partial") \subseteq {StreamMessage(turn.out)}
  /\ op.kind \in {"summary", "structure"} =>
       /\ Only(op.todo, {"delete", "part", "cursor"})
       /\ mem # <<>> /\ turn.at = "idle"

\* What the loop does, and what memory and operation there can be meanwhile.
Alone ==
  /\ turn.at = "down" => mem = <<>> /\ nextSeq = 0 /\ ~metaDone /\ op = NoOp /\ late = {}
  /\ turn.at = "stream" => issued > 0
  /\ turn.at = "tools" <=> turn.due # <<>>
  /\ turn.at \in {"stream", "tools"} \/ mem # <<>> => nextSeq > 0

\* Nothing is written before the meta file.
MetaFirst ==
  /\ metaDone => meta
  /\ mem # <<>> /\ op = NoOp => meta
  /\ parts \cup partials \cup late # {} => meta
  /\ op # NoOp => meta \/ Head(op.todo).do = "meta"

\* Every message that is in memory, on disk or still to be written.
Known == Range(mem) \cup Range(op.mem) \cup parts \cup partials \cup late
           \cup Writes(op.todo, "part") \cup Writes(op.todo, "partial")

\* An id belongs to one seq, wherever copies of the message are.
OneSeq ==
  /\ \A m \in Known : m.id <= issued
  /\ \A m, n \in Known : m.id = n.id => m.seq = n.seq
  /\ turn.at = "stream" =>
       /\ \A m \in Known : m.id = issued => m.seq = nextSeq
       /\ \A m \in Range(mem) \cup parts : m.id # issued

\* Only a user message has seq 0, and only an assistant message has calls.
Sane(m) == (m.role # "user" => m.seq > 0) /\ (m.calls > 0 => m.role = "assistant")

\* The message of seq 0, if any, is the first one.
FirstLowest(msgs) == \A i \in DOMAIN msgs : i > 1 => msgs[i].seq > 0

FirstIsUser ==
  /\ \A m \in Known : Sane(m)
  /\ \A m \in partials \cup late \cup Writes(op.todo, "partial") : m.role = "assistant"
  /\ FirstLowest(mem) /\ FirstLowest(op.mem)
  /\ cursor > 0 \/ cursor = NoCursor

\* A directory has one file per seq.
OnePerSeq(files) == IsFiniteSet(files) /\ \A f, g \in files : f.seq = g.seq => f = g

\* Both directories are such.
Files == OnePerSeq(parts) /\ OnePerSeq(partials)

\* NextSeqOnDisk of a cursor and the parts.
NextOf(c, files) ==
  IF c # NoCursor THEN c ELSE IF files # {} THEN Last(BySeq(files)).seq + 1 ELSE 0

\* The seqs of a list are below a bound.
AllBelow(msgs, n) == \A i \in DOMAIN msgs : msgs[i].seq < n

\* The order of the memory, and how far the disk is behind it.
Ordered ==
  /\ Up => /\ NextOf(cursor, parts) <= nextSeq
           /\ op.kind = "add" /\ Waiting(op.todo, "part") =>
                NextOf(cursor, parts) < nextSeq \/ Last(mem) \in parts
  /\ Up /\ (~reused \/ cursor = NoCursor) =>
       AllBelow(mem, nextSeq) /\ AllBelow(op.mem, nextSeq)
  /\ Up /\ ~reused =>
       /\ Sorted(mem) /\ Sorted(op.mem)
       /\ \A p \in parts : p.seq < nextSeq
       /\ ~Waiting(op.todo, "cursor") => \A p \in parts : p.seq < NextOf(cursor, parts)

\* What is acknowledged, and what will be once the operation is through.
Deleted(todo, a) == Waiting(todo, "delete") /\ a.seq < Head(todo).n

Acknowledged ==
  /\ Writes(op.todo, "part") \subseteq op.ack
  /\ op.ack \subseteq Range(op.mem)
  /\ op.kind = "add" => Waiting(op.todo, "part") \/ Last(mem) \in parts
  /\ Up /\ ~reused =>
       /\ acked \subseteq Range(mem)
       /\ \A m \in op.ack : m \in Writes(op.todo, "part") \/ (m \in parts /\ ~Waiting(op.todo, "delete"))
       /\ \A a \in acked :
            /\ a \in Range(op.mem) \/ op = NoOp \/ Deleted(op.todo, a)
            /\ \A m \in Writes(op.todo, "part") : a.seq = m.seq => Deleted(op.todo, a)

\* A checkpoint that is written late is of the stream that had the last seq, or
\* an earlier one.
Late ==
  \A p \in late :
    /\ p.seq < nextSeq
    /\ op.kind = "add" /\ p.seq + 1 = nextSeq => p.id = Last(mem).id

\* Where the checkpoint of the stream is that must survive.
Streamed ==
  Up /\ stream # 0 =>
    \/ /\ turn.at = "stream" /\ stream = issued
       /\ \E p \in partials : p.id = stream /\ p.seq = nextSeq
    \/ /\ op.kind = "add" /\ Last(mem).id = stream
       /\ Waiting(op.todo, "part") => \E p \in partials : p.id = stream /\ p.seq + 1 = nextSeq

\* The inductive invariant.
ConvInv == /\ Shape /\ Alone /\ MetaFirst /\ OneSeq /\ FirstIsUser /\ Files /\ Ordered
           /\ Acknowledged /\ Late /\ Streamed /\ AckedOnDisk /\ StreamSurvives
-----------------------------------------------------------------------------
\* The files in the order of their seqs: each of them once, none left out.
LEMMA Sorting ==
  ASSUME NEW F \in SUBSET Messages, IsFiniteSet(F), \A f, g \in F : f.seq = g.seq => f = g
  PROVE  /\ BySeq(F) \in Seq(F) /\ Len(BySeq(F)) = Cardinality(F)
         /\ Sorted(BySeq(F)) /\ Range(BySeq(F)) = F
<1> DEFINE N == Cardinality(F)
           B(f) == Before(f, F)
           Under(f) == {g \in F : g.seq < f.seq}
<1>1. N \in Nat /\ \A f \in F : f.seq \in Nat
  BY FS_CardinalityType DEF Messages
<1>2. \A f \in F : IsFiniteSet(Under(f)) /\ B(f) \in Nat
  <2>1. ASSUME NEW f \in F PROVE IsFiniteSet(Under(f)) /\ B(f) \in Nat
    <3>1. IsFiniteSet(Under(f))
      BY FS_Subset
    <3> QED BY <3>1, FS_CardinalityType DEF Before
  <2> QED BY <2>1
<1>3. ASSUME NEW f \in F, NEW T \in SUBSET F, f \in T, Under(f) \subseteq T PROVE B(f) + 1 <= Cardinality(T)
  <2>1. f \notin Under(f)
    BY <1>1
  <2>2. IsFiniteSet(Under(f) \cup {f}) /\ Cardinality(Under(f) \cup {f}) = B(f) + 1
    BY <1>2, <2>1, FS_AddElement DEF Before
  <2>3. IsFiniteSet(T)
    BY FS_Subset
  <2>4. Under(f) \cup {f} \in SUBSET T
    BY <1>3
  <2> QED BY <2>2, <2>3, <2>4, FS_Subset
<1>4. \A f \in F : B(f) \in 0 .. N - 1
  <2>1. ASSUME NEW f \in F PROVE B(f) + 1 <= N
    <3> DEFINE T == F
    <3>1. Under(f) \subseteq T /\ T \in SUBSET F /\ f \in T
      OBVIOUS
    <3> HIDE DEF Under, B, T
    <3>2. B(f) + 1 <= Cardinality(T)
      BY <3>1, <1>3
    <3> QED BY <3>2 DEF T
  <2> HIDE DEF B, Under, N
  <2> QED BY <1>1, <1>2, <2>1
<1>5. \A f, g \in F : f.seq < g.seq => B(f) < B(g)
  <2>1. ASSUME NEW f \in F, NEW g \in F, f.seq < g.seq PROVE B(f) < B(g)
    <3>1. f \in Under(g) /\ Under(f) \subseteq Under(g)
      BY <1>1, <2>1
    <3>2. B(f) + 1 <= Cardinality(Under(g))
      BY <1>3, <3>1
    <3> QED BY <1>2, <3>2 DEF Before
  <2> QED BY <2>1
<1> HIDE DEF B, Under
<1>6. \A f, g \in F : B(f) = B(g) => f = g
  BY <1>1, <1>2, <1>5
<1>7. \A i \in 1 .. N : \E f \in F : B(f) = i - 1
  <2> DEFINE r == [f \in F |-> B(f)]
  <2>1. r \in [F -> 0 .. N - 1]
    BY <1>4
  <2>2. r \in Injection(F, 0 .. N - 1)
    BY <1>6, <2>1 DEF Injection, IsInjective
  <2>3. IsFiniteSet(0 .. N - 1) /\ Cardinality(0 .. N - 1) = N
    BY <1>1, FS_Interval
  <2>4. r \in Surjection(F, 0 .. N - 1)
    BY <2>2, <2>3, FS_Injection
  <2>5. \A k \in 0 .. N - 1 : \E f \in F : r[f] = k
    BY <2>4 DEF Surjection
  <2>6. \A i \in 1 .. N : i - 1 \in 0 .. N - 1
    BY <1>1
  <2> QED BY <2>5, <2>6
<1> DEFINE s == BySeq(F)
<1>8. s = [i \in 1 .. N |-> CHOOSE f \in F : B(f) = i - 1]
  BY DEF BySeq, B
<1> HIDE DEF s
<1>9. \A i \in 1 .. N : s[i] \in F /\ B(s[i]) = i - 1
  BY <1>7, <1>8
<1>10. s \in [1 .. N -> F] /\ DOMAIN s = 1 .. N
  BY <1>8, <1>9
<1>11. s \in Seq(F) /\ Len(s) = N
  BY <1>1, <1>10
<1>12. Sorted(s)
  <2>1. ASSUME NEW i \in 1 .. N, NEW j \in 1 .. N, i < j PROVE s[i].seq < s[j].seq
    <3>1. s[i] \in F /\ s[j] \in F /\ B(s[i]) < B(s[j])
      BY <1>1, <1>9, <2>1
    <3>2. s[i].seq \in Nat /\ s[j].seq \in Nat /\ B(s[i]) \in Nat /\ B(s[j]) \in Nat
      BY <1>1, <1>4, <3>1
    <3>3. ~(s[j].seq < s[i].seq)
      BY <1>5, <3>1, <3>2
    <3>4. s[i].seq # s[j].seq
      BY <3>1, <3>2
    <3> QED BY <3>2, <3>3, <3>4
  <2> QED BY <2>1, <1>10 DEF Sorted
<1>13. Range(s) = F
  <2>1. ASSUME NEW f \in F PROVE \E i \in 1 .. N : s[i] = f
    <3>1. B(f) + 1 \in 1 .. N /\ (B(f) + 1) - 1 = B(f)
      BY <1>1, <1>4
    <3> QED BY <3>1, <1>6, <1>9
  <2> QED BY <2>1, <1>9, <1>10 DEF Range
<1> QED BY <1>11, <1>12, <1>13 DEF s
-----------------------------------------------------------------------------
\* The repair of the request.  Pairs: what names a call; Wire: what the
\* request is made of; Accs: what the repair has while it goes through.
Pairs == Ids \X (1 .. MaxCalls)
Wire == Messages \cup {Interrupted(t) : t \in Pairs}
Accs == [out : Seq(Wire), open : SUBSET Pairs, seen : SUBSET Pairs]

\* SetToSeq lists a finite set, each element once.
LEMMA Listing ==
  ASSUME NEW S, IsFiniteSet(S)
  PROVE  /\ SetToSeq(S) \in [1 .. Cardinality(S) -> S]
         /\ Cardinality(S) \in Nat
         /\ \A x \in S : \E i \in 1 .. Cardinality(S) : SetToSeq(S)[i] = x
         /\ \A i, j \in 1 .. Cardinality(S) : SetToSeq(S)[i] = SetToSeq(S)[j] => i = j
<1> DEFINE N == Cardinality(S)
<1>1. N \in Nat /\ ExistsBijection(1 .. N, S)
  BY FS_CardinalityType
<1>2. \E f \in [1 .. N -> S] : IsInjective(f)
  BY <1>1 DEF ExistsBijection, Bijection, Injection
<1>3. SetToSeq(S) \in [1 .. N -> S] /\ IsInjective(SetToSeq(S))
  BY <1>2 DEF SetToSeq
<1> DEFINE f == SetToSeq(S)
<1> HIDE DEF f
<1>4. f \in Injection(1 .. N, S)
  BY <1>3 DEF f, Injection
<1>5. Cardinality(1 .. N) = N
  <2>1. 1 \in Int /\ N \in Int
    BY <1>1
  <2> HIDE DEF N
  <2>2. Cardinality(1 .. N) = IF 1 > N THEN 0 ELSE N - 1 + 1
    BY <2>1, FS_Interval
  <2> QED BY <1>1, <2>2
<1>6. f \in Surjection(1 .. N, S)
  BY <1>4, <1>5, FS_Injection
<1> QED BY <1>1, <1>3, <1>6 DEF f, Surjection, IsInjective

\* There are finitely many calls.
LEMMA PairsFinite == IsFiniteSet(Pairs) /\ \A S \in SUBSET Pairs : IsFiniteSet(S)
<1>1. IsFiniteSet(Ids) /\ IsFiniteSet(1 .. MaxCalls)
  BY BoundsAssumption, FS_Interval DEF Ids
<1>2. IsFiniteSet(Pairs)
  BY <1>1, FS_Product DEF Pairs
<1> QED BY <1>2, FS_Subset

\* The results that are invented close every open call, each of them once.
LEMMA PatchedAcc ==
  ASSUME NEW acc \in Accs
  PROVE  /\ Patched(acc) \in Accs
         /\ Patched(acc).open = {} /\ Patched(acc).seen = acc.seen \cup acc.open
         /\ Cardinality(acc.open) \in Nat
         /\ Len(Patched(acc).out) = Len(acc.out) + Cardinality(acc.open)
         /\ \A i \in 1 .. Len(acc.out) : Patched(acc).out[i] = acc.out[i]
         /\ \A i \in 1 .. Cardinality(acc.open) :
              \E t \in acc.open : Patched(acc).out[Len(acc.out) + i] = Interrupted(t)
         /\ \A t \in acc.open : \E i \in 1 .. Cardinality(acc.open) :
              Patched(acc).out[Len(acc.out) + i] = Interrupted(t)
<1> DEFINE N == Cardinality(acc.open)
           f == SetToSeq(acc.open)
           q == [i \in 1 .. N |-> Interrupted(f[i])]
<1>1. acc.out \in Seq(Wire) /\ acc.open \in SUBSET Pairs /\ acc.seen \in SUBSET Pairs
  BY DEF Accs
<1>2. IsFiniteSet(acc.open)
  BY <1>1, PairsFinite
<1>3. /\ N \in Nat /\ f \in [1 .. N -> acc.open]
      /\ \A x \in acc.open : \E i \in 1 .. N : f[i] = x
  BY <1>2, Listing
<1>4. Patched(acc) = [out |-> acc.out \o q, open |-> {}, seen |-> acc.seen \cup acc.open]
  BY DEF Patched
<1> HIDE DEF f, N
<1>5. \A i \in 1 .. N : f[i] \in acc.open /\ q[i] = Interrupted(f[i]) /\ q[i] \in Wire
  BY <1>1, <1>3 DEF Wire
<1>6. q \in Seq(Wire) /\ Len(q) = N
  BY <1>3, <1>5
<1> HIDE DEF q
<1> DEFINE r == acc.out
<1>7. r \in Seq(Wire)
  BY <1>1
<1> HIDE DEF r
<1>8. /\ r \o q \in Seq(Wire) /\ Len(r \o q) = Len(r) + N
      /\ \A i \in 1 .. Len(r) : (r \o q)[i] = r[i]
      /\ \A i \in 1 .. N : (r \o q)[Len(r) + i] = q[i]
  BY <1>3, <1>6, <1>7, SMTT(30)
<1>9. Patched(acc).out = r \o q /\ Patched(acc) \in Accs
  BY <1>1, <1>4, <1>8 DEF r, Accs
<1> DEFINE p == Patched(acc)
<1>10. p.open = {} /\ p.seen = acc.seen \cup acc.open /\ p.out = r \o q /\ p \in Accs
  <2>1. p.open = {} /\ p.seen = acc.seen \cup acc.open
    BY <1>4
  <2> QED BY <1>9, <2>1
<1> HIDE DEF p
<1>11. \A i \in 1 .. N : \E t \in acc.open : p.out[Len(r) + i] = Interrupted(t)
  BY <1>5, <1>8, <1>10
<1>12. \A t \in acc.open : \E i \in 1 .. N : p.out[Len(r) + i] = Interrupted(t)
  <2>1. \A t \in acc.open : \E i \in 1 .. N : q[i] = Interrupted(t)
    BY <1>3, <1>5
  <2> QED BY <2>1, <1>8, <1>10
<1> QED BY <1>3, <1>8, <1>10, <1>11, <1>12 DEF N, r, p

\* The calls of a list are named by pairs.
LEMMA CallsPairs ==
  ASSUME NEW m \in Messages
  PROVE  CallsOf(m) \in SUBSET Pairs /\ m \in Wire
BY BoundsAssumption DEF CallsOf, Messages, Pairs, Wire

\* A step of the repair keeps its types.
LEMMA RepairAcc ==
  ASSUME NEW acc \in Accs, NEW m \in Messages, NEW known
  PROVE  Repair(acc, m, known) \in Accs
<1>1. CallsOf(m) \in SUBSET Pairs /\ m \in Wire
  BY CallsPairs
<1>2. CASE m.role = "tool"
  BY <1>1, <1>2 DEF Repair, RepairResult, Accs
<1>3. CASE m.role # "tool"
  <2> DEFINE p == Patched(acc)
  <2>1. p \in Accs
    BY PatchedAcc
  <2> HIDE DEF p
  <2>2. RepairOther(acc, m) = [out |-> Append(p.out, m), open |-> CallsOf(m) \ p.seen, seen |-> p.seen]
    BY DEF RepairOther, p
  <2>3. RepairOther(acc, m) \in Accs
    BY <1>1, <2>1, <2>2 DEF Accs
  <2> QED BY <1>3, <2>3 DEF Repair
<1> QED BY <1>2, <1>3

\* The equations of the two recursions.
LEMMA RepairUpToDef ==
  ASSUME NEW msgs \in Seq(Messages)
  PROVE  /\ RepairUpTo(msgs) \in [0 .. Len(msgs) -> Accs]
         /\ RepairUpTo(msgs)[0] = [out |-> <<>>, open |-> {}, seen |-> {}]
         /\ \A n \in 1 .. Len(msgs) :
              RepairUpTo(msgs)[n] = Repair(RepairUpTo(msgs)[n - 1], msgs[n], AllCalls(msgs))
<1> DEFINE L == Len(msgs)
           Step(v, n) == Repair(v, msgs[n], AllCalls(msgs))
           Body(g, n) == IF n = 0 THEN [out |-> <<>>, open |-> {}, seen |-> {}] ELSE Step(g[n - 1], n)
           K == RepairUpTo(msgs)
<1>1. L \in Nat /\ \A n \in 1 .. L : msgs[n] \in Messages
  OBVIOUS
<1>2. \A v \in Accs, n \in 1 .. L : Step(v, n) \in Accs
  BY <1>1, RepairAcc
<1>3. PICK step : /\ step \in [1 .. L -> [Accs -> Accs]]
                  /\ \A v \in Accs, n \in 1 .. L : step[n][v] = Step(v, n)
  <2> DEFINE f == [n \in 1 .. L |-> [v \in Accs |-> Step(v, n)]]
  <2> HIDE DEF Step, L
  <2>1. f \in [1 .. L -> [Accs -> Accs]]
    BY <1>2
  <2>2. \A v \in Accs, n \in 1 .. L : f[n][v] = Step(v, n)
    OBVIOUS
  <2> QED BY <2>1, <2>2
<1>0. [out |-> <<>>, open |-> {}, seen |-> {}] \in Accs
  BY DEF Accs
<1>4. PICK e : e \in Accs /\ e = [out |-> <<>>, open |-> {}, seen |-> {}]
  BY <1>0
<1>5. PICK g : IsRun(g, Accs, L, e, step)
  BY <1>1, <1>3, <1>4, Iterates
<1>6. \A n \in 1 .. L : g[n] = Step(g[n - 1], n)
  <2>1. \A n \in 1 .. L : n - 1 \in 0 .. L
    BY <1>1
  <2> HIDE DEF L, Step
  <2> QED BY <2>1, <1>3, <1>5 DEF IsRun
<1>7. g = [n \in 0 .. L |-> Body(g, n)]
  <2>1. \A n \in 0 .. L : n = 0 \/ n \in 1 .. L
    BY <1>1
  <2> HIDE DEF L, Step
  <2> QED BY <2>1, <1>4, <1>5, <1>6 DEF IsRun
<1>8. K = CHOOSE f : f = [n \in 0 .. L |-> Body(f, n)]
  BY DEF RepairUpTo
<1>9. K = [n \in 0 .. L |-> Body(K, n)]
  <2> HIDE DEF K, Body, L
  <2> QED BY <1>7, <1>8
<1> HIDE DEF K
<1>10. K[0] = [out |-> <<>>, open |-> {}, seen |-> {}] /\ \A n \in 1 .. L : K[n] = Step(K[n - 1], n)
  <2>1. 0 \in 0 .. L /\ \A n \in 1 .. L : n \in 0 .. L /\ n # 0
    BY <1>1
  <2> HIDE DEF L, Step
  <2> QED BY <2>1, <1>9
<1>11. \A n \in 0 .. L : K[n] \in Accs
  <2> DEFINE P == {n \in 0 .. L : K[n] \in Accs}
  <2>1. 0 \in P
    <3> HIDE DEF L, Step
    <3>1. 0 \in 0 .. L
      BY <1>1
    <3>2. K[0] \in Accs
      BY <1>4, <1>10
    <3> QED BY <3>1, <3>2
  <2>2. ASSUME NEW n \in 0 .. L, n # L, n \in P PROVE n + 1 \in P
    <3>1. n + 1 \in 1 .. L /\ n + 1 \in 0 .. L /\ (n + 1) - 1 = n
      BY <1>1, <2>2
    <3> HIDE DEF L, Step
    <3>2. K[n + 1] = Step(K[n], n + 1) /\ K[n] \in Accs
      BY <3>1, <2>2, <1>10
    <3> QED BY <3>1, <3>2, <1>2
  <2>3. \A n \in 0 .. L : n \in P
    <3> HIDE DEF P, L
    <3> QED BY <2>1, <2>2, <1>1, UpTo
  <2> QED BY <2>3
<1>12. K \in [0 .. L -> Accs]
  <2> HIDE DEF L, Body
  <2> QED BY <1>9, <1>11
<1> QED BY <1>10, <1>12 DEF K

\* A step of the merging keeps its types.
LEMMA MergeType ==
  ASSUME NEW S, NEW acc \in Seq(S), NEW m \in S, NEW pictured
  PROVE  Merge(acc, m, pictured) \in Seq(S)
BY DEF Merge

\* The merging, step by step.
LEMMA MergeUpToDef ==
  ASSUME NEW msgs \in Seq(Wire), NEW pictured
  PROVE  /\ MergeUpTo(msgs, pictured) \in [0 .. Len(msgs) -> Seq(Wire)]
         /\ MergeUpTo(msgs, pictured)[0] = <<>>
         /\ \A n \in 1 .. Len(msgs) :
              MergeUpTo(msgs, pictured)[n] = Merge(MergeUpTo(msgs, pictured)[n - 1], msgs[n], pictured)
<1> DEFINE L == Len(msgs)
           Step(v, n) == Merge(v, msgs[n], pictured)
           Body(g, n) == IF n = 0 THEN <<>> ELSE Step(g[n - 1], n)
           K == MergeUpTo(msgs, pictured)
<1>1. L \in Nat /\ \A n \in 1 .. L : msgs[n] \in Wire
  OBVIOUS
<1>2. \A v \in Seq(Wire), n \in 1 .. L : Step(v, n) \in Seq(Wire)
  BY <1>1, MergeType
<1>3. PICK step : /\ step \in [1 .. L -> [Seq(Wire) -> Seq(Wire)]]
                  /\ \A v \in Seq(Wire), n \in 1 .. L : step[n][v] = Step(v, n)
  <2> DEFINE f == [n \in 1 .. L |-> [v \in Seq(Wire) |-> Step(v, n)]]
  <2> HIDE DEF Step, L
  <2>1. f \in [1 .. L -> [Seq(Wire) -> Seq(Wire)]]
    BY <1>2
  <2>2. \A v \in Seq(Wire), n \in 1 .. L : f[n][v] = Step(v, n)
    OBVIOUS
  <2> QED BY <2>1, <2>2
<1>0. <<>> \in Seq(Wire)
  OBVIOUS
<1>4. PICK e : e \in Seq(Wire) /\ e = <<>>
  BY <1>0
<1>5. PICK g : IsRun(g, Seq(Wire), L, e, step)
  BY <1>1, <1>3, <1>4, Iterates
<1>6. \A n \in 1 .. L : g[n] = Step(g[n - 1], n)
  <2>1. \A n \in 1 .. L : n - 1 \in 0 .. L
    BY <1>1
  <2> HIDE DEF L, Step
  <2> QED BY <2>1, <1>3, <1>5 DEF IsRun
<1>7. g = [n \in 0 .. L |-> Body(g, n)]
  <2>1. \A n \in 0 .. L : n = 0 \/ n \in 1 .. L
    BY <1>1
  <2> HIDE DEF L, Step
  <2> QED BY <2>1, <1>4, <1>5, <1>6 DEF IsRun
<1>8. K = CHOOSE f : f = [n \in 0 .. L |-> Body(f, n)]
  BY DEF MergeUpTo
<1>9. K = [n \in 0 .. L |-> Body(K, n)]
  <2> HIDE DEF K, Body, L
  <2> QED BY <1>7, <1>8
<1> HIDE DEF K
<1>10. K[0] = <<>> /\ \A n \in 1 .. L : K[n] = Step(K[n - 1], n)
  <2>1. 0 \in 0 .. L /\ \A n \in 1 .. L : n \in 0 .. L /\ n # 0
    BY <1>1
  <2> HIDE DEF L, Step
  <2> QED BY <2>1, <1>9
<1>11. \A n \in 0 .. L : K[n] \in Seq(Wire)
  <2> DEFINE P == {n \in 0 .. L : K[n] \in Seq(Wire)}
  <2>1. 0 \in P
    <3> HIDE DEF L, Step
    <3>1. 0 \in 0 .. L
      BY <1>1
    <3>2. K[0] \in Seq(Wire)
      BY <1>4, <1>10
    <3> QED BY <3>1, <3>2
  <2>2. ASSUME NEW n \in 0 .. L, n # L, n \in P PROVE n + 1 \in P
    <3>1. n + 1 \in 1 .. L /\ n + 1 \in 0 .. L /\ (n + 1) - 1 = n
      BY <1>1, <2>2
    <3> HIDE DEF L, Step
    <3>2. K[n + 1] = Step(K[n], n + 1) /\ K[n] \in Seq(Wire)
      BY <3>1, <2>2, <1>10
    <3> QED BY <3>1, <3>2, <1>2
  <2>3. \A n \in 0 .. L : n \in P
    <3> HIDE DEF P, L
    <3> QED BY <2>1, <2>2, <1>1, UpTo
  <2> QED BY <2>3
<1>12. K \in [0 .. L -> Seq(Wire)]
  <2> HIDE DEF L, Body
  <2> QED BY <1>9, <1>11
<1> QED BY <1>10, <1>12 DEF K

\* Nothing is sent of nothing.
LEMMA EmptyRequest == \A pictured : ToLlmMessages(<<>>, pictured) = <<>>
<1>1. ASSUME NEW e \in Seq(Messages), Len(e) = 0, NEW pictured PROVE ToLlmMessages(e, pictured) = <<>>
  <2> DEFINE acc == RepairUpTo(e)[0]
             q == Patched(acc).out
  <2>1. acc \in Accs /\ acc.out = <<>> /\ acc.open = {}
    <3>1. acc = [out |-> <<>>, open |-> {}, seen |-> {}]
      BY RepairUpToDef
    <3> QED BY <3>1 DEF Accs
  <2>2. Cardinality(acc.open) = 0
    BY <2>1, FS_EmptySet
  <2> HIDE DEF acc
  <2>3. q \in Seq(Wire) /\ Len(q) = 0
    <3>1. Patched(acc) \in Accs /\ Len(q) = Len(acc.out) + Cardinality(acc.open)
      BY <2>1, PatchedAcc
    <3> QED BY <2>1, <2>2, <3>1 DEF Accs
  <2>4. RepairOrphanedToolCalls(e) = q
    BY <1>1 DEF acc, RepairOrphanedToolCalls
  <2> HIDE DEF q
  <2>5. MergeUsers(q, pictured) = <<>>
    BY <2>3, MergeUpToDef DEF MergeUsers
  <2>6. DropLeading(<<>>) = <<>>
    BY DEF DropLeading
  <2> QED BY <2>4, <2>5, <2>6 DEF ToLlmMessages, SanitizeForApi
<1>2. <<>> \in Seq(Messages) /\ Len(<<>>) = 0
  OBVIOUS
<1> QED BY <1>1, <1>2

\* An assistant message that is followed by one result for each of its calls;
\* a result that follows its assistant message; and a sequence in which all
\* are so.
Complete(q, i) ==
  /\ i + q[i].calls <= Len(q)
  /\ {q[i + k].tid : k \in 1 .. q[i].calls} = CallsOf(q[i])
  /\ \A k \in 1 .. q[i].calls : q[i + k].role = "tool"

Follows(q, i) == \E j \in 1 .. i - 1 : q[j].role = "assistant" /\ i - j <= q[j].calls

Paired(q) ==
  /\ \A i \in 1 .. Len(q) : q[i].role = "assistant" => Complete(q, i)
  /\ \A i \in 1 .. Len(q) : q[i].role = "tool" => Follows(q, i)

\* The same while the calls of the last assistant message, at j, are answered:
\* open is what is left of them.
Block(q, open, j) ==
  /\ q[j].role = "assistant"
  /\ j + q[j].calls = Len(q) + Cardinality(open)
  /\ {q[k].tid : k \in j + 1 .. Len(q)} \cup open = CallsOf(q[j])
  /\ \A k \in j + 1 .. Len(q) : q[k].role = "tool"

\* The repair between two messages: all calls are closed, or those of the last
\* assistant message are being answered.
Half(acc) ==
  /\ \/ acc.open = {} /\ \A i \in 1 .. Len(acc.out) : acc.out[i].role = "assistant" => Complete(acc.out, i)
     \/ \E j \in 1 .. Len(acc.out) :
          /\ Block(acc.out, acc.open, j)
          /\ \A i \in 1 .. Len(acc.out) : acc.out[i].role = "assistant" /\ i # j => Complete(acc.out, i)
  /\ \A i \in 1 .. Len(acc.out) : acc.out[i].role = "tool" => Follows(acc.out, i)

\* What comes later does not undo it.
LEMMA StaysComplete ==
  ASSUME NEW q \in Seq(Wire), NEW r \in Seq(Wire), Len(q) <= Len(r),
         \A i \in 1 .. Len(q) : r[i] = q[i], NEW i \in 1 .. Len(q)
  PROVE  /\ Complete(q, i) => Complete(r, i)
         /\ Follows(q, i) => Follows(r, i)
<1>1. q[i] \in Wire /\ r[i] = q[i]
  OBVIOUS
<1>2. q[i].calls \in Nat
  BY <1>1, BoundsAssumption DEF Wire, Messages, Interrupted, Message
<1>3. ASSUME Complete(q, i) PROVE Complete(r, i)
  <2> DEFINE c == q[i].calls
  <2>1. \A k \in 1 .. c : i + k \in 1 .. Len(q) /\ r[i + k] = q[i + k]
    BY <1>2, <1>3 DEF Complete
  <2>2. {r[i + k].tid : k \in 1 .. c} = {q[i + k].tid : k \in 1 .. c}
    BY <2>1
  <2>3. r[i].calls = c /\ CallsOf(r[i]) = CallsOf(q[i])
    BY <1>1
  <2>4. i + c <= Len(q) /\ {q[i + k].tid : k \in 1 .. c} = CallsOf(q[i])
        /\ \A k \in 1 .. c : q[i + k].role = "tool"
    BY <1>3 DEF Complete
  <2>5. i + c <= Len(r)
    BY <1>2, <2>4
  <2> HIDE DEF c
  <2> QED BY <2>1, <2>2, <2>3, <2>4, <2>5 DEF Complete
<1>4. ASSUME Follows(q, i) PROVE Follows(r, i)
  BY <1>4 DEF Follows
<1> QED BY <1>3, <1>4

\* The c positions after position j, counted from j.
LEMMA Shifted ==
  ASSUME NEW j \in Nat, NEW c \in Nat
  PROVE  /\ \A k \in 1 .. c : j + k \in j + 1 .. j + c
         /\ \A i \in j + 1 .. j + c : i - j \in 1 .. c /\ j + (i - j) = i
OBVIOUS

\* Closing the open calls completes the last assistant message.
LEMMA PatchedPaired ==
  ASSUME NEW acc \in Accs, Half(acc)
  PROVE  Paired(Patched(acc).out)
<1> DEFINE q == acc.out
           N == Cardinality(acc.open)
           r == Patched(acc).out
<1>1. /\ q \in Seq(Wire) /\ r \in Seq(Wire) /\ N \in Nat
      /\ Len(r) = Len(q) + N /\ \A i \in 1 .. Len(q) : r[i] = q[i]
      /\ \A i \in 1 .. N : \E t \in acc.open : r[Len(q) + i] = Interrupted(t)
      /\ \A t \in acc.open : \E i \in 1 .. N : r[Len(q) + i] = Interrupted(t)
  BY PatchedAcc DEF Accs
<1>2. Half(acc)
  OBVIOUS
<1> DEFINE open == acc.open
<1> HIDE DEF q, N, r, open
<1>0. \A t : Interrupted(t).role = "tool" /\ Interrupted(t).tid = t
  BY DEF Interrupted, Message
<1>3. \A i \in 1 .. N : r[Len(q) + i].role = "tool" /\ r[Len(q) + i].tid \in open
  <2>1. ASSUME NEW i \in 1 .. N PROVE r[Len(q) + i].role = "tool" /\ r[Len(q) + i].tid \in open
    <3>1. PICK t \in open : r[Len(q) + i] = Interrupted(t)
      BY <1>1 DEF open
    <3> QED BY <1>0, <3>1
  <2> QED BY <2>1
<1>4. \A t \in open : \E i \in 1 .. N : r[Len(q) + i].tid = t
  BY <1>0, <1>1 DEF open
<1>5. \A i \in 1 .. Len(r) : i \in 1 .. Len(q) \/ (i - Len(q) \in 1 .. N /\ Len(q) + (i - Len(q)) = i)
  BY <1>1
<1>6. \A i \in 1 .. Len(q) : (Complete(q, i) => Complete(r, i)) /\ (Follows(q, i) => Follows(r, i))
  BY <1>1, StaysComplete
<1>7. CASE open = {} /\ \A i \in 1 .. Len(q) : q[i].role = "assistant" => Complete(q, i)
  <2>1. N = 0
    BY <1>7, FS_EmptySet DEF N, open
  <2>2. Len(r) = Len(q) /\ \A i \in 1 .. Len(q) : q[i].role = "tool" => Follows(q, i)
    <3>1. Len(q) \in Nat
      BY <1>1
    <3> QED BY <1>1, <1>2, <2>1, <3>1 DEF Half, q
  <2>3. \A i \in 1 .. Len(r) : i \in 1 .. Len(q) /\ r[i] = q[i]
    BY <1>1, <2>2
  <2>4. \A i \in 1 .. Len(r) : r[i].role = "assistant" => Complete(r, i)
    BY <1>6, <1>7, <2>3
  <2>5. \A i \in 1 .. Len(r) : r[i].role = "tool" => Follows(r, i)
    BY <1>6, <2>2, <2>3
  <2> QED BY <2>4, <2>5 DEF Paired, r
<1>8. ASSUME NEW j \in 1 .. Len(q), Block(q, open, j),
             \A i \in 1 .. Len(q) : q[i].role = "assistant" /\ i # j => Complete(q, i)
      PROVE  Paired(r)
  <2> DEFINE c == q[j].calls
  <2>1. c \in Nat /\ j + c = Len(r) /\ r[j] = q[j] /\ q[j].role = "assistant"
    <3>1. q[j] \in Wire
      BY <1>1
    <3>2. c \in Nat
      BY <3>1, BoundsAssumption DEF Wire, Messages, Interrupted, Message
    <3> QED BY <1>1, <1>8, <3>2 DEF Block, N, open
  <2>2. \A i \in j + 1 .. Len(r) : r[i].role = "tool"
    BY <1>1, <1>3, <1>5, <1>8, SMTT(30) DEF Block
  <2>3. {r[k].tid : k \in j + 1 .. Len(r)} = CallsOf(r[j])
    <3>1. {q[k].tid : k \in j + 1 .. Len(q)} \cup open = CallsOf(r[j])
      BY <1>8, <2>1 DEF Block
    <3>2. \A k \in j + 1 .. Len(r) : r[k].tid \in CallsOf(r[j])
      <4>1. ASSUME NEW k \in j + 1 .. Len(r) PROVE r[k].tid \in CallsOf(r[j])
        <5>1. CASE k \in 1 .. Len(q)
          BY <1>1, <3>1, <5>1
        <5>2. CASE k \notin 1 .. Len(q)
          BY <1>3, <1>5, <3>1, <5>2
        <5> QED BY <5>1, <5>2
      <4> QED BY <4>1
    <3>3. \A t \in CallsOf(r[j]) : \E k \in j + 1 .. Len(r) : r[k].tid = t
      <4>1. ASSUME NEW t \in CallsOf(r[j]), t \in open PROVE \E k \in j + 1 .. Len(r) : r[k].tid = t
        <5>1. PICK i \in 1 .. N : r[Len(q) + i].tid = t
          BY <1>4, <4>1
        <5>2. Len(q) + i \in j + 1 .. Len(r)
          BY <1>1
        <5> QED BY <5>1, <5>2
      <4>2. ASSUME NEW t \in CallsOf(r[j]), t \notin open PROVE \E k \in j + 1 .. Len(r) : r[k].tid = t
        <5>1. PICK k \in j + 1 .. Len(q) : q[k].tid = t
          BY <3>1, <4>2
        <5> QED BY <1>1, <5>1
      <4> QED BY <4>1, <4>2
    <3> QED BY <3>2, <3>3
  <2>4. Complete(r, j)
    <3>0. j \in Nat
      OBVIOUS
    <3>1. \A k \in 1 .. c : j + k \in j + 1 .. Len(r)
      <4> HIDE DEF c
      <4> QED BY <2>1, <3>0, Shifted
    <3>2. \A i \in j + 1 .. Len(r) : i - j \in 1 .. c /\ j + (i - j) = i
      <4> HIDE DEF c
      <4> QED BY <2>1, <3>0, Shifted
    <3>3. {r[j + k].tid : k \in 1 .. c} = {r[k].tid : k \in j + 1 .. Len(r)}
      BY <3>1, <3>2
    <3> HIDE DEF c
    <3>4. \A k \in 1 .. c : r[j + k].role = "tool"
      BY <2>2, <3>1
    <3>5. r[j].calls = c
      BY <2>1 DEF c
    <3>6. j + c <= Len(r) /\ {r[j + k].tid : k \in 1 .. c} = CallsOf(r[j])
      <4>1. j + c <= Len(r)
        BY <1>1, <2>1 DEF c
      <4> QED BY <4>1, <2>3, <3>3
    <3> QED BY <3>4, <3>5, <3>6 DEF Complete
  <2>5. \A i \in 1 .. Len(r) : r[i].role = "assistant" => Complete(r, i)
    <3>1. \A i \in 1 .. Len(r) : i \notin 1 .. Len(q) => r[i].role = "tool"
      BY <1>3, <1>5
    <3> QED BY <1>1, <1>6, <1>8, <2>4, <3>1
  <2>6. \A i \in 1 .. Len(r) : r[i].role = "tool" => Follows(r, i)
    <3>1. \A i \in 1 .. Len(q) : r[i].role = "tool" => Follows(r, i)
      BY <1>1, <1>2, <1>6 DEF Half, q
    <3>2. \A i \in 1 .. Len(r) : i \notin 1 .. Len(q) => Follows(r, i)
      <4>1. ASSUME NEW i \in 1 .. Len(r), i \notin 1 .. Len(q) PROVE Follows(r, i)
        <5>1. j \in 1 .. i - 1 /\ i - j <= c
          BY <1>1, <2>1, <4>1
        <5> QED BY <2>1, <5>1 DEF Follows
      <4> QED BY <4>1
    <3> QED BY <3>1, <3>2
  <2> QED BY <2>5, <2>6 DEF Paired
<1> QED BY <1>2, <1>7, <1>8 DEF Half, q, open, r

\* A message has as many names of calls as calls.
LEMMA CallsCounted ==
  ASSUME NEW m \in Messages
  PROVE  /\ m.calls \in Nat /\ Cardinality(CallsOf(m)) = m.calls
         /\ m.calls = 0 => CallsOf(m) = {}
<1> DEFINE c == m.calls
           f == [k \in 1 .. c |-> <<m.id, k>>]
<1>1. c \in Nat
  BY BoundsAssumption DEF Messages
<1>2. CallsOf(m) = {<<m.id, k>> : k \in 1 .. c}
  BY DEF CallsOf
<1> HIDE DEF c
<1>3. f \in Bijection(1 .. c, CallsOf(m))
  <2>1. f \in [1 .. c -> CallsOf(m)]
    BY <1>2
  <2>2. IsInjective(f)
    BY DEF IsInjective
  <2>3. \A t \in CallsOf(m) : \E k \in 1 .. c : f[k] = t
    BY <1>2
  <2> QED BY <2>1, <2>2, <2>3 DEF Bijection, Injection, Surjection
<1>4. IsFiniteSet(1 .. c) /\ Cardinality(1 .. c) = c
  <2>1. 1 \in Int /\ c \in Int
    BY <1>1
  <2>2. IsFiniteSet(1 .. c) /\ Cardinality(1 .. c) = IF 1 > c THEN 0 ELSE c - 1 + 1
    BY <2>1, FS_Interval
  <2> QED BY <1>1, <2>2
<1>5. Cardinality(CallsOf(m)) = c
  BY <1>3, <1>4, FS_Bijection DEF ExistsBijection
<1>6. c = 0 => CallsOf(m) = {}
  BY <1>2
<1> QED BY <1>1, <1>5, <1>6 DEF c

\* A result is taken by its call.
LEMMA ResultHalf ==
  ASSUME NEW acc \in Accs, Half(acc), NEW m \in Messages, m.role = "tool", NEW known
  PROVE  Half(RepairResult(acc, m, known))
<1> DEFINE q == acc.out
           open == acc.open
           r == Append(q, m)
           left == open \ {m.tid}
           after == RepairResult(acc, m, known)
<1>1. CASE ~(m.tid \in known \cap acc.open /\ m.tid \notin acc.seen)
  BY <1>1 DEF RepairResult
<1>2. CASE m.tid \in known \cap acc.open /\ m.tid \notin acc.seen
  <2>1. after.out = r /\ after.open = left
    BY <1>2 DEF RepairResult
  <2>2. /\ q \in Seq(Wire) /\ m \in Wire /\ r \in Seq(Wire) /\ Len(r) = Len(q) + 1 /\ Len(q) \in Nat
        /\ r[Len(q) + 1] = m /\ \A i \in 1 .. Len(q) : r[i] = q[i]
    <3>1. q \in Seq(Wire) /\ m \in Wire
      BY CallsPairs DEF Accs
    <3> HIDE DEF q
    <3> QED BY <3>1
  <2>3. IsFiniteSet(open) /\ m.tid \in open
    BY <1>2, PairsFinite DEF Accs
  <2>4. PICK j \in 1 .. Len(q) :
          /\ Block(q, open, j)
          /\ \A i \in 1 .. Len(q) : q[i].role = "assistant" /\ i # j => Complete(q, i)
    BY <2>3 DEF Half
  <2>5. \A i \in 1 .. Len(q) : q[i].role = "tool" => Follows(q, i)
    BY DEF Half
  <2> HIDE DEF q, r, open, left, after
  <2>6. Cardinality(open) \in Nat /\ Cardinality(left) = Cardinality(open) - 1 /\ Cardinality(left) \in Nat
    <3>1. IsFiniteSet(left) /\ Cardinality(left) = Cardinality(open) - 1
      BY <2>3, FS_RemoveElement DEF left
    <3> QED BY <2>3, <3>1, FS_CardinalityType
  <2>7. \A i \in 1 .. Len(q) : (Complete(q, i) => Complete(r, i)) /\ (Follows(q, i) => Follows(r, i))
    BY <2>2, StaysComplete
  <2>8. q[j].calls \in Nat /\ r[j] = q[j] /\ j \in 1 .. Len(r)
    <3>1. q[j] \in Wire
      BY <2>2
    <3>2. q[j].calls \in Nat
      BY <3>1, BoundsAssumption DEF Wire, Messages, Interrupted, Message
    <3> QED BY <2>2, <3>2
  <2>9. \A i \in 1 .. Len(r) : i \in 1 .. Len(q) \/ i = Len(q) + 1
    BY <2>2
  <2>10. Block(r, left, j)
    <3>1. \A k \in j + 1 .. Len(r) : r[k].role = "tool"
      BY <2>2, <2>4, <2>9 DEF Block
    <3>2. {r[k].tid : k \in j + 1 .. Len(r)} = {q[k].tid : k \in j + 1 .. Len(q)} \cup {m.tid}
      BY <2>2, <2>9
    <3>3. {r[k].tid : k \in j + 1 .. Len(r)} \cup left = CallsOf(r[j])
      <4> DEFINE old == {q[k].tid : k \in j + 1 .. Len(q)}
                 new == {r[k].tid : k \in j + 1 .. Len(r)}
      <4>1. old \cup open = CallsOf(r[j]) /\ new = old \cup {m.tid}
        BY <2>4, <2>8, <3>2 DEF Block
      <4> HIDE DEF old, new
      <4>2. new \cup left = CallsOf(r[j])
        BY <2>3, <4>1 DEF left
      <4> QED BY <4>2 DEF new
    <3>4. j + q[j].calls = Len(q) + Cardinality(open) /\ q[j].role = "assistant"
      BY <2>4 DEF Block
    <3>5. j + r[j].calls = Len(r) + Cardinality(left) /\ r[j].role = "assistant"
      BY <2>2, <2>6, <2>8, <3>4
    <3> QED BY <3>1, <3>3, <3>5 DEF Block
  <2>11. \A i \in 1 .. Len(r) : r[i].role = "assistant" /\ i # j => Complete(r, i)
    BY <2>2, <2>4, <2>7, <2>9
  <2>12. \A i \in 1 .. Len(r) : r[i].role = "tool" => Follows(r, i)
    <3>1. Follows(r, Len(q) + 1)
      <4>1. j \in 1 .. (Len(q) + 1) - 1 /\ (Len(q) + 1) - j <= r[j].calls /\ r[j].role = "assistant"
        <5>1. Cardinality(open) > 0
          BY <2>6
        <5> QED BY <2>2, <2>4, <2>6, <2>8, <5>1 DEF Block
      <4> QED BY <4>1 DEF Follows
    <3> QED BY <2>2, <2>5, <2>7, <2>9, <3>1
  <2>13. Half(after)
    BY <2>1, <2>8, <2>10, <2>11, <2>12 DEF Half
  <2> QED BY <2>13 DEF after
<1> QED BY <1>1, <1>2

\* Any other message comes after the open calls are closed.
LEMMA OtherHalf ==
  ASSUME NEW acc \in Accs, Half(acc), NEW m \in Messages, m.role # "tool",
         m.calls > 0 => m.role = "assistant", CallsOf(m) \cap (acc.seen \cup acc.open) = {}
  PROVE  Half(RepairOther(acc, m))
<1> DEFINE q == Patched(acc).out
           r == Append(q, m)
           after == RepairOther(acc, m)
<1>1. Paired(q)
  BY PatchedPaired
<1>2. q \in Seq(Wire) /\ Patched(acc).seen = acc.seen \cup acc.open
  BY PatchedAcc DEF Accs
<1>3. after.out = r /\ after.open = CallsOf(m)
  BY <1>2 DEF RepairOther
<1> HIDE DEF q, r, after
<1>4. /\ r \in Seq(Wire) /\ Len(r) = Len(q) + 1 /\ Len(q) \in Nat
      /\ r[Len(q) + 1] = m /\ \A i \in 1 .. Len(q) : r[i] = q[i]
  BY <1>2, CallsPairs DEF r
<1>5. \A i \in 1 .. Len(q) : (Complete(q, i) => Complete(r, i)) /\ (Follows(q, i) => Follows(r, i))
  BY <1>2, <1>4, StaysComplete
<1>6. \A i \in 1 .. Len(r) : i \in 1 .. Len(q) \/ i = Len(r)
  BY <1>4
<1>7. \A i \in 1 .. Len(r) : r[i].role = "tool" => Follows(r, i)
  BY <1>1, <1>4, <1>5, <1>6 DEF Paired
<1>8. \A i \in 1 .. Len(r) : r[i].role = "assistant" /\ i # Len(r) => Complete(r, i)
  BY <1>1, <1>4, <1>5, <1>6 DEF Paired
<1>9. CASE m.role = "assistant"
  <2> DEFINE j == Len(r)
  <2>1. j \in 1 .. Len(r) /\ r[j] = m
    BY <1>4
  <2>2. Cardinality(CallsOf(m)) = m.calls
    BY CallsCounted
  <2>3. {r[k].tid : k \in j + 1 .. Len(r)} = {} /\ \A k \in j + 1 .. Len(r) : r[k].role = "tool"
    BY <1>4
  <2>4. Block(r, CallsOf(m), j)
    BY <1>9, <2>1, <2>2, <2>3 DEF Block
  <2> QED BY <1>3, <1>7, <1>8, <2>1, <2>4 DEF Half, after
<1>10. CASE m.role # "assistant"
  <2>1. CallsOf(m) = {}
    BY <1>10, CallsCounted
  <2>2. \A i \in 1 .. Len(r) : r[i].role = "assistant" => Complete(r, i)
    BY <1>4, <1>6, <1>8, <1>10
  <2> QED BY <1>3, <1>7, <2>1, <2>2 DEF Half, after
<1> QED BY <1>9, <1>10

\* Whatever was recorded, the repair pairs every call with one result.
LEMMA RepairPairs ==
  ASSUME NEW msgs \in Seq(Messages), EachOnce(msgs),
         \A i \in 1 .. Len(msgs) : msgs[i].calls > 0 => msgs[i].role = "assistant"
  PROVE  RepairOrphanedToolCalls(msgs) \in Seq(Wire) /\ Paired(RepairOrphanedToolCalls(msgs))
<1> DEFINE L == Len(msgs)
           F == RepairUpTo(msgs)
           known == AllCalls(msgs)
           Fine(n) == /\ Half(F[n])
                      /\ \A t \in F[n].seen \cup F[n].open : \E i \in 1 .. n : t \in CallsOf(msgs[i])
           P == {n \in 0 .. L : Fine(n)}
<1>1. L \in Nat /\ 0 \in 0 .. L /\ L \in 0 .. L
  OBVIOUS
<1>2. /\ F \in [0 .. L -> Accs] /\ F[0] = [out |-> <<>>, open |-> {}, seen |-> {}]
      /\ \A n \in 1 .. L : F[n] = Repair(F[n - 1], msgs[n], known)
  BY RepairUpToDef
<1>3. \A n \in 1 .. L : msgs[n] \in Messages
  OBVIOUS
<1>4. \A i, j \in 1 .. L : i # j => CallsOf(msgs[i]) \cap CallsOf(msgs[j]) = {}
  <2>1. \A i, j \in 1 .. L : i # j => msgs[i].id # msgs[j].id
    BY DEF EachOnce
  <2> QED BY <2>1 DEF CallsOf
<1> HIDE DEF F, known
<1>5. 0 \in P
  <2>1. Half(F[0])
    BY <1>2 DEF Half
  <2>2. F[0].seen \cup F[0].open = {}
    BY <1>2
  <2> QED BY <1>1, <2>1, <2>2
<1>6. ASSUME NEW n \in 0 .. L, n # L, n \in P PROVE n + 1 \in P
  <2> DEFINE acc == F[n]
             m == msgs[n + 1]
  <2>1. n + 1 \in 1 .. L /\ n + 1 \in 0 .. L /\ (n + 1) - 1 = n /\ m \in Messages
    BY <1>1, <1>3, <1>6
  <2>2. F[n + 1] = Repair(acc, m, known) /\ acc \in Accs
    BY <1>2, <2>1
  <2>3. Half(acc) /\ \A t \in acc.seen \cup acc.open : \E i \in 1 .. n : t \in CallsOf(msgs[i])
    BY <1>6
  <2>4. \A i \in 1 .. n : i \in 1 .. n + 1 /\ i \in 1 .. L /\ i # n + 1
    BY <1>1
  <2> HIDE DEF acc
  <2>5. CASE m.role = "tool"
    <3>1. F[n + 1] = RepairResult(acc, m, known)
      BY <2>2, <2>5 DEF Repair
    <3>2. Half(F[n + 1])
      <4> HIDE DEF m
      <4> QED BY <2>1, <2>2, <2>3, <2>5, <3>1, ResultHalf
    <3>3. F[n + 1].seen \cup F[n + 1].open \subseteq acc.seen \cup acc.open
      BY <3>1 DEF RepairResult
    <3> QED BY <2>1, <2>3, <2>4, <3>2, <3>3
  <2>6. CASE m.role # "tool"
    <3>1. F[n + 1] = RepairOther(acc, m)
      BY <2>2, <2>6 DEF Repair
    <3>2. CallsOf(m) \cap (acc.seen \cup acc.open) = {}
      <4>1. \A i \in 1 .. n : CallsOf(m) \cap CallsOf(msgs[i]) = {}
        BY <1>4, <2>1, <2>4
      <4> QED BY <2>3, <4>1
    <3>3. m.calls > 0 => m.role = "assistant"
      BY <2>1
    <3>4. Half(F[n + 1])
      <4> HIDE DEF m
      <4> QED BY <2>1, <2>2, <2>3, <2>6, <3>1, <3>2, <3>3, OtherHalf
    <3>5. F[n + 1].seen \cup F[n + 1].open \subseteq acc.seen \cup acc.open \cup CallsOf(m)
      <4>1. Patched(acc).seen = acc.seen \cup acc.open
        BY <2>2, PatchedAcc
      <4> QED BY <3>1, <4>1 DEF RepairOther
    <3>6. n + 1 \in 1 .. n + 1
      BY <2>1
    <3> QED BY <2>1, <2>3, <2>4, <3>4, <3>5, <3>6
  <2> QED BY <2>5, <2>6
<1>7. Half(F[L])
  <2>1. \A n \in 0 .. L : n \in P
    <3> HIDE DEF P
    <3> QED BY <1>1, <1>5, <1>6, UpTo
  <2> QED BY <1>1, <2>1
<1>8. F[L] \in Accs
  BY <1>1, <1>2
<1>9. RepairOrphanedToolCalls(msgs) = Patched(F[L]).out
  BY DEF RepairOrphanedToolCalls, F
<1> QED BY <1>7, <1>8, <1>9, PatchedPaired, PatchedAcc DEF Accs

\* Where the messages of q are found in r: all that is not a user message in
\* its order, with nothing between two that were neighbours.
Moved(q, r, place) ==
  /\ \A i \in 1 .. Len(q) : q[i].role # "user" =>
       /\ place[i] = place[i - 1] + 1
       /\ place[i] \in 1 .. Len(r) /\ r[place[i]] = q[i]
  /\ \A x \in 1 .. Len(r) : \E i \in 1 .. Len(q) : place[i] = x /\ r[x] = q[i]

\* What merging leaves of a sequence: all that is not a user message, and no user message of text after another one.
LEMMA MergeLeaves ==
  ASSUME NEW q \in Seq(Wire), NEW pictured
  PROVE  /\ MergeUsers(q, pictured) \in Seq(Wire)
         /\ \A x \in 2 .. Len(MergeUsers(q, pictured)) :
              TextUser(MergeUsers(q, pictured)[x], pictured) => ~TextUser(MergeUsers(q, pictured)[x - 1], pictured)
         /\ Len(q) > 0 => Len(MergeUsers(q, pictured)) > 0 /\ MergeUsers(q, pictured)[1] = q[1]
         /\ \E place \in [0 .. Len(q) -> Nat] : Moved(q, MergeUsers(q, pictured), place)
<1> DEFINE L == Len(q)
           G == MergeUpTo(q, pictured)
           place == [i \in 0 .. L |-> Len(G[i])]
           There(n) == \A i \in 1 .. n : q[i].role # "user" => place[i] \in 1 .. place[n] /\ G[n][place[i]] = q[i]
           All(n) == \A x \in 1 .. place[n] : \E i \in 1 .. n : place[i] = x /\ G[n][x] = q[i]
           Apart(n) == \A x \in 2 .. place[n] : TextUser(G[n][x], pictured) => ~TextUser(G[n][x - 1], pictured)
           First(n) == n > 0 => place[n] > 0 /\ G[n][1] = q[1]
           P == {n \in 0 .. L : There(n) /\ All(n) /\ Apart(n) /\ First(n)}
<1>1. L \in Nat /\ 0 \in 0 .. L /\ L \in 0 .. L /\ \A n \in 1 .. L : q[n] \in Wire
  OBVIOUS
<1>2. /\ G \in [0 .. L -> Seq(Wire)] /\ G[0] = <<>>
      /\ \A n \in 1 .. L : G[n] = Merge(G[n - 1], q[n], pictured)
  BY MergeUpToDef
<1> HIDE DEF G
<1>3. \A n \in 0 .. L : place[n] = Len(G[n]) /\ place[n] \in Nat /\ G[n] \in Seq(Wire)
  BY <1>2
<1>4. place \in [0 .. L -> Nat]
  BY <1>3
<1> HIDE DEF place, L
<1>5. ASSUME NEW n \in 1 .. L
      PROVE  \/ G[n] = G[n - 1] /\ place[n] = place[n - 1] /\ q[n].role = "user"
             \/ /\ G[n] = Append(G[n - 1], q[n]) /\ place[n] = place[n - 1] + 1
                /\ G[n][place[n]] = q[n] /\ \A x \in 1 .. place[n - 1] : G[n][x] = G[n - 1][x]
                /\ TextUser(q[n], pictured) /\ place[n - 1] > 0 => ~TextUser(G[n - 1][place[n - 1]], pictured)
  <2> DEFINE v == G[n - 1]
             m == q[n]
  <2>1. n \in 0 .. L /\ n - 1 \in 0 .. L
    BY <1>1, <1>5
  <2>2. v \in Seq(Wire) /\ m \in Wire /\ place[n - 1] = Len(v) /\ place[n] = Len(G[n])
    BY <1>1, <1>3, <2>1
  <2>3. G[n] = Merge(v, m, pictured)
    BY <1>2, <1>5
  <2> HIDE DEF v, m
  <2>4. CASE v # <<>> /\ TextUser(m, pictured) /\ TextUser(Last(v), pictured)
    BY <2>2, <2>3, <2>4 DEF Merge, TextUser, v, m
  <2>5. CASE ~(v # <<>> /\ TextUser(m, pictured) /\ TextUser(Last(v), pictured))
    <3>1. G[n] = Append(v, m)
      BY <2>3, <2>5 DEF Merge
    <3>2. Len(G[n]) = Len(v) + 1 /\ G[n][Len(v) + 1] = m /\ \A x \in 1 .. Len(v) : G[n][x] = v[x]
      BY <2>2, <3>1
    <3>3. TextUser(m, pictured) /\ Len(v) > 0 => ~TextUser(v[Len(v)], pictured)
      BY <2>2, <2>5 DEF Last
    <3> QED BY <2>2, <3>1, <3>2, <3>3 DEF v, m
  <2> QED BY <2>4, <2>5
<1>6. 0 \in P
  <2>1. place[0] = 0
    BY <1>1, <1>2, <1>3
  <2> QED BY <1>1, <2>1
<1>7. ASSUME NEW n \in 0 .. L, n # L, n \in P PROVE n + 1 \in P
  <2>1. n + 1 \in 1 .. L /\ n + 1 \in 0 .. L /\ (n + 1) - 1 = n
    BY <1>1, <1>7
  <2>2. place[n] \in Nat /\ place[n + 1] \in Nat
    BY <1>3, <2>1
  <2>3. There(n) /\ All(n) /\ Apart(n) /\ First(n)
    BY <1>7
  <2>4. \A i \in 1 .. n + 1 : i \in 1 .. n \/ i = n + 1
    BY <1>1
  <2>5. \A i \in 1 .. n : i \in 1 .. n + 1
    BY <1>1
  <2>8. place[0] = 0 /\ (G[n + 1] = G[n] => G[n] # <<>>)
    <3>1. place[0] = 0
      BY <1>1, <1>2, <1>3
    <3>2. G[n + 1] # <<>>
      <4>1. G[n + 1] = Merge(G[n], q[n + 1], pictured)
        BY <1>2, <2>1
      <4>2. G[n] \in Seq(Wire) /\ q[n + 1] \in Wire
        BY <1>1, <1>3, <2>1
      <4>3. ASSUME NEW v \in Seq(Wire), NEW m \in Wire PROVE Append(v, m) # <<>>
        <5>1. Len(Append(v, m)) = Len(v) + 1 /\ Len(v) \in Nat /\ Len(<<>>) = 0
          OBVIOUS
        <5> QED BY <5>1
      <4>4. ASSUME NEW v \in Seq(Wire), NEW m \in Wire PROVE Merge(v, m, pictured) # <<>>
        BY <4>3 DEF Merge
      <4> QED BY <4>1, <4>2, <4>4
    <3> QED BY <3>1, <3>2
  <2>6. CASE G[n + 1] = G[n] /\ place[n + 1] = place[n] /\ q[n + 1].role = "user"
    <3>1. There(n + 1)
      BY <2>3, <2>4, <2>6
    <3>2. All(n + 1)
      BY <2>3, <2>5, <2>6
    <3>3. Apart(n + 1)
      BY <2>3, <2>6
    <3>4. First(n + 1)
      <4>1. n # 0
        BY <1>2, <2>6, <2>8
      <4> QED BY <1>1, <2>3, <2>6, <4>1
    <3> QED BY <2>1, <3>1, <3>2, <3>3, <3>4
  <2>7. CASE /\ G[n + 1] = Append(G[n], q[n + 1]) /\ place[n + 1] = place[n] + 1
             /\ G[n + 1][place[n + 1]] = q[n + 1] /\ \A x \in 1 .. place[n] : G[n + 1][x] = G[n][x]
             /\ TextUser(q[n + 1], pictured) /\ place[n] > 0 => ~TextUser(G[n][place[n]], pictured)
    <3>1. \A x \in 1 .. place[n + 1] : x \in 1 .. place[n] \/ x = place[n + 1]
      BY <2>2, <2>7
    <3>2. There(n + 1)
      <4>1. \A i \in 1 .. n : q[i].role # "user" => place[i] \in 1 .. place[n + 1] /\ G[n + 1][place[i]] = q[i]
        <5>1. ASSUME NEW i \in 1 .. n, q[i].role # "user"
              PROVE  place[i] \in 1 .. place[n + 1] /\ G[n + 1][place[i]] = q[i]
          <6>1. place[i] \in 1 .. place[n] /\ G[n][place[i]] = q[i]
            BY <2>3, <5>1
          <6>2. place[i] \in 1 .. place[n + 1]
            BY <2>2, <2>7, <6>1
          <6> QED BY <2>7, <6>1, <6>2
        <5> QED BY <5>1
      <4>2. place[n + 1] \in 1 .. place[n + 1]
        BY <2>2, <2>7
      <4> QED BY <2>4, <2>7, <4>1, <4>2
    <3>3. All(n + 1)
      <4>1. n + 1 \in 1 .. n + 1
        BY <2>1
      <4>2. \A x \in 1 .. place[n] : \E i \in 1 .. n + 1 : place[i] = x /\ G[n + 1][x] = q[i]
        <5>1. ASSUME NEW x \in 1 .. place[n] PROVE \E i \in 1 .. n + 1 : place[i] = x /\ G[n + 1][x] = q[i]
          <6>1. PICK i \in 1 .. n : place[i] = x /\ G[n][x] = q[i]
            BY <2>3
          <6>2. G[n + 1][x] = q[i] /\ i \in 1 .. n + 1
            BY <2>5, <2>7, <6>1
          <6> QED BY <6>1, <6>2
        <5> QED BY <5>1
      <4> QED BY <2>7, <3>1, <4>1, <4>2
    <3>4. Apart(n + 1)
      <4>1. ASSUME NEW x \in 2 .. place[n + 1], TextUser(G[n + 1][x], pictured)
            PROVE  ~TextUser(G[n + 1][x - 1], pictured)
        <5>1. CASE x \in 1 .. place[n]
          <6>1. x \in 2 .. place[n] /\ x - 1 \in 1 .. place[n]
            BY <2>2, <5>1
          <6>2. G[n + 1][x] = G[n][x] /\ G[n + 1][x - 1] = G[n][x - 1]
            BY <2>7, <5>1, <6>1
          <6> QED BY <2>3, <4>1, <6>1, <6>2
        <5>2. CASE x = place[n + 1]
          <6>0. x = place[n] + 1 /\ x >= 2
            BY <2>7, <5>2
          <6>1. x - 1 = place[n] /\ place[n] > 0 /\ place[n] \in 1 .. place[n]
            BY <2>2, <6>0
          <6> QED BY <2>7, <4>1, <5>2, <6>1
        <5>3. x \in 1 .. place[n + 1]
          OBVIOUS
        <5> QED BY <3>1, <5>1, <5>2, <5>3
      <4> QED BY <4>1
    <3>5. First(n + 1)
      <4>1. CASE n = 0
        <5>1. place[n] = 0
          BY <2>8, <4>1
        <5> QED BY <2>7, <4>1, <5>1
      <4>2. CASE n # 0
        <5>1. place[n] > 0 /\ G[n][1] = q[1]
          BY <1>1, <2>3, <4>2
        <5>2. 1 \in 1 .. place[n]
          BY <2>2, <5>1
        <5> QED BY <2>2, <2>7, <5>1, <5>2
      <4> QED BY <4>1, <4>2
    <3> QED BY <2>1, <3>2, <3>3, <3>4, <3>5
  <2> QED BY <1>5, <2>1, <2>6, <2>7
<1>8. L \in P
  <2>1. \A n \in 0 .. L : n \in P
    <3> HIDE DEF P
    <3> QED BY <1>1, <1>6, <1>7, UpTo
  <2> QED BY <1>1, <2>1
<1>9. MergeUsers(q, pictured) = G[L] /\ place[L] = Len(G[L]) /\ G[L] \in Seq(Wire)
  BY <1>1, <1>3 DEF MergeUsers, G, L
<1> DEFINE r == MergeUsers(q, pictured)
<1> HIDE DEF r
<1>10. r = G[L] /\ place[L] = Len(r) /\ r \in Seq(Wire)
  BY <1>9 DEF r
<1>11. \A x \in 2 .. Len(r) : TextUser(r[x], pictured) => ~TextUser(r[x - 1], pictured)
  BY <1>8, <1>10
<1>12. \A i \in 1 .. L : q[i].role # "user" => place[i] = place[i - 1] + 1
  BY <1>5
<1>13. \A i \in 1 .. L : q[i].role # "user" => place[i] \in 1 .. Len(r) /\ r[place[i]] = q[i]
  BY <1>8, <1>10
<1>14. \A x \in 1 .. Len(r) : \E i \in 1 .. L : place[i] = x /\ r[x] = q[i]
  BY <1>8, <1>10
<1>15. L > 0 => Len(r) > 0 /\ r[1] = q[1]
  BY <1>8, <1>10
<1>16. Moved(q, r, place)
  BY <1>12, <1>13, <1>14 DEF Moved, L
<1> QED BY <1>4, <1>10, <1>11, <1>15, <1>16 DEF r, L

\* What is sent has a number of calls.
LEMMA WireCalls == \A m \in Wire : m.calls \in Nat
BY BoundsAssumption DEF Wire, Messages, Interrupted, Message

\* A call and its results stay next to each other.
LEMMA MergePairs ==
  ASSUME NEW q \in Seq(Wire), NEW pictured, Paired(q)
  PROVE  Paired(MergeUsers(q, pictured))
<1> DEFINE L == Len(q)
           r == MergeUsers(q, pictured)
<1>1. L \in Nat /\ (\A i \in 1 .. L : q[i] \in Wire /\ q[i].calls \in Nat) /\ r \in Seq(Wire)
  BY WireCalls, MergeLeaves
<1>2. PICK place \in [0 .. L -> Nat] :
        /\ \A i \in 1 .. L : q[i].role # "user" =>
             /\ place[i] = place[i - 1] + 1
             /\ place[i] \in 1 .. Len(r) /\ r[place[i]] = q[i]
        /\ \A x \in 1 .. Len(r) : \E i \in 1 .. L : place[i] = x /\ r[x] = q[i]
  <2>1. PICK place \in [0 .. L -> Nat] : Moved(q, r, place)
    BY MergeLeaves
  <2> QED BY <2>1 DEF Moved
<1> HIDE DEF r, L
<1>3. ASSUME NEW i \in 1 .. L, NEW c \in Nat, i + c <= L, \A k \in 1 .. c : q[i + k].role = "tool"
      PROVE  \A k \in 0 .. c : place[i + k] = place[i] + k
  <2> DEFINE P == {k \in 0 .. c : place[i + k] = place[i] + k}
  <2>1. 0 \in P
    BY <1>1, <1>2
  <2>2. ASSUME NEW k \in 0 .. c, k # c, k \in P PROVE k + 1 \in P
    <3>1. k + 1 \in 1 .. c /\ k + 1 \in 0 .. c /\ i + (k + 1) \in 1 .. L /\ (i + (k + 1)) - 1 = i + k
      BY <1>1, <1>3, <2>2
    <3>2. place[i + (k + 1)] = place[i + k] + 1
      BY <1>2, <1>3, <3>1
    <3>3. place[i + k] = place[i] + k /\ place[i] \in Nat
      BY <1>1, <1>2, <2>2
    <3> QED BY <3>1, <3>2, <3>3
  <2> HIDE DEF P
  <2>3. \A k \in 0 .. c : k \in P
    BY <2>1, <2>2, UpTo
  <2> QED BY <2>3 DEF P
<1>4. Len(r) \in Nat
  BY <1>1
<1>5. ASSUME NEW x \in 1 .. Len(r), r[x].role = "assistant" PROVE Complete(r, x)
  <2>1. PICK i \in 1 .. L : place[i] = x /\ r[x] = q[i]
    BY <1>2
  <2> DEFINE c == q[i].calls
  <2>2. /\ c \in Nat /\ i + c <= L
        /\ {q[i + k].tid : k \in 1 .. c} = CallsOf(q[i])
        /\ \A k \in 1 .. c : q[i + k].role = "tool"
    <3>1. Complete(q, i)
      BY <1>5, <2>1 DEF Paired, L
    <3> QED BY <1>1, <3>1 DEF Complete, L
  <2>3. r[x].calls = c /\ CallsOf(r[x]) = CallsOf(q[i])
    BY <2>1
  <2> HIDE DEF c
  <2>4. \A k \in 1 .. c : i + k \in 1 .. L /\ place[i + k] = x + k
    <3>1. \A k \in 0 .. c : place[i + k] = place[i] + k
      BY <1>3, <2>2
    <3>2. \A k \in 1 .. c : i + k \in 1 .. L /\ k \in 0 .. c
      BY <1>1, <2>2
    <3> QED BY <2>1, <3>1, <3>2
  <2>5. \A k \in 1 .. c : x + k \in 1 .. Len(r) /\ r[x + k] = q[i + k]
    BY <1>2, <2>2, <2>4, ZenonT(30)
  <2>6. {r[x + k].tid : k \in 1 .. c} = CallsOf(r[x])
    BY <2>2, <2>3, <2>5
  <2>7. x + c <= Len(r)
    <3>1. CASE c = 0
      BY <1>4, <3>1
    <3>2. CASE c # 0
      <4>1. c \in 1 .. c
        BY <2>2, <3>2
      <4> QED BY <1>4, <2>5, <4>1
    <3> QED BY <3>1, <3>2
  <2>8. \A k \in 1 .. c : r[x + k].role = "tool"
    BY <2>2, <2>5
  <2> QED BY <2>3, <2>6, <2>7, <2>8 DEF Complete
<1>6. ASSUME NEW x \in 1 .. Len(r), r[x].role = "tool" PROVE Follows(r, x)
  <2>1. PICK i \in 1 .. L : place[i] = x /\ r[x] = q[i]
    BY <1>2
  <2>2. PICK j \in 1 .. i - 1 : q[j].role = "assistant" /\ i - j <= q[j].calls
    BY <1>6, <2>1 DEF Paired, Follows, L
  <2>3. j \in 1 .. L /\ i - j \in Nat /\ i - j \in 0 .. i - j /\ j + (i - j) = i /\ j + (i - j) <= L
    BY <1>1, <2>1, <2>2
  <2>4. \A k \in 1 .. i - j : q[j + k].role = "tool"
    <3>1. \A k \in 1 .. q[j].calls : q[j + k].role = "tool"
      BY <2>2, <2>3 DEF Paired, Complete, L
    <3>2. \A k \in 1 .. i - j : k \in 1 .. q[j].calls
      <4> DEFINE c == q[j].calls
      <4>1. c \in Nat /\ i - j <= c
        BY <1>1, <2>2, <2>3
      <4> HIDE DEF c
      <4>2. \A k \in 1 .. i - j : k \in 1 .. c
        BY <2>3, <4>1
      <4> QED BY <4>2 DEF c
    <3> QED BY <3>1, <3>2
  <2>5. place[i] = place[j] + (i - j)
    BY <1>3, <2>3, <2>4
  <2>6. place[j] \in 1 .. Len(r) /\ r[place[j]] = q[j]
    BY <1>2, <2>2, <2>3
  <2>7. place[j] \in 1 .. x - 1 /\ x - place[j] <= r[place[j]].calls
    <3>1. i - j > 0
      BY <2>2
    <3>2. x = place[j] + (i - j) /\ r[place[j]].calls = q[j].calls /\ place[j] \in Nat
      BY <1>2, <2>1, <2>3, <2>5, <2>6
    <3>3. place[j] \in 1 .. x - 1 /\ x - place[j] = i - j
      <4> DEFINE d == i - j
                 y == place[j]
      <4>1. d \in Nat /\ d > 0 /\ y \in Nat /\ y >= 1 /\ x = y + d
        BY <1>4, <2>3, <2>6, <3>1, <3>2
      <4> HIDE DEF d, y
      <4>2. y \in 1 .. x - 1 /\ x - y = d
        BY <4>1
      <4> QED BY <4>2 DEF d, y
    <3> QED BY <2>2, <3>2, <3>3
  <2> QED BY <2>2, <2>6, <2>7 DEF Follows
<1>7. Paired(r)
  BY <1>5, <1>6 DEF Paired
<1> QED BY <1>7 DEF r

\* Whatever is in the memory, as long as no message is there twice and only
\* assistant messages have calls, and whichever user messages have images: what
\* to_llm_messages makes of it pairs every call with its result, and only a
\* message with images is next to another one of the user.
THEOREM RequestShape ==
  ASSUME NEW msgs \in Seq(Messages), NEW pictured, EachOnce(msgs),
         \A i \in 1 .. Len(msgs) : msgs[i].calls > 0 => msgs[i].role = "assistant"
  PROVE  WellFormed(ToLlmMessages(msgs, pictured), pictured)
<1> DEFINE q == MergeUsers(RepairOrphanedToolCalls(msgs), pictured)
           users == {i \in DOMAIN q : q[i].role = "user"}
           r == DropLeading(q)
<1>1. /\ q \in Seq(Wire) /\ Paired(q)
      /\ \A x \in 2 .. Len(q) : TextUser(q[x], pictured) => ~TextUser(q[x - 1], pictured)
  BY RepairPairs, MergePairs, MergeLeaves
<1>2. ToLlmMessages(msgs, pictured) = r
  BY DEF ToLlmMessages, SanitizeForApi
<1> HIDE DEF q
<1>3. CASE users = {}
  <2>1. r = <<>>
    BY <1>3 DEF DropLeading
  <2> HIDE DEF r
  <2> QED BY <1>2, <2>1 DEF WellFormed
<1>4. CASE users # {}
  <2> DEFINE L == Len(q)
             u == CHOOSE i \in users : \A j \in users : i <= j
  <2>1. users \in SUBSET Nat
    BY <1>1
  <2>2. \E i \in users : \A j \in users : i <= j
    <3> HIDE DEF users
    <3> QED BY <1>4, <2>1, Least
  <2>3. u \in users /\ \A j \in users : u <= j
    <3> HIDE DEF users
    <3> QED BY <2>2
  <2>4. r = SubSeq(q, u, L)
    BY <1>4 DEF DropLeading
  <2> HIDE DEF u, r, L
  <2>5. L \in Nat /\ u \in 1 .. L /\ q[u].role = "user"
    BY <1>1, <2>3 DEF L
  <2> DEFINE N == L - u + 1
  <2>6. /\ N \in Nat /\ N > 0 /\ r \in Seq(Wire) /\ Len(r) = N
        /\ \A i \in 1 .. N : r[i] = q[u + i - 1] /\ u + i - 1 \in 1 .. L
    BY <1>1, <2>4, <2>5 DEF L
  <2> HIDE DEF N
  <2>7. \A i \in u .. L : i - u + 1 \in 1 .. N /\ u + (i - u + 1) - 1 = i
    BY <2>5 DEF N
  <2>8. r[1].role = "user"
    BY <2>5, <2>6
  <2>9. \A i \in 2 .. N : TextUser(r[i], pictured) => ~TextUser(r[i - 1], pictured)
    <3>1. ASSUME NEW i \in 2 .. N, TextUser(r[i], pictured) PROVE ~TextUser(r[i - 1], pictured)
      <4>1. /\ i \in 1 .. N /\ i - 1 \in 1 .. N /\ u + i - 1 \in 2 .. L
            /\ u + (i - 1) - 1 = (u + i - 1) - 1
        BY <2>5, <2>6 DEF N
      <4>2. r[i] = q[u + i - 1] /\ r[i - 1] = q[(u + i - 1) - 1]
        BY <2>6, <4>1
      <4> QED BY <1>1, <3>1, <4>1, <4>2 DEF L
    <3> QED BY <3>1
  <2>10. ASSUME NEW i \in 1 .. N, r[i].role = "assistant"
         PROVE  i + r[i].calls <= N /\ {r[i + k].tid : k \in 1 .. r[i].calls} = CallsOf(r[i])
    <3> DEFINE a == u + i - 1
               c == q[a].calls
    <3>1. a \in 1 .. L /\ r[i] = q[a]
      BY <2>6
    <3>2. a + c <= L /\ {q[a + k].tid : k \in 1 .. c} = CallsOf(q[a])
      BY <1>1, <2>10, <3>1 DEF Paired, Complete, L
    <3>3. c \in Nat
      BY <1>1, <3>1, WireCalls DEF L
    <3>4. \A k \in 1 .. c : i + k \in 1 .. N /\ u + (i + k) - 1 = a + k
      BY <2>5, <2>6, <3>2, <3>3 DEF N
    <3>5. i + c <= N
      BY <2>5, <2>6, <3>2, <3>3 DEF N
    <3> HIDE DEF a, c
    <3>6. \A k \in 1 .. c : r[i + k] = q[a + k]
      BY <2>6, <3>4
    <3>7. r[i].calls = c
      BY <3>1 DEF c
    <3> QED BY <3>1, <3>2, <3>5, <3>6, <3>7
  <2>11. ASSUME NEW i \in 1 .. N, r[i].role = "tool"
         PROVE  \E j \in 1 .. i - 1 : r[j].role = "assistant" /\ i - j <= r[j].calls
    <3> DEFINE a == u + i - 1
    <3>1. a \in 1 .. L /\ r[i] = q[a] /\ a \in Int
      BY <2>5, <2>6
    <3>2. PICK b \in 1 .. a - 1 : q[b].role = "assistant" /\ a - b <= q[b].calls
      BY <1>1, <2>11, <3>1 DEF Paired, Follows, L
    <3>3. b \in 1 .. L /\ Complete(q, b)
      BY <1>1, <2>5, <3>1, <3>2 DEF Paired, L
    <3>4. ~(b < u)
      <4>1. ASSUME b < u PROVE FALSE
        <5>1. u - b \in 1 .. q[b].calls /\ b + (u - b) = u
          <6>1. q[b] \in Wire
            BY <1>1, <3>3 DEF L
          <6>2. q[b].calls \in Nat
            BY <6>1, WireCalls
          <6> DEFINE c == q[b].calls
          <6>3. c \in Nat /\ a - b <= c /\ u <= a
            BY <2>5, <3>2, <6>2
          <6> HIDE DEF c, a
          <6>4. u - b \in 1 .. c /\ b + (u - b) = u
            BY <2>5, <3>1, <3>3, <4>1, <6>3
          <6> QED BY <6>4 DEF c
        <5>2. q[u].role = "tool"
          BY <3>3, <5>1 DEF Complete
        <5> QED BY <2>5, <5>2
      <4> QED BY <4>1
    <3>5. b \in u .. L /\ b - u + 1 \in 1 .. i - 1 /\ i - (b - u + 1) = a - b
      BY <2>5, <3>1, <3>2, <3>3, <3>4
    <3>6. r[b - u + 1] = q[b]
      BY <2>6, <2>7, <3>5
    <3> QED BY <3>2, <3>5, <3>6
  <2>12. WellFormed(r, pictured)
    <3>1. DOMAIN r = 1 .. N /\ Len(r) = N
      BY <2>6
    <3>2. r # <<>> => r[1].role = "user"
      BY <2>8
    <3>3. \A i \in DOMAIN r : r[i].role = "assistant" =>
            i + r[i].calls <= Len(r) /\ {r[i + k].tid : k \in 1 .. r[i].calls} = CallsOf(r[i])
      BY <2>10, <3>1
    <3>4. \A i \in DOMAIN r : r[i].role = "tool" =>
            \E j \in 1 .. i - 1 : r[j].role = "assistant" /\ i - j <= r[j].calls
      BY <2>11, <3>1
    <3> QED BY <2>9, <3>1, <3>2, <3>3, <3>4 DEF WellFormed
  <2> QED BY <1>2, <2>12
<1> QED BY <1>3, <1>4
-----------------------------------------------------------------------------
\* What the request shows of the results that were recorded.
LEMMA AnsweredAppend ==
  ASSUME NEW q \in Seq(Wire), NEW m \in Wire
  PROVE  Answered(Append(q, m)) =
           Answered(q) \cup (IF m.role = "tool" /\ m.id # 0 THEN {m.tid} ELSE {})
<1> DEFINE r == Append(q, m)
           Shown(p) == {p[i].tid : i \in {j \in DOMAIN p : p[j].role = "tool" /\ p[j].id # 0}}
<1>1. /\ Len(q) \in Nat /\ DOMAIN q = 1 .. Len(q) /\ DOMAIN r = 1 .. Len(q) + 1
      /\ r[Len(q) + 1] = m /\ \A i \in 1 .. Len(q) : r[i] = q[i]
  OBVIOUS
<1> HIDE DEF r
<1>2. \A i \in DOMAIN r : i \in DOMAIN q \/ i = Len(q) + 1
  BY <1>1
<1>3. \A i \in DOMAIN q : i \in DOMAIN r /\ r[i] = q[i]
  BY <1>1
<1>4. Len(q) + 1 \in DOMAIN r
  BY <1>1
<1>5. Shown(r) = Shown(q) \cup (IF m.role = "tool" /\ m.id # 0 THEN {m.tid} ELSE {})
  BY <1>1, <1>2, <1>3, <1>4
<1> QED BY <1>5 DEF Answered, r

\* An invented result answers no call.
LEMMA AnsweredPatched ==
  ASSUME NEW acc \in Accs
  PROVE  Answered(Patched(acc).out) = Answered(acc.out)
<1> DEFINE q == acc.out
           r == Patched(acc).out
           N == Cardinality(acc.open)
           Shown(p) == {p[i].tid : i \in {j \in DOMAIN p : p[j].role = "tool" /\ p[j].id # 0}}
<1>1. /\ q \in Seq(Wire) /\ r \in Seq(Wire) /\ N \in Nat
      /\ Len(r) = Len(q) + N /\ \A i \in 1 .. Len(q) : r[i] = q[i]
      /\ \A i \in 1 .. N : \E t \in acc.open : r[Len(q) + i] = Interrupted(t)
  BY PatchedAcc DEF Accs
<1> HIDE DEF q, r, N
<1>2. \A t : Interrupted(t).id = 0
  BY DEF Interrupted, Message
<1>3. \A i \in 1 .. N : r[Len(q) + i].id = 0
  BY <1>1, <1>2
<1>4. \A i \in DOMAIN r : i \in DOMAIN q \/ r[i].id = 0
  <2>1. \A i \in 1 .. Len(r) : i \in 1 .. Len(q) \/ (i - Len(q) \in 1 .. N /\ Len(q) + (i - Len(q)) = i)
    BY <1>1
  <2>2. DOMAIN r = 1 .. Len(r) /\ DOMAIN q = 1 .. Len(q)
    BY <1>1
  <2> QED BY <1>3, <2>1, <2>2
<1>5. \A i \in DOMAIN q : i \in DOMAIN r /\ r[i] = q[i]
  BY <1>1
<1>6. Shown(r) = Shown(q)
  BY <1>4, <1>5
<1> QED BY <1>6 DEF Answered, q, r

\* The clean-up after the repair shows no more results than the repair left,
\* and as many if what it left starts with a user message.
LEMMA AnsweredClean ==
  ASSUME NEW q \in Seq(Wire), NEW pictured
  PROVE  /\ Answered(SanitizeForApi(q, pictured)) \subseteq Answered(q)
         /\ Len(q) > 0 /\ q[1].role = "user" => Answered(q) \subseteq Answered(SanitizeForApi(q, pictured))
<1> DEFINE r == MergeUsers(q, pictured)
           d == DropLeading(r)
           users == {i \in DOMAIN r : r[i].role = "user"}
           u == CHOOSE i \in users : \A j \in users : i <= j
<1>1. /\ r \in Seq(Wire)
      /\ Len(q) > 0 => Len(r) > 0 /\ r[1] = q[1]
      /\ \A x \in 1 .. Len(r) : \E i \in 1 .. Len(q) : r[x] = q[i]
      /\ \A i \in 1 .. Len(q) : q[i].role # "user" => \E x \in 1 .. Len(r) : r[x] = q[i]
  BY MergeLeaves DEF Moved
<1>2. SanitizeForApi(q, pictured) = d
  BY DEF SanitizeForApi
<1>3. d = IF users = {} THEN <<>> ELSE SubSeq(r, u, Len(r))
  BY DEF DropLeading
<1> HIDE DEF r, d
<1>4. users \in SUBSET Nat /\ users \subseteq 1 .. Len(r) /\ Len(r) \in Nat
  BY <1>1
<1>5. ASSUME users # {} PROVE u \in users /\ \A j \in users : u <= j
  <2> HIDE DEF users
  <2> QED BY <1>4, <1>5, Least
<1> HIDE DEF u
<1>6. ASSUME users # {}
      PROVE  /\ d \in Seq(Wire) /\ Len(d) = Len(r) - u + 1
             /\ \A i \in 1 .. Len(d) : d[i] = r[u + i - 1] /\ u + i - 1 \in 1 .. Len(r)
  <2>1. u \in 1 .. Len(r) /\ d = SubSeq(r, u, Len(r))
    <3> HIDE DEF users
    <3> QED BY <1>3, <1>4, <1>5, <1>6
  <2> QED BY <1>1, <1>4, <2>1
<1>7. Answered(d) \subseteq Answered(q)
  <2>1. CASE users = {}
    <3>1. d = <<>>
      BY <1>3, <2>1
    <3> QED BY <3>1 DEF Answered
  <2>2. CASE users # {}
    <3>1. \A i \in DOMAIN d : \E j \in DOMAIN q : d[i] = q[j]
      <4>1. DOMAIN d = 1 .. Len(d) /\ DOMAIN q = 1 .. Len(q)
        BY <1>6, <2>2
      <4>2. ASSUME NEW i \in 1 .. Len(d) PROVE \E j \in 1 .. Len(q) : d[i] = q[j]
        <5>1. d[i] = r[u + i - 1] /\ u + i - 1 \in 1 .. Len(r)
          BY <1>6, <2>2
        <5> QED BY <1>1, <5>1
      <4> QED BY <4>1, <4>2
    <3> QED BY <3>1 DEF Answered
  <2> QED BY <2>1, <2>2
<1>8. ASSUME Len(q) > 0, q[1].role = "user" PROVE Answered(q) \subseteq Answered(d)
  <2>1. 1 \in users
    BY <1>1, <1>4, <1>8
  <2>2. u = 1
    BY <1>4, <1>5, <2>1
  <2>3. Len(d) = Len(r) /\ d \in Seq(Wire) /\ \A i \in 1 .. Len(r) : d[i] = r[i]
    BY <1>4, <1>6, <2>1, <2>2
  <2>4. \A i \in DOMAIN q : q[i].role = "tool" => \E j \in DOMAIN d : d[j] = q[i]
    <3>1. DOMAIN d = 1 .. Len(r) /\ DOMAIN q = 1 .. Len(q)
      BY <2>3
    <3> QED BY <1>1, <2>3, <3>1, ZenonT(30)
  <2> QED BY <2>4 DEF Answered
<1> QED BY <1>2, <1>7, <1>8

\* Only calls of the messages are ever open.
LEMMA OpenKnown ==
  ASSUME NEW msgs \in Seq(Messages)
  PROVE  \A n \in 0 .. Len(msgs) : RepairUpTo(msgs)[n].open \subseteq AllCalls(msgs)
<1> DEFINE L == Len(msgs)
           F == RepairUpTo(msgs)
           known == AllCalls(msgs)
           P == {n \in 0 .. L : F[n].open \subseteq known}
<1>1. L \in Nat /\ 0 \in 0 .. L /\ \A n \in 1 .. L : msgs[n] \in Messages /\ CallsOf(msgs[n]) \subseteq known
  BY DEF AllCalls
<1>2. /\ F \in [0 .. L -> Accs] /\ F[0] = [out |-> <<>>, open |-> {}, seen |-> {}]
      /\ \A n \in 1 .. L : F[n] = Repair(F[n - 1], msgs[n], known)
  BY RepairUpToDef
<1> HIDE DEF L, F, known
<1>3. 0 \in P
  BY <1>1, <1>2
<1>4. ASSUME NEW n \in 0 .. L, n # L, n \in P PROVE n + 1 \in P
  <2>1. n + 1 \in 1 .. L /\ n + 1 \in 0 .. L /\ (n + 1) - 1 = n
    BY <1>1, <1>4
  <2> DEFINE m == msgs[n + 1]
             acc == F[n]
  <2>2. F[n + 1] = Repair(acc, m, known) /\ CallsOf(m) \subseteq known /\ acc.open \subseteq known
    BY <1>1, <1>2, <1>4, <2>1
  <2> HIDE DEF m, acc
  <2>3. Repair(acc, m, known).open \subseteq known
    BY <2>2 DEF Repair, RepairResult, RepairOther
  <2> QED BY <2>1, <2>2, <2>3
<1>5. \A n \in 0 .. L : n \in P
  <2> HIDE DEF P
  <2> QED BY <1>1, <1>3, <1>4, UpTo
<1> QED BY <1>5 DEF L, F, known

\* The repair at b is as far as the one at a, has seen the same calls and shows
\* at least the results that a shows.
ShowsMore(a, b) ==
  /\ a.open \subseteq b.open /\ a.open \cup a.seen = b.open \cup b.seen
  /\ a.open \cap a.seen = {} /\ b.open \cap b.seen = {}
  /\ Answered(a.out) \subseteq Answered(b.out)
  /\ Len(b.out) > 0 /\ b.out[1].role = "user"

\* A result that both lists have keeps the relation, whatever calls are known.
LEMMA ResultShows ==
  ASSUME NEW a \in Accs, NEW b \in Accs, ShowsMore(a, b), NEW m \in Messages, m.role = "tool",
         NEW j, NEW k, a.open \subseteq j, b.open \subseteq k
  PROVE  ShowsMore(RepairResult(a, m, j), RepairResult(b, m, k))
<1> DEFINE t == m.tid
<1>1. m \in Wire /\ m.id # 0 /\ a.out \in Seq(Wire) /\ b.out \in Seq(Wire)
  BY CallsPairs DEF Messages, Ids, Accs
<1>2. /\ Answered(Append(a.out, m)) = Answered(a.out) \cup {t}
      /\ Answered(Append(b.out, m)) = Answered(b.out) \cup {t}
  BY <1>1, AnsweredAppend
<1>3. Len(Append(b.out, m)) > 0 /\ Append(b.out, m)[1] = b.out[1]
  <2> DEFINE q == b.out
  <2>1. q \in Seq(Wire) /\ Len(q) > 0
    BY <1>1 DEF ShowsMore
  <2> HIDE DEF q
  <2>2. Len(Append(q, m)) > 0 /\ Append(q, m)[1] = q[1]
    BY <1>1, <2>1
  <2> QED BY <2>2 DEF q
<1>4. CASE t \in a.open
  <2>1. t \in j /\ t \notin a.seen /\ t \in b.open /\ t \in k /\ t \notin b.seen
    BY <1>4 DEF ShowsMore
  <2>2. RepairResult(a, m, j) = [out |-> Append(a.out, m), open |-> a.open \ {t}, seen |-> a.seen \cup {t}]
    BY <1>4, <2>1 DEF RepairResult
  <2>3. RepairResult(b, m, k) = [out |-> Append(b.out, m), open |-> b.open \ {t}, seen |-> b.seen \cup {t}]
    BY <2>1 DEF RepairResult
  <2> QED BY <1>2, <1>3, <1>4, <2>1, <2>2, <2>3 DEF ShowsMore
<1>5. CASE t \notin a.open /\ t \in b.open
  <2>1. t \in k /\ t \notin b.seen
    BY <1>5 DEF ShowsMore
  <2>2. RepairResult(a, m, j) = a
    BY <1>5 DEF RepairResult
  <2>3. RepairResult(b, m, k) = [out |-> Append(b.out, m), open |-> b.open \ {t}, seen |-> b.seen \cup {t}]
    BY <1>5, <2>1 DEF RepairResult
  <2> QED BY <1>2, <1>3, <1>5, <2>1, <2>2, <2>3 DEF ShowsMore
<1>6. CASE t \notin a.open /\ t \notin b.open
  BY <1>6 DEF RepairResult
<1> QED BY <1>4, <1>5, <1>6

\* What a message that is no result does to the calls.
LEMMA OtherAcc ==
  ASSUME NEW acc \in Accs, NEW m \in Messages, m.role # "tool"
  PROVE  /\ Answered(RepairOther(acc, m).out) = Answered(acc.out)
         /\ RepairOther(acc, m).open = CallsOf(m) \ (acc.seen \cup acc.open)
         /\ RepairOther(acc, m).seen = acc.seen \cup acc.open
         /\ Len(RepairOther(acc, m).out) > 0
         /\ RepairOther(acc, m).out[1] = IF Len(acc.out) > 0 THEN acc.out[1]
                                         ELSE IF acc.open = {} THEN m ELSE RepairOther(acc, m).out[1]
<1> DEFINE p == Patched(acc)
           q == p.out
<1>1. /\ q \in Seq(Wire) /\ m \in Wire /\ acc.out \in Seq(Wire)
      /\ p.seen = acc.seen \cup acc.open /\ Cardinality(acc.open) \in Nat
      /\ Len(q) = Len(acc.out) + Cardinality(acc.open)
      /\ \A i \in 1 .. Len(acc.out) : q[i] = acc.out[i]
  BY PatchedAcc, CallsPairs DEF Accs
<1>2. Answered(q) = Answered(acc.out)
  BY AnsweredPatched
<1>3. RepairOther(acc, m) = [out |-> Append(q, m), open |-> CallsOf(m) \ p.seen, seen |-> p.seen]
  BY DEF RepairOther
<1> HIDE DEF p, q
<1>4. Answered(Append(q, m)) = Answered(acc.out)
  BY <1>1, <1>2, AnsweredAppend
<1>5. Len(Append(q, m)) = Len(q) + 1 /\ Append(q, m)[Len(q) + 1] = m /\ \A i \in 1 .. Len(q) : Append(q, m)[i] = q[i]
  BY <1>1
<1>6. CASE Len(acc.out) > 0
  <2>1. 1 \in 1 .. Len(acc.out) /\ 1 \in 1 .. Len(q)
    BY <1>1, <1>6
  <2>2. Append(q, m)[1] = acc.out[1]
    BY <1>1, <1>5, <2>1
  <2> QED BY <1>1, <1>3, <1>4, <1>5, <1>6, <2>2
<1>7. CASE ~(Len(acc.out) > 0)
  <2>1. Len(acc.out) = 0
    BY <1>1, <1>7
  <2>2. acc.open = {} => Len(q) = 0
    BY <1>1, <2>1, FS_EmptySet
  <2>3. acc.open = {} => Append(q, m)[1] = m
    BY <1>5, <2>2
  <2> QED BY <1>1, <1>3, <1>4, <1>5, <1>7, <2>3
<1> QED BY <1>6, <1>7

\* Another message keeps the relation, in both lists or, without calls, in the
\* longer one only.
LEMMA OtherShows ==
  ASSUME NEW a \in Accs, NEW b \in Accs, ShowsMore(a, b), NEW m \in Messages, m.role # "tool"
  PROVE  /\ ShowsMore(RepairOther(a, m), RepairOther(b, m))
         /\ m.calls = 0 => ShowsMore(RepairOther(a, m), b)
<1>1. ShowsMore(RepairOther(a, m), RepairOther(b, m))
  BY OtherAcc DEF ShowsMore
<1>2. m.calls = 0 => CallsOf(m) = {}
  BY CallsCounted
<1>3. m.calls = 0 => ShowsMore(RepairOther(a, m), b)
  BY <1>2, OtherAcc DEF ShowsMore
<1> QED BY <1>1, <1>3

\* Leaving out what is not part of a tool call, behind a message of the user,
\* hides no result from the model.
LEMMA CompactedShows ==
  ASSUME NEW msgs \in Seq(Messages), NEW s \in 0 .. Len(msgs), NEW T,
         \A i \in 1 .. s : msgs[i] \in T <=> Structural(msgs[i]),
         NEW first \in Messages, first.role = "user", first.calls = 0, NEW pictured
  PROVE  Answered(ToLlmMessages(msgs, pictured)) \subseteq
           Answered(ToLlmMessages(<<first>> \o Kept(SubSeq(msgs, 1, s), T)
                                    \o SubSeq(msgs, s + 1, Len(msgs)), pictured))
<1> DEFINE L == Len(msgs)
           old == SubSeq(msgs, 1, s)
           rest == SubSeq(msgs, s + 1, L)
           kept == Kept(old, T)
           C == Len(kept)
           new == <<first>> \o kept \o rest
           N == Len(new)
           F == RepairUpTo(msgs)
           G == RepairUpTo(new)
<1>1. /\ L \in Nat /\ s \in Nat /\ s <= L /\ \A n \in 1 .. L : msgs[n] \in Messages
      /\ old \in Seq(Messages) /\ Len(old) = s /\ \A i \in 1 .. s : old[i] = msgs[i]
      /\ rest \in Seq(Messages) /\ Len(rest) = L - s /\ \A i \in 1 .. L - s : rest[i] = msgs[s + i]
  OBVIOUS
<1> HIDE DEF L, old, rest
<1>2. kept \in Seq(Messages) /\ C \in Nat
  BY <1>1, KeptType
<1>3. PICK place \in [0 .. s -> Nat] :
        /\ place[0] = 0 /\ place[s] = C
        /\ \A i \in 1 .. s : old[i] \notin T => place[i] = place[i - 1]
        /\ \A i \in 1 .. s : old[i] \in T =>
             place[i] = place[i - 1] + 1 /\ place[i] \in 1 .. C /\ kept[place[i]] = old[i]
  <2>1. \E place : Counts(place, old, T)
    BY <1>1, KeptCount
  <2>2. Len(old) = s
    BY <1>1
  <2> QED BY <2>1, <2>2 DEF Counts
<1> HIDE DEF kept, C
<1>4. /\ new \in Seq(Messages) /\ N = 1 + C + (L - s) /\ N \in Nat /\ new[1] = first
      /\ \A x \in 1 .. C : new[1 + x] = kept[x]
      /\ \A y \in 1 .. L - s : new[1 + C + y] = rest[y]
  <2> DEFINE front == <<first>> \o kept
  <2>1. /\ front \in Seq(Messages) /\ Len(front) = 1 + C /\ front[1] = first
        /\ \A x \in 1 .. C : front[1 + x] = kept[x]
    BY <1>2 DEF C
  <2>2. new = front \o rest
    OBVIOUS
  <2> HIDE DEF front, new
  <2>3. /\ new \in Seq(Messages) /\ Len(new) = Len(front) + (L - s)
        /\ \A x \in 1 .. Len(front) : new[x] = front[x]
        /\ \A y \in 1 .. L - s : new[Len(front) + y] = rest[y]
    <3>1. \A a, b \in Seq(Messages) :
            /\ a \o b \in Seq(Messages) /\ Len(a \o b) = Len(a) + Len(b)
            /\ \A x \in 1 .. Len(a) : (a \o b)[x] = a[x]
            /\ \A y \in 1 .. Len(b) : (a \o b)[Len(a) + y] = b[y]
      OBVIOUS
    <3>2. front \in Seq(Messages) /\ rest \in Seq(Messages) /\ Len(rest) = L - s /\ new = front \o rest
      BY <1>1, <2>1, <2>2
    <3>3. /\ front \o rest \in Seq(Messages) /\ Len(front \o rest) = Len(front) + Len(rest)
          /\ \A x \in 1 .. Len(front) : (front \o rest)[x] = front[x]
          /\ \A y \in 1 .. Len(rest) : (front \o rest)[Len(front) + y] = rest[y]
      BY <3>1, <3>2, Zenon
    <3> QED BY <3>2, <3>3, Zenon
  <2> QED BY <1>1, <1>2, <2>1, <2>3
<1> DEFINE at == [n \in 0 .. L |-> IF n <= s THEN 1 + place[n] ELSE 1 + C + (n - s)]
<1> HIDE DEF new, N
<1>5. at[0] = 1 /\ at[L] = N /\ at \in [0 .. L -> Nat]
  <2>1. 0 \in 0 .. L /\ L \in 0 .. L /\ 0 <= s /\ \A n \in 0 .. L : n <= s => n \in 0 .. s
    BY <1>1
  <2>2. \A n \in 0 .. L : at[n] \in Nat
    BY <1>1, <1>2, <1>3, <2>1
  <2>3. at[0] = 1
    BY <1>3, <2>1
  <2>4. at[L] = N
    BY <1>1, <1>2, <1>3, <1>4, <2>1
  <2> QED BY <2>2, <2>3, <2>4
<1>6. ASSUME NEW n \in 1 .. L
      PROVE  \/ at[n] = at[n - 1] /\ msgs[n].role # "tool" /\ msgs[n].calls = 0
             \/ at[n] = at[n - 1] + 1 /\ at[n] \in 1 .. N /\ new[at[n]] = msgs[n]
  <2>1. n \in 0 .. L /\ n - 1 \in 0 .. L /\ msgs[n] \in Messages
    BY <1>1
  <2>2. CASE n <= s
    <3>1. n \in 1 .. s /\ n \in 0 .. s /\ n - 1 \in 0 .. s /\ n - 1 <= s
      BY <1>1, <2>2
    <3>2. at[n] = 1 + place[n] /\ at[n - 1] = 1 + place[n - 1] /\ place[n - 1] \in Nat /\ old[n] = msgs[n]
      BY <1>1, <1>3, <2>1, <2>2, <3>1
    <3>3. CASE msgs[n] \in T
      <4>1. place[n] = place[n - 1] + 1 /\ place[n] \in 1 .. C /\ kept[place[n]] = msgs[n]
        BY <1>3, <3>1, <3>2, <3>3
      <4>2. new[1 + place[n]] = msgs[n]
        BY <1>4, <4>1
      <4>3. at[n] \in 1 .. N
        <5>1. L - s \in Nat /\ place[n] \in Nat /\ place[n] <= C
          BY <1>1, <4>1
        <5> DEFINE d == L - s
                   y == place[n]
        <5>2. d \in Nat /\ y \in Nat /\ y <= C /\ C \in Nat /\ N = 1 + C + d /\ at[n] = 1 + y
          BY <1>2, <1>4, <3>2, <5>1
        <5> HIDE DEF d, y
        <5> QED BY <5>2
      <4> QED BY <3>2, <4>1, <4>2, <4>3
    <3>4. CASE msgs[n] \notin T
      <4>1. ~Structural(msgs[n])
        BY <3>1, <3>4
      <4>2. msgs[n].calls = 0
        BY <2>1, <4>1, BoundsAssumption DEF Structural, Messages
      <4> QED BY <1>3, <3>1, <3>2, <3>4, <4>1, <4>2 DEF Structural
    <3> QED BY <3>3, <3>4
  <2>3. CASE ~(n <= s)
    <3>1. n - s \in 1 .. L - s /\ s + (n - s) = n /\ at[n] = 1 + C + (n - s)
      BY <1>1, <2>1, <2>3
    <3>2. at[n - 1] = 1 + C + (n - 1 - s)
      <4>1. CASE n - 1 = s
        <5>1. at[n - 1] = 1 + place[s]
          BY <1>1, <2>1, <4>1
        <5> QED BY <1>1, <1>2, <1>3, <4>1, <5>1
      <4>2. CASE n - 1 # s
        <5>1. ~(n - 1 <= s)
          BY <1>1, <2>3, <4>2
        <5> QED BY <2>1, <5>1
      <4> QED BY <4>1, <4>2
    <3>3. new[at[n]] = msgs[n]
      <4>1. new[1 + C + (n - s)] = rest[n - s]
        BY <1>4, <3>1
      <4>2. rest[n - s] = msgs[s + (n - s)]
        BY <1>1, <3>1
      <4>3. new[at[n]] = msgs[s + (n - s)] /\ s + (n - s) = n
        BY <3>1, <4>1, <4>2
      <4> QED BY <4>3
    <3>4. at[n] = at[n - 1] + 1
      BY <1>1, <1>2, <3>1, <3>2
    <3>5. at[n] \in 1 .. N
      <4> DEFINE d == L - s
                 y == n - s
      <4>1. d \in Nat /\ y \in 1 .. d /\ C \in Nat /\ N = 1 + C + d /\ at[n] = 1 + C + y
        BY <1>1, <1>2, <1>4, <3>1
      <4> HIDE DEF d, y
      <4> QED BY <4>1
    <3> QED BY <3>3, <3>4, <3>5
  <2> QED BY <2>2, <2>3
<1> HIDE DEF at
<1>7. /\ F \in [0 .. L -> Accs] /\ F[0] = [out |-> <<>>, open |-> {}, seen |-> {}]
      /\ \A n \in 1 .. L : F[n] = Repair(F[n - 1], msgs[n], AllCalls(msgs))
      /\ \A n \in 0 .. L : F[n].open \subseteq AllCalls(msgs)
  BY RepairUpToDef, OpenKnown DEF L
<1>8. /\ G \in [0 .. N -> Accs] /\ G[0] = [out |-> <<>>, open |-> {}, seen |-> {}]
      /\ \A n \in 1 .. N : G[n] = Repair(G[n - 1], new[n], AllCalls(new))
      /\ \A n \in 0 .. N : G[n].open \subseteq AllCalls(new)
  BY <1>4, RepairUpToDef, OpenKnown DEF N
<1> HIDE DEF F, G
<1> DEFINE P == {n \in 0 .. L : at[n] \in 1 .. N /\ ShowsMore(F[n], G[at[n]])}
<1>9. 0 \in P
  <2>1. 1 \in 1 .. N /\ 0 \in 0 .. N /\ 0 \in 0 .. L
    BY <1>1, <1>2, <1>4
  <2>2. G[1] = RepairOther(G[0], first)
    <3>1. G[1] = Repair(G[1 - 1], new[1], AllCalls(new))
      BY <1>8, <2>1
    <3> QED BY <1>4, <3>1 DEF Repair
  <2>3. CallsOf(first) = {}
    BY CallsCounted
  <2>4. G[0] \in Accs /\ G[0].out = <<>> /\ G[0].open = {} /\ G[0].seen = {}
    <3>1. G[0] \in Accs
      BY <1>8, <2>1
    <3>2. G[0] = [out |-> <<>>, open |-> {}, seen |-> {}]
      BY <1>8
    <3> QED BY <3>1, <3>2
  <2>5. G[1].open = {} /\ G[1].seen = {} /\ Len(G[1].out) > 0 /\ G[1].out[1] = first
    <3> DEFINE g == G[0]
    <3>1. g \in Accs /\ Len(g.out) = 0 /\ g.open = {} /\ g.seen = {}
      BY <2>4
    <3> HIDE DEF g
    <3>2. /\ RepairOther(g, first).open = {} /\ RepairOther(g, first).seen = {}
          /\ Len(RepairOther(g, first).out) > 0 /\ RepairOther(g, first).out[1] = first
      BY <2>3, <3>1, OtherAcc
    <3> QED BY <2>2, <3>2 DEF g
  <2>6. F[0].open = {} /\ F[0].seen = {} /\ Answered(F[0].out) = {}
    BY <1>7 DEF Answered
  <2>7. ShowsMore(F[0], G[1])
    BY <2>5, <2>6 DEF ShowsMore
  <2> QED BY <1>5, <2>1, <2>7
<1>10. ASSUME NEW n \in 0 .. L, n # L, n \in P PROVE n + 1 \in P
  <2>1. n + 1 \in 1 .. L /\ n + 1 \in 0 .. L /\ (n + 1) - 1 = n
    BY <1>1, <1>10
  <2> DEFINE m == msgs[n + 1]
             a == F[n]
             b == G[at[n]]
  <2>2. /\ at[n] \in 1 .. N /\ at[n] \in 0 .. N /\ ShowsMore(a, b) /\ m \in Messages /\ a \in Accs /\ b \in Accs
        /\ a.open \subseteq AllCalls(msgs) /\ b.open \subseteq AllCalls(new)
    <3>1. at[n] \in 1 .. N /\ ShowsMore(a, b)
      BY <1>10
    <3>2. at[n] \in 0 .. N
      BY <1>4, <3>1
    <3>3. m \in Messages
      BY <1>1, <2>1
    <3>4. a \in Accs /\ a.open \subseteq AllCalls(msgs)
      BY <1>7, <1>10
    <3>5. b \in Accs /\ b.open \subseteq AllCalls(new)
      BY <1>8, <3>2
    <3> QED BY <3>1, <3>2, <3>3, <3>4, <3>5
  <2>3. F[n + 1] = Repair(a, m, AllCalls(msgs))
    BY <1>7, <2>1
  <2>4. \/ at[n + 1] = at[n] /\ m.role # "tool" /\ m.calls = 0
        \/ at[n + 1] = at[n] + 1 /\ at[n + 1] \in 1 .. N /\ new[at[n + 1]] = m
    BY <1>6, <2>1
  <2>5. CASE at[n + 1] = at[n] /\ m.role # "tool" /\ m.calls = 0
    <3>1. F[n + 1] = RepairOther(a, m) /\ G[at[n + 1]] = b
      BY <2>3, <2>5 DEF Repair
    <3> HIDE DEF a, b, m
    <3>2. ShowsMore(RepairOther(a, m), b)
      BY <2>2, <2>5, OtherShows
    <3> QED BY <2>1, <2>2, <2>5, <3>1, <3>2
  <2>6. CASE at[n + 1] = at[n] + 1 /\ at[n + 1] \in 1 .. N /\ new[at[n + 1]] = m
    <3>1. at[n + 1] - 1 = at[n]
      BY <1>5, <2>2, <2>6
    <3>2. G[at[n + 1]] = Repair(b, m, AllCalls(new))
      BY <1>8, <2>6, <3>1
    <3> HIDE DEF a, b, m
    <3>3. ShowsMore(F[n + 1], G[at[n + 1]])
      BY <2>2, <2>3, <3>2, ResultShows, OtherShows DEF Repair
    <3> QED BY <2>1, <2>6, <3>3
  <2> QED BY <2>4, <2>5, <2>6
<1>11. ShowsMore(F[L], G[N])
  <2>1. \A n \in 0 .. L : n \in P
    <3> HIDE DEF P
    <3> QED BY <1>1, <1>9, <1>10, UpTo
  <2>2. L \in 0 .. L
    BY <1>1
  <2> QED BY <1>5, <2>1, <2>2
<1>12. F[L] \in Accs /\ G[N] \in Accs
  BY <1>1, <1>4, <1>7, <1>8
<1> DEFINE q == RepairOrphanedToolCalls(msgs)
           r == RepairOrphanedToolCalls(new)
<1>13. q = Patched(F[L]).out /\ r = Patched(G[N]).out
  BY DEF RepairOrphanedToolCalls, F, G, L, N
<1>0. ASSUME NEW acc \in Accs
      PROVE  Patched(acc).out \in Seq(Wire) /\ Answered(Patched(acc).out) = Answered(acc.out)
  BY PatchedAcc, AnsweredPatched DEF Accs
<1>14. q \in Seq(Wire) /\ Answered(q) = Answered(F[L].out)
  <2> HIDE DEF q
  <2> QED BY <1>0, <1>12, <1>13
<1>15. /\ r \in Seq(Wire) /\ Answered(r) = Answered(G[N].out)
       /\ Len(r) > 0 /\ r[1].role = "user"
  <2>1. r \in Seq(Wire) /\ Answered(r) = Answered(G[N].out)
    <3> HIDE DEF r
    <3> QED BY <1>0, <1>12, <1>13
  <2> DEFINE w == G[N].out
             c == Cardinality(G[N].open)
  <2>2. w \in Seq(Wire) /\ c \in Nat /\ Len(r) = Len(w) + c /\ \A i \in 1 .. Len(w) : r[i] = w[i]
    BY <1>12, <1>13, PatchedAcc DEF Accs
  <2>3. Len(w) > 0 /\ w[1].role = "user"
    BY <1>11 DEF ShowsMore
  <2> HIDE DEF w, c, r
  <2>4. 1 \in 1 .. Len(w) /\ Len(r) > 0
    BY <2>2, <2>3
  <2>5. Len(r) > 0 /\ r[1].role = "user"
    BY <2>2, <2>3, <2>4
  <2> QED BY <2>1, <2>5 DEF r
<1> HIDE DEF q, r
<1>16. Answered(q) \subseteq Answered(r)
  BY <1>11, <1>14, <1>15 DEF ShowsMore
<1>17. Answered(SanitizeForApi(q, pictured)) \subseteq Answered(SanitizeForApi(r, pictured))
  BY <1>14, <1>15, <1>16, AnsweredClean
<1> QED BY <1>17 DEF q, r, ToLlmMessages, new, kept, old, rest, L
-----------------------------------------------------------------------------
\* The calls of an operation.
LEMMA TailFacts ==
  ASSUME NEW S, NEW t \in Seq(S), t # <<>>
  PROVE  /\ Head(t) = t[1] /\ t[1] \in S /\ Tail(t) \in Seq(S)
         /\ Len(t) \in Nat /\ Len(t) >= 1 /\ Len(Tail(t)) = Len(t) - 1
         /\ \A i \in 1 .. Len(t) - 1 : Tail(t)[i] = t[i + 1]
         /\ Len(t) = 1 <=> Tail(t) = <<>>
<1>1. Len(t) \in Nat /\ Len(t) >= 1 /\ t[1] \in S
  OBVIOUS
<1>2. Head(t) = t[1]
  OBVIOUS
<1>3. Tail(t) \in Seq(S) /\ Len(Tail(t)) = Len(t) - 1
  OBVIOUS
<1>4. \A i \in 1 .. Len(t) - 1 : Tail(t)[i] = t[i + 1]
  OBVIOUS
<1>5. Len(t) = 1 <=> Tail(t) = <<>>
  <2> DEFINE u == Tail(t)
  <2>1. u \in Seq(S)
    BY <1>3
  <2>2. Len(u) = 0 <=> u = <<>>
    BY <2>1, EmptySeq
  <2> HIDE DEF u
  <2> QED BY <1>1, <1>3, <2>2 DEF u
<1> QED BY <1>1, <1>2, <1>3, <1>4, <1>5

\* No calls are left: nothing will be written.
LEMMA NoTodo ==
  /\ \A do : Writes(<<>>, do) = {} /\ ~Waiting(<<>>, do)
  /\ InOrder(<<>>) /\ \A dos : Only(<<>>, dos)
BY DEF Writes, Waiting, InOrder, Only

\* The next call is made.
LEMMA TodoTail ==
  ASSUME NEW t \in Seq(Calls), t # <<>>
  PROVE  /\ Head(t) \in Calls /\ Tail(t) \in Seq(Calls)
         /\ \A do : Writes(t, do) = Writes(Tail(t), do) \cup (IF Head(t).do = do THEN {Head(t).m} ELSE {})
         /\ \A do : Waiting(t, do) <=> Head(t).do = do \/ Waiting(Tail(t), do)
         /\ \A dos : Only(t, dos) => Only(Tail(t), dos) /\ Head(t).do \in dos
         /\ InOrder(t) => /\ InOrder(Tail(t))
                          /\ ~Waiting(Tail(t), "delete") /\ ~Waiting(Tail(t), "meta")
                          /\ Head(t).do \in {"cursor", "clear"} => \A do : do # "clear" => ~Waiting(Tail(t), do)
<1> DEFINE u == Tail(t)
           n == Len(t)
<1>1. /\ Head(t) = t[1] /\ t[1] \in Calls /\ u \in Seq(Calls) /\ n \in Nat /\ n >= 1 /\ Len(u) = n - 1
      /\ \A i \in 1 .. n - 1 : u[i] = t[i + 1]
  BY TailFacts
<1>2. DOMAIN t = 1 .. n /\ DOMAIN u = 1 .. n - 1
  BY <1>1
<1> HIDE DEF u, n
<1>3. \A i \in DOMAIN u : i + 1 \in DOMAIN t /\ i + 1 > 1 /\ u[i] = t[i + 1]
  BY <1>1, <1>2
<1>4. \A i \in DOMAIN t : i = 1 \/ (i - 1 \in DOMAIN u /\ u[i - 1] = t[i])
  <2>1. \A i \in 1 .. n : i = 1 \/ (i - 1 \in 1 .. n - 1 /\ (i - 1) + 1 = i)
    BY <1>1
  <2> QED BY <1>1, <1>2, <2>1
<1>5. 1 \in DOMAIN t
  BY <1>1, <1>2
<1>6. \A do : Writes(t, do) = Writes(u, do) \cup (IF Head(t).do = do THEN {Head(t).m} ELSE {})
  <2>1. ASSUME NEW do PROVE Writes(t, do) \subseteq Writes(u, do) \cup (IF Head(t).do = do THEN {Head(t).m} ELSE {})
    BY <1>1, <1>4 DEF Writes
  <2>2. ASSUME NEW do PROVE Writes(u, do) \subseteq Writes(t, do)
    <3>1. ASSUME NEW i \in DOMAIN u, u[i].do = do PROVE u[i].m \in Writes(t, do)
      BY <1>3, <3>1 DEF Writes
    <3> QED BY <3>1 DEF Writes
  <2>3. ASSUME NEW do PROVE (IF Head(t).do = do THEN {Head(t).m} ELSE {}) \subseteq Writes(t, do)
    BY <1>1, <1>5 DEF Writes
  <2>4. ASSUME NEW do PROVE Writes(t, do) = Writes(u, do) \cup (IF Head(t).do = do THEN {Head(t).m} ELSE {})
    <3> DEFINE X == IF Head(t).do = do THEN {Head(t).m} ELSE {}
    <3>1. Writes(t, do) \subseteq Writes(u, do) \cup X /\ Writes(u, do) \subseteq Writes(t, do) /\ X \subseteq Writes(t, do)
      BY <2>1, <2>2, <2>3
    <3> HIDE DEF X
    <3>2. Writes(t, do) = Writes(u, do) \cup X
      BY <3>1
    <3> QED BY <3>2 DEF X
  <2> QED BY <2>4
<1>7. \A do : Waiting(t, do) <=> Head(t).do = do \/ Waiting(u, do)
  BY <1>1, <1>3, <1>4, <1>5, ZenonT(30) DEF Waiting
<1>8. \A dos : Only(t, dos) => Only(u, dos) /\ Head(t).do \in dos
  BY <1>1, <1>3, <1>5 DEF Only
<1>9. ASSUME InOrder(t)
      PROVE  /\ InOrder(u) /\ ~Waiting(u, "delete") /\ ~Waiting(u, "meta")
             /\ Head(t).do \in {"cursor", "clear"} => \A do : do # "clear" => ~Waiting(u, do)
  <2>1. \A i, j \in DOMAIN u : i < j => i + 1 < j + 1
    BY <1>2
  <2>2. InOrder(u)
    BY <1>3, <1>9, <2>1 DEF InOrder
  <2>3. \A i \in DOMAIN u : u[i].do \notin {"meta", "delete"} /\ (t[1].do \in {"cursor", "clear"} => u[i].do = "clear")
    <3>1. ASSUME NEW i \in DOMAIN u
          PROVE u[i].do \notin {"meta", "delete"} /\ (t[1].do \in {"cursor", "clear"} => u[i].do = "clear")
      <4>1. i + 1 \in DOMAIN t /\ 1 < i + 1 /\ u[i] = t[i + 1]
        BY <1>2, <1>3
      <4> QED BY <1>5, <1>9, <4>1 DEF InOrder
    <3> QED BY <3>1
  <2> QED BY <1>1, <2>2, <2>3 DEF Waiting
<1> QED BY <1>1, <1>6, <1>7, <1>8, <1>9 DEF u

\* The fields of no operation.
LEMMA Idled == NoOp.kind = "none" /\ NoOp.todo = <<>> /\ NoOp.mem = <<>> /\ NoOp.ack = {}
BY DEF NoOp, Op

\* A call of the operation is through: it was the last one, or the others are
\* left.
LEMMA Through ==
  ASSUME TypeOK, op.todo # <<>>, NEW left, Proceed(left)
  PROVE  /\ op'.todo = Tail(op.todo)
         /\ \/ /\ Tail(op.todo) = <<>> /\ op' = NoOp /\ mem' = op.mem /\ acked' = left \cup op.ack
            \/ /\ Tail(op.todo) # <<>> /\ op' # NoOp /\ mem' = mem /\ acked' = left
               /\ op'.kind = op.kind /\ op'.mem = op.mem /\ op'.ack = op.ack
               /\ op' \in [kind : {"none", "add", "checkpoint", "summary", "structure"},
                           todo : Seq(Calls), mem : Seq(Messages), ack : SUBSET Messages]
<1>1. op.todo \in Seq(Calls) /\ op \in [kind : {"none", "add", "checkpoint", "summary", "structure"},
        todo : Seq(Calls), mem : Seq(Messages), ack : SUBSET Messages]
  BY DEF TypeOK
<1> DEFINE t == op.todo
<1>2. Tail(t) \in Seq(Calls) /\ (Len(t) = 1 <=> Tail(t) = <<>>)
  BY <1>1, TailFacts
<1> HIDE DEF t
<1>3. CASE Len(t) = 1
  BY <1>2, <1>3, Idled DEF Proceed, t
<1>4. CASE Len(t) # 1
  <2>1. op' = [op EXCEPT !.todo = Tail(t)] /\ acked' = left /\ mem' = mem
    BY <1>4 DEF Proceed, t
  <2>2. op'.todo = Tail(t) /\ op'.kind = op.kind /\ op'.mem = op.mem /\ op'.ack = op.ack
    BY <1>1, <2>1
  <2>3. op' \in [kind : {"none", "add", "checkpoint", "summary", "structure"},
                 todo : Seq(Calls), mem : Seq(Messages), ack : SUBSET Messages]
    BY <1>1, <1>2, <2>1
  <2>4. op' # NoOp
    BY <1>2, <1>4, <2>2, Idled
  <2> QED BY <1>2, <1>4, <2>1, <2>2, <2>3, <2>4 DEF t
<1> QED BY <1>3, <1>4

\* The calls of _persist.
LEMMA PersistFacts ==
  ASSUME TypeOK, NEW m \in Messages
  PROVE  /\ Persist(m) \in Seq(Calls) /\ Persist(m) # <<>> /\ InOrder(Persist(m))
         /\ Only(Persist(m), {"meta", "part", "cursor", "clear"})
         /\ Writes(Persist(m), "part") = {m} /\ Waiting(Persist(m), "part")
         /\ Waiting(Persist(m), "cursor") /\ Waiting(Persist(m), "clear")
         /\ Writes(Persist(m), "partial") = {}
         /\ Head(Persist(m)).do = "meta" \/ metaDone
<1> DEFINE t == Persist(m)
<1>1. NoMessage \in Messages /\ m.seq \in Nat
  BY BoundsAssumption DEF NoMessage, Message, Messages, NoCall, Ids
<1>2. WriteMeta \in Calls /\ WritePart(m) \in Calls /\ WriteNextSeq \in Calls /\ ClearPartial(m.seq) \in Calls
  BY <1>1 DEF WriteMeta, WritePart, WriteNextSeq, ClearPartial, Call, Calls
<1>3. /\ WriteMeta.do = "meta" /\ WritePart(m).do = "part" /\ WritePart(m).m = m
      /\ WriteNextSeq.do = "cursor" /\ ClearPartial(m.seq).do = "clear"
  BY DEF WriteMeta, WritePart, WriteNextSeq, ClearPartial, Call
<1> DEFINE p == WritePart(m)
           c == WriteNextSeq
           x == ClearPartial(m.seq)
<1>4. t = IF metaDone THEN <<p, c, x>> ELSE <<WriteMeta, p, c, x>>
  <2> HIDE DEF t, p, c, x
  <2>1. <<>> \o <<p, c, x>> = <<p, c, x>> /\ <<WriteMeta>> \o <<p, c, x>> = <<WriteMeta, p, c, x>>
    <3> DEFINE w == WriteMeta
    <3>1. p \in {p, c, x, w} /\ c \in {p, c, x, w} /\ x \in {p, c, x, w} /\ w \in {p, c, x, w}
      OBVIOUS
    <3> HIDE DEF w
    <3>2. <<>> \o <<p, c, x>> = <<p, c, x>>
      OBVIOUS
    <3>3. <<w>> \o <<p, c, x>> = <<w, p, c, x>>
      <4> DEFINE a == <<w>>
                 b == <<p, c, x>>
                 r == a \o b
                 d == <<w, p, c, x>>
                 S == {p, c, x, w}
      <4>1. a \in Seq(S) /\ Len(a) = 1 /\ a[1] = w
        BY <3>1
      <4>2. b \in Seq(S) /\ Len(b) = 3 /\ b[1] = p /\ b[2] = c /\ b[3] = x
        BY <3>1
      <4>3. d \in Seq(S) /\ Len(d) = 4 /\ d[1] = w /\ d[2] = p /\ d[3] = c /\ d[4] = x
        BY <3>1
      <4> HIDE DEF a, b, d, S
      <4>0. /\ r \in Seq(S) /\ Len(r) = Len(a) + Len(b)
            /\ \A i \in 1 .. Len(a) + Len(b) : r[i] = IF i <= Len(a) THEN a[i] ELSE b[i - Len(a)]
        BY <4>1, <4>2, ConcatProperties
      <4> HIDE DEF r
      <4>4. r \in Seq(S) /\ Len(r) = 4
        BY <4>0, <4>1, <4>2
      <4>5. r[1] = w /\ r[2] = p /\ r[3] = c /\ r[4] = x
        BY <4>0, <4>1, <4>2
      <4>6. \A i \in 1 .. 4 : i = 1 \/ i = 2 \/ i = 3 \/ i = 4
        OBVIOUS
      <4>7. \A i \in 1 .. 4 : r[i] = d[i]
        BY <4>3, <4>5, <4>6
      <4>8. r = d
        BY <4>3, <4>4, <4>7, SeqEqual
      <4> QED BY <4>8 DEF r, a, b, d
    <3> QED BY <3>2, <3>3 DEF w
  <2>2. t = PersistMeta \o <<p, c, x>>
    BY DEF Persist, t, p, c, x
  <2> QED BY <2>1, <2>2 DEF PersistMeta
<1> HIDE DEF t, p, c, x
<1>5. CASE metaDone
  <2>1. t = <<p, c, x>>
    BY <1>4, <1>5
  <2>2. DOMAIN t = 1 .. 3 /\ t[1] = p /\ t[2] = c /\ t[3] = x /\ t \in Seq(Calls) /\ t # <<>>
    BY <1>2, <2>1 DEF p, c, x
  <2>3. \A i \in 1 .. 3 : i = 1 \/ i = 2 \/ i = 3
    OBVIOUS
  <2>4. p.do = "part" /\ p.m = m /\ c.do = "cursor" /\ x.do = "clear"
    BY <1>3 DEF p, c, x
  <2>5. InOrder(t) /\ Only(t, {"meta", "part", "cursor", "clear"})
    BY <2>2, <2>3, <2>4 DEF InOrder, Only
  <2>6. /\ Writes(t, "part") = {m} /\ Waiting(t, "part") /\ Waiting(t, "cursor") /\ Waiting(t, "clear")
        /\ Writes(t, "partial") = {}
    BY <2>2, <2>3, <2>4 DEF Writes, Waiting
  <2> QED BY <1>5, <2>2, <2>5, <2>6 DEF t
<1>6. CASE ~metaDone
  <2> DEFINE w == WriteMeta
  <2>1. t = <<w, p, c, x>>
    BY <1>4, <1>6
  <2>0. w \in Calls /\ p \in Calls /\ c \in Calls /\ x \in Calls
    BY <1>2 DEF p, c, x
  <2> HIDE DEF w
  <2>2. DOMAIN t = 1 .. 4 /\ t[1] = w /\ t[2] = p /\ t[3] = c /\ t[4] = x /\ t \in Seq(Calls) /\ t # <<>>
    BY <2>0, <2>1
  <2>3. \A i \in 1 .. 4 : i = 1 \/ i = 2 \/ i = 3 \/ i = 4
    OBVIOUS
  <2>4. w.do = "meta" /\ p.do = "part" /\ p.m = m /\ c.do = "cursor" /\ x.do = "clear"
    BY <1>3 DEF p, c, x, w
  <2>5. InOrder(t) /\ Only(t, {"meta", "part", "cursor", "clear"})
    BY <2>2, <2>3, <2>4 DEF InOrder, Only
  <2>6. /\ Writes(t, "part") = {m} /\ Waiting(t, "part") /\ Waiting(t, "cursor") /\ Waiting(t, "clear")
        /\ Writes(t, "partial") = {}
    BY <2>2, <2>3, <2>4 DEF Writes, Waiting
  <2>7. Head(t).do = "meta"
    BY <2>2, <2>4, TailFacts
  <2> QED BY <2>2, <2>5, <2>6, <2>7 DEF t
<1> QED BY <1>5, <1>6
-----------------------------------------------------------------------------
\* The files of a directory.
LEMMA PutFiles ==
  ASSUME NEW F \in SUBSET Messages, OnePerSeq(F), NEW m \in Messages
  PROVE  /\ OnePerSeq(Put(F, m)) /\ Put(F, m) \subseteq F \cup {m} /\ m \in Put(F, m)
         /\ \A x \in F : x.seq # m.seq => x \in Put(F, m)
<1> DEFINE G == {f \in F : f.seq # m.seq}
<1>1. IsFiniteSet(G)
  BY FS_Subset DEF OnePerSeq
<1>2. IsFiniteSet(Put(F, m))
  BY <1>1, FS_AddElement DEF Put
<1> QED BY <1>2 DEF Put, OnePerSeq

\* Removing files leaves one per seq.
LEMMA FewerFiles == ASSUME NEW F, OnePerSeq(F), NEW G \in SUBSET F PROVE OnePerSeq(G)
BY FS_Subset DEF OnePerSeq

\* The last file has the highest seq.
LEMMA LastFile ==
  ASSUME NEW F \in SUBSET Messages, OnePerSeq(F), F # {}
  PROVE  Last(BySeq(F)) \in F /\ \A p \in F : p.seq <= Last(BySeq(F)).seq
<1> DEFINE s == BySeq(F)
           n == Len(s)
<1>1. s \in Seq(F) /\ Sorted(s) /\ Range(s) = F
  BY Sorting DEF OnePerSeq
<1> HIDE DEF s
<1>2. DOMAIN s = 1 .. n /\ n \in Nat /\ \A p \in F : \E i \in 1 .. n : s[i] = p
  BY <1>1 DEF Range
<1>3. n \in 1 .. n /\ s[n] \in F
  BY <1>1, <1>2
<1>4. ASSUME NEW p \in F PROVE p.seq <= s[n].seq
  <2>1. PICK i \in 1 .. n : s[i] = p
    BY <1>2
  <2>4. i = n \/ i < n
    <3> HIDE DEF n
    <3> QED BY <1>2, <2>1
  <2>2. i = n \/ s[i].seq < s[n].seq
    BY <1>1, <1>2, <1>3, <2>4 DEF Sorted
  <2>3. p.seq \in Nat /\ s[n].seq \in Nat
    BY <1>3 DEF Messages
  <2> QED BY <2>1, <2>2, <2>3
<1>5. Last(s) = s[n]
  BY DEF Last
<1> QED BY <1>3, <1>4, <1>5 DEF s

\* Without a cursor the next seq is the one after the last part.
LEMMA NextOfFacts ==
  ASSUME NEW F \in SUBSET Messages, OnePerSeq(F)
  PROVE  /\ \A c : c # NoCursor => NextOf(c, F) = c
         /\ NextOf(NoCursor, F) \in Nat /\ \A p \in F : p.seq < NextOf(NoCursor, F)
         /\ \A n \in Nat : (\A p \in F : p.seq < n) => NextOf(NoCursor, F) <= n
         /\ F # {} => NextOf(NoCursor, F) > 0
<1>1. CASE F = {}
  BY <1>1 DEF NextOf
<1>2. CASE F # {}
  <2> DEFINE l == Last(BySeq(F))
  <2>1. l \in F /\ \A p \in F : p.seq <= l.seq
    BY <1>2, LastFile
  <2>2. NextOf(NoCursor, F) = l.seq + 1 /\ \A c : c # NoCursor => NextOf(c, F) = c
    BY <1>2 DEF NextOf
  <2> HIDE DEF l
  <2>3. \A p \in F : p.seq \in Nat
    BY DEF Messages
  <2> QED BY <2>1, <2>2, <2>3
<1> QED BY <1>1, <1>2

\* The next seq a restart would choose.
LEMMA NextIs == NextSeqOnDisk = NextOf(cursor, parts)
BY DEF NextSeqOnDisk, NextOf

\* It is a number.
LEMMA NextNat == TypeOK /\ Files => NextOf(cursor, parts) \in Nat
<1>1. SUFFICES ASSUME TypeOK, Files PROVE NextOf(cursor, parts) \in Nat
  OBVIOUS
<1>2. cursor \in Nat \/ cursor = NoCursor
  BY <1>1 DEF TypeOK
<1>3. parts \in SUBSET Messages /\ OnePerSeq(parts) /\ NoCursor \notin Nat
  BY <1>1 DEF TypeOK, Files, NoCursor
<1> QED BY <1>2, <1>3, NextOfFacts

\* In a sorted list a seq occurs once.
LEMMA SortedOnce ==
  ASSUME NEW s \in Seq(Messages), Sorted(s), NEW x \in Range(s), NEW y \in Range(s), x.seq = y.seq
  PROVE  x = y
<1>1. PICK i \in DOMAIN s : s[i] = x
  BY DEF Range
<1>2. PICK j \in DOMAIN s : s[j] = y
  BY DEF Range
<1>3. i \in Nat /\ j \in Nat /\ s[i] \in Messages /\ s[j] \in Messages
  OBVIOUS
<1>4. s[i].seq \in Nat /\ s[j].seq \in Nat
  BY <1>3 DEF Messages
<1> QED BY <1>1, <1>2, <1>3, <1>4 DEF Sorted

\* The elements of a list, of a longer list and of two lists.
LEMMA RangeType == ASSUME NEW S, NEW s \in Seq(S) PROVE Range(s) \subseteq S /\ (s = <<>> <=> Range(s) = {})
<1>1. DOMAIN s = 1 .. Len(s) /\ Len(s) \in Nat /\ \A i \in 1 .. Len(s) : s[i] \in S
  OBVIOUS
<1>2. s # <<>> => Len(s) > 0
  BY EmptySeq
<1>3. s = <<>> => Len(s) = 0
  OBVIOUS
<1>4. Range(s) \subseteq S
  BY <1>1 DEF Range
<1> DEFINE n == Len(s)
<1>5. n \in Nat /\ DOMAIN s = 1 .. n
  BY <1>1
<1> HIDE DEF n
<1>6. n > 0 => s[1] \in Range(s)
  BY <1>5 DEF Range
<1>7. n = 0 => Range(s) = {}
  BY <1>5 DEF Range
<1> QED BY <1>2, <1>3, <1>4, <1>6, <1>7 DEF n

\* The elements after an append.
LEMMA RangeAppend ==
  ASSUME NEW S, NEW s \in Seq(S), NEW e \in S
  PROVE  Range(Append(s, e)) = Range(s) \cup {e} /\ Last(Append(s, e)) = e /\ Append(s, e) # <<>>
<1> DEFINE r == Append(s, e)
           n == Len(s)
<1>1. n \in Nat /\ DOMAIN s = 1 .. n
  OBVIOUS
<1>2. r \in Seq(S) /\ DOMAIN r = 1 .. n + 1 /\ Len(r) = n + 1 /\ r[n + 1] = e /\ \A i \in 1 .. n : r[i] = s[i]
  BY <1>1
<1> HIDE DEF r, n
<1>3. \A i \in 1 .. n + 1 : i = n + 1 \/ i \in 1 .. n
  BY <1>1
<1>4. n + 1 \in 1 .. n + 1 /\ \A i \in 1 .. n : i \in 1 .. n + 1
  BY <1>1
<1>5. Range(r) = Range(s) \cup {e}
  <2>1. Range(r) \subseteq Range(s) \cup {e}
    BY <1>1, <1>2, <1>3 DEF Range
  <2>2. Range(s) \cup {e} \subseteq Range(r)
    BY <1>1, <1>2, <1>4 DEF Range
  <2> QED BY <2>1, <2>2
<1>6. Last(r) = e /\ r # <<>>
  BY <1>1, <1>2, EmptySeq DEF Last
<1> QED BY <1>5, <1>6 DEF r

\* The elements of two lists joined.
LEMMA RangeConcat ==
  ASSUME NEW S, NEW s \in Seq(S), NEW t \in Seq(S) PROVE Range(s \o t) = Range(s) \cup Range(t)
<1> DEFINE r == s \o t
           n == Len(s)
           k == Len(t)
<1>1. n \in Nat /\ k \in Nat /\ DOMAIN s = 1 .. n /\ DOMAIN t = 1 .. k
  OBVIOUS
<1>2. r \in Seq(S) /\ Len(r) = n + k /\ \A i \in 1 .. n + k : r[i] = IF i <= n THEN s[i] ELSE t[i - n]
  BY ConcatProperties
<1>3. DOMAIN r = 1 .. n + k
  BY <1>2
<1> HIDE DEF r, n, k
<1>4. \A i \in 1 .. n + k : (i <= n => i \in 1 .. n) /\ (~(i <= n) => i - n \in 1 .. k)
  BY <1>1
<1>5. \A i \in 1 .. n : i \in 1 .. n + k /\ i <= n
  BY <1>1
<1>6. \A i \in 1 .. k : i + n \in 1 .. n + k /\ ~(i + n <= n) /\ (i + n) - n = i
  BY <1>1
<1>7. Range(r) \subseteq Range(s) \cup Range(t)
  BY <1>1, <1>2, <1>3, <1>4 DEF Range
<1>8. Range(s) \subseteq Range(r)
  BY <1>1, <1>2, <1>3, <1>5 DEF Range
<1>9. Range(t) \subseteq Range(r)
  <2>1. ASSUME NEW i \in 1 .. k PROVE \E j \in DOMAIN r : t[i] = r[j]
    <3>1. i + n \in DOMAIN r /\ r[i + n] = t[i]
      BY <1>2, <1>3, <1>6
    <3> QED BY <3>1
  <2> QED BY <1>1, <2>1 DEF Range
<1> QED BY <1>7, <1>8, <1>9 DEF r
-----------------------------------------------------------------------------
\* StreamSurvives while the process is up: the checkpoint counts, or the real
\* message is on disk.
LEMMA Survives == TypeOK /\ Up /\ Files /\ Ordered /\ Acknowledged /\ Streamed => StreamSurvives
<1>1. SUFFICES ASSUME TypeOK, Up, Files, Ordered, Acknowledged, Streamed, stream # 0
               PROVE  \E m \in parts \cup {p \in partials : Meaningful(p)} : m.id = stream
  BY DEF StreamSurvives
<1>2. nextSeq \in Nat /\ NextOf(cursor, parts) <= nextSeq /\ NextSeqOnDisk = NextOf(cursor, parts)
  BY <1>1, NextIs DEF Ordered, TypeOK
<1>3. \A p \in partials : p.seq \in Nat
  BY <1>1 DEF TypeOK, Messages
<1>4. CASE turn.at = "stream" /\ stream = issued /\ \E p \in partials : p.id = stream /\ p.seq = nextSeq
  <2>1. PICK p \in partials : p.id = stream /\ p.seq = nextSeq
    BY <1>4
  <2>2. Meaningful(p)
    BY <1>2, <2>1 DEF Meaningful
  <2> QED BY <2>1, <2>2
<1>5. CASE /\ op.kind = "add" /\ Last(mem).id = stream
           /\ Waiting(op.todo, "part") => \E p \in partials : p.id = stream /\ p.seq + 1 = nextSeq
  <2>1. CASE Last(mem) \in parts
    BY <1>5, <2>1
  <2>2. CASE Last(mem) \notin parts
    <3>1. Waiting(op.todo, "part")
      BY <1>1, <1>5, <2>2 DEF Acknowledged
    <3>2. NextOf(cursor, parts) < nextSeq
      BY <1>1, <1>5, <2>2, <3>1 DEF Ordered
    <3>3. PICK p \in partials : p.id = stream /\ p.seq + 1 = nextSeq
      BY <1>5, <3>1
    <3>4. NextOf(cursor, parts) \in Int
      BY <1>1, NextNat
    <3>5. Meaningful(p)
      BY <1>2, <1>3, <3>2, <3>3, <3>4 DEF Meaningful
    <3> QED BY <3>3, <3>5
  <2> QED BY <2>1, <2>2
<1> QED BY <1>1, <1>4, <1>5 DEF Streamed
-----------------------------------------------------------------------------
\* A message is added.
LEMMA AppendFacts ==
  ASSUME NEW s \in Seq(Messages), NEW m \in Messages
  PROVE  /\ AllBelow(s, m.seq) => AllBelow(Append(s, m), m.seq + 1)
         /\ AllBelow(s, m.seq) /\ Sorted(s) => Sorted(Append(s, m))
         /\ FirstLowest(s) /\ (s # <<>> => m.seq > 0) => FirstLowest(Append(s, m))
<1> DEFINE r == Append(s, m)
           n == Len(s)
<1>1. n \in Nat /\ DOMAIN s = 1 .. n /\ m.seq \in Nat /\ (s # <<>> => n > 0)
  BY EmptySeq DEF Messages
<1>2. \A i \in 1 .. n : s[i] \in Messages
  OBVIOUS
<1>3. \A i \in 1 .. n : s[i].seq \in Nat
  BY <1>2 DEF Messages
<1>4. DOMAIN r = 1 .. n + 1 /\ r[n + 1] = m /\ \A i \in 1 .. n : r[i] = s[i]
  OBVIOUS
<1>5. s = <<>> => n = 0
  OBVIOUS
<1> HIDE DEF r, n
<1>6. \A i \in 1 .. n + 1 : i \in 1 .. n \/ i = n + 1
  BY <1>1
<1>7. AllBelow(s, m.seq) => AllBelow(r, m.seq + 1)
  BY <1>1, <1>3, <1>4, <1>6 DEF AllBelow
<1>8. AllBelow(s, m.seq) /\ Sorted(s) => Sorted(r)
  <2>1. ASSUME AllBelow(s, m.seq), Sorted(s), NEW i \in 1 .. n + 1, NEW j \in 1 .. n + 1, i < j
        PROVE  r[i].seq < r[j].seq
    <3>1. i \in 1 .. n /\ r[i] = s[i] /\ i \in DOMAIN s
      BY <1>1, <1>4, <2>1
    <3>2. CASE j = n + 1
      BY <1>4, <2>1, <3>1, <3>2 DEF AllBelow
    <3>3. CASE j # n + 1
      <4>1. j \in 1 .. n /\ r[j] = s[j] /\ j \in DOMAIN s
        BY <1>1, <1>4, <1>6, <3>3
      <4> QED BY <2>1, <3>1, <4>1 DEF Sorted
    <3> QED BY <3>2, <3>3
  <2> QED BY <1>4, <2>1 DEF Sorted
<1>9. FirstLowest(s) /\ (s # <<>> => m.seq > 0) => FirstLowest(r)
  <2>1. ASSUME FirstLowest(s), s # <<>> => m.seq > 0, NEW i \in 1 .. n + 1, i > 1 PROVE r[i].seq > 0
    <3>1. CASE i = n + 1
      <4>1. n # 0
        BY <2>1, <3>1
      <4> QED BY <1>4, <1>5, <2>1, <3>1, <4>1
    <3>2. CASE i # n + 1
      BY <1>1, <1>4, <1>6, <2>1, <3>2 DEF FirstLowest
    <3> QED BY <3>1, <3>2
  <2> QED BY <1>4, <2>1 DEF FirstLowest
<1> QED BY <1>7, <1>8, <1>9 DEF r

\* The types of an operation and of a turn, as TypeOK has them.
OpTypes == [kind : {"none", "add", "checkpoint", "summary", "structure"},
            todo : Seq(Calls), mem : Seq(Messages), ack : SUBSET Messages]

TurnTypes == [at : {"down", "idle", "stream", "tools"}, out : 0 .. MaxCalls,
              due : Seq(Ids \X (1 .. MaxCalls))]

\* What is left to write are messages.
LEMMA WritesTyped == ASSUME NEW t \in Seq(Calls), NEW do PROVE Writes(t, do) \subseteq Messages
<1>1. \A i \in DOMAIN t : t[i] \in Calls
  OBVIOUS
<1> QED BY <1>1 DEF Writes, Calls

\* So is everything known.
LEMMA KnownTyped == TypeOK => Known \subseteq Messages
<1>1. SUFFICES ASSUME TypeOK PROVE Known \subseteq Messages
  OBVIOUS
<1>2. mem \in Seq(Messages) /\ op.mem \in Seq(Messages) /\ op.todo \in Seq(Calls)
  BY <1>1 DEF TypeOK
<1>3. Range(mem) \subseteq Messages /\ Range(op.mem) \subseteq Messages
  BY <1>2, RangeType
<1>4. parts \subseteq Messages /\ partials \subseteq Messages /\ late \subseteq Messages
  BY <1>1 DEF TypeOK
<1> QED BY <1>2, <1>3, <1>4, WritesTyped DEF Known

\* What every operation that adds a message does to the invariant.
LEMMA Adding ==
  ASSUME TypeOK, ConvInv, NEW m \in Messages, Add(m), m.seq = nextSeq, Sane(m),
         op.kind \in {"none", "checkpoint"}, Up,
         turn' \in TurnTypes, turn'.at \in {"idle", "tools"}, turn'.at = "tools" <=> turn'.due # <<>>,
         issued' \in 0 .. MaxMessages,
         \/ /\ turn.at = "stream" /\ m.id = issued /\ issued' = issued
            /\ late' \subseteq late \cup Writes(op.todo, "partial") /\ (late' \subseteq late \/ meta)
         \/ /\ turn.at # "stream" /\ m.id = issued + 1 /\ issued' = issued + 1 /\ late' = late
  PROVE  TypeOK' /\ ConvInv'
<1> DEFINE new == Append(mem, m)
           t == Persist(m)
<1>1. /\ Shape /\ Alone /\ MetaFirst /\ OneSeq /\ FirstIsUser /\ Files /\ Ordered
      /\ Acknowledged /\ Late /\ Streamed /\ AckedOnDisk /\ StreamSurvives
  BY DEF ConvInv
<1>2. /\ mem \in Seq(Messages) /\ nextSeq \in Nat /\ op \in OpTypes /\ parts \subseteq Messages
      /\ partials \subseteq Messages /\ late \subseteq Messages /\ acked \subseteq Messages
      /\ issued \in Nat
  BY BoundsAssumption DEF TypeOK, OpTypes
<1>3. /\ mem' = new /\ nextSeq' = nextSeq + 1 /\ op' = Op("add", t, new, {m}) /\ metaDone' = metaDone
      /\ meta' = meta /\ parts' = parts /\ partials' = partials /\ cursor' = cursor
      /\ acked' = acked /\ stream' = stream /\ reused' = reused /\ crashes' = crashes
  BY DEF Add, disk
<1>4. /\ t \in Seq(Calls) /\ t # <<>> /\ InOrder(t) /\ Only(t, {"meta", "part", "cursor", "clear"})
      /\ Writes(t, "part") = {m} /\ Waiting(t, "part") /\ Waiting(t, "cursor") /\ Waiting(t, "clear")
      /\ Writes(t, "partial") = {} /\ (Head(t).do = "meta" \/ metaDone)
  BY PersistFacts
<1>5. new \in Seq(Messages) /\ Range(new) = Range(mem) \cup {m} /\ Last(new) = m /\ new # <<>>
  BY <1>2, RangeAppend
<1> HIDE DEF new, t
<1>6. op'.kind = "add" /\ op'.todo = t /\ op'.mem = new /\ op'.ack = {m} /\ op' # NoOp
  BY <1>3, Idled DEF Op
<1>7. turn'.at # "down" /\ turn'.at # "stream" /\ Up'
  BY DEF Up
<1>8. Writes(op.todo, "partial") \subseteq {StreamMessage(turn.out)}
  BY <1>1, NoTodo, Idled DEF Shape
<1>9. StreamMessage(turn.out).id = issued /\ StreamMessage(turn.out).seq = nextSeq
  BY DEF StreamMessage, Message
<1>10. late' \subseteq late \cup Writes(op.todo, "partial")
  OBVIOUS
<1>11. Writes(op.todo, "partial") \subseteq Messages
  BY <1>2, WritesTyped DEF OpTypes
<1>12. TypeOK'
  <2>1. op' \in OpTypes
    BY <1>3, <1>4, <1>5 DEF Op, OpTypes
  <2>2. late' \subseteq Messages
    BY <1>2, <1>10, <1>11
  <2>3. mem' \in Seq(Messages) /\ nextSeq' \in Nat
    BY <1>2, <1>3, <1>5
  <2>4. /\ metaDone' \in BOOLEAN /\ meta' \in BOOLEAN /\ cursor' \in Nat \cup {NoCursor}
        /\ parts' \subseteq Messages /\ partials' \subseteq Messages /\ acked' \subseteq Messages
        /\ stream' \in 0 .. MaxMessages /\ reused' \in BOOLEAN /\ crashes' \in 0 .. MaxCrashes
    BY <1>3 DEF TypeOK
  <2> QED BY <2>1, <2>2, <2>3, <2>4 DEF TypeOK, OpTypes, TurnTypes
<1>13. Shape'
  <2>1. Waiting(t, "part") => Waiting(t, "cursor")
    BY <1>4
  <2> QED BY <1>3, <1>4, <1>5, <1>6 DEF Shape
<1>14. Alone'
  BY <1>2, <1>3, <1>7 DEF Alone
<1>15. MetaFirst'
  BY <1>1, <1>3, <1>4, <1>6, <1>7 DEF MetaFirst
<1>16. Known' \subseteq Known \cup {m}
  BY <1>3, <1>4, <1>5, <1>6, <1>10 DEF Known
<1>17. OneSeq'
  <2>1. \A x \in Known : x.id <= issued
    BY <1>1 DEF OneSeq
  <2>5. \A x \in Known : x.id \in Nat
    BY KnownTyped DEF Messages, Ids
  <2>2. \A x \in Known' : x.id <= issued'
    BY <1>2, <1>16, <2>1, <2>5
  <2>3. ASSUME NEW x \in Known, x.id = m.id PROVE x.seq = m.seq
    BY <1>1, <1>2, <2>1, <2>3 DEF OneSeq
  <2>4. \A x, y \in Known' : x.id = y.id => x.seq = y.seq
    BY <1>1, <1>16, <2>3 DEF OneSeq
  <2> QED BY <1>7, <2>2, <2>4 DEF OneSeq
<1>18. FirstIsUser'
  <2>1. \A x \in Known' : Sane(x)
    BY <1>1, <1>16 DEF FirstIsUser
  <2>2. \A p \in partials' \cup late' \cup Writes(op'.todo, "partial") : p.role = "assistant"
    BY <1>1, <1>3, <1>4, <1>6, <1>10 DEF FirstIsUser
  <2>3. FirstLowest(new)
    <3>1. mem # <<>> => m.seq > 0
      BY <1>1 DEF Alone
    <3> QED BY <1>1, <1>2, <3>1, AppendFacts DEF FirstIsUser, new
  <2> QED BY <1>1, <1>3, <1>6, <2>1, <2>2, <2>3 DEF FirstIsUser
<1>19. Files'
  BY <1>1, <1>3 DEF Files
<1>20. NextOf(cursor, parts) \in Nat /\ NextOf(cursor, parts) <= nextSeq
  BY <1>1, NextNat DEF Ordered
<1>21. \A p \in parts : p.seq \in Nat
  BY <1>2 DEF Messages
<1>22. Ordered'
  <2>1. ~reused \/ cursor = NoCursor => AllBelow(new, nextSeq + 1)
    BY <1>1, <1>2, AppendFacts DEF Ordered, new
  <2>2. ~reused => Sorted(new)
    BY <1>1, <1>2, AppendFacts DEF Ordered, new
  <2>3. ~reused => \A p \in parts : p.seq < nextSeq + 1
    BY <1>1, <1>2, <1>21 DEF Ordered
  <2> DEFINE N == NextOf(cursor, parts)
  <2>4. N < nextSeq + 1 /\ N <= nextSeq + 1
    <3> HIDE DEF N
    <3>1. N \in Nat /\ N <= nextSeq
      BY <1>20 DEF N
    <3> QED BY <3>1, <1>2
  <2> QED BY <1>3, <1>4, <1>6, <2>1, <2>2, <2>3, <2>4 DEF Ordered
<1>23. Acknowledged'
  <2>1. ~reused => acked \subseteq Range(mem) /\ \A a \in acked : a.seq # m.seq
    <3>1. SUFFICES ASSUME ~reused, NEW a \in acked PROVE a \in Range(mem) /\ a.seq # m.seq
      OBVIOUS
    <3>2. a \in Range(mem)
      BY <1>1, <3>1 DEF Acknowledged
    <3>3. a.seq < nextSeq
      BY <1>1, <3>1, <3>2 DEF Ordered, AllBelow, Range
    <3> QED BY <1>2, <3>2, <3>3
  <2> QED BY <1>3, <1>4, <1>5, <1>6, <2>1 DEF Acknowledged
<1>24. Late'
  <2>1. ASSUME NEW p \in late'
        PROVE p.seq < nextSeq + 1 /\ (p.seq + 1 = nextSeq + 1 => p.id = m.id)
    <3>1. CASE p \in late
      <4>1. p.seq < nextSeq /\ p.seq \in Nat
        BY <1>1, <1>2, <3>1 DEF Late, Messages
      <4> QED BY <4>1, <1>2
    <3>2. CASE p \notin late
      <4>1. p.id = issued /\ p.seq = nextSeq /\ m.id = issued
        BY <1>8, <1>9, <2>1, <3>2
      <4> QED BY <1>2, <4>1
    <3> QED BY <3>1, <3>2
  <2> QED BY <1>3, <1>5, <2>1 DEF Late
<1>25. Streamed'
  <2>1. SUFFICES ASSUME stream # 0
                 PROVE m.id = stream /\ \E p \in partials : p.id = stream /\ p.seq + 1 = nextSeq + 1
    BY <1>3, <1>5, <1>6 DEF Streamed
  <2>2. turn.at = "stream" /\ stream = issued /\ \E p \in partials : p.id = stream /\ p.seq = nextSeq
    BY <1>1, <2>1 DEF Streamed
  <2> QED BY <2>2
<1>26. AckedOnDisk'
  BY <1>1, <1>3 DEF AckedOnDisk
<1>27. StreamSurvives'
  BY <1>7, <1>12, <1>19, <1>22, <1>23, <1>25, Survives, PTL
<1> QED BY <1>12, <1>13, <1>14, <1>15, <1>17, <1>18, <1>19, <1>22, <1>23, <1>24, <1>25, <1>26, <1>27 DEF ConvInv

\* A turn that runs tools has results due.
LEMMA RunningFacts ==
  ASSUME NEW due \in Seq(Ids \X (1 .. MaxCalls))
  PROVE  /\ Running(due) \in TurnTypes /\ Running(due).at \in {"idle", "tools"}
         /\ Running(due).at = "tools" <=> Running(due).due # <<>>
<1>1. Idle \in TurnTypes /\ Idle.at = "idle" /\ Idle.due = <<>>
  BY BoundsAssumption DEF Idle, TurnTypes
<1>2. due # <<>> => /\ Running(due) \in TurnTypes /\ Running(due).at = "tools" /\ Running(due).due = due
  BY BoundsAssumption DEF Running, TurnTypes
<1> QED BY <1>1, <1>2 DEF Running

\* The fields of a message that is made.
LEMMA MessageFacts ==
  ASSUME NEW id \in Ids, NEW seq \in Nat, NEW role \in {"user", "assistant", "tool"}, NEW calls \in 0 .. MaxCalls,
         NEW tid \in {NoCall} \cup Ids \X (1 .. MaxCalls)
  PROVE  LET m == Message(id, seq, role, calls, tid)
         IN  m \in Messages /\ m.id = id /\ m.seq = seq /\ m.role = role /\ m.calls = calls
BY DEF Message, Messages

\* A user message.
LEMMA AddUserMessageStep == TypeOK /\ ConvInv /\ AddUserMessage => TypeOK' /\ ConvInv'
<1>1. SUFFICES ASSUME TypeOK, ConvInv, AddUserMessage PROVE TypeOK' /\ ConvInv'
  OBVIOUS
<1> DEFINE m == Message(issued + 1, nextSeq, "user", 0, NoCall)
<1>2. issued + 1 \in Ids /\ nextSeq \in Nat /\ 0 \in 0 .. MaxCalls /\ NoCall \in {NoCall} \cup Ids \X (1 .. MaxCalls)
  BY <1>1, BoundsAssumption DEF TypeOK, AddUserMessage, Issue, Ids
<1>3. m \in Messages /\ m.id = issued + 1 /\ m.seq = nextSeq /\ m.role = "user" /\ m.calls = 0
  BY <1>2, MessageFacts
<1>4. Add(m) /\ turn' = turn /\ late' = late /\ issued' = issued + 1
  BY <1>1 DEF AddUserMessage, Issue
<1>5. turn.at \in {"idle", "tools"} /\ op = NoOp
  BY <1>1 DEF AddUserMessage, Quiet
<1> HIDE DEF m
<1>6. Sane(m)
  BY <1>3 DEF Sane
<1>7. issued' \in 0 .. MaxMessages
  BY <1>2, <1>4, BoundsAssumption DEF Ids
<1>8. turn' \in TurnTypes /\ (turn'.at = "tools" <=> turn'.due # <<>>)
  BY <1>1, <1>4 DEF TypeOK, TurnTypes, ConvInv, Alone
<1>9. op.kind \in {"none", "checkpoint"} /\ Up /\ turn.at # "stream"
  BY <1>5, Idled DEF Up
<1> QED BY <1>1, <1>3, <1>4, <1>5, <1>6, <1>7, <1>8, <1>9, Adding

\* A result of a tool.
LEMMA AddToolResultStep == TypeOK /\ ConvInv /\ AddToolResult => TypeOK' /\ ConvInv'
<1>1. SUFFICES ASSUME TypeOK, ConvInv, AddToolResult PROVE TypeOK' /\ ConvInv'
  OBVIOUS
<1> DEFINE m == Message(issued + 1, nextSeq, "tool", 0, Head(turn.due))
<1>2. issued + 1 \in Ids /\ nextSeq \in Nat /\ 0 \in 0 .. MaxCalls
  BY <1>1, BoundsAssumption DEF TypeOK, AddToolResult, Issue, Ids
<1>3. Add(m) /\ turn' = Running(Tail(turn.due)) /\ late' = late /\ issued' = issued + 1
  BY <1>1 DEF AddToolResult, Issue
<1>4. turn.at = "tools" /\ op = NoOp
  BY <1>1 DEF AddToolResult, Quiet
<1>5. turn.due \in Seq(Ids \X (1 .. MaxCalls)) /\ turn.due # <<>> /\ nextSeq > 0
  BY <1>1, <1>4 DEF TypeOK, ConvInv, Alone
<1>6. Head(turn.due) \in Ids \X (1 .. MaxCalls) /\ Tail(turn.due) \in Seq(Ids \X (1 .. MaxCalls))
  BY <1>5, TailFacts
<1>7. m \in Messages /\ m.id = issued + 1 /\ m.seq = nextSeq /\ m.role = "tool" /\ m.calls = 0
  <2> DEFINE h == Head(turn.due)
  <2>1. h \in {NoCall} \cup Ids \X (1 .. MaxCalls)
    BY <1>6
  <2> HIDE DEF h
  <2>2. LET x == Message(issued + 1, nextSeq, "tool", 0, h)
        IN  x \in Messages /\ x.id = issued + 1 /\ x.seq = nextSeq /\ x.role = "tool" /\ x.calls = 0
    BY <1>2, <2>1, MessageFacts
  <2> QED BY <2>2 DEF h
<1> HIDE DEF m
<1>8. Sane(m)
  BY <1>5, <1>7 DEF Sane
<1>9. issued' \in 0 .. MaxMessages
  BY <1>2, <1>3, BoundsAssumption DEF Ids
<1>10. turn' \in TurnTypes /\ turn'.at \in {"idle", "tools"} /\ (turn'.at = "tools" <=> turn'.due # <<>>)
  BY <1>3, <1>6, RunningFacts
<1>11. op.kind \in {"none", "checkpoint"} /\ Up /\ turn.at # "stream"
  BY <1>4, Idled DEF Up
<1> QED BY <1>1, <1>3, <1>4, <1>7, <1>8, <1>9, <1>10, <1>11, Adding

\* The message of the stream.
LEMMA StreamMessageFacts ==
  ASSUME TypeOK, ConvInv, turn.at = "stream", NEW k \in 0 .. MaxCalls
  PROVE  /\ StreamMessage(k) \in Messages /\ Sane(StreamMessage(k)) /\ StreamMessage(k).id = issued
         /\ StreamMessage(k).seq = nextSeq /\ StreamMessage(k).role = "assistant"
         /\ issued \in Ids /\ nextSeq > 0
<1>1. issued \in Ids /\ nextSeq \in Nat /\ nextSeq > 0
  BY BoundsAssumption DEF TypeOK, ConvInv, Alone, Ids
<1> DEFINE m == Message(issued, nextSeq, "assistant", k, NoCall)
<1>2. m \in Messages /\ m.id = issued /\ m.seq = nextSeq /\ m.role = "assistant" /\ m.calls = k
  BY <1>1, MessageFacts
<1>3. StreamMessage(k) = m
  BY DEF StreamMessage
<1> HIDE DEF m
<1>4. Sane(m)
  BY <1>1, <1>2 DEF Sane
<1> QED BY <1>1, <1>2, <1>3, <1>4

\* A stream that ends.
LEMMA EndStreamStep == TypeOK /\ ConvInv /\ EndStream => TypeOK' /\ ConvInv'
<1>1. SUFFICES ASSUME TypeOK, ConvInv, EndStream PROVE TypeOK' /\ ConvInv'
  OBVIOUS
<1> DEFINE m == StreamMessage(turn.out)
           due == [k \in 1 .. turn.out |-> <<issued, k>>]
<1>2. turn.at = "stream" /\ op = NoOp /\ turn.out \in 0 .. MaxCalls
  BY <1>1 DEF EndStream, Quiet, TypeOK
<1>3. Add(m) /\ turn' = Running(due) /\ late' = late /\ issued' = issued
  BY <1>1 DEF EndStream
<1>4. m \in Messages /\ Sane(m) /\ m.id = issued /\ m.seq = nextSeq /\ issued \in Ids
  BY <1>1, <1>2, StreamMessageFacts
<1>5. due \in Seq(Ids \X (1 .. MaxCalls))
  BY <1>2, <1>4, BoundsAssumption
<1>6. turn' \in TurnTypes /\ turn'.at \in {"idle", "tools"} /\ (turn'.at = "tools" <=> turn'.due # <<>>)
  <2> HIDE DEF due
  <2> QED BY <1>3, <1>5, RunningFacts
<1>7. issued' \in 0 .. MaxMessages
  BY <1>1, <1>3 DEF TypeOK
<1>8. op.kind \in {"none", "checkpoint"} /\ Up
  BY <1>2, Idled DEF Up
<1> HIDE DEF m, due
<1> QED BY <1>1, <1>2, <1>3, <1>4, <1>6, <1>7, <1>8, Adding

\* A stream that is cut while its checkpoint is being written.
LEMMA CutStreamStep == TypeOK /\ ConvInv /\ CutStream => TypeOK' /\ ConvInv'
<1>1. SUFFICES ASSUME TypeOK, ConvInv, CutStream PROVE TypeOK' /\ ConvInv'
  OBVIOUS
<1> DEFINE m == StreamMessage(turn.out)
           cut == {op.todo[i].m : i \in {j \in DOMAIN op.todo : j = 1 /\ op.todo[j].do = "partial"}}
<1>2. turn.at = "stream" /\ op.kind \in {"none", "checkpoint"} /\ turn.out \in 0 .. MaxCalls
  BY <1>1 DEF CutStream, TypeOK
<1>3. Add(m) /\ turn' = Idle /\ late' = late \cup cut /\ issued' = issued
  BY <1>1 DEF CutStream
<1>4. m \in Messages /\ Sane(m) /\ m.id = issued /\ m.seq = nextSeq /\ issued \in Ids
  BY <1>1, <1>2, StreamMessageFacts
<1>5. cut \subseteq Writes(op.todo, "partial")
  BY DEF Writes
<1>6. cut # {} => meta
  <2>1. SUFFICES ASSUME cut # {} PROVE meta
    OBVIOUS
  <2>2. op.todo \in Seq(Calls) /\ 1 \in DOMAIN op.todo /\ op.todo[1].do = "partial"
    BY <1>1, <2>1 DEF TypeOK
  <2>3. op.todo # <<>> /\ Head(op.todo).do = "partial"
    <3>1. op.todo # <<>>
      BY <2>2
    <3> QED BY <2>2, <3>1, TailFacts
  <2>4. op # NoOp
    BY <2>3, Idled
  <2> QED BY <1>1, <2>3, <2>4 DEF ConvInv, MetaFirst
<1>7. turn' \in TurnTypes /\ turn'.at = "idle" /\ turn'.due = <<>>
  BY <1>3, BoundsAssumption DEF Idle, TurnTypes
<1>8. issued' \in 0 .. MaxMessages /\ Up
  BY <1>1, <1>2, <1>3 DEF TypeOK, Up
<1> HIDE DEF m, cut
<1>9. late' \subseteq late \cup Writes(op.todo, "partial") /\ (late' \subseteq late \/ meta)
  BY <1>3, <1>5, <1>6
<1>10. turn'.at \in {"idle", "tools"} /\ (turn'.at = "tools" <=> turn'.due # <<>>)
  BY <1>7
<1> QED BY <1>1, <1>2, <1>3, <1>4, <1>7, <1>8, <1>9, <1>10, Adding
-----------------------------------------------------------------------------
\* The stream starts, checkpoints what has arrived, or fails.
LEMMA InvParts ==
  ConvInv => /\ Shape /\ Alone /\ MetaFirst /\ OneSeq /\ FirstIsUser /\ Files /\ Ordered
             /\ Acknowledged /\ Late /\ Streamed /\ AckedOnDisk /\ StreamSurvives
BY DEF ConvInv

\* A stream that starts.
LEMMA StartStreamStep == TypeOK /\ ConvInv /\ StartStream => TypeOK' /\ ConvInv'
<1>1. SUFFICES ASSUME TypeOK, ConvInv, StartStream PROVE TypeOK' /\ ConvInv'
  OBVIOUS
<1>2. /\ mem' = mem /\ nextSeq' = nextSeq /\ metaDone' = metaDone /\ op' = op /\ late' = late
      /\ meta' = meta /\ parts' = parts /\ partials' = partials /\ cursor' = cursor
      /\ acked' = acked /\ stream' = stream /\ reused' = reused /\ crashes' = crashes
      /\ issued' = issued + 1 /\ turn' = Streaming(0)
  BY <1>1 DEF StartStream, Issue, memory, disk
<1>3. turn.at = "idle" /\ op = NoOp /\ mem # <<>> /\ issued + 1 \in 1 .. MaxMessages
  BY <1>1, EmptyRequest, BoundsAssumption DEF StartStream, Quiet, Issue, TypeOK
<1>4. turn' \in TurnTypes /\ turn'.at = "stream" /\ turn'.due = <<>> /\ Up /\ Up'
  BY <1>2, <1>3, BoundsAssumption DEF Streaming, TurnTypes, Up
<1>5. TypeOK'
  BY <1>1, <1>2, <1>3, <1>4, BoundsAssumption DEF TypeOK, TurnTypes
<1>6. Shape'
  BY <1>1, <1>2, <1>3, <1>4, InvParts, Idled DEF Shape
<1>7. Alone'
  <2>1. nextSeq > 0 /\ issued \in Nat
    BY <1>1, <1>3, InvParts, BoundsAssumption DEF Alone, TypeOK
  <2> QED BY <1>2, <1>3, <1>4, <2>1 DEF Alone
<1>8. MetaFirst'
  BY <1>1, <1>2, InvParts DEF MetaFirst
<1>9. Known' = Known
  BY <1>2 DEF Known
<1>10. OneSeq'
  <2>1. \A x \in Known : x.id <= issued /\ x.id \in Nat
    BY <1>1, KnownTyped, InvParts DEF OneSeq, Messages, Ids
  <2>2. issued \in Nat
    BY <1>1, BoundsAssumption DEF TypeOK
  <2>3. \A x \in Known : x.id <= issued + 1 /\ x.id # issued + 1
    BY <2>1, <2>2
  <2>4. Range(mem) \cup parts \subseteq Known
    BY DEF Known
  <2> QED BY <1>1, <1>2, <1>9, <2>3, <2>4, InvParts DEF OneSeq
<1>11. FirstIsUser' /\ Files' /\ Ordered' /\ Acknowledged'
  BY <1>1, <1>2, <1>4, <1>9, InvParts DEF FirstIsUser, Files, Ordered, Acknowledged
<1>12. Late'
  BY <1>1, <1>2, InvParts DEF Late
<1>13. stream = 0
  BY <1>1, <1>3, <1>4, Idled, InvParts DEF Streamed
<1>14. Streamed' /\ StreamSurvives' /\ AckedOnDisk'
  BY <1>1, <1>2, <1>13, InvParts DEF Streamed, StreamSurvives, AckedOnDisk
<1> QED BY <1>5, <1>6, <1>7, <1>8, <1>10, <1>11, <1>12, <1>14 DEF ConvInv

\* A stream that fails.
LEMMA FailStreamStep == TypeOK /\ ConvInv /\ FailStream => TypeOK' /\ ConvInv'
<1>1. SUFFICES ASSUME TypeOK, ConvInv, FailStream PROVE TypeOK' /\ ConvInv'
  OBVIOUS
<1>2. /\ mem' = mem /\ nextSeq' = nextSeq /\ metaDone' = metaDone /\ op' = op /\ late' = late
      /\ meta' = meta /\ parts' = parts /\ partials' = partials /\ cursor' = cursor
      /\ acked' = acked /\ stream' = 0 /\ reused' = reused /\ crashes' = crashes
      /\ issued' = issued /\ turn' = Idle
  BY <1>1 DEF FailStream, memory, disk
<1>3. turn.at = "stream" /\ op = NoOp
  BY <1>1 DEF FailStream, Quiet
<1>4. turn' \in TurnTypes /\ turn'.at = "idle" /\ turn'.due = <<>> /\ Up /\ Up'
  BY <1>2, <1>3, BoundsAssumption DEF Idle, TurnTypes, Up
<1>5. TypeOK'
  BY <1>1, <1>2, <1>4, BoundsAssumption DEF TypeOK, TurnTypes
<1>6. Shape'
  BY <1>1, <1>2, <1>3, <1>4, InvParts, Idled DEF Shape
<1>7. Alone' /\ MetaFirst'
  BY <1>1, <1>2, <1>3, <1>4, InvParts DEF Alone, MetaFirst
<1>8. Known' = Known
  BY <1>2 DEF Known
<1>9. OneSeq'
  BY <1>1, <1>2, <1>4, <1>8, InvParts DEF OneSeq
<1>10. FirstIsUser' /\ Files' /\ Ordered' /\ Acknowledged'
  BY <1>1, <1>2, <1>4, <1>8, InvParts DEF FirstIsUser, Files, Ordered, Acknowledged
<1>11. Late'
  BY <1>1, <1>2, InvParts DEF Late
<1>12. Streamed' /\ StreamSurvives' /\ AckedOnDisk'
  BY <1>1, <1>2, InvParts DEF Streamed, StreamSurvives, AckedOnDisk
<1> QED BY <1>5, <1>6, <1>7, <1>9, <1>10, <1>11, <1>12 DEF ConvInv

\* The calls of a checkpoint.
LEMMA CheckpointFacts ==
  ASSUME TypeOK, NEW m \in Messages
  PROVE  LET t == PersistMeta \o <<WritePartial(m)>>
         IN  /\ t \in Seq(Calls) /\ t # <<>> /\ InOrder(t) /\ Only(t, {"meta", "partial"})
             /\ Writes(t, "partial") = {m} /\ Writes(t, "part") = {} /\ ~Waiting(t, "part") /\ ~Waiting(t, "cursor")
             /\ Head(t).do = "meta" \/ metaDone
<1> DEFINE w == WriteMeta
           p == WritePartial(m)
           t == PersistMeta \o <<p>>
<1>1. NoMessage \in Messages
  BY BoundsAssumption DEF NoMessage, Message, Messages, NoCall, Ids
<1>2. w \in Calls /\ p \in Calls
  BY <1>1 DEF WriteMeta, WritePartial, Call, Calls
<1>3. w.do = "meta" /\ p.do = "partial" /\ p.m = m
  BY DEF WriteMeta, WritePartial, Call
<1> HIDE DEF w, p
<1>4. CASE metaDone
  <2>1. t = <<p>>
    <3>1. <<p>> \in Seq(Calls)
      BY <1>2
    <3>2. <<>> \o <<p>> = <<p>>
      BY <3>1, ConcatEmptySeq
    <3> QED BY <1>4, <3>2 DEF PersistMeta
  <2> HIDE DEF t
  <2>2. DOMAIN t = 1 .. 1 /\ t[1] = p /\ t \in Seq(Calls) /\ t # <<>>
    BY <1>2, <2>1
  <2>3. InOrder(t) /\ Only(t, {"meta", "partial"})
    BY <1>3, <2>2 DEF InOrder, Only
  <2>4. /\ Writes(t, "partial") = {m} /\ Writes(t, "part") = {}
        /\ ~Waiting(t, "part") /\ ~Waiting(t, "cursor")
    BY <1>3, <2>2 DEF Writes, Waiting
  <2> QED BY <1>4, <2>2, <2>3, <2>4 DEF t, p
<1>5. CASE ~metaDone
  <2>1. t = <<w>> \o <<p>>
    BY <1>5 DEF PersistMeta, w
  <2> DEFINE a == <<w>>
             b == <<p>>
  <2>2. /\ a \in Seq(Calls) /\ b \in Seq(Calls) /\ Len(a) = 1 /\ Len(b) = 1 /\ a[1] = w /\ b[1] = p
    BY <1>2
  <2>3. t = a \o b
    BY <2>1
  <2> HIDE DEF a, b, t
  <2>4. /\ t \in Seq(Calls) /\ Len(t) = Len(a) + Len(b)
        /\ \A i \in 1 .. Len(a) + Len(b) : t[i] = IF i <= Len(a) THEN a[i] ELSE b[i - Len(a)]
    BY <2>2, <2>3, ConcatProperties
  <2>5. DOMAIN t = 1 .. 2 /\ t[1] = w /\ t[2] = p /\ Len(t) = 2
    BY <2>2, <2>4
  <2>6. t # <<>> /\ \A i \in 1 .. 2 : i = 1 \/ i = 2
    BY <2>5
  <2>7. InOrder(t) /\ Only(t, {"meta", "partial"})
    BY <1>3, <2>5, <2>6 DEF InOrder, Only
  <2>8. /\ Writes(t, "partial") = {m} /\ Writes(t, "part") = {}
        /\ ~Waiting(t, "part") /\ ~Waiting(t, "cursor")
    BY <1>3, <2>5, <2>6 DEF Writes, Waiting
  <2>9. Head(t).do = "meta"
    BY <1>3, <2>4, <2>5, <2>6, TailFacts
  <2> QED BY <2>4, <2>6, <2>7, <2>8, <2>9 DEF t, p
<1> QED BY <1>4, <1>5

\* A checkpoint of the stream.
LEMMA CheckpointStep ==
  TypeOK /\ ConvInv /\ (\E k \in 0 .. MaxCalls : CheckpointPartialAssistant(k)) => TypeOK' /\ ConvInv'
<1>1. SUFFICES ASSUME TypeOK, ConvInv, NEW k \in 0 .. MaxCalls, CheckpointPartialAssistant(k)
               PROVE TypeOK' /\ ConvInv'
  OBVIOUS
<1> DEFINE m == StreamMessage(k)
           t == PersistMeta \o <<WritePartial(m)>>
<1>2. /\ mem' = mem /\ nextSeq' = nextSeq /\ metaDone' = metaDone /\ late' = late
      /\ meta' = meta /\ parts' = parts /\ partials' = partials /\ cursor' = cursor
      /\ acked' = acked /\ stream' = stream /\ reused' = reused /\ crashes' = crashes
      /\ issued' = issued /\ turn' = Streaming(k) /\ op' = Op("checkpoint", t, mem, {})
  BY <1>1 DEF CheckpointPartialAssistant, memory, disk
<1>3. turn.at = "stream" /\ op = NoOp
  BY <1>1 DEF CheckpointPartialAssistant, Quiet
<1>4. turn' \in TurnTypes /\ turn'.at = "stream" /\ turn'.due = <<>> /\ turn'.out = k /\ Up /\ Up'
  BY <1>2, <1>3, BoundsAssumption DEF Streaming, TurnTypes, Up
<1>5. m \in Messages /\ Sane(m) /\ m.id = issued /\ m.seq = nextSeq /\ m.role = "assistant" /\ nextSeq > 0
  BY <1>1, <1>3, StreamMessageFacts
<1>6. StreamMessage(turn.out)' = m
  BY <1>2, <1>4 DEF StreamMessage
<1> HIDE DEF m
<1>7. /\ t \in Seq(Calls) /\ t # <<>> /\ InOrder(t) /\ Only(t, {"meta", "partial"})
      /\ Writes(t, "partial") = {m} /\ Writes(t, "part") = {} /\ ~Waiting(t, "part") /\ ~Waiting(t, "cursor")
      /\ Head(t).do = "meta" \/ metaDone
  BY <1>1, <1>5, CheckpointFacts
<1> HIDE DEF t
<1>8. op'.kind = "checkpoint" /\ op'.todo = t /\ op'.mem = mem /\ op'.ack = {} /\ op' # NoOp
  BY <1>2, Idled DEF Op
<1>9. TypeOK'
  <2>1. op' \in OpTypes
    BY <1>1, <1>2, <1>7 DEF Op, OpTypes, TypeOK
  <2> QED BY <1>1, <1>2, <1>4, <2>1 DEF TypeOK, OpTypes, TurnTypes
<1>10. Shape'
  BY <1>2, <1>4, <1>6, <1>7, <1>8 DEF Shape
<1>11. Alone'
  BY <1>1, <1>2, <1>3, <1>4, <1>5, InvParts DEF Alone
<1>12. MetaFirst'
  BY <1>1, <1>2, <1>7, <1>8, InvParts DEF MetaFirst
<1>13. Known' \subseteq Known \cup {m}
  BY <1>2, <1>7, <1>8 DEF Known
<1>14. OneSeq'
  <2>1. OneSeq /\ issued \in Nat
    BY <1>1, InvParts, BoundsAssumption DEF TypeOK
  <2>2. \A x \in Known' : x.id <= issued'
    <3>1. \A x \in Known : x.id <= issued
      BY <2>1 DEF OneSeq
    <3> QED BY <1>2, <1>5, <1>13, <2>1, <3>1
  <2>3. \A x \in Known : x.id = issued => x.seq = nextSeq
    BY <1>3, <2>1 DEF OneSeq
  <2>4. \A x, y \in Known' : x.id = y.id => x.seq = y.seq
    BY <1>5, <1>13, <2>1, <2>3 DEF OneSeq
  <2>5. \A x \in Known' : x.id = issued' => x.seq = nextSeq'
    BY <1>2, <1>5, <1>13, <2>3
  <2>6. \A x \in Range(mem') \cup parts' : x.id # issued'
    BY <1>2, <1>3, <2>1 DEF OneSeq
  <2> QED BY <2>2, <2>4, <2>5, <2>6 DEF OneSeq
<1>15. FirstIsUser'
  BY <1>1, <1>2, <1>5, <1>7, <1>8, <1>13, InvParts DEF FirstIsUser
<1>16. Files'
  BY <1>1, <1>2, InvParts DEF Files
<1>17. Ordered'
  BY <1>1, <1>2, <1>3, <1>4, <1>7, <1>8, InvParts, NoTodo, Idled DEF Ordered
<1>18. Acknowledged'
  BY <1>1, <1>2, <1>4, <1>7, <1>8, InvParts DEF Acknowledged
<1>19. Late'
  BY <1>1, <1>2, <1>8, InvParts DEF Late
<1>20. Streamed'
  BY <1>1, <1>2, <1>3, <1>4, Idled, InvParts DEF Streamed
<1>21. AckedOnDisk' /\ StreamSurvives'
  <2>1. NextOf(cursor', parts') = NextOf(cursor, parts)
    BY <1>2
  <2> QED BY <1>1, <1>2, InvParts DEF AckedOnDisk, StreamSurvives, Meaningful, NextSeqOnDisk
<1> QED BY <1>9, <1>10, <1>11, <1>12, <1>14, <1>15, <1>16, <1>17, <1>18, <1>19, <1>20, <1>21 DEF ConvInv
-----------------------------------------------------------------------------
\* A call of the store is through.
StoreMoved ==
  /\ nextSeq' = nextSeq /\ turn' = turn /\ late' = late /\ issued' = issued
  /\ reused' = reused /\ crashes' = crashes

\* What all six calls do to the rest of the invariant, whatever they do to
\* the disk.
LEMMA StoreCommon ==
  ASSUME TypeOK, ConvInv, op.todo # <<>>, NEW left \in SUBSET acked, Proceed(left), StoreMoved,
         meta' \in BOOLEAN, metaDone' \in BOOLEAN, metaDone' => meta', meta',
         cursor' \in {cursor, nextSeq}, stream' \in 0 .. MaxMessages,
         parts' \subseteq parts \cup Writes(op.todo, "part"), OnePerSeq(parts'),
         partials' \subseteq partials \cup Writes(op.todo, "partial"), OnePerSeq(partials')
  PROVE  /\ TypeOK' /\ Shape' /\ Alone' /\ MetaFirst' /\ OneSeq' /\ FirstIsUser' /\ Files' /\ Late'
         /\ Up /\ Up' /\ op # NoOp /\ op.kind # "none" /\ nextSeq > 0
         /\ mem' \in {mem, op.mem} /\ op'.mem \in {op.mem, <<>>} /\ op'.kind \in {op.kind, "none"}
<1> DEFINE t == op.todo
           u == Tail(t)
<1>1. /\ Shape /\ Alone /\ MetaFirst /\ OneSeq /\ FirstIsUser /\ Files /\ Ordered
      /\ Acknowledged /\ Late /\ Streamed /\ AckedOnDisk /\ StreamSurvives
  BY InvParts
<1>2. /\ mem \in Seq(Messages) /\ nextSeq \in Nat /\ op \in OpTypes /\ parts \subseteq Messages
      /\ partials \subseteq Messages /\ late \subseteq Messages /\ acked \subseteq Messages
      /\ issued \in Nat /\ t \in Seq(Calls) /\ op.mem \in Seq(Messages) /\ op.ack \subseteq Messages
  BY BoundsAssumption DEF TypeOK, OpTypes
<1>3. op # NoOp /\ op.kind # "none" /\ turn.at # "down" /\ Up
  BY <1>1, Idled DEF Shape, Alone, Up
<1>4. /\ nextSeq' = nextSeq /\ turn' = turn /\ late' = late /\ issued' = issued
      /\ reused' = reused /\ crashes' = crashes /\ Up'
  BY <1>3 DEF StoreMoved, Up
<1>5. /\ op'.todo = u
      /\ \/ /\ u = <<>> /\ op' = NoOp /\ mem' = op.mem /\ acked' = left \cup op.ack
         \/ /\ u # <<>> /\ op' # NoOp /\ mem' = mem /\ acked' = left
            /\ op'.kind = op.kind /\ op'.mem = op.mem /\ op'.ack = op.ack /\ op' \in OpTypes
  BY Through DEF OpTypes
<1>6. u \in Seq(Calls) /\ (\A do : Writes(u, do) \subseteq Writes(t, do))
      /\ (\A dos : Only(t, dos) => Only(u, dos))
  BY <1>2, TodoTail
<1>7. InOrder(u) /\ (Waiting(t, "part") => Waiting(t, "cursor")) /\ (Waiting(u, "part") => Waiting(u, "cursor"))
  <2>1. InOrder(t) /\ (Waiting(t, "part") => Waiting(t, "cursor"))
    BY <1>1 DEF Shape
  <2>2. Waiting(u, "part") => Waiting(t, "part") /\ Head(t).do \notin {"cursor", "clear"}
    BY <1>2, <2>1, TodoTail
  <2>3. Waiting(t, "cursor") => Head(t).do = "cursor" \/ Waiting(u, "cursor")
    BY <1>2, TodoTail
  <2>4. InOrder(u)
    BY <1>2, <2>1, TodoTail
  <2> QED BY <2>1, <2>2, <2>3, <2>4
<1>8. Waiting(t, "clear") /\ u # <<>> => Waiting(u, "clear")
  <2>1. SUFFICES ASSUME Waiting(t, "clear"), u # <<>> PROVE Waiting(u, "clear")
    OBVIOUS
  <2>2. InOrder(t)
    BY <1>1 DEF Shape
  <2>3. CASE Head(t).do = "clear"
    <3>1. u[1] \in Calls /\ 1 \in DOMAIN u
      <4> HIDE DEF u
      <4> QED BY <1>6, <2>1, TailFacts
    <3>2. \A do : do # "clear" => ~Waiting(u, do)
      BY <1>2, <2>2, <2>3, TodoTail
    <3>3. u[1].do = "clear"
      BY <3>1, <3>2 DEF Waiting
    <3> QED BY <3>1, <3>3 DEF Waiting
  <2>4. CASE Head(t).do # "clear"
    BY <1>2, <2>1, <2>4, TodoTail
  <2> QED BY <2>3, <2>4
<1> HIDE DEF u, t
<1>9. nextSeq > 0
  <2>1. CASE op.kind = "add"
    BY <1>1, <2>1 DEF Shape, Alone
  <2>2. CASE op.kind = "checkpoint"
    BY <1>1, <2>2 DEF Shape, Alone
  <2>3. CASE op.kind \in {"summary", "structure"}
    BY <1>1, <2>3 DEF Shape, Alone
  <2> QED BY <1>2, <1>3, <2>1, <2>2, <2>3 DEF OpTypes
<1>10. TypeOK'
  <2>1. op' \in OpTypes
    <3>1. NoOp \in OpTypes
      BY DEF OpTypes, NoOp, Op
    <3> QED BY <1>5, <3>1
  <2>2. mem' \in Seq(Messages) /\ acked' \subseteq Messages
    BY <1>2, <1>5
  <2>3. parts' \subseteq Messages /\ partials' \subseteq Messages
    BY <1>2, WritesTyped DEF t
  <2>4. cursor' \in Nat \cup {NoCursor}
    BY <1>2 DEF TypeOK
  <2>5. /\ nextSeq' \in Nat /\ late' \subseteq Messages /\ turn' \in TurnTypes /\ issued' \in 0 .. MaxMessages
        /\ reused' \in BOOLEAN /\ crashes' \in 0 .. MaxCrashes
    BY <1>4 DEF TypeOK, TurnTypes
  <2> QED BY <2>1, <2>2, <2>3, <2>4, <2>5 DEF TypeOK, OpTypes, TurnTypes
<1>11. Shape'
  <2>1. CASE op' = NoOp
    BY <2>1, Idled, NoTodo DEF Shape
  <2>2. CASE op' # NoOp
    <3>1. /\ op'.todo = u /\ u # <<>> /\ mem' = mem /\ op'.kind = op.kind /\ op'.mem = op.mem /\ op'.ack = op.ack
      BY <1>5, <2>2
    <3>2. op.kind = "add" => /\ Only(op'.todo, {"meta", "part", "cursor", "clear"}) /\ Waiting(op'.todo, "clear")
                             /\ op'.mem = mem' /\ mem' # <<>> /\ op'.ack = {Last(mem')}
                             /\ Last(mem').seq + 1 = nextSeq' /\ turn'.at \in {"idle", "tools"}
      BY <1>1, <1>4, <1>6, <1>8, <3>1 DEF Shape, t
    <3>3. StreamMessage(turn.out)' = StreamMessage(turn.out)
      BY <1>4 DEF StreamMessage
    <3>4. op.kind = "checkpoint" => /\ Only(op'.todo, {"meta", "partial"})
                                    /\ op'.mem = mem' /\ op'.ack = {} /\ turn'.at = "stream"
                                    /\ Writes(op'.todo, "partial") \subseteq {StreamMessage(turn.out)'}
      BY <1>1, <1>4, <1>6, <3>1, <3>3 DEF Shape, t
    <3>5. op.kind \in {"summary", "structure"} => /\ Only(op'.todo, {"delete", "part", "cursor"})
                                                  /\ mem' # <<>> /\ turn'.at = "idle"
      BY <1>1, <1>4, <1>6, <3>1 DEF Shape, t
    <3> QED BY <1>3, <1>7, <3>1, <3>2, <3>3, <3>4, <3>5 DEF Shape
  <2> QED BY <2>1, <2>2
<1>12. Alone'
  BY <1>1, <1>3, <1>4, <1>9 DEF Alone
<1>13. MetaFirst'
  BY DEF MetaFirst
<1>14. mem' \in {mem, op.mem} /\ op'.mem \in {op.mem, <<>>} /\ op'.kind \in {op.kind, "none"}
  BY <1>5, Idled
<1>15. Writes(op'.todo, "part") \subseteq Writes(t, "part") /\ Writes(op'.todo, "partial") \subseteq Writes(t, "partial")
  BY <1>5, <1>6
<1>16. Known' \subseteq Known
  <2>1. Range(<<>>) = {}
    BY DEF Range
  <2>2. Range(mem') \subseteq Known /\ Range(op'.mem) \subseteq Known
    BY <1>14, <2>1 DEF Known
  <2> QED BY <1>4, <1>15, <2>2 DEF Known, t
<1>17. OneSeq'
  <2>1. turn.at = "stream" => mem' = mem /\ parts' \subseteq parts
    <3>1. SUFFICES ASSUME turn.at = "stream" PROVE mem' = mem /\ parts' \subseteq parts
      OBVIOUS
    <3>2. op.kind = "checkpoint"
      BY <1>1, <1>2, <1>3, <3>1 DEF Shape, OpTypes
    <3>3. op.mem = mem /\ Only(t, {"meta", "partial"})
      BY <1>1, <3>2 DEF Shape, t
    <3>4. Writes(t, "part") = {}
      BY <3>3 DEF Only, Writes
    <3> QED BY <1>14, <3>3, <3>4 DEF t
  <2> QED BY <1>1, <1>4, <1>16, <2>1 DEF OneSeq
<1>18. FirstIsUser'
  <2>1. FirstLowest(<<>>)
    BY DEF FirstLowest
  <2>2. FirstLowest(mem') /\ FirstLowest(op'.mem)
    BY <1>1, <1>14, <2>1 DEF FirstIsUser
  <2>3. \A p \in partials' \cup late' \cup Writes(op'.todo, "partial") : p.role = "assistant"
    BY <1>1, <1>4, <1>15 DEF FirstIsUser, t
  <2>4. cursor' > 0 \/ cursor' = NoCursor
    BY <1>1, <1>9 DEF FirstIsUser
  <2> QED BY <1>1, <1>16, <2>2, <2>3, <2>4 DEF FirstIsUser
<1>19. Files'
  BY DEF Files
<1>20. Late'
  <2>1. op'.kind = "add" => op.kind = "add" /\ mem' = mem
    BY <1>5, Idled
  <2> QED BY <1>1, <1>4, <2>1 DEF Late
<1> QED BY <1>3, <1>4, <1>9, <1>10, <1>11, <1>12, <1>13, <1>14, <1>17, <1>18, <1>19, <1>20

\* The six calls in one: each changes its file and nothing else.
Remaining(do, n) == IF do = "delete" THEN {m \in acked : m.seq >= n} ELSE acked

Stored(do, m, n) ==
  /\ op.todo # <<>> /\ Head(op.todo).do = do /\ Head(op.todo).m = m /\ Head(op.todo).n = n
  /\ meta' = (meta \/ do = "meta") /\ metaDone' = (metaDone \/ do = "meta")
  /\ parts' = IF do = "part" THEN Put(parts, m)
              ELSE IF do = "delete" THEN {p \in parts : p.seq >= n} ELSE parts
  /\ cursor' = IF do = "cursor" THEN nextSeq ELSE cursor
  /\ partials' = IF do = "partial" THEN Put(partials, m)
                 ELSE IF do = "clear" THEN {p \in partials : p.seq # n} ELSE partials
  /\ stream' = IF do = "partial" THEN m.id
               ELSE IF do = "clear" /\ Tail(op.todo) = <<>> /\ \E x \in op.ack : x.id = stream THEN 0 ELSE stream
  /\ Proceed(Remaining(do, n))
  /\ StoreMoved

\* Every call of the store is one of these.
LEMMA StoreIs ==
  ASSUME TypeOK, Store
  PROVE  Stored(Head(op.todo).do, Head(op.todo).m, Head(op.todo).n)
<1> DEFINE h == Head(op.todo)
<1>1. op.todo # <<>>
  BY DEF Store, StoreMeta, StorePart, StoreCursor, StorePartial, StoreClear, StoreDelete, Due
<1>2. Len(op.todo) = 1 <=> Tail(op.todo) = <<>>
  BY <1>1, TailFacts DEF TypeOK
<1>3. meta \in BOOLEAN /\ metaDone \in BOOLEAN
  BY DEF TypeOK
<1> DEFINE tail == Tail(op.todo) = <<>>
<1> HIDE DEF h, tail
<1>4. CASE StoreMeta
  <2>1. h.do = "meta" /\ meta' = TRUE /\ metaDone' = TRUE /\ Proceed(acked)
        /\ UNCHANGED <<parts, partials, cursor, stream, elsewhere>>
    BY <1>4 DEF StoreMeta, Due, h
  <2>2. h.do # "delete" /\ h.do # "part" /\ h.do # "cursor" /\ h.do # "partial" /\ h.do # "clear"
    BY <2>1
  <2> QED BY <1>1, <2>1, <2>2 DEF Stored, Remaining, StoreMoved, elsewhere, h
<1>5. CASE StorePart
  <2>1. h.do = "part" /\ parts' = Put(parts, h.m) /\ Proceed(acked)
        /\ UNCHANGED <<meta, metaDone, partials, cursor, stream, elsewhere>>
    BY <1>5 DEF StorePart, Due, h
  <2>2. h.do # "delete" /\ h.do # "meta" /\ h.do # "cursor" /\ h.do # "partial" /\ h.do # "clear"
    BY <2>1
  <2> QED BY <1>1, <1>3, <2>1, <2>2 DEF Stored, Remaining, StoreMoved, elsewhere, h
<1>6. CASE StoreCursor
  <2>1. h.do = "cursor" /\ cursor' = nextSeq /\ Proceed(acked)
        /\ UNCHANGED <<meta, metaDone, parts, partials, stream, elsewhere>>
    BY <1>6 DEF StoreCursor, Due, h
  <2>2. h.do # "delete" /\ h.do # "meta" /\ h.do # "part" /\ h.do # "partial" /\ h.do # "clear"
    BY <2>1
  <2> QED BY <1>1, <1>3, <2>1, <2>2 DEF Stored, Remaining, StoreMoved, elsewhere, h
<1>7. CASE StorePartial
  <2>1. h.do = "partial" /\ partials' = Put(partials, h.m) /\ stream' = h.m.id /\ Proceed(acked)
        /\ UNCHANGED <<meta, metaDone, parts, cursor, elsewhere>>
    BY <1>7 DEF StorePartial, Due, h
  <2>2. h.do # "delete" /\ h.do # "meta" /\ h.do # "part" /\ h.do # "cursor" /\ h.do # "clear"
    BY <2>1
  <2> QED BY <1>1, <1>3, <2>1, <2>2 DEF Stored, Remaining, StoreMoved, elsewhere, h
<1>8. CASE StoreClear
  <2>1. h.do = "clear" /\ partials' = {p \in partials : p.seq # h.n} /\ Proceed(acked)
        /\ UNCHANGED <<meta, metaDone, parts, cursor, elsewhere>>
    BY <1>8 DEF StoreClear, Due, h
  <2>2. h.do # "delete" /\ h.do # "meta" /\ h.do # "part" /\ h.do # "cursor" /\ h.do # "partial"
    BY <2>1
  <2>3. stream' = IF tail /\ \E x \in op.ack : x.id = stream THEN 0 ELSE stream
    BY <1>2, <1>8 DEF StoreClear, tail
  <2> QED BY <1>1, <1>3, <2>1, <2>2, <2>3 DEF Stored, Remaining, StoreMoved, elsewhere, h, tail
<1>9. CASE StoreDelete
  <2>1. h.do = "delete" /\ parts' = {p \in parts : p.seq >= h.n} /\ Proceed({m \in acked : m.seq >= h.n})
        /\ UNCHANGED <<meta, metaDone, partials, cursor, stream, elsewhere>>
    BY <1>9 DEF StoreDelete, Due, h
  <2>2. h.do # "clear" /\ h.do # "meta" /\ h.do # "part" /\ h.do # "cursor" /\ h.do # "partial"
    BY <2>1
  <2> QED BY <1>1, <1>3, <2>1, <2>2 DEF Stored, Remaining, StoreMoved, elsewhere, h
<1> QED BY <1>4, <1>5, <1>6, <1>7, <1>8, <1>9 DEF Store, h

\* It keeps what does not depend on which call it is.
LEMMA StoreMost ==
  ASSUME TypeOK, ConvInv, NEW do, NEW m, NEW n, Stored(do, m, n)
  PROVE  /\ TypeOK' /\ Shape' /\ Alone' /\ MetaFirst' /\ OneSeq' /\ FirstIsUser' /\ Files' /\ Late'
         /\ Up /\ Up' /\ op # NoOp /\ op.kind # "none" /\ nextSeq > 0
         /\ mem' \in {mem, op.mem} /\ op'.mem \in {op.mem, <<>>} /\ op'.kind \in {op.kind, "none"}
         /\ m \in Messages /\ n \in Nat /\ do \in {"meta", "part", "cursor", "partial", "clear", "delete"}
<1> DEFINE t == op.todo
           left == Remaining(do, n)
<1>1. t \in Seq(Calls) /\ t # <<>> /\ Head(t).do = do /\ Head(t).m = m /\ Head(t).n = n
  BY DEF TypeOK, Stored
<1>2. Head(t) \in Calls /\ (do = "part" => m \in Writes(t, "part")) /\ (do = "partial" => m \in Writes(t, "partial"))
  BY <1>1, TodoTail
<1>3. m \in Messages /\ n \in Nat /\ do \in {"meta", "part", "cursor", "partial", "clear", "delete"}
  BY <1>1, <1>2 DEF Calls
<1>4. OnePerSeq(parts) /\ OnePerSeq(partials) /\ parts \in SUBSET Messages /\ partials \in SUBSET Messages
  BY InvParts DEF Files, TypeOK
<1>5. parts' \subseteq parts \cup Writes(t, "part") /\ OnePerSeq(parts')
  <2>1. Put(parts, m) \subseteq parts \cup {m} /\ OnePerSeq(Put(parts, m))
    BY <1>3, <1>4, PutFiles
  <2>2. OnePerSeq({p \in parts : p.seq >= n})
    BY <1>4, FewerFiles
  <2> QED BY <1>2, <1>4, <2>1, <2>2 DEF Stored
<1>6. partials' \subseteq partials \cup Writes(t, "partial") /\ OnePerSeq(partials')
  <2>1. Put(partials, m) \subseteq partials \cup {m} /\ OnePerSeq(Put(partials, m))
    BY <1>3, <1>4, PutFiles
  <2>2. OnePerSeq({p \in partials : p.seq # n})
    BY <1>4, FewerFiles
  <2> QED BY <1>2, <1>4, <2>1, <2>2 DEF Stored
<1>7. op # NoOp
  BY <1>1, Idled
<1>8. meta' \in BOOLEAN /\ metaDone' \in BOOLEAN /\ meta' /\ (metaDone' => meta')
  <2>1. meta \/ do = "meta"
    BY <1>1, <1>7, InvParts DEF MetaFirst
  <2> QED BY <2>1 DEF Stored
<1>9. cursor' \in {cursor, nextSeq}
  BY DEF Stored
<1>10. stream' \in 0 .. MaxMessages
  BY <1>3, BoundsAssumption DEF Stored, TypeOK, Messages, Ids
<1>11. left \in SUBSET acked /\ Proceed(left) /\ StoreMoved
  BY DEF Stored, Remaining
<1> HIDE DEF t, left
<1>12. op.todo # <<>>
  BY <1>1 DEF t
<1> QED BY <1>3, <1>5, <1>6, <1>8, <1>9, <1>10, <1>11, <1>12, StoreCommon DEF t

\* What is left of the operation, in one place for the three lemmas below.
LEMMA StoreLeft ==
  ASSUME TypeOK, ConvInv, NEW do, NEW m, NEW n, Stored(do, m, n)
  PROVE  LET t == op.todo
             u == Tail(op.todo)
         IN  /\ op'.todo = u /\ ~Waiting(u, "delete") /\ (Waiting(t, "delete") <=> do = "delete")
             /\ \A d : Writes(t, d) = Writes(u, d) \cup (IF do = d THEN {m} ELSE {})
             /\ \A d : Waiting(t, d) <=> do = d \/ Waiting(u, d)
             /\ do \in {"cursor", "clear"} => \A d : d # "clear" => ~Waiting(u, d)
             /\ \A dos : Only(t, dos) => do \in dos
             /\ u = <<>> => (\A d : Writes(u, d) = {} /\ ~Waiting(u, d))
             /\ \/ /\ u = <<>> /\ op' = NoOp /\ mem' = op.mem /\ acked' = Remaining(do, n) \cup op.ack
                \/ /\ u # <<>> /\ op' # NoOp /\ mem' = mem /\ acked' = Remaining(do, n)
                   /\ op'.kind = op.kind /\ op'.mem = op.mem /\ op'.ack = op.ack
<1> DEFINE t == op.todo
           u == Tail(t)
<1>1. t \in Seq(Calls) /\ t # <<>> /\ Head(t).do = do /\ Head(t).m = m /\ Head(t).n = n
  BY DEF TypeOK, Stored
<1>2. InOrder(t)
  BY InvParts DEF Shape
<1>3. Proceed(Remaining(do, n))
  BY DEF Stored
<1>4. /\ op'.todo = u
      /\ \/ /\ u = <<>> /\ op' = NoOp /\ mem' = op.mem /\ acked' = Remaining(do, n) \cup op.ack
         \/ /\ u # <<>> /\ op' # NoOp /\ mem' = mem /\ acked' = Remaining(do, n)
            /\ op'.kind = op.kind /\ op'.mem = op.mem /\ op'.ack = op.ack
  BY <1>1, <1>3, Through
<1>5. /\ \A d : Writes(t, d) = Writes(u, d) \cup (IF do = d THEN {m} ELSE {})
      /\ \A d : Waiting(t, d) <=> do = d \/ Waiting(u, d)
      /\ \A dos : Only(t, dos) => do \in dos
      /\ ~Waiting(u, "delete")
      /\ do \in {"cursor", "clear"} => \A d : d # "clear" => ~Waiting(u, d)
  BY <1>1, <1>2, TodoTail
<1>6. Waiting(t, "delete") <=> do = "delete"
  BY <1>5
<1>7. u = <<>> => (\A d : Writes(u, d) = {} /\ ~Waiting(u, d))
  BY NoTodo
<1> HIDE DEF t, u
<1>8. u = Tail(op.todo) /\ t = op.todo
  BY DEF u, t
<1> QED BY <1>4, <1>5, <1>6, <1>7, <1>8

\* It keeps the order, what is acknowledged, and the checkpoint of the stream.
LEMMA StoreOrdered ==
  ASSUME TypeOK, ConvInv, NEW do, NEW m, NEW n, Stored(do, m, n)
  PROVE  Ordered'
<1> DEFINE t == op.todo
           u == Tail(op.todo)
<1>1. /\ op'.todo = u /\ \A d : Writes(t, d) = Writes(u, d) \cup (IF do = d THEN {m} ELSE {})
      /\ \A d : Waiting(t, d) <=> do = d \/ Waiting(u, d)
      /\ do \in {"cursor", "clear"} => \A d : d # "clear" => ~Waiting(u, d)
      /\ \A dos : Only(t, dos) => do \in dos
      /\ \/ u = <<>> /\ op' = NoOp /\ mem' = op.mem
         \/ /\ u # <<>> /\ op' # NoOp /\ mem' = mem
            /\ op'.kind = op.kind /\ op'.mem = op.mem /\ op'.ack = op.ack
  BY StoreLeft
<1>2. /\ TypeOK' /\ Files' /\ Up /\ Up' /\ op.kind # "none" /\ m \in Messages
      /\ mem' \in {mem, op.mem} /\ op'.mem \in {op.mem, <<>>} /\ op'.kind \in {op.kind, "none"}
  BY StoreMost
<1>3. Shape /\ Ordered /\ Acknowledged /\ Files
  BY InvParts
<1>4. nextSeq' = nextSeq /\ reused' = reused /\ nextSeq \in Nat
  BY DEF Stored, StoreMoved, TypeOK
<1>5. /\ cursor' = IF do = "cursor" THEN nextSeq ELSE cursor
      /\ parts' = IF do = "part" THEN Put(parts, m)
                  ELSE IF do = "delete" THEN {p \in parts : p.seq >= n} ELSE parts
  BY DEF Stored
<1>6. parts \in SUBSET Messages /\ parts' \in SUBSET Messages /\ OnePerSeq(parts) /\ OnePerSeq(parts')
  BY <1>2, <1>3 DEF TypeOK, Files
<1>7. NextOf(cursor, parts) \in Nat /\ NextOf(cursor', parts') \in Nat
  <2>1. cursor' \in Nat \/ cursor' = NoCursor
    BY <1>2 DEF TypeOK
  <2>2. NextOf(cursor', parts') \in Nat
    BY <1>6, <2>1, NextOfFacts DEF NoCursor
  <2> QED BY <1>3, <2>2, NextNat
<1>8. op.kind = "add" => op.ack = {Last(mem)} /\ op.mem = mem /\ do \in {"meta", "part", "cursor", "clear"} /\ Last(mem).seq + 1 = nextSeq
  BY <1>1, <1>3 DEF Shape
<1>9. do = "part" => m \in op.ack /\ m \in Range(op.mem)
  BY <1>1, <1>3 DEF Acknowledged
<1>10. \A p \in parts : p.seq \in Nat
  BY <1>6 DEF Messages
<1> HIDE DEF t, u
<1>11. (~reused \/ cursor = NoCursor) /\ do = "part" => m.seq < nextSeq
  BY <1>2, <1>3, <1>9 DEF Ordered, AllBelow, Range
<1>12. NextOf(cursor', parts') <= nextSeq
  <2>1. CASE do = "cursor"
    <3>1. NextOf(cursor', parts') = nextSeq
      <4>1. cursor' = nextSeq /\ cursor' # NoCursor
        BY <1>4, <1>5, <2>1 DEF NoCursor
      <4> QED BY <1>6, <4>1, NextOfFacts
    <3> QED BY <1>4, <3>1
  <2>2. CASE do # "cursor" /\ cursor # NoCursor
    <3>1. NextOf(cursor', parts') = cursor /\ NextOf(cursor, parts) = cursor
      BY <1>5, <1>6, <2>2, NextOfFacts
    <3> QED BY <1>2, <1>3, <3>1 DEF Ordered
  <2>3. CASE do # "cursor" /\ cursor = NoCursor
    <3>1. \A p \in parts : p.seq < nextSeq
      <4>1. \A p \in parts : p.seq < NextOf(cursor, parts)
        BY <1>6, <2>3, NextOfFacts
      <4> QED BY <1>2, <1>3, <1>4, <1>7, <1>10, <4>1 DEF Ordered
    <3>2. \A p \in parts' : p.seq < nextSeq
      <4>1. Put(parts, m) \subseteq parts \cup {m}
        BY DEF Put
      <4> QED BY <1>5, <1>11, <2>3, <3>1, <4>1
    <3>3. cursor' = NoCursor
      BY <1>5, <2>3
    <3> QED BY <1>4, <1>6, <3>2, <3>3, NextOfFacts
  <2> QED BY <2>1, <2>2, <2>3
<1>13. op'.kind = "add" /\ Waiting(op'.todo, "part") => NextOf(cursor', parts') < nextSeq \/ Last(mem') \in parts'
  <2>1. SUFFICES ASSUME op'.kind = "add", Waiting(op'.todo, "part")
                 PROVE NextOf(cursor', parts') < nextSeq \/ Last(mem') \in parts'
    OBVIOUS
  <2>2. op.kind = "add" /\ mem' = mem /\ Waiting(u, "part") /\ Waiting(t, "part") /\ do # "cursor"
    BY <1>1, <2>1, Idled
  <2>3. CASE do = "part"
    <3>1. m = Last(mem)
      BY <1>8, <1>9, <2>2, <2>3
    <3>2. m \in parts'
      BY <1>5, <2>3 DEF Put
    <3> QED BY <2>2, <3>1, <3>2
  <2>4. CASE do # "part"
    <3>1. parts' = parts /\ cursor' = cursor
      BY <1>5, <1>8, <2>2, <2>4
    <3> QED BY <1>2, <1>3, <2>2, <3>1 DEF Ordered, t
  <2> QED BY <2>3, <2>4
<1>14. AllBelow(<<>>, nextSeq) /\ Sorted(<<>>)
  BY DEF AllBelow, Sorted
<1>15. (~reused \/ cursor' = NoCursor) => AllBelow(mem', nextSeq) /\ AllBelow(op'.mem, nextSeq)
  <2>1. cursor' = NoCursor => cursor = NoCursor
    BY <1>4, <1>5 DEF NoCursor
  <2> QED BY <1>2, <1>3, <1>14, <2>1 DEF Ordered
<1>16. ~reused => Sorted(mem') /\ Sorted(op'.mem)
  BY <1>2, <1>3, <1>14 DEF Ordered
<1>17. ~reused => \A p \in parts' : p.seq < nextSeq
  <2>1. Put(parts, m) \subseteq parts \cup {m}
    BY DEF Put
  <2> QED BY <1>2, <1>3, <1>5, <1>11, <2>1 DEF Ordered
<1>18. ~reused /\ ~Waiting(op'.todo, "cursor") => \A p \in parts' : p.seq < NextOf(cursor', parts')
  <2>1. SUFFICES ASSUME ~reused, ~Waiting(op'.todo, "cursor") PROVE \A p \in parts' : p.seq < NextOf(cursor', parts')
    OBVIOUS
  <2>2. CASE do = "cursor"
    <3>1. cursor' = nextSeq /\ cursor' # NoCursor
      BY <1>4, <1>5, <2>2 DEF NoCursor
    <3>2. NextOf(cursor', parts') = nextSeq
      BY <1>6, <3>1, NextOfFacts
    <3> QED BY <1>17, <2>1, <3>2
  <2>3. CASE do # "cursor" /\ cursor = NoCursor
    <3>1. cursor' = NoCursor
      BY <1>5, <2>3
    <3> QED BY <1>6, <3>1, NextOfFacts
  <2>4. CASE do # "cursor" /\ cursor # NoCursor
    <3>1. ~Waiting(t, "cursor")
      BY <1>1, <2>1, <2>4
    <3>2. do # "part"
      <4>1. Waiting(t, "part") => Waiting(t, "cursor")
        BY <1>3 DEF Shape, t
      <4> QED BY <1>1, <3>1, <4>1
    <3>3. parts' \subseteq parts
      BY <1>5, <3>2
    <3>4. NextOf(cursor', parts') = NextOf(cursor, parts)
      BY <1>5, <1>6, <2>4, NextOfFacts
    <3> QED BY <1>2, <1>3, <2>1, <3>1, <3>3, <3>4 DEF Ordered, t
  <2> QED BY <2>2, <2>3, <2>4
<1> QED BY <1>4, <1>12, <1>13, <1>15, <1>16, <1>17, <1>18 DEF Ordered

\* The disk has what is acknowledged after the call as well.
LEMMA StoreAcked ==
  ASSUME TypeOK, ConvInv, NEW do, NEW m, NEW n, Stored(do, m, n)
  PROVE  Acknowledged' /\ AckedOnDisk'
<1> DEFINE t == op.todo
           u == Tail(op.todo)
<1>1. /\ op'.todo = u /\ ~Waiting(u, "delete") /\ (Waiting(t, "delete") <=> do = "delete")
      /\ \A d : Writes(t, d) = Writes(u, d) \cup (IF do = d THEN {m} ELSE {})
      /\ \A d : Waiting(t, d) <=> do = d \/ Waiting(u, d)
      /\ \A dos : Only(t, dos) => do \in dos
      /\ u = <<>> => (\A d : Writes(u, d) = {} /\ ~Waiting(u, d))
      /\ \/ /\ u = <<>> /\ op' = NoOp /\ mem' = op.mem /\ acked' = Remaining(do, n) \cup op.ack
         \/ /\ u # <<>> /\ op' # NoOp /\ mem' = mem /\ acked' = Remaining(do, n)
            /\ op'.kind = op.kind /\ op'.mem = op.mem /\ op'.ack = op.ack
  BY StoreLeft
<1>2. Up /\ Up' /\ op # NoOp /\ m \in Messages /\ n \in Nat /\ Head(t).n = n
  BY StoreMost DEF Stored
<1>3. Shape /\ Ordered /\ Acknowledged /\ AckedOnDisk
  BY InvParts
<1>4. nextSeq' = nextSeq /\ reused' = reused
  BY DEF Stored, StoreMoved
<1>5. parts' = IF do = "part" THEN Put(parts, m)
               ELSE IF do = "delete" THEN {p \in parts : p.seq >= n} ELSE parts
  BY DEF Stored
<1>6. op.mem \in Seq(Messages) /\ acked \subseteq Messages /\ parts \subseteq Messages /\ op.ack \subseteq Messages
  BY DEF TypeOK
<1>7. do = "part" => m \in op.ack
  BY <1>1, <1>3 DEF Acknowledged
<1>8. op.ack \subseteq Range(op.mem) /\ Writes(t, "part") \subseteq op.ack
  BY <1>3 DEF Acknowledged
<1> HIDE DEF t, u
<1>9. Writes(op'.todo, "part") \subseteq op'.ack /\ op'.ack \subseteq Range(op'.mem)
  <2>1. Writes(u, "part") \subseteq Writes(t, "part")
    BY <1>1
  <2> QED BY <1>1, <1>8, <2>1, Idled
<1>10. op'.kind = "add" => Waiting(op'.todo, "part") \/ Last(mem') \in parts'
  <2>1. SUFFICES ASSUME op'.kind = "add" PROVE Waiting(op'.todo, "part") \/ Last(mem') \in parts'
    OBVIOUS
  <2>2. op.kind = "add" /\ mem' = mem
    BY <1>1, <2>1, Idled
  <2>3. do \in {"meta", "part", "cursor", "clear"} /\ op.ack = {Last(mem)}
    BY <1>1, <1>3, <2>2 DEF Shape, t
  <2>4. CASE do = "part"
    BY <1>5, <1>7, <2>2, <2>3, <2>4 DEF Put
  <2>5. CASE do # "part"
    <3>1. parts' = parts
      BY <1>5, <2>3, <2>5
    <3>2. Waiting(t, "part") => Waiting(u, "part")
      BY <1>1, <2>5
    <3> QED BY <1>1, <1>3, <2>2, <3>1, <3>2 DEF Acknowledged, t
  <2> QED BY <2>4, <2>5
<1>11. ASSUME ~reused, NEW a \in Remaining(do, n)
       PROVE  /\ a \in acked /\ a \in Range(mem) /\ a \in Range(op.mem)
              /\ \A x \in Writes(t, "part") : a.seq # x.seq
              /\ a \in parts'
  <2>1. a \in acked /\ (do = "delete" => a.seq >= n)
    BY <1>11 DEF Remaining
  <2>2. a.seq \in Nat
    BY <1>6, <2>1 DEF Messages
  <2>3. ~Deleted(t, a)
    BY <1>1, <1>2, <2>1, <2>2 DEF Deleted
  <2>4. a \in Range(mem) /\ a \in Range(op.mem) /\ \A x \in Writes(t, "part") : a.seq # x.seq
    BY <1>2, <1>3, <1>11, <2>1, <2>3 DEF Acknowledged, t
  <2>5. a \in parts
    BY <1>3, <1>11, <2>1 DEF AckedOnDisk
  <2>6. do = "part" => a.seq # m.seq
    <3>1. do = "part" => m \in Writes(t, "part")
      BY <1>1
    <3> QED BY <2>4, <3>1
  <2>7. a \in parts'
    BY <1>5, <2>1, <2>5, <2>6 DEF Put
  <2> QED BY <2>1, <2>4, <2>7
<1>12. ASSUME ~reused, NEW x \in op.ack
       PROVE  x \in Writes(u, "part") \/ x \in parts'
  <2>1. x \in Writes(t, "part") \/ (x \in parts /\ ~Waiting(t, "delete"))
    BY <1>2, <1>3, <1>12 DEF Acknowledged, t
  <2>2. CASE x \in Writes(t, "part") /\ x \notin Writes(u, "part")
    <3>1. do = "part" /\ x = m
      BY <1>1, <2>2
    <3> QED BY <1>5, <3>1 DEF Put
  <2>3. CASE x \in parts /\ ~Waiting(t, "delete")
    <3>1. do # "delete"
      BY <1>1, <2>3
    <3>2. CASE do = "part"
      <4>1. m \in Range(op.mem) /\ x \in Range(op.mem)
        BY <1>7, <1>8, <1>12, <3>2
      <4>2. Sorted(op.mem)
        BY <1>2, <1>3, <1>12 DEF Ordered
      <4>3. x.seq = m.seq => x = m
        BY <1>6, <4>1, <4>2, SortedOnce
      <4> QED BY <1>5, <2>3, <3>2, <4>3 DEF Put
    <3>3. CASE do # "part"
      BY <1>5, <2>3, <3>1, <3>3
    <3> QED BY <3>2, <3>3
  <2> QED BY <2>1, <2>2, <2>3
<1>13. ~reused => acked' \subseteq Range(mem')
  BY <1>1, <1>8, <1>11
<1>14. ~reused => \A x \in op'.ack : x \in Writes(op'.todo, "part") \/ (x \in parts' /\ ~Waiting(op'.todo, "delete"))
  BY <1>1, <1>12, Idled
<1>15. ~reused => \A a \in acked' : /\ a \in Range(op'.mem) \/ op' = NoOp \/ Deleted(op'.todo, a)
                                    /\ \A x \in Writes(op'.todo, "part") : a.seq = x.seq => Deleted(op'.todo, a)
  <2>1. CASE u = <<>>
    BY <1>1, <2>1
  <2>2. CASE u # <<>>
    <3>1. op'.mem = op.mem /\ acked' = Remaining(do, n)
      BY <1>1, <2>2
    <3>2. Writes(op'.todo, "part") \subseteq Writes(t, "part")
      BY <1>1
    <3> QED BY <1>11, <3>1, <3>2
  <2> QED BY <2>1, <2>2
<1>16. AckedOnDisk'
  <2>1. SUFFICES ASSUME ~reused PROVE acked' \subseteq parts'
    BY <1>4 DEF AckedOnDisk
  <2>2. CASE u = <<>>
    <3>1. \A x \in op.ack : x \in parts'
      BY <1>1, <1>12, <2>1, <2>2
    <3> QED BY <1>1, <1>11, <2>1, <2>2, <3>1
  <2>3. CASE u # <<>>
    BY <1>1, <1>11, <2>1, <2>3
  <2> QED BY <2>2, <2>3
<1> QED BY <1>4, <1>9, <1>10, <1>13, <1>14, <1>15, <1>16 DEF Acknowledged

\* The checkpoint is cleared only when the message is on disk.
LEMMA StoreStreamed ==
  ASSUME TypeOK, ConvInv, NEW do, NEW m, NEW n, Stored(do, m, n)
  PROVE  Streamed'
<1> DEFINE t == op.todo
           u == Tail(op.todo)
<1>1. /\ op'.todo = u /\ \A d : Writes(t, d) = Writes(u, d) \cup (IF do = d THEN {m} ELSE {})
      /\ \A d : Waiting(t, d) <=> do = d \/ Waiting(u, d)
      /\ do \in {"cursor", "clear"} => \A d : d # "clear" => ~Waiting(u, d)
      /\ \A dos : Only(t, dos) => do \in dos
      /\ u = <<>> => (\A d : Writes(u, d) = {} /\ ~Waiting(u, d))
      /\ \/ u = <<>> /\ op' = NoOp /\ mem' = op.mem
         \/ /\ u # <<>> /\ op' # NoOp /\ mem' = mem
            /\ op'.kind = op.kind /\ op'.mem = op.mem /\ op'.ack = op.ack
  BY StoreLeft
<1>2. Up /\ op.kind # "none" /\ op.kind \in {"none", "add", "checkpoint", "summary", "structure"}
  BY StoreMost DEF TypeOK
<1>3. Shape /\ Streamed
  BY InvParts
<1>4. nextSeq' = nextSeq /\ turn' = turn /\ issued' = issued
  BY DEF Stored, StoreMoved
<1>5. /\ partials' = IF do = "partial" THEN Put(partials, m)
                     ELSE IF do = "clear" THEN {p \in partials : p.seq # n} ELSE partials
      /\ stream' = IF do = "partial" THEN m.id
                   ELSE IF do = "clear" /\ u = <<>> /\ \E x \in op.ack : x.id = stream THEN 0 ELSE stream
  BY DEF Stored
<1>6. op.kind = "add" => op.ack = {Last(mem)} /\ do \in {"meta", "part", "cursor", "clear"} /\ Waiting(t, "clear")
  BY <1>1, <1>3 DEF Shape
<1>7. op.kind = "checkpoint" => do \in {"meta", "partial"}
  BY <1>1, <1>3 DEF Shape
<1>8. op.kind \in {"summary", "structure"} => do \in {"delete", "part", "cursor"} /\ turn.at = "idle"
  BY <1>1, <1>3 DEF Shape
<1>9. turn.at = "stream" => op.kind = "checkpoint"
  BY <1>2, <1>3 DEF Shape
<1>10. do = "partial" => turn.at = "stream" /\ m = StreamMessage(turn.out)
  <2>1. SUFFICES ASSUME do = "partial" PROVE turn.at = "stream" /\ m = StreamMessage(turn.out)
    OBVIOUS
  <2>2. op.kind = "checkpoint"
    BY <1>2, <1>6, <1>8, <2>1
  <2>3. m \in Writes(t, "partial")
    BY <1>1, <2>1
  <2> QED BY <1>3, <2>2, <2>3 DEF Shape
<1> HIDE DEF t, u
<1>11. SUFFICES ASSUME stream' # 0
                PROVE  \/ /\ turn.at = "stream" /\ stream' = issued
                          /\ \E p \in partials' : p.id = stream' /\ p.seq = nextSeq
                       \/ /\ op'.kind = "add" /\ Last(mem').id = stream'
                          /\ Waiting(op'.todo, "part") => \E p \in partials' : p.id = stream' /\ p.seq + 1 = nextSeq
  BY <1>4 DEF Streamed
<1>12. CASE do = "partial"
  <2>1. m.id = issued /\ m.seq = nextSeq /\ turn.at = "stream"
    BY <1>10, <1>12 DEF StreamMessage, Message
  <2>2. m \in partials' /\ stream' = m.id
    BY <1>5, <1>12 DEF Put
  <2> QED BY <2>1, <2>2
<1>13. CASE do # "partial"
  <2>1. stream' = stream /\ stream # 0
    BY <1>5, <1>11, <1>13
  <2>2. CASE turn.at = "stream" /\ stream = issued /\ \E p \in partials : p.id = stream /\ p.seq = nextSeq
    <3>1. partials' = partials
      BY <1>5, <1>7, <1>9, <1>13, <2>2
    <3> QED BY <2>1, <2>2, <3>1
  <2>3. CASE /\ op.kind = "add" /\ Last(mem).id = stream
             /\ Waiting(op.todo, "part") => \E p \in partials : p.id = stream /\ p.seq + 1 = nextSeq
    <3>1. u # <<>>
      <4>1. SUFFICES ASSUME u = <<>> PROVE FALSE
        OBVIOUS
      <4>2. do = "clear"
        BY <1>1, <1>6, <2>3, <4>1
      <4>3. \E x \in op.ack : x.id = stream
        BY <1>6, <2>3
      <4> QED BY <1>5, <1>11, <4>1, <4>2, <4>3
    <3>2. op'.kind = "add" /\ mem' = mem
      BY <1>1, <2>3, <3>1
    <3>3. Waiting(u, "part") => partials' = partials /\ Waiting(t, "part")
      BY <1>1, <1>5, <1>13
    <3> QED BY <1>1, <2>1, <2>3, <3>2, <3>3 DEF t
  <2> QED BY <1>2, <1>3, <2>1, <2>2, <2>3 DEF Streamed
<1> QED BY <1>12, <1>13

\* A call of the store.
LEMMA StoreStep == TypeOK /\ ConvInv /\ Store => TypeOK' /\ ConvInv'
<1>1. SUFFICES ASSUME TypeOK, ConvInv, Store PROVE TypeOK' /\ ConvInv'
  OBVIOUS
<1> DEFINE do == Head(op.todo).do
           m == Head(op.todo).m
           n == Head(op.todo).n
<1>2. Stored(do, m, n)
  BY <1>1, StoreIs
<1> HIDE DEF do, m, n
<1>3. TypeOK' /\ Shape' /\ Alone' /\ MetaFirst' /\ OneSeq' /\ FirstIsUser' /\ Files' /\ Late' /\ Up'
  BY <1>1, <1>2, StoreMost
<1>4. Ordered' /\ Acknowledged' /\ AckedOnDisk' /\ Streamed'
  BY <1>1, <1>2, StoreOrdered, StoreAcked, StoreStreamed
<1>5. StreamSurvives'
  BY <1>3, <1>4, Survives, PTL
<1> QED BY <1>3, <1>4, <1>5 DEF ConvInv
-----------------------------------------------------------------------------
\* The thread of a cancelled checkpoint, and a crash.
LEMMA StoreLateStep == TypeOK /\ ConvInv /\ StoreLate => TypeOK' /\ ConvInv'
<1>1. SUFFICES ASSUME TypeOK, ConvInv, NEW p \in late, partials' = Put(partials, p), late' = late \ {p},
                      UNCHANGED <<memory, meta, parts, cursor, op, turn, issued, acked, stream, reused, crashes>>
               PROVE  TypeOK' /\ ConvInv'
  BY DEF StoreLate
<1>2. /\ mem' = mem /\ nextSeq' = nextSeq /\ metaDone' = metaDone /\ op' = op /\ turn' = turn
      /\ meta' = meta /\ parts' = parts /\ cursor' = cursor /\ issued' = issued
      /\ acked' = acked /\ stream' = stream /\ reused' = reused /\ crashes' = crashes
  BY <1>1 DEF memory
<1>3. p \in Messages /\ partials \in SUBSET Messages /\ OnePerSeq(partials)
  BY <1>1, InvParts DEF TypeOK, Files
<1>4. /\ OnePerSeq(partials') /\ partials' \subseteq partials \cup {p} /\ p \in partials'
      /\ \A x \in partials : x.seq # p.seq => x \in partials'
  BY <1>1, <1>3, PutFiles
<1>5. Up /\ (Up <=> Up')
  BY <1>1, <1>2, InvParts DEF Up, Alone
<1>6. StreamMessage(turn.out)' = StreamMessage(turn.out)
  BY <1>2 DEF StreamMessage
<1>7. TypeOK'
  BY <1>1, <1>2, <1>3, <1>4 DEF TypeOK
<1>8. Shape'
  BY <1>1, <1>2, <1>6, InvParts DEF Shape
<1>9. Alone' /\ MetaFirst'
  BY <1>1, <1>2, <1>4, InvParts DEF Alone, MetaFirst
<1>10. Known' \subseteq Known
  BY <1>1, <1>2, <1>4 DEF Known
<1>11. OneSeq'
  BY <1>1, <1>2, <1>10, InvParts DEF OneSeq
<1>12. FirstIsUser'
  BY <1>1, <1>2, <1>4, <1>10, InvParts DEF FirstIsUser
<1>13. Files' /\ Ordered' /\ Acknowledged' /\ AckedOnDisk'
  BY <1>1, <1>2, <1>4, <1>5, InvParts DEF Files, Ordered, Acknowledged, AckedOnDisk
<1>14. Late'
  BY <1>1, <1>2, InvParts DEF Late
<1>15. Streamed'
  <2>1. SUFFICES ASSUME stream # 0
                 PROVE  \/ /\ turn.at = "stream" /\ stream = issued
                           /\ \E x \in partials' : x.id = stream /\ x.seq = nextSeq
                        \/ /\ op.kind = "add" /\ Last(mem).id = stream
                           /\ Waiting(op.todo, "part") => \E x \in partials' : x.id = stream /\ x.seq + 1 = nextSeq
    BY <1>2 DEF Streamed
  <2>2. p.seq < nextSeq /\ p.seq \in Nat /\ nextSeq \in Nat /\ (op.kind = "add" /\ p.seq + 1 = nextSeq => p.id = Last(mem).id)
    BY <1>1, <1>3, InvParts DEF Late, TypeOK, Messages
  <2>3. CASE turn.at = "stream" /\ stream = issued /\ \E x \in partials : x.id = stream /\ x.seq = nextSeq
    BY <1>4, <2>2, <2>3
  <2>4. CASE /\ op.kind = "add" /\ Last(mem).id = stream
             /\ Waiting(op.todo, "part") => \E x \in partials : x.id = stream /\ x.seq + 1 = nextSeq
    <3>1. SUFFICES ASSUME Waiting(op.todo, "part") PROVE \E x \in partials' : x.id = stream /\ x.seq + 1 = nextSeq
      BY <2>4
    <3>2. PICK x \in partials : x.id = stream /\ x.seq + 1 = nextSeq
      BY <2>4, <3>1
    <3>3. CASE x.seq = p.seq
      BY <1>4, <2>2, <2>4, <3>2, <3>3
    <3>4. CASE x.seq # p.seq
      BY <1>4, <3>2, <3>4
    <3> QED BY <3>3, <3>4
  <2> QED BY <1>1, <1>5, <2>1, <2>3, <2>4, InvParts DEF Streamed
<1>16. StreamSurvives'
  BY <1>5, <1>7, <1>13, <1>15, Survives, PTL
<1> QED BY <1>7, <1>8, <1>9, <1>11, <1>12, <1>13, <1>14, <1>15, <1>16 DEF ConvInv

\* A crash.
LEMMA CrashStep == TypeOK /\ ConvInv /\ Crash => TypeOK' /\ ConvInv'
<1>1. SUFFICES ASSUME TypeOK, ConvInv, Crash PROVE TypeOK' /\ ConvInv'
  OBVIOUS
<1>2. /\ mem' = <<>> /\ nextSeq' = 0 /\ metaDone' = FALSE /\ op' = NoOp /\ turn' = Down /\ late' = {}
      /\ meta' = meta /\ parts' = parts /\ partials' = partials /\ cursor' = cursor /\ issued' = issued
      /\ acked' = acked /\ stream' = stream /\ reused' = reused /\ crashes' = crashes + 1 /\ crashes < MaxCrashes
  BY <1>1 DEF Crash, disk
<1>3. turn' \in TurnTypes /\ turn'.at = "down" /\ turn'.due = <<>> /\ ~Up'
  BY <1>2, BoundsAssumption DEF Down, TurnTypes, Up
<1>4. NoOp \in OpTypes
  BY DEF OpTypes, NoOp, Op
<1>5. TypeOK'
  <2>1. crashes' \in 0 .. MaxCrashes
    BY <1>1, <1>2, BoundsAssumption DEF TypeOK
  <2>2. mem' \in Seq(Messages) /\ nextSeq' \in Nat /\ metaDone' \in BOOLEAN /\ late' \subseteq Messages
    <3>1. <<>> \in Seq(Messages) /\ 0 \in Nat
      OBVIOUS
    <3>2. metaDone' \in BOOLEAN
      BY <1>2
    <3>3. late' \subseteq Messages
      BY <1>2
    <3> QED BY <1>2, <3>1, <3>2, <3>3
  <2>3. op' \in OpTypes
    BY <1>2, <1>4
  <2>4. /\ meta' \in BOOLEAN /\ cursor' \in Nat \cup {NoCursor} /\ parts' \subseteq Messages
        /\ partials' \subseteq Messages /\ acked' \subseteq Messages /\ issued' \in 0 .. MaxMessages
        /\ stream' \in 0 .. MaxMessages /\ reused' \in BOOLEAN
    BY <1>1, <1>2 DEF TypeOK
  <2> QED BY <1>3, <2>1, <2>2, <2>3, <2>4 DEF TypeOK, TurnTypes, OpTypes
<1>6. Shape'
  BY <1>2, Idled, NoTodo DEF Shape
<1>7. Alone' /\ MetaFirst'
  BY <1>1, <1>2, <1>3, InvParts DEF Alone, MetaFirst
<1>8. Known' \subseteq Known
  <2>1. Range(<<>>) = {}
    BY DEF Range
  <2> QED BY <1>2, <2>1, Idled, NoTodo DEF Known
<1>9. OneSeq'
  BY <1>1, <1>2, <1>3, <1>8, InvParts DEF OneSeq
<1>10. FirstIsUser'
  <2>1. FirstLowest(<<>>)
    BY DEF FirstLowest
  <2> QED BY <1>1, <1>2, <1>8, <2>1, Idled, NoTodo, InvParts DEF FirstIsUser
<1>11. Files' /\ AckedOnDisk'
  BY <1>1, <1>2, InvParts DEF Files, AckedOnDisk
<1>12. Ordered' /\ Streamed' /\ Late'
  BY <1>2, <1>3 DEF Ordered, Streamed, Late
<1>13. Acknowledged'
  BY <1>2, <1>3, Idled, NoTodo DEF Acknowledged
<1>14. StreamSurvives'
  BY <1>1, <1>2, InvParts DEF StreamSurvives, Meaningful, NextSeqOnDisk
<1> QED BY <1>5, <1>6, <1>7, <1>9, <1>10, <1>11, <1>12, <1>13, <1>14 DEF ConvInv
-----------------------------------------------------------------------------
\* The restart.
LEMMA BySeqFacts ==
  ASSUME NEW F \in SUBSET Messages, OnePerSeq(F)
  PROVE  /\ BySeq(F) \in Seq(Messages) /\ Sorted(BySeq(F)) /\ Range(BySeq(F)) = F
         /\ \A i \in 1 .. Len(BySeq(F)) : BySeq(F)[i] \in F
         /\ BySeq(F) = <<>> <=> F = {}
<1> DEFINE s == BySeq(F)
<1>1. s \in Seq(F) /\ Sorted(s) /\ Range(s) = F
  BY Sorting DEF OnePerSeq
<1> HIDE DEF s
<1>2. s \in Seq(Messages) /\ \A i \in 1 .. Len(s) : s[i] \in F
  BY <1>1
<1>3. s = <<>> <=> F = {}
  BY <1>1, RangeType
<1> QED BY <1>1, <1>2, <1>3 DEF s

\* Two lists one after the other.
LEMMA ConcatFacts ==
  ASSUME NEW s \in Seq(Messages), NEW t \in Seq(Messages)
  PROVE  /\ s \o t \in Seq(Messages) /\ Range(s \o t) = Range(s) \cup Range(t)
         /\ \A n : AllBelow(s, n) /\ AllBelow(t, n) => AllBelow(s \o t, n)
         /\ Sorted(s) /\ Sorted(t) /\ (\A x \in Range(s), y \in Range(t) : x.seq < y.seq) => Sorted(s \o t)
         /\ FirstLowest(s) /\ (\A y \in Range(t) : y.seq > 0) => FirstLowest(s \o t)
<1> DEFINE r == s \o t
           n == Len(s)
           k == Len(t)
<1>1. n \in Nat /\ k \in Nat /\ DOMAIN s = 1 .. n /\ DOMAIN t = 1 .. k
  OBVIOUS
<1>2. r \in Seq(Messages) /\ Len(r) = n + k /\ \A i \in 1 .. n + k : r[i] = IF i <= n THEN s[i] ELSE t[i - n]
  BY ConcatProperties
<1>3. DOMAIN r = 1 .. n + k
  BY <1>2
<1>4. Range(r) = Range(s) \cup Range(t)
  BY RangeConcat
<1> HIDE DEF r, n, k
<1>5. ASSUME NEW i \in 1 .. n + k
      PROVE  \/ i \in 1 .. n /\ r[i] = s[i] /\ s[i] \in Range(s)
             \/ i > n /\ i - n \in 1 .. k /\ r[i] = t[i - n] /\ t[i - n] \in Range(t)
  <2>1. CASE i <= n
    <3>1. i \in 1 .. n
      BY <1>1, <2>1
    <3> QED BY <1>1, <1>2, <2>1, <3>1 DEF Range
  <2>2. CASE ~(i <= n)
    <3>1. i - n \in 1 .. k /\ i > n
      BY <1>1, <2>2
    <3> QED BY <1>1, <1>2, <2>2, <3>1 DEF Range
  <2> QED BY <2>1, <2>2
<1>6. ASSUME NEW N, AllBelow(s, N), AllBelow(t, N) PROVE AllBelow(r, N)
  BY <1>1, <1>3, <1>5, <1>6 DEF AllBelow
<1>7. ASSUME Sorted(s), Sorted(t), \A x \in Range(s), y \in Range(t) : x.seq < y.seq PROVE Sorted(r)
  <2>1. ASSUME NEW i \in 1 .. n + k, NEW j \in 1 .. n + k, i < j PROVE r[i].seq < r[j].seq
    <3>1. CASE i \in 1 .. n /\ r[i] = s[i] /\ s[i] \in Range(s)
      <4>1. CASE j \in 1 .. n /\ r[j] = s[j] /\ s[j] \in Range(s)
        BY <1>1, <1>7, <2>1, <3>1, <4>1 DEF Sorted
      <4>2. CASE j > n /\ j - n \in 1 .. k /\ r[j] = t[j - n] /\ t[j - n] \in Range(t)
        BY <1>7, <3>1, <4>2
      <4> QED BY <1>5, <4>1, <4>2
    <3>2. CASE i > n /\ i - n \in 1 .. k /\ r[i] = t[i - n] /\ t[i - n] \in Range(t)
      <4>1. j > n /\ j - n \in 1 .. k /\ r[j] = t[j - n] /\ i - n < j - n
        BY <1>1, <1>5, <2>1, <3>2
      <4> QED BY <1>1, <1>7, <3>2, <4>1 DEF Sorted
    <3> QED BY <1>5, <3>1, <3>2
  <2> QED BY <1>3, <2>1 DEF Sorted
<1>8. ASSUME FirstLowest(s), \A y \in Range(t) : y.seq > 0 PROVE FirstLowest(r)
  BY <1>1, <1>3, <1>5, <1>8 DEF FirstLowest
<1> QED BY <1>2, <1>4, <1>6, <1>7, <1>8 DEF r

\* What a restart reads: every message in the order of their seqs, the parts
\* before the partials that still count.
LEMMA RestoredFacts ==
  ASSUME TypeOK, Files
  PROVE  LET N == NextOf(cursor, parts)
             M == {p \in partials : p.seq >= N}
         IN  /\ N \in Nat /\ NextSeqOnDisk = N /\ M = {p \in partials : Meaningful(p)}
             /\ RestoredMessages = BySeq(parts) \o BySeq(M) /\ RestoredMessages \in Seq(Messages)
             /\ Range(RestoredMessages) = parts \cup M /\ M \in SUBSET Messages /\ OnePerSeq(M)
             /\ (\A p \in parts : p.seq < N) => Sorted(RestoredMessages)
<1> DEFINE N == NextOf(cursor, parts)
           M == {p \in partials : p.seq >= N}
<1>1. N \in Nat /\ NextSeqOnDisk = N
  BY NextNat, NextIs
<1>2. M = {p \in partials : Meaningful(p)}
  BY <1>1 DEF Meaningful
<1>3. M \in SUBSET Messages /\ parts \in SUBSET Messages /\ OnePerSeq(parts) /\ OnePerSeq(M)
  BY FewerFiles DEF TypeOK, Files
<1>4. RestoredMessages = BySeq(parts) \o BySeq(M)
  BY <1>2 DEF RestoredMessages
<1>5. \A p \in M : p.seq >= N /\ p.seq \in Nat
  BY DEF TypeOK, Messages
<1>6. \A p \in parts : p.seq \in Nat
  BY DEF TypeOK, Messages
<1>7. N = NextOf(cursor, parts) /\ M = {p \in partials : p.seq >= NextOf(cursor, parts)}
  OBVIOUS
<1> HIDE DEF M, N
<1>8. /\ BySeq(parts) \in Seq(Messages) /\ Sorted(BySeq(parts)) /\ Range(BySeq(parts)) = parts
      /\ BySeq(M) \in Seq(Messages) /\ Sorted(BySeq(M)) /\ Range(BySeq(M)) = M
  BY <1>3, BySeqFacts
<1>9. (\A p \in parts : p.seq < N) => \A p \in parts, q \in M : p.seq < q.seq
  BY <1>1, <1>5, <1>6
<1>10. RestoredMessages \in Seq(Messages) /\ Range(RestoredMessages) = parts \cup M
  BY <1>4, <1>8, ConcatFacts
<1>11. (\A p \in parts : p.seq < N) => Sorted(RestoredMessages)
  <2>1. SUFFICES ASSUME \A p \in parts : p.seq < N PROVE Sorted(RestoredMessages)
    OBVIOUS
  <2>2. \A x \in Range(BySeq(parts)), y \in Range(BySeq(M)) : x.seq < y.seq
    BY <1>8, <1>9, <2>1
  <2> QED BY <1>4, <1>8, <2>2, ConcatFacts
<1> QED BY <1>1, <1>2, <1>3, <1>4, <1>7, <1>10, <1>11

\* A restart.
LEMMA RestoreStep == TypeOK /\ ConvInv /\ Restore => TypeOK' /\ ConvInv'
<1>1. SUFFICES ASSUME TypeOK, ConvInv, Restore PROVE TypeOK' /\ ConvInv'
  OBVIOUS
<1> DEFINE N == NextOf(cursor, parts)
           M == {p \in partials : p.seq >= N}
           back == RestoredMessages
<1>2. Files /\ Alone /\ MetaFirst /\ OneSeq /\ FirstIsUser /\ AckedOnDisk
  BY <1>1, InvParts
<1>3. /\ N \in Nat /\ NextSeqOnDisk = N /\ M = {p \in partials : Meaningful(p)}
      /\ back = BySeq(parts) \o BySeq(M) /\ back \in Seq(Messages)
      /\ Range(back) = parts \cup M /\ M \in SUBSET Messages /\ OnePerSeq(M)
      /\ (\A p \in parts : p.seq < N) => Sorted(back)
  BY <1>1, <1>2, RestoredFacts
<1>4. /\ turn.at = "down" /\ turn' = Idle /\ metaDone' = metaDone /\ op' = op /\ late' = late /\ issued' = issued
      /\ acked' = acked /\ crashes' = crashes /\ stream' = 0
      /\ reused' = (reused \/ \E p \in parts : p.seq >= N)
  BY <1>1, <1>3 DEF Restore
<1>5. op = NoOp /\ late = {} /\ ~metaDone
  BY <1>2, <1>4 DEF Alone
<1>6. turn' \in TurnTypes /\ turn'.at = "idle" /\ turn'.due = <<>> /\ Up'
  BY <1>4, BoundsAssumption DEF Idle, TurnTypes, Up
<1>7. parts \in SUBSET Messages /\ OnePerSeq(parts) /\ OnePerSeq(partials) /\ partials \subseteq Messages
  BY <1>1, <1>2 DEF TypeOK, Files
<1>8. /\ op' \in OpTypes /\ metaDone' \in BOOLEAN /\ late' \subseteq Messages /\ issued' \in 0 .. MaxMessages
      /\ acked' \subseteq Messages /\ crashes' \in 0 .. MaxCrashes /\ stream' \in 0 .. MaxMessages /\ reused' \in BOOLEAN
  BY <1>1, <1>4, BoundsAssumption DEF TypeOK, OpTypes
<1>9. Shape' /\ Late' /\ Streamed'
  BY <1>4, <1>5, <1>6, Idled, NoTodo DEF Shape, Late, Streamed
<1>10. op'.mem = <<>> /\ op'.ack = {} /\ op'.todo = <<>> /\ op' = NoOp /\ op'.kind = "none"
  BY <1>4, <1>5, Idled
<1>11. /\ Range(<<>>) = {} /\ FirstLowest(<<>>) /\ Sorted(<<>>) /\ \A n : AllBelow(<<>>, n)
  BY DEF Range, FirstLowest, Sorted, AllBelow
<1> HIDE DEF N, M, back
<1>12. CASE meta /\ back # <<>>
  <2>1. /\ mem' = back /\ partials' = M /\ meta' = meta /\ parts' = parts /\ cursor' = cursor
        /\ nextSeq' = IF M = {} THEN N ELSE Last(BySeq(M)).seq + 1
    BY <1>1, <1>3, <1>12 DEF Restore, back
  <2>2. M # {} => Last(BySeq(M)) \in M /\ \A p \in M : p.seq <= Last(BySeq(M)).seq
    BY <1>3, LastFile
  <2>3. \A p \in M : p.seq \in Nat /\ p.seq >= N /\ p \in partials
    BY <1>3 DEF Messages, M
  <2>4. \A p \in parts : p.seq \in Nat
    BY <1>7 DEF Messages
  <2>5. nextSeq' \in Nat /\ N <= nextSeq' /\ \A p \in M : p.seq < nextSeq'
    <3>1. CASE M = {}
      BY <1>3, <2>1, <3>1
    <3>2. CASE M # {}
      <4> DEFINE l == Last(BySeq(M))
      <4>1. l \in M /\ (\A p \in M : p.seq <= l.seq) /\ nextSeq' = l.seq + 1
        BY <2>1, <2>2, <3>2
      <4> HIDE DEF l
      <4> QED BY <1>3, <2>3, <4>1
    <3> QED BY <3>1, <3>2
  <2>6. TypeOK'
    <3>1. mem' \in Seq(Messages) /\ parts' \subseteq Messages /\ partials' \subseteq Messages
      BY <1>3, <1>7, <2>1
    <3>2. meta' \in BOOLEAN /\ cursor' \in Nat \cup {NoCursor}
      BY <1>1, <2>1 DEF TypeOK
    <3> QED BY <1>6, <1>8, <2>5, <3>1, <3>2 DEF TypeOK, OpTypes, TurnTypes
  <2>7. cursor = NoCursor \/ cursor > 0
    BY <1>2 DEF FirstIsUser
  <2>8. nextSeq' > 0
    <3>1. CASE cursor # NoCursor
      <4>1. N = cursor
        BY <1>7, <3>1, NextOfFacts DEF N
      <4> QED BY <1>3, <2>5, <2>7, <3>1, <4>1
    <3>2. CASE cursor = NoCursor /\ parts # {}
      <4>1. N > 0
        BY <1>7, <3>2, NextOfFacts DEF N
      <4> QED BY <1>3, <2>5, <4>1
    <3>3. CASE parts = {}
      <4>1. M # {}
        <5>1. Range(back) # {}
          BY <1>3, <1>12, RangeType
        <5> QED BY <1>3, <3>3, <5>1
      <4>2. PICK p \in M : TRUE
        BY <4>1
      <4>3. p.seq < nextSeq' /\ p.seq \in Nat
        BY <2>3, <2>5, <4>2
      <4> QED BY <2>5, <4>3
    <3> QED BY <3>1, <3>2, <3>3
  <2>9. Alone'
    BY <1>4, <1>5, <1>6, <2>8 DEF Alone
  <2>10. MetaFirst'
    BY <1>4, <1>5, <1>12, <2>1 DEF MetaFirst
  <2>11. Known' \subseteq Known
    <3>1. Range(mem') \subseteq parts \cup partials
      BY <1>3, <2>1, <2>3
    <3>2. Known' = Range(mem') \cup parts \cup M
      BY <1>4, <1>5, <1>10, <1>11, <2>1, NoTodo DEF Known
    <3> QED BY <2>3, <3>1, <3>2 DEF Known
  <2>12. OneSeq'
    BY <1>2, <1>4, <1>6, <2>11 DEF OneSeq
  <2>13. FirstIsUser'
    <3>1. \A x \in Known' : Sane(x)
      BY <1>2, <2>11 DEF FirstIsUser
    <3>2. \A p \in M : p.seq > 0 /\ p.role = "assistant"
      BY <1>2, <2>3 DEF FirstIsUser, Known, Sane
    <3>3. FirstLowest(BySeq(parts))
      <4> DEFINE s == BySeq(parts)
      <4>1. s \in Seq(Messages) /\ Sorted(s)
        BY <1>7, BySeqFacts
      <4> HIDE DEF s
      <4>2. ASSUME NEW i \in DOMAIN s, i > 1 PROVE s[i].seq > 0
        <5>1. 1 \in DOMAIN s /\ s[1] \in Messages /\ s[i] \in Messages
          BY <4>1, <4>2
        <5>2. s[1].seq < s[i].seq
          BY <4>1, <4>2, <5>1 DEF Sorted
        <5>3. s[1].seq \in Nat /\ s[i].seq \in Nat
          BY <5>1 DEF Messages
        <5> QED BY <5>2, <5>3
      <4> QED BY <4>2 DEF FirstLowest, s
    <3>4. FirstLowest(back)
      <4>1. BySeq(parts) \in Seq(Messages) /\ BySeq(M) \in Seq(Messages) /\ Range(BySeq(M)) = M
        BY <1>3, <1>7, BySeqFacts
      <4> QED BY <1>3, <3>2, <3>3, <4>1, ConcatFacts
    <3>5. Writes(op'.todo, "partial") = {} /\ late' = {}
      BY <1>4, <1>5, <1>10, NoTodo
    <3> QED BY <1>10, <1>11, <2>1, <2>7, <3>1, <3>2, <3>4, <3>5 DEF FirstIsUser
  <2>14. Files'
    BY <1>2, <1>3, <2>1 DEF Files
  <2>15. NextOf(cursor', parts') = N
    BY <2>1 DEF N
  <2>16. (~reused' \/ cursor = NoCursor) => \A p \in parts : p.seq < N
    <3>1. cursor = NoCursor => \A p \in parts : p.seq < N
      BY <1>7, NextOfFacts DEF N
    <3>2. ~reused' => \A p \in parts : p.seq < N
      <4>1. ~reused' => \A p \in parts : ~(p.seq >= N)
        BY <1>4
      <4> QED BY <1>3, <2>4, <4>1
    <3> QED BY <3>1, <3>2
  <2>17. Ordered'
    <3>1. (~reused' \/ cursor' = NoCursor) => AllBelow(mem', nextSeq')
      <4>1. SUFFICES ASSUME ~reused' \/ cursor = NoCursor PROVE AllBelow(back, nextSeq')
        BY <2>1
      <4>2. \A p \in parts \cup M : p.seq < nextSeq'
        BY <1>3, <2>4, <2>5, <2>16, <4>1
      <4>3. \A i \in DOMAIN back : back[i] \in parts \cup M
        BY <1>3 DEF Range
      <4> QED BY <4>2, <4>3 DEF AllBelow
    <3>2. ~reused' => Sorted(mem') /\ \A p \in parts' : p.seq < nextSeq'
      <4>1. SUFFICES ASSUME ~reused' PROVE Sorted(back) /\ \A p \in parts : p.seq < nextSeq'
        BY <2>1
      <4>2. \A p \in parts : p.seq < N
        BY <2>16, <4>1
      <4>3. Sorted(back)
        BY <1>3, <4>2
      <4>4. \A p \in parts : p.seq < nextSeq'
        BY <1>3, <2>4, <2>5, <4>2
      <4> QED BY <4>3, <4>4
    <3> QED BY <1>10, <1>11, <2>1, <2>5, <2>15, <2>16, <3>1, <3>2, NoTodo DEF Ordered
  <2>18. AckedOnDisk'
    BY <1>2, <1>4, <2>1 DEF AckedOnDisk
  <2>19. Acknowledged'
    <3>1. ~reused' => acked' \subseteq Range(mem')
      BY <1>2, <1>3, <1>4, <2>1 DEF AckedOnDisk
    <3> QED BY <1>10, <3>1, NoTodo DEF Acknowledged
  <2>20. StreamSurvives'
    BY <1>4 DEF StreamSurvives
  <2> QED BY <1>9, <2>6, <2>9, <2>10, <2>12, <2>13, <2>14, <2>17, <2>18, <2>19, <2>20 DEF ConvInv
<1>13. CASE ~(meta /\ back # <<>>)
  <2>1. /\ mem' = <<>> /\ nextSeq' = 0 /\ meta' = FALSE /\ parts' = {} /\ partials' = {} /\ cursor' = NoCursor
    BY <1>1, <1>3, <1>13 DEF Restore, back
  <2>2. parts = {}
    <3>1. CASE ~meta
      BY <1>2, <3>1 DEF MetaFirst
    <3>2. CASE back = <<>>
      BY <1>3, <1>11, <3>2
    <3> QED BY <1>13, <3>1, <3>2
  <2>3. TypeOK'
    <3>1. mem' \in Seq(Messages) /\ nextSeq' \in Nat /\ cursor' \in Nat \cup {NoCursor}
      BY <2>1
    <3>2. parts' \subseteq Messages /\ partials' \subseteq Messages /\ meta' \in BOOLEAN
      BY <2>1
    <3> QED BY <1>6, <1>8, <3>1, <3>2 DEF TypeOK, OpTypes, TurnTypes
  <2>4. Alone' /\ MetaFirst'
    BY <1>4, <1>5, <1>6, <2>1 DEF Alone, MetaFirst
  <2>5. Known' = {}
    BY <1>4, <1>5, <1>10, <1>11, <2>1, NoTodo DEF Known
  <2>6. OneSeq'
    BY <1>6, <2>5 DEF OneSeq
  <2>7. FirstIsUser'
    <3>1. Writes(op'.todo, "partial") = {} /\ late' = {}
      BY <1>4, <1>5, <1>10, NoTodo
    <3> QED BY <1>10, <1>11, <2>1, <2>5, <3>1 DEF FirstIsUser
  <2>8. Files'
    <3>1. OnePerSeq({})
      BY FS_EmptySet DEF OnePerSeq
    <3> QED BY <2>1, <3>1 DEF Files
  <2>9. NextOf(cursor', parts') = 0
    BY <2>1 DEF NextOf
  <2>10. Ordered'
    BY <1>10, <1>11, <2>1, <2>9 DEF Ordered
  <2>11. AckedOnDisk' /\ Acknowledged'
    <3>1. ~reused' => acked' = {}
      BY <1>2, <1>4, <2>2 DEF AckedOnDisk
    <3> QED BY <1>10, <3>1, NoTodo DEF AckedOnDisk, Acknowledged
  <2>12. StreamSurvives'
    BY <1>4 DEF StreamSurvives
  <2> QED BY <1>9, <2>3, <2>4, <2>6, <2>7, <2>8, <2>10, <2>11, <2>12 DEF ConvInv
<1> QED BY <1>12, <1>13
-----------------------------------------------------------------------------
\* A compaction.
LEMMA PastFacts ==
  ASSUME mem \in Seq(Messages), NEW split \in DOMAIN mem
  PROVE  PastResults(split) \in 1 .. Len(mem)
<1> DEFINE L == Len(mem)
           T == {s \in split .. L : s = L \/ mem[s + 1].role # "tool"}
           Past(s) == /\ s = L \/ mem[s + 1].role # "tool"
                      /\ \A i \in split .. s - 1 : mem[i + 1].role = "tool"
<1>1. L \in Nat /\ split \in 1 .. L
  OBVIOUS
<1> HIDE DEF L
<1>2. T \in SUBSET Nat /\ L \in T
  BY <1>1
<1>3. PICK s \in T : \A k \in T : s <= k
  BY <1>2, Least
<1>4. s \in split .. L /\ Past(s)
  <2>1. ASSUME NEW i \in split .. s - 1 PROVE mem[i + 1].role = "tool"
    <3>1. i \in split .. L /\ ~(s <= i)
      BY <1>1, <1>3
    <3> QED BY <1>3, <3>1
  <2> QED BY <1>3, <2>1
<1>5. PastResults(split) = CHOOSE x \in split .. L : Past(x)
  BY DEF PastResults, L
<1> HIDE DEF Past
<1>6. PastResults(split) \in split .. L
  BY <1>4, <1>5
<1> QED BY <1>1, <1>6 DEF L

\* The calls of a compaction.
CompactCalls(n, m, kept) ==
  <<DeletePartsBefore(n), WritePart(m)>> \o [i \in DOMAIN kept |-> WritePart(kept[i])] \o <<WriteNextSeq>>

\* What they will write, and in what order.
LEMMA CompactCallsFacts ==
  ASSUME NEW n \in Nat, NEW m \in Messages, NEW kept \in Seq(Messages)
  PROVE  LET t == CompactCalls(n, m, kept)
         IN  /\ t \in Seq(Calls) /\ t # <<>> /\ InOrder(t) /\ Only(t, {"delete", "part", "cursor"})
             /\ Writes(t, "part") = {m} \cup Range(kept) /\ Writes(t, "partial") = {}
             /\ Waiting(t, "part") /\ Waiting(t, "cursor") /\ Waiting(t, "delete") /\ Head(t).n = n
<1> DEFINE d == DeletePartsBefore(n)
           w == WritePart(m)
           c == WriteNextSeq
           K == Len(kept)
           a == <<d, w>>
           b == [i \in DOMAIN kept |-> WritePart(kept[i])]
           e == <<c>>
           t == a \o b \o e
<1>1. NoMessage \in Messages
  BY BoundsAssumption DEF NoMessage, Message, Messages, NoCall, Ids
<1>2. d \in Calls /\ w \in Calls /\ c \in Calls
  BY <1>1 DEF DeletePartsBefore, WritePart, WriteNextSeq, Call, Calls
<1>3. d.do = "delete" /\ d.n = n /\ w.do = "part" /\ w.m = m /\ c.do = "cursor"
  BY DEF DeletePartsBefore, WritePart, WriteNextSeq, Call
<1>4. K \in Nat /\ DOMAIN kept = 1 .. K /\ \A i \in 1 .. K : kept[i] \in Messages
  OBVIOUS
<1>5. \A i \in 1 .. K : b[i] = WritePart(kept[i]) /\ b[i] \in Calls /\ b[i].do = "part" /\ b[i].m = kept[i]
  BY <1>4 DEF WritePart, Call, Calls
<1> HIDE DEF d, w, c
<1>6. b \in Seq(Calls) /\ Len(b) = K
  BY <1>4, <1>5
<1>7. a \in Seq(Calls) /\ Len(a) = 2 /\ a[1] = d /\ a[2] = w /\ e \in Seq(Calls) /\ Len(e) = 1 /\ e[1] = c
  BY <1>2
<1> HIDE DEF K, a, b, e
<1> DEFINE ab == a \o b
<1>8. ab \in Seq(Calls) /\ Len(ab) = 2 + K /\ \A i \in 1 .. 2 + K : ab[i] = IF i <= 2 THEN a[i] ELSE b[i - 2]
  <2>1. /\ ab \in Seq(Calls) /\ Len(ab) = Len(a) + Len(b)
        /\ \A i \in 1 .. Len(a) + Len(b) : ab[i] = IF i <= Len(a) THEN a[i] ELSE b[i - Len(a)]
    BY <1>6, <1>7, ConcatProperties
  <2> HIDE DEF ab
  <2> QED BY <1>6, <1>7, <2>1
<1> HIDE DEF ab
<1>9. t \in Seq(Calls) /\ Len(t) = 3 + K /\ \A i \in 1 .. 3 + K : t[i] = IF i <= 2 + K THEN ab[i] ELSE e[i - (2 + K)]
  <2>1. t = ab \o e
    BY DEF ab
  <2> DEFINE r == ab \o e
  <2>2. r \in Seq(Calls) /\ Len(r) = (2 + K) + 1
        /\ \A i \in 1 .. (2 + K) + 1 : r[i] = IF i <= 2 + K THEN ab[i] ELSE e[i - (2 + K)]
    <3>1. /\ r \in Seq(Calls) /\ Len(r) = Len(ab) + Len(e)
          /\ \A i \in 1 .. Len(ab) + Len(e) : r[i] = IF i <= Len(ab) THEN ab[i] ELSE e[i - Len(ab)]
      BY <1>7, <1>8, ConcatProperties
    <3> HIDE DEF r
    <3> QED BY <1>7, <1>8, <3>1
  <2> HIDE DEF r
  <2>3. (2 + K) + 1 = 3 + K
    BY <1>4
  <2> QED BY <2>1, <2>2, <2>3 DEF r
<1> HIDE DEF t
<1>10. t[1] = d /\ t[2] = w /\ t[3 + K] = c /\ DOMAIN t = 1 .. 3 + K
  BY <1>4, <1>7, <1>8, <1>9
<1>11. \A i \in 1 .. K : i + 2 \in 1 .. 3 + K /\ t[i + 2] = b[i]
  BY <1>4, <1>8, <1>9
<1>12. \A i \in 1 .. 3 + K : i = 1 \/ i = 2 \/ i = 3 + K \/ (i - 2 \in 1 .. K /\ t[i] = b[i - 2])
  BY <1>4, <1>8, <1>9
<1>13. 1 \in 1 .. 3 + K /\ 2 \in 1 .. 3 + K /\ 3 + K \in 1 .. 3 + K
  BY <1>4
<1>14. t # <<>> /\ Head(t) = d
  <2>1. t # <<>>
    BY <1>4, <1>9
  <2> QED BY <1>9, <1>10, <2>1, TailFacts
<1>15. \A i \in 1 .. 3 + K : /\ t[i].do \in {"delete", "part", "cursor"}
                             /\ t[i].do = "delete" => i = 1
                             /\ t[i].do = "cursor" => i = 3 + K
                             /\ t[i].do = "part" => t[i].m \in {m} \cup Range(kept)
  <2>1. \A i \in 1 .. K : kept[i] \in Range(kept)
    BY <1>4 DEF Range
  <2>2. "delete" # "part" /\ "cursor" # "part" /\ "delete" # "cursor"
    OBVIOUS
  <2>3. ASSUME NEW i \in 1 .. 3 + K
        PROVE  /\ t[i].do \in {"delete", "part", "cursor"} /\ (t[i].do = "delete" => i = 1)
               /\ (t[i].do = "cursor" => i = 3 + K) /\ (t[i].do = "part" => t[i].m \in {m} \cup Range(kept))
    <3>1. CASE i = 1
      BY <1>3, <1>10, <3>1
    <3>2. CASE i = 2
      BY <1>3, <1>10, <3>2
    <3>3. CASE i = 3 + K
      BY <1>3, <1>10, <3>3
    <3>4. CASE i - 2 \in 1 .. K /\ t[i] = b[i - 2]
      BY <1>5, <2>1, <3>4
    <3> QED BY <1>12, <3>1, <3>2, <3>3, <3>4
  <2> QED BY <2>3
<1>16. InOrder(t)
  <2>1. ASSUME NEW i \in 1 .. 3 + K, NEW j \in 1 .. 3 + K, i < j
        PROVE  t[j].do \notin {"meta", "delete"} /\ t[i].do \notin {"cursor", "clear"}
    <3>1. j # 1 /\ i # 3 + K
      BY <1>4, <2>1
    <3> QED BY <1>15, <3>1
  <2> QED BY <1>10, <2>1 DEF InOrder
<1>17. Only(t, {"delete", "part", "cursor"})
  BY <1>10, <1>15 DEF Only
<1>18. Writes(t, "part") = {m} \cup Range(kept)
  <2>1. Writes(t, "part") \subseteq {m} \cup Range(kept)
    BY <1>10, <1>15 DEF Writes
  <2>2. m \in Writes(t, "part")
    BY <1>3, <1>10, <1>13 DEF Writes
  <2>3. ASSUME NEW i \in 1 .. K PROVE kept[i] \in Writes(t, "part")
    <3>1. i + 2 \in DOMAIN t /\ t[i + 2].do = "part" /\ t[i + 2].m = kept[i]
      BY <1>5, <1>10, <1>11
    <3> QED BY <3>1 DEF Writes
  <2>4. Range(kept) \subseteq Writes(t, "part")
    BY <1>4, <2>3 DEF Range
  <2> QED BY <2>1, <2>2, <2>4
<1>19. Writes(t, "partial") = {}
  BY <1>10, <1>15 DEF Writes
<1>20. Waiting(t, "part") /\ Waiting(t, "cursor") /\ Waiting(t, "delete")
  BY <1>3, <1>10, <1>13 DEF Waiting
<1>21. t = CompactCalls(n, m, kept)
  BY DEF t, a, b, e, d, w, c, CompactCalls
<1> QED BY <1>3, <1>9, <1>14, <1>16, <1>17, <1>18, <1>19, <1>20, <1>21

\* The messages kept and the recent ones, for the split s.
KeptOf(structure, s) ==
  IF structure THEN Kept(SubSeq(mem, 1, s), {m \in Range(mem) : Structural(m)}) ELSE <<>>

\* What is kept of the old messages, and the recent ones.
LEMMA SplitFacts ==
  ASSUME mem \in Seq(Messages), NEW s \in 1 .. Len(mem), NEW structure
  PROVE  LET kept == KeptOf(structure, s)
             recent == SubSeq(mem, s + 1, Len(mem))
         IN  /\ kept \in Seq(Messages) /\ Range(kept) \subseteq Range(mem) /\ \A x \in Range(kept) : Structural(x)
             /\ recent \in Seq(Messages) /\ Range(recent) \subseteq Range(mem)
             /\ FirstLowest(mem) => \A y \in Range(recent) : y.seq > 0
             /\ Sorted(mem) => /\ Sorted(kept) /\ Sorted(recent)
                               /\ \A x \in Range(kept), y \in Range(recent) : x.seq < y.seq
                               /\ recent # <<>> => \A a \in Range(mem) : a \in Range(recent) \/ a.seq < recent[1].seq
                               /\ recent = <<>> => Range(recent) = {}
<1> DEFINE L == Len(mem)
           old == SubSeq(mem, 1, s)
           recent == SubSeq(mem, s + 1, L)
           T == {m \in Range(mem) : Structural(m)}
           kept == KeptOf(structure, s)
           v == Kept(old, T)
<1>1. L \in Nat /\ DOMAIN mem = 1 .. L /\ s \in 1 .. L /\ s \in Nat /\ \A i \in 1 .. L : mem[i] \in Messages
  OBVIOUS
<1>2. old \in Seq(Messages) /\ Len(old) = s /\ \A i \in 1 .. s : old[i] = mem[i]
  BY <1>1
<1>3. recent \in Seq(Messages) /\ Len(recent) = L - s /\ \A i \in 1 .. L - s : recent[i] = mem[s + i]
  <2>1. s + 1 \in 1 .. L + 1 /\ L \in s .. L
    BY <1>1
  <2>2. /\ recent \in Seq(Messages) /\ Len(recent) = (IF s + 1 <= L THEN L - (s + 1) + 1 ELSE 0)
        /\ \A i \in 1 .. L - (s + 1) + 1 : recent[i] = mem[(s + 1) + i - 1]
    BY <1>1, <2>1, SubSeqProperties
  <2> HIDE DEF recent, L
  <2>3. Len(recent) = L - s /\ L - (s + 1) + 1 = L - s
    BY <1>1, <2>2
  <2>4. \A i \in 1 .. L - s : (s + 1) + i - 1 = s + i
    BY <1>1
  <2> QED BY <2>2, <2>3, <2>4
<1>4. PICK h : Places(h, old, T)
  BY <1>2, KeptPlaces
<1>5. v \in Seq(Messages)
  BY <1>2, KeptType
<1> DEFINE K == Len(v)
<1>6. /\ h \in [1 .. K -> 1 .. s] /\ \A k \in 1 .. K : v[k] = old[h[k]]
      /\ \A j, k \in 1 .. K : j < k => h[j] < h[k]
  BY <1>2, <1>4 DEF Places
<1>7. \A k \in 1 .. K : v[k] \in T
  BY <1>2, KeptElements
<1>8. K \in Nat /\ DOMAIN v = 1 .. K
  BY <1>5
<1>9. DOMAIN recent = 1 .. L - s
  BY <1>3
<1> HIDE DEF L, old, v, K, recent
<1>10. \A k \in 1 .. K : h[k] \in 1 .. L /\ h[k] <= s /\ v[k] = mem[h[k]]
  BY <1>1, <1>2, <1>6
<1>11. \A i \in 1 .. L - s : s + i \in 1 .. L /\ s + i > s /\ s + i > 1
  BY <1>1
<1>12. Range(v) \subseteq Range(mem) /\ \A x \in Range(v) : Structural(x)
  BY <1>7, <1>8 DEF Range
<1>13. Range(recent) \subseteq Range(mem)
  BY <1>1, <1>3, <1>9, <1>11 DEF Range
<1>14. FirstLowest(mem) => \A y \in Range(recent) : y.seq > 0
  BY <1>1, <1>3, <1>9, <1>11 DEF Range, FirstLowest
<1>15. ASSUME Sorted(mem)
       PROVE  /\ Sorted(v) /\ Sorted(recent) /\ \A x \in Range(v), y \in Range(recent) : x.seq < y.seq
              /\ recent # <<>> => \A a \in Range(mem) : a \in Range(recent) \/ a.seq < recent[1].seq
  <2>1. Sorted(v)
    <3>1. ASSUME NEW j \in 1 .. K, NEW k \in 1 .. K, j < k PROVE v[j].seq < v[k].seq
      <4>1. h[j] < h[k] /\ h[j] \in DOMAIN mem /\ h[k] \in DOMAIN mem /\ v[j] = mem[h[j]] /\ v[k] = mem[h[k]]
        BY <1>1, <1>6, <1>10, <3>1
      <4> QED BY <1>15, <4>1 DEF Sorted
    <3> QED BY <1>8, <3>1 DEF Sorted
  <2>2. Sorted(recent)
    <3>1. ASSUME NEW i \in 1 .. L - s, NEW j \in 1 .. L - s, i < j PROVE recent[i].seq < recent[j].seq
      <4>1. s + i < s + j /\ s + i \in DOMAIN mem /\ s + j \in DOMAIN mem
        BY <1>1, <1>11, <3>1
      <4> QED BY <1>3, <1>15, <4>1 DEF Sorted
    <3> QED BY <1>9, <3>1 DEF Sorted
  <2>3. \A x \in Range(v), y \in Range(recent) : x.seq < y.seq
    <3>1. ASSUME NEW k \in 1 .. K, NEW i \in 1 .. L - s PROVE v[k].seq < recent[i].seq
      <4>1. h[k] < s + i /\ h[k] \in DOMAIN mem /\ s + i \in DOMAIN mem
        BY <1>1, <1>10, <1>11
      <4> QED BY <1>3, <1>10, <1>15, <4>1 DEF Sorted
    <3> QED BY <1>8, <1>9, <3>1 DEF Range
  <2>4. ASSUME recent # <<>>, NEW j \in 1 .. L PROVE mem[j] \in Range(recent) \/ mem[j].seq < recent[1].seq
    <3>1. CASE j <= s
      <4>1. Len(recent) > 0
        BY <1>3, <2>4, EmptySeq
      <4>2. 1 \in 1 .. L - s /\ j < s + 1 /\ s + 1 \in 1 .. L
        BY <1>1, <1>3, <3>1, <4>1
      <4> QED BY <1>1, <1>3, <1>15, <4>2 DEF Sorted
    <3>2. CASE ~(j <= s)
      <4>1. j - s \in 1 .. L - s /\ s + (j - s) = j
        BY <1>1, <3>2
      <4>2. recent[j - s] = mem[j]
        BY <1>3, <4>1
      <4> QED BY <1>9, <4>1, <4>2 DEF Range
    <3> QED BY <3>1, <3>2
  <2> QED BY <1>1, <2>1, <2>2, <2>3, <2>4 DEF Range
<1>16. recent = <<>> => Range(recent) = {}
  BY <1>3, RangeType
<1>17. /\ kept \in Seq(Messages) /\ Range(kept) \subseteq Range(mem) /\ \A x \in Range(kept) : Structural(x)
       /\ Sorted(mem) => Sorted(kept) /\ \A x \in Range(kept), y \in Range(recent) : x.seq < y.seq
  <2>1. CASE structure
    <3>1. kept = v
      BY <2>1 DEF KeptOf, v, old
    <3> QED BY <1>5, <1>12, <1>15, <3>1
  <2>2. CASE ~structure
    <3>1. kept = <<>>
      BY <2>2 DEF KeptOf
    <3>2. Range(<<>>) = {} /\ Sorted(<<>>) /\ <<>> \in Seq(Messages)
      BY DEF Range, Sorted
    <3> QED BY <3>1, <3>2
  <2> QED BY <2>1, <2>2
<1> HIDE DEF kept
<1> QED BY <1>3, <1>13, <1>14, <1>15, <1>16, <1>17 DEF kept, recent, L

\* The first message of a sorted list has the least seq.
LEMMA HeadLeast ==
  ASSUME NEW s \in Seq(Messages), s # <<>>
  PROVE  s[1] \in Range(s) /\ s[1] \in Messages /\ (Sorted(s) => \A y \in Range(s) : s[1].seq <= y.seq)
<1>1. Len(s) > 0 /\ Len(s) \in Nat /\ DOMAIN s = 1 .. Len(s)
  BY EmptySeq
<1> DEFINE n == Len(s)
<1>2. n \in Nat /\ n > 0 /\ DOMAIN s = 1 .. n /\ \A i \in 1 .. n : s[i] \in Messages
  BY <1>1
<1> HIDE DEF n
<1>3. 1 \in 1 .. n
  BY <1>2
<1>4. \A i \in 1 .. n : s[i].seq \in Nat
  BY <1>2 DEF Messages
<1>5. ASSUME Sorted(s), NEW i \in 1 .. n PROVE s[1].seq <= s[i].seq
  <2>1. i = 1 \/ 1 < i
    BY <1>2
  <2> QED BY <1>2, <1>3, <1>4, <1>5, <2>1 DEF Sorted
<1> QED BY <1>2, <1>3, <1>5 DEF Range

\* The seq of the summary is free, and before everything that stays.
LEMMA SummarySeqFacts ==
  ASSUME nextSeq \in Nat, NEW kept \in Seq(Messages), NEW recent \in Seq(Messages), NEW after \in Nat,
         after = (IF kept = <<>> /\ recent = <<>> THEN nextSeq + 1 ELSE nextSeq),
         \A x \in Range(kept) \cup Range(recent) : x.seq > 0
  PROVE  LET q == SummarySeq(kept, recent)
             boundary == IF recent # <<>> THEN recent[1].seq ELSE after
         IN  /\ q \in Nat /\ boundary \in Nat
             /\ (\A x \in Range(kept) \cup Range(recent) : x.seq < nextSeq) => q < after
             /\ Sorted(kept) /\ Sorted(recent) /\ (\A x \in Range(kept), y \in Range(recent) : x.seq < y.seq)
                => /\ \A y \in Range(kept) \cup Range(recent) : q < y.seq
                   /\ (\A x \in Range(kept) : x.seq < nextSeq) => q < boundary /\ \A x \in Range(kept) : x.seq < boundary
<1> DEFINE q == SummarySeq(kept, recent)
           boundary == IF recent # <<>> THEN recent[1].seq ELSE after
           k == kept[1]
           r == recent[1]
<1>1. Range(kept) \subseteq Messages /\ Range(recent) \subseteq Messages
      /\ (kept = <<>> => Range(kept) = {}) /\ (recent = <<>> => Range(recent) = {})
  BY RangeType
<1>2. \A x \in Range(kept) \cup Range(recent) : x.seq \in Nat /\ x.seq > 0
  BY <1>1 DEF Messages
<1>3. kept # <<>> => k \in Range(kept) /\ (Sorted(kept) => \A y \in Range(kept) : k.seq <= y.seq)
  BY HeadLeast
<1>4. recent # <<>> => r \in Range(recent) /\ (Sorted(recent) => \A y \in Range(recent) : r.seq <= y.seq)
  BY HeadLeast
<1>5. q = IF kept # <<>> THEN k.seq - 1 ELSE IF recent # <<>> THEN r.seq - 1 ELSE nextSeq
  BY DEF SummarySeq
<1>6. boundary = IF recent # <<>> THEN r.seq ELSE after
  OBVIOUS
<1> HIDE DEF q, boundary, k, r
<1>7. q \in Nat
  BY <1>2, <1>3, <1>4, <1>5
<1>8. boundary \in Nat
  BY <1>2, <1>4, <1>6
<1>9. (\A x \in Range(kept) \cup Range(recent) : x.seq < nextSeq) => q < after
  BY <1>2, <1>3, <1>4, <1>5
<1>10. ASSUME Sorted(kept), Sorted(recent), \A x \in Range(kept), y \in Range(recent) : x.seq < y.seq
       PROVE  /\ \A y \in Range(kept) \cup Range(recent) : q < y.seq
              /\ (\A x \in Range(kept) : x.seq < nextSeq) => q < boundary /\ \A x \in Range(kept) : x.seq < boundary
  <2>1. CASE kept # <<>>
    <3>1. q = k.seq - 1 /\ k \in Range(kept) /\ (\A y \in Range(kept) : k.seq <= y.seq) /\ after = nextSeq
      BY <1>3, <1>5, <1>10, <2>1
    <3>2. \A y \in Range(kept) \cup Range(recent) : q < y.seq
      BY <1>2, <1>10, <3>1
    <3>3. (\A x \in Range(kept) : x.seq < nextSeq) => \A x \in Range(kept) : x.seq < boundary
      BY <1>4, <1>6, <1>10, <3>1
    <3>4. (\A x \in Range(kept) : x.seq < nextSeq) => q < boundary
      BY <1>2, <1>8, <3>1, <3>3
    <3> QED BY <3>2, <3>3, <3>4
  <2>2. CASE kept = <<>> /\ recent # <<>>
    <3>1. q = r.seq - 1 /\ boundary = r.seq /\ r \in Range(recent) /\ Range(kept) = {}
          /\ \A y \in Range(recent) : r.seq <= y.seq
      BY <1>1, <1>4, <1>5, <1>6, <1>10, <2>2
    <3> QED BY <1>2, <3>1
  <2>3. CASE kept = <<>> /\ recent = <<>>
    <3>1. q = nextSeq /\ boundary = nextSeq + 1 /\ Range(kept) = {} /\ Range(recent) = {}
      BY <1>1, <1>5, <1>6, <2>3
    <3> QED BY <3>1
  <2> QED BY <2>1, <2>2, <2>3
<1> QED BY <1>7, <1>8, <1>9, <1>10 DEF q, boundary, r

\* The memory after a compaction.
LEMMA CompactedMemory ==
  ASSUME NEW m \in Messages, NEW kept \in Seq(Messages), NEW recent \in Seq(Messages),
         \A x \in Range(kept) \cup Range(recent) : x.seq > 0
  PROVE  LET new == <<m>> \o kept \o recent
         IN  /\ new \in Seq(Messages) /\ Range(new) = {m} \cup Range(kept) \cup Range(recent) /\ FirstLowest(new)
             /\ Sorted(kept) /\ Sorted(recent) /\ (\A x \in Range(kept), y \in Range(recent) : x.seq < y.seq)
                /\ (\A y \in Range(kept) \cup Range(recent) : m.seq < y.seq) => Sorted(new)
<1> DEFINE one == <<m>>
           front == one \o kept
           new == front \o recent
<1>1. one \in Seq(Messages) /\ Len(one) = 1 /\ one[1] = m
  OBVIOUS
<1> HIDE DEF one
<1>2. DOMAIN one = 1 .. 1 /\ \A i \in 1 .. 1 : i = 1
  BY <1>1
<1>3. Range(one) = {m} /\ Sorted(one) /\ FirstLowest(one)
  BY <1>1, <1>2 DEF Range, Sorted, FirstLowest
<1>4. front \in Seq(Messages) /\ Range(front) = {m} \cup Range(kept) /\ FirstLowest(front)
      /\ (Sorted(kept) /\ (\A y \in Range(kept) : m.seq < y.seq) => Sorted(front))
  BY <1>1, <1>3, ConcatFacts
<1> HIDE DEF front
<1>5. new \in Seq(Messages) /\ Range(new) = Range(front) \cup Range(recent) /\ FirstLowest(new)
      /\ (Sorted(front) /\ Sorted(recent) /\ (\A x \in Range(front), y \in Range(recent) : x.seq < y.seq) => Sorted(new))
  BY <1>4, ConcatFacts
<1> HIDE DEF new
<1>6. ASSUME Sorted(kept), Sorted(recent), \A x \in Range(kept), y \in Range(recent) : x.seq < y.seq,
             \A y \in Range(kept) \cup Range(recent) : m.seq < y.seq
      PROVE  Sorted(new)
  <2>1. Sorted(front)
    BY <1>4, <1>6
  <2>2. \A x \in Range(front), y \in Range(recent) : x.seq < y.seq
    BY <1>4, <1>6
  <2> QED BY <1>5, <1>6, <2>1, <2>2
<1>7. new = <<m>> \o kept \o recent
  BY DEF new, front, one
<1> QED BY <1>4, <1>5, <1>6, <1>7

\* What the model sees is not less once a structure-preserving compaction is
\* through.
Shown == op.kind = "structure" => ShowsAll(mem, op.mem)

\* A compaction.
LEMMA CompactStep ==
  TypeOK /\ ConvInv /\ (\E split \in DOMAIN mem, structure \in BOOLEAN : Compact(split, structure))
    => TypeOK' /\ ConvInv' /\ Shown' /\ op' # NoOp
<1>1. SUFFICES ASSUME TypeOK, ConvInv, NEW split \in DOMAIN mem, NEW structure \in BOOLEAN, Compact(split, structure)
               PROVE  TypeOK' /\ ConvInv' /\ Shown' /\ op' # NoOp
  OBVIOUS
<1> DEFINE s == PastResults(split)
           recent == SubSeq(mem, s + 1, Len(mem))
           kept == KeptOf(structure, s)
           boundary == IF recent # <<>> THEN recent[1].seq ELSE nextSeq'
           q == SummarySeq(kept, recent)
           summary == Message(issued + 1, q, "user", 0, NoCall)
           new == <<summary>> \o kept \o recent
           t == CompactCalls(boundary, summary, kept)
           kind == IF structure THEN "structure" ELSE "summary"
<1>2. /\ turn.at = "idle" /\ op = NoOp /\ issued < MaxMessages /\ issued' = issued + 1
      /\ nextSeq' = (IF kept = <<>> /\ recent = <<>> THEN nextSeq + 1 ELSE nextSeq)
      /\ op' = Op(kind, t, new, {summary} \cup {kept[i] : i \in DOMAIN kept})
      /\ mem' = mem /\ metaDone' = metaDone /\ meta' = meta /\ parts' = parts /\ partials' = partials
      /\ cursor' = cursor /\ turn' = turn /\ late' = late /\ acked' = acked /\ stream' = stream
      /\ reused' = reused /\ crashes' = crashes
  BY <1>1 DEF Compact, Quiet, Issue, disk, KeptOf, CompactCalls
<1>3. /\ mem \in Seq(Messages) /\ nextSeq \in Nat /\ issued \in Nat /\ parts \subseteq Messages /\ acked \subseteq Messages
  BY <1>1, BoundsAssumption DEF TypeOK
<1>4. /\ Shape /\ Alone /\ MetaFirst /\ OneSeq /\ FirstIsUser /\ Files /\ Ordered
      /\ Acknowledged /\ Late /\ Streamed /\ AckedOnDisk /\ StreamSurvives
  BY <1>1, InvParts
<1>5. s \in 1 .. Len(mem)
  BY <1>3, PastFacts
<1>6. /\ kept \in Seq(Messages) /\ Range(kept) \subseteq Range(mem) /\ \A x \in Range(kept) : Structural(x)
      /\ recent \in Seq(Messages) /\ Range(recent) \subseteq Range(mem)
      /\ FirstLowest(mem) => \A y \in Range(recent) : y.seq > 0
      /\ Sorted(mem) => /\ Sorted(kept) /\ Sorted(recent)
                        /\ \A x \in Range(kept), y \in Range(recent) : x.seq < y.seq
                        /\ recent # <<>> => \A a \in Range(mem) : a \in Range(recent) \/ a.seq < recent[1].seq
                        /\ recent = <<>> => Range(recent) = {}
  BY <1>3, <1>5, SplitFacts
<1>7. recent = SubSeq(mem, s + 1, Len(mem)) /\ kept = KeptOf(structure, s)
  OBVIOUS
<1> HIDE DEF recent, kept, s
<1>8. \A x \in Range(kept) \cup Range(recent) : x.seq > 0
  <2>1. ASSUME NEW x \in Range(kept) PROVE x.seq > 0
    <3>1. x \in Range(mem) /\ Structural(x)
      BY <1>6
    <3>2. Sane(x)
      BY <1>4, <3>1 DEF FirstIsUser, Known
    <3> QED BY <3>1, <3>2 DEF Sane, Structural
  <2> QED BY <1>4, <1>6, <2>1 DEF FirstIsUser
<1>9. nextSeq' \in Nat /\ nextSeq <= nextSeq'
  BY <1>2, <1>3
<1>10. /\ q \in Nat /\ boundary \in Nat
       /\ (\A x \in Range(kept) \cup Range(recent) : x.seq < nextSeq) => q < nextSeq'
       /\ Sorted(kept) /\ Sorted(recent) /\ (\A x \in Range(kept), y \in Range(recent) : x.seq < y.seq)
             => /\ \A y \in Range(kept) \cup Range(recent) : q < y.seq
                /\ (\A x \in Range(kept) : x.seq < nextSeq) => q < boundary /\ \A x \in Range(kept) : x.seq < boundary
  <2> DEFINE after == nextSeq'
  <2>1. after \in Nat /\ after = (IF kept = <<>> /\ recent = <<>> THEN nextSeq + 1 ELSE nextSeq)
    BY <1>2, <1>9
  <2>2. boundary = IF recent # <<>> THEN recent[1].seq ELSE after
    OBVIOUS
  <2> HIDE DEF after, boundary
  <2>3. LET b == IF recent # <<>> THEN recent[1].seq ELSE after
        IN  /\ q \in Nat /\ b \in Nat
            /\ (\A x \in Range(kept) \cup Range(recent) : x.seq < nextSeq) => q < after
            /\ Sorted(kept) /\ Sorted(recent) /\ (\A x \in Range(kept), y \in Range(recent) : x.seq < y.seq)
                  => /\ \A y \in Range(kept) \cup Range(recent) : q < y.seq
                     /\ (\A x \in Range(kept) : x.seq < nextSeq) => q < b /\ \A x \in Range(kept) : x.seq < b
    BY <1>3, <1>6, <1>8, <2>1, SummarySeqFacts
  <2> QED BY <2>2, <2>3 DEF after
<1>11. boundary = IF recent # <<>> THEN recent[1].seq ELSE nextSeq'
  OBVIOUS
<1> HIDE DEF q, boundary
<1>12. /\ summary \in Messages /\ summary.id = issued + 1 /\ summary.seq = q /\ summary.role = "user"
       /\ summary.calls = 0
  <2>1. issued + 1 \in Ids /\ 0 \in 0 .. MaxCalls
    BY <1>2, <1>3, BoundsAssumption DEF Ids
  <2> QED BY <1>10, <2>1, MessageFacts
<1> HIDE DEF summary
<1>13. /\ new \in Seq(Messages) /\ Range(new) = {summary} \cup Range(kept) \cup Range(recent) /\ FirstLowest(new)
       /\ Sorted(kept) /\ Sorted(recent) /\ (\A x \in Range(kept), y \in Range(recent) : x.seq < y.seq)
          /\ (\A y \in Range(kept) \cup Range(recent) : summary.seq < y.seq) => Sorted(new)
  BY <1>6, <1>8, <1>12, CompactedMemory
<1>14. /\ t \in Seq(Calls) /\ t # <<>> /\ InOrder(t) /\ Only(t, {"delete", "part", "cursor"})
       /\ Writes(t, "part") = {summary} \cup Range(kept) /\ Writes(t, "partial") = {}
       /\ Waiting(t, "part") /\ Waiting(t, "cursor") /\ Waiting(t, "delete") /\ Head(t).n = boundary
  BY <1>6, <1>10, <1>12, CompactCallsFacts
<1>15. new = <<summary>> \o kept \o recent /\ {kept[i] : i \in DOMAIN kept} = Range(kept)
  BY DEF Range
<1> HIDE DEF new, t
<1>16. op' = Op(kind, t, new, {summary} \cup Range(kept))
  BY <1>2, <1>15
<1>17. /\ op'.kind = kind /\ op'.todo = t /\ op'.mem = new /\ op'.ack = {summary} \cup Range(kept) /\ op' # NoOp
       /\ kind \in {"summary", "structure"} /\ (kind = "structure" <=> structure)
  BY <1>16, Idled DEF Op
<1>18. op' \in OpTypes
  <2>1. {summary} \cup Range(kept) \subseteq Messages
    BY <1>6, <1>12, RangeType
  <2> QED BY <1>13, <1>14, <1>16, <1>17, <2>1 DEF Op, OpTypes
<1> HIDE DEF kind
<1>19. Up /\ Up'
  BY <1>2 DEF Up
<1>20. mem # <<>>
  BY <1>1, <1>3
<1>21. TypeOK'
  <2>1. issued' \in 0 .. MaxMessages
    BY <1>2, <1>3, BoundsAssumption
  <2> QED BY <1>1, <1>2, <1>9, <1>18, <2>1 DEF TypeOK, OpTypes
<1>22. Shape'
  BY <1>2, <1>14, <1>17, <1>20 DEF Shape
<1>23. Alone'
  <2>1. nextSeq > 0 /\ nextSeq' > 0
    BY <1>3, <1>4, <1>9, <1>20 DEF Alone
  <2> QED BY <1>2, <1>4, <2>1 DEF Alone
<1>24. MetaFirst'
  <2>1. meta
    BY <1>2, <1>4, <1>20 DEF MetaFirst
  <2> QED BY <1>2, <2>1 DEF MetaFirst
<1>25. Known' \subseteq Known \cup {summary}
  <2>1. Range(new) \subseteq Known \cup {summary} /\ Range(kept) \subseteq Known
    BY <1>6, <1>13 DEF Known
  <2> QED BY <1>2, <1>14, <1>17, <2>1, ZenonT(30) DEF Known
<1>26. OneSeq'
  <2>1. \A x \in Known : x.id <= issued /\ x.id \in Nat
    BY <1>1, <1>4, KnownTyped DEF OneSeq, Messages, Ids
  <2>2. \A x \in Known' : x.id <= issued'
    BY <1>2, <1>3, <1>12, <1>25, <2>1
  <2>3. \A x \in Known : x.id # summary.id
    BY <1>3, <1>12, <2>1
  <2>4. \A x, y \in Known' : x.id = y.id => x.seq = y.seq
    BY <1>4, <1>25, <2>3 DEF OneSeq
  <2> QED BY <1>2, <2>2, <2>4 DEF OneSeq
<1>27. FirstIsUser'
  <2>1. Sane(summary)
    BY <1>12 DEF Sane
  <2>2. \A x \in Known' : Sane(x)
    BY <1>4, <1>25, <2>1 DEF FirstIsUser
  <2> QED BY <1>2, <1>4, <1>13, <1>14, <1>17, <2>2 DEF FirstIsUser
<1>28. Files' /\ AckedOnDisk'
  BY <1>2, <1>4 DEF Files, AckedOnDisk
<1>29. \A p \in parts : p.seq \in Nat
  BY <1>3 DEF Messages
<1>30. \A x \in Range(mem) : x.seq \in Nat
  <2>1. Range(mem) \subseteq Messages
    BY <1>3, RangeType
  <2> QED BY <2>1 DEF Messages
<1>31. AllBelow(mem, nextSeq) => \A x \in Range(mem) : x.seq < nextSeq
  BY DEF AllBelow, Range
<1>32. AllBelow(mem, nextSeq) => AllBelow(new, nextSeq') /\ AllBelow(mem, nextSeq')
  <2>1. SUFFICES ASSUME AllBelow(mem, nextSeq) PROVE AllBelow(new, nextSeq') /\ AllBelow(mem, nextSeq')
    OBVIOUS
  <2>2. \A x \in Range(mem) : x.seq < nextSeq'
    BY <1>3, <1>9, <1>30, <1>31, <2>1
  <2>3. summary.seq < nextSeq'
    BY <1>6, <1>10, <1>12, <1>31, <2>1
  <2>4. \A x \in Range(new) : x.seq < nextSeq'
    BY <1>6, <1>13, <2>2, <2>3
  <2> QED BY <2>2, <2>4 DEF AllBelow, Range
<1>33. Sorted(mem) => Sorted(new)
  BY <1>6, <1>10, <1>12, <1>13
<1>34. Ordered'
  <2>1. NextOf(cursor', parts') <= nextSeq'
    <3>1. NextOf(cursor, parts) \in Nat /\ NextOf(cursor, parts) <= nextSeq
      BY <1>1, <1>4, <1>19, NextNat DEF Ordered
    <3> DEFINE N == NextOf(cursor, parts)
    <3>2. NextOf(cursor', parts') = N
      BY <1>2
    <3> HIDE DEF N
    <3>3. N <= nextSeq'
      BY <1>3, <1>9, <3>1 DEF N
    <3> QED BY <3>2, <3>3
  <2>2. ~reused => \A p \in parts : p.seq < nextSeq'
    BY <1>3, <1>4, <1>9, <1>19, <1>29 DEF Ordered
  <2>3. (~reused \/ cursor = NoCursor) => AllBelow(mem, nextSeq)
    BY <1>4, <1>19 DEF Ordered
  <2>4. ~reused => Sorted(mem)
    BY <1>4, <1>19 DEF Ordered
  <2> QED BY <1>2, <1>14, <1>17, <1>32, <1>33, <2>1, <2>2, <2>3, <2>4 DEF Ordered
<1>35. ASSUME ~reused
       PROVE  /\ acked \subseteq Range(mem)
              /\ \A a \in acked : a \in Range(new) \/ a.seq < boundary
              /\ \A x \in {summary} \cup Range(kept) : x.seq < boundary
  <2>1. Sorted(mem) /\ AllBelow(mem, nextSeq) /\ acked \subseteq Range(mem)
    BY <1>4, <1>19, <1>35 DEF Ordered, Acknowledged
  <2>2. \A x \in Range(mem) : x.seq < nextSeq
    BY <1>31, <2>1
  <2>3. \A x \in {summary} \cup Range(kept) : x.seq < boundary
    BY <1>6, <1>10, <1>12, <2>1, <2>2
  <2>4. \A a \in Range(mem) : a \in Range(recent) \/ a.seq < boundary
    <3>1. CASE recent # <<>>
      BY <1>6, <1>11, <2>1, <3>1
    <3>2. CASE recent = <<>>
      BY <1>3, <1>9, <1>11, <1>30, <2>2, <3>2
    <3> QED BY <3>1, <3>2
  <2> QED BY <1>13, <2>1, <2>3, <2>4
<1>36. Acknowledged'
  <2>1. op'.ack \subseteq Range(op'.mem) /\ Writes(op'.todo, "part") = op'.ack
    BY <1>13, <1>14, <1>17
  <2>2. \A a : Deleted(op'.todo, a) <=> a.seq < boundary
    BY <1>14, <1>17 DEF Deleted
  <2>3. op'.kind # "add"
    BY <1>17
  <2>4. ~reused => \A a \in acked : /\ a \in Range(op'.mem) \/ Deleted(op'.todo, a)
                                    /\ \A x \in Writes(op'.todo, "part") : a.seq = x.seq => Deleted(op'.todo, a)
    BY <1>14, <1>17, <1>35, <2>2
  <2>5. ~reused => acked \subseteq Range(mem)
    BY <1>35
  <2> QED BY <1>2, <2>1, <2>3, <2>4, <2>5 DEF Acknowledged
<1>37. Late'
  <2>1. \A p \in late : p.seq < nextSeq /\ p.seq \in Nat
    BY <1>1, <1>4 DEF Late, TypeOK, Messages
  <2> QED BY <1>2, <1>3, <1>9, <1>17, <2>1 DEF Late
<1>38. stream = 0
  BY <1>2, <1>4, <1>19, Idled DEF Streamed
<1>39. Streamed' /\ StreamSurvives'
  BY <1>2, <1>38 DEF Streamed, StreamSurvives
<1>40. Shown'
  <2>1. SUFFICES ASSUME structure PROVE ShowsAll(mem, new)
    BY <1>2, <1>17 DEF Shown
  <2> DEFINE T == {m \in Range(mem) : Structural(m)}
  <2>2. \A i \in 1 .. s : mem[i] \in T <=> Structural(mem[i])
    <3>1. \A i \in 1 .. s : i \in DOMAIN mem
      BY <1>3, <1>5
    <3> QED BY <3>1 DEF Range
  <2>3. s \in 0 .. Len(mem)
    BY <1>3, <1>5
  <2> HIDE DEF T
  <2>4. ShowsAll(mem, <<summary>> \o Kept(SubSeq(mem, 1, s), T) \o SubSeq(mem, s + 1, Len(mem)))
    BY <1>3, <1>12, <2>2, <2>3, CompactedShows DEF ShowsAll
  <2>5. kept = Kept(SubSeq(mem, 1, s), T)
    BY <1>7, <2>1 DEF KeptOf, T
  <2> QED BY <1>7, <1>15, <2>4, <2>5
<1> QED BY <1>17, <1>21, <1>22, <1>23, <1>24, <1>26, <1>27, <1>28, <1>34, <1>36, <1>37, <1>39, <1>40 DEF ConvInv
-----------------------------------------------------------------------------
\* The initial state.
LEMMA Start == Init => TypeOK /\ ConvInv /\ Shown
<1>1. SUFFICES ASSUME Init PROVE TypeOK /\ ConvInv /\ Shown
  OBVIOUS
<1>2. /\ mem = <<>> /\ nextSeq = 0 /\ metaDone = FALSE /\ meta = FALSE /\ parts = {} /\ partials = {}
      /\ cursor = NoCursor /\ op = NoOp /\ turn = Idle /\ late = {} /\ issued = 0 /\ acked = {}
      /\ stream = 0 /\ reused = FALSE /\ crashes = 0
  BY <1>1 DEF Init
<1>3. Idle \in TurnTypes /\ Idle.at = "idle" /\ Idle.due = <<>>
  BY BoundsAssumption DEF Idle, TurnTypes
<1>4. NoOp \in OpTypes
  BY DEF OpTypes, NoOp, Op
<1>5. Range(<<>>) = {} /\ FirstLowest(<<>>) /\ Sorted(<<>>) /\ (\A n : AllBelow(<<>>, n)) /\ NextOf(NoCursor, {}) = 0
  BY DEF Range, FirstLowest, Sorted, AllBelow, NextOf
<1>6. TypeOK
  <2>1. mem \in Seq(Messages) /\ nextSeq \in Nat /\ cursor \in Nat \cup {NoCursor}
    BY <1>2
  <2>2. parts \subseteq Messages /\ partials \subseteq Messages /\ late \subseteq Messages /\ acked \subseteq Messages
    BY <1>2
  <2>3. metaDone \in BOOLEAN /\ meta \in BOOLEAN /\ reused \in BOOLEAN
    BY <1>2
  <2>4. issued \in 0 .. MaxMessages /\ stream \in 0 .. MaxMessages /\ crashes \in 0 .. MaxCrashes
    BY <1>2, BoundsAssumption
  <2> QED BY <1>2, <1>3, <1>4, <2>1, <2>2, <2>3, <2>4 DEF TypeOK, OpTypes, TurnTypes
<1>7. Shape
  BY <1>2, Idled, NoTodo DEF Shape
<1>8. Alone /\ MetaFirst
  BY <1>2, <1>3 DEF Alone, MetaFirst
<1>9. Known = {}
  BY <1>2, <1>5, Idled, NoTodo DEF Known
<1>10. OneSeq
  BY <1>2, <1>3, <1>9 DEF OneSeq
<1>11. FirstIsUser
  BY <1>2, <1>5, <1>9, Idled, NoTodo DEF FirstIsUser
<1>12. Files
  BY <1>2, FS_EmptySet DEF Files, OnePerSeq
<1>13. Ordered
  BY <1>2, <1>5, Idled, NoTodo DEF Ordered
<1>14. Acknowledged
  BY <1>2, Idled, NoTodo DEF Acknowledged
<1>15. Late /\ Streamed /\ AckedOnDisk /\ StreamSurvives /\ Shown
  BY <1>2, Idled DEF Late, Streamed, AckedOnDisk, StreamSurvives, Shown
<1> QED BY <1>6, <1>7, <1>8, <1>10, <1>11, <1>12, <1>13, <1>14, <1>15 DEF ConvInv

\* A step that changes nothing.
LEMMA Stutter == TypeOK /\ ConvInv /\ UNCHANGED vars => TypeOK' /\ ConvInv'
<1>1. SUFFICES ASSUME TypeOK, ConvInv, UNCHANGED vars PROVE TypeOK' /\ ConvInv'
  OBVIOUS
<1>2. /\ mem' = mem /\ nextSeq' = nextSeq /\ metaDone' = metaDone /\ op' = op /\ late' = late
      /\ meta' = meta /\ parts' = parts /\ partials' = partials /\ cursor' = cursor
      /\ acked' = acked /\ stream' = stream /\ reused' = reused /\ crashes' = crashes
      /\ issued' = issued /\ turn' = turn
  BY <1>1 DEF vars, memory, disk
<1>3. TypeOK'
  BY <1>1, <1>2 DEF TypeOK
<1>4. Shape'
  BY <1>1, <1>2, InvParts DEF Shape, StreamMessage
<1>5. Alone' /\ MetaFirst'
  BY <1>1, <1>2, InvParts DEF Alone, MetaFirst
<1>6. Known' = Known /\ (Up <=> Up')
  BY <1>2 DEF Known, Up
<1>7. OneSeq' /\ FirstIsUser' /\ Files'
  BY <1>1, <1>2, <1>6, InvParts DEF OneSeq, FirstIsUser, Files
<1>8. Ordered' /\ Acknowledged'
  BY <1>1, <1>2, <1>6, InvParts DEF Ordered, Acknowledged
<1>9. Late' /\ Streamed'
  BY <1>1, <1>2, <1>6, InvParts DEF Late, Streamed
<1>10. AckedOnDisk' /\ StreamSurvives'
  BY <1>1, <1>2, InvParts DEF AckedOnDisk, StreamSurvives, Meaningful, NextSeqOnDisk
<1> QED BY <1>3, <1>4, <1>5, <1>7, <1>8, <1>9, <1>10 DEF ConvInv

\* Every step keeps the invariant.
LEMMA Steps == TypeOK /\ ConvInv /\ [Next]_vars => TypeOK' /\ ConvInv'
<1>1. SUFFICES ASSUME TypeOK, ConvInv, [Next]_vars PROVE TypeOK' /\ ConvInv'
  OBVIOUS
<1>2. CASE AddUserMessage
  BY <1>1, <1>2, AddUserMessageStep
<1>3. CASE AddToolResult
  BY <1>1, <1>3, AddToolResultStep
<1>4. CASE StartStream
  BY <1>1, <1>4, StartStreamStep
<1>5. CASE EndStream
  BY <1>1, <1>5, EndStreamStep
<1>6. CASE CutStream
  BY <1>1, <1>6, CutStreamStep
<1>7. CASE FailStream
  BY <1>1, <1>7, FailStreamStep
<1>8. CASE \E k \in 0 .. MaxCalls : CheckpointPartialAssistant(k)
  BY <1>1, <1>8, CheckpointStep
<1>9. CASE \E split \in DOMAIN mem, structure \in BOOLEAN : Compact(split, structure)
  BY <1>1, <1>9, CompactStep
<1>10. CASE Store
  BY <1>1, <1>10, StoreStep
<1>11. CASE StoreLate
  BY <1>1, <1>11, StoreLateStep
<1>12. CASE Crash
  BY <1>1, <1>12, CrashStep
<1>13. CASE Restore
  BY <1>1, <1>13, RestoreStep
<1>14. CASE UNCHANGED vars
  BY <1>1, <1>14, Stutter
<1> QED BY <1>1, <1>2, <1>3, <1>4, <1>5, <1>6, <1>7, <1>8, <1>9, <1>10, <1>11, <1>12, <1>13, <1>14 DEF Next

\* The memory, the disk and the calls of the store that are left agree in
\* every state, whatever the crashes and the cancelled streams.
THEOREM Invariant == Spec => [](TypeOK /\ ConvInv)
<1>1. Init => TypeOK /\ ConvInv
  BY Start
<1>2. TypeOK /\ ConvInv /\ [Next]_vars => TypeOK' /\ ConvInv'
  BY Steps
<1> QED BY <1>1, <1>2, PTL DEF Spec

\* Every variable keeps its type; no compaction takes a negative seq.
THEOREM Typed == Spec => []TypeOK
BY Invariant, PTL

\* An acknowledged message is on disk under its seq until a compaction takes it.
THEOREM Durable == Spec => []AckedOnDisk
<1>1. ConvInv => AckedOnDisk
  BY DEF ConvInv
<1> QED BY <1>1, Invariant, PTL

\* A restart at any moment finds what a stream has checkpointed.
THEOREM Checkpointed == Spec => []StreamSurvives
<1>1. ConvInv => StreamSurvives
  BY DEF ConvInv
<1> QED BY <1>1, Invariant, PTL
-----------------------------------------------------------------------------
\* The request to the model.
LEMMA RequestOf == TypeOK /\ ConvInv => RequestWellFormed
<1>1. SUFFICES ASSUME TypeOK, ConvInv PROVE RequestWellFormed
  OBVIOUS
<1>2. mem \in Seq(Messages)
  BY <1>1 DEF TypeOK
<1>3. ASSUME ~reused PROVE EachOnce(mem)
  <2>1. CASE ~Up
    <3>1. mem = <<>>
      BY <1>1, <2>1, InvParts DEF Up, Alone
    <3> QED BY <3>1 DEF EachOnce
  <2>2. CASE Up
    <3>1. Sorted(mem)
      BY <1>1, <1>3, <2>2, InvParts DEF Ordered
    <3>2. ASSUME NEW i \in DOMAIN mem, NEW j \in DOMAIN mem, mem[i].id = mem[j].id PROVE i = j
      <4>1. mem[i] \in Known /\ mem[j] \in Known
        BY DEF Known, Range
      <4>2. mem[i].seq = mem[j].seq
        BY <1>1, <3>2, <4>1, InvParts DEF OneSeq
      <4>3. i \in Nat /\ j \in Nat /\ mem[i] \in Messages /\ mem[j] \in Messages
        BY <1>2
      <4>4. mem[i].seq \in Nat /\ mem[j].seq \in Nat
        BY <4>3 DEF Messages
      <4> QED BY <3>1, <4>2, <4>3, <4>4 DEF Sorted
    <3> QED BY <3>2 DEF EachOnce
  <2> QED BY <2>1, <2>2
<1>4. ASSUME EachOnce(mem), NEW pictured PROVE WellFormed(ToLlmMessages(mem, pictured), pictured)
  <2>1. \A i \in 1 .. Len(mem) : mem[i].calls > 0 => mem[i].role = "assistant"
    <3>1. ASSUME NEW i \in 1 .. Len(mem) PROVE mem[i].calls > 0 => mem[i].role = "assistant"
      <4>1. mem[i] \in Known
        BY <1>2 DEF Known, Range
      <4> QED BY <1>1, <4>1, InvParts DEF FirstIsUser, Sane
    <3> QED BY <3>1
  <2> QED BY <1>2, <1>4, <2>1, RequestShape
<1> QED BY <1>3, <1>4 DEF RequestWellFormed

\* The memory has no message twice, and the request made of it is one a
\* strict API takes, but for user messages with images beside others.
THEOREM RequestsWellFormed == Spec => []RequestWellFormed
BY Invariant, RequestOf, PTL
-----------------------------------------------------------------------------
\* The order after a restart.
LEMMA SortedPrefix ==
  ASSUME NEW s \in Seq(Messages), NEW t \in Seq(Messages), Sorted(s), Sorted(t), Range(s) = Range(t)
  PROVE  Len(s) <= Len(t) /\ \A i \in 1 .. Len(s) : s[i] = t[i]
<1> DEFINE n == Len(s)
           k == Len(t)
           P == {i \in 0 .. n : i <= k /\ \A j \in 1 .. i : s[j] = t[j]}
<1>1. n \in Nat /\ k \in Nat /\ DOMAIN s = 1 .. n /\ DOMAIN t = 1 .. k
      /\ (\A i \in 1 .. n : s[i] \in Messages) /\ (\A i \in 1 .. k : t[i] \in Messages)
  OBVIOUS
<1> HIDE DEF n, k
<1>2. (\A i \in 1 .. n : s[i].seq \in Nat) /\ (\A i \in 1 .. k : t[i].seq \in Nat)
  BY <1>1 DEF Messages
<1>3. /\ \A i, j \in 1 .. n : i < j => s[i].seq < s[j].seq
      /\ \A i, j \in 1 .. k : i < j => t[i].seq < t[j].seq
  BY <1>1 DEF Sorted
<1>4. (\A i \in 1 .. n : \E j \in 1 .. k : t[j] = s[i]) /\ (\A j \in 1 .. k : \E i \in 1 .. n : s[i] = t[j])
  BY <1>1 DEF Range
<1>5. 0 \in P
  BY <1>1
<1>6. ASSUME NEW i \in 0 .. n, i # n, i \in P PROVE i + 1 \in P
  <2>1. i + 1 \in 1 .. n /\ i <= k /\ (\A j \in 1 .. i : s[j] = t[j]) /\ i \in Nat
    BY <1>1, <1>6
  <2>2. PICK j \in 1 .. k : t[j] = s[i + 1]
    BY <1>4, <2>1
  <2>3. j > i
    <3>1. SUFFICES ASSUME j \in 1 .. i PROVE FALSE
      BY <1>1, <2>1, <2>2
    <3>2. s[j] = s[i + 1] /\ j \in 1 .. n /\ j < i + 1
      BY <1>1, <2>1, <2>2, <3>1
    <3>3. s[j].seq < s[i + 1].seq
      BY <1>3, <2>1, <3>2
    <3> QED BY <1>2, <2>1, <3>2, <3>3
  <2>4. i + 1 \in 1 .. k
    BY <1>1, <2>1, <2>2, <2>3
  <2>5. PICK l \in 1 .. n : s[l] = t[i + 1]
    BY <1>4, <2>4
  <2>6. l > i
    <3>1. SUFFICES ASSUME l \in 1 .. i PROVE FALSE
      BY <1>1, <2>1, <2>5
    <3>2. t[l] = t[i + 1] /\ l \in 1 .. k /\ l < i + 1
      BY <1>1, <2>1, <2>5, <3>1
    <3>3. t[l].seq < t[i + 1].seq
      BY <1>3, <2>4, <3>2
    <3> QED BY <1>2, <2>4, <3>2, <3>3
  <2>7. t[i + 1].seq = s[l].seq /\ (l = i + 1 \/ s[i + 1].seq < s[l].seq)
    BY <1>1, <1>3, <2>1, <2>5, <2>6
  <2>8. t[j].seq = s[i + 1].seq /\ (j = i + 1 \/ t[i + 1].seq < t[j].seq)
    BY <1>1, <1>3, <2>1, <2>2, <2>3, <2>4
  <2>9. s[i + 1] = t[i + 1]
    BY <1>2, <2>1, <2>2, <2>4, <2>5, <2>7, <2>8
  <2>10. \A x \in 1 .. i + 1 : x \in 1 .. i \/ x = i + 1
    BY <2>1
  <2> QED BY <1>1, <2>1, <2>4, <2>9, <2>10
<1>7. \A i \in 0 .. n : i \in P
  <2> HIDE DEF P
  <2> QED BY <1>1, <1>5, <1>6, UpTo
<1>8. n \in P
  BY <1>1, <1>7
<1> QED BY <1>8 DEF n, k

\* Two sorted lists of the same messages are the same.
LEMMA SortedUnique ==
  ASSUME NEW s \in Seq(Messages), NEW t \in Seq(Messages), Sorted(s), Sorted(t), Range(s) = Range(t)
  PROVE  s = t
<1>1. Len(s) <= Len(t) /\ Len(t) <= Len(s) /\ \A i \in 1 .. Len(s) : s[i] = t[i]
  BY SortedPrefix
<1>2. Len(s) \in Nat /\ Len(t) \in Nat
  OBVIOUS
<1>3. Len(s) = Len(t)
  BY <1>1, <1>2
<1> QED BY <1>1, <1>3, SeqEqual

\* The acknowledged messages of a sorted list are those files, in order.
LEMMA KeptOrder ==
  ASSUME NEW s \in Seq(Messages), NEW T, Sorted(s)
  PROVE  Kept(s, T) \in Seq(Messages) /\ Sorted(Kept(s, T)) /\ Range(Kept(s, T)) = Range(s) \cap T
<1> DEFINE v == Kept(s, T)
           n == Len(s)
           k == Len(v)
<1>1. PICK h : Places(h, s, T)
  BY KeptPlaces
<1>2. v \in Seq(Messages) /\ \A i \in 1 .. k : v[i] \in T
  BY KeptType, KeptElements
<1>3. /\ h \in [1 .. k -> 1 .. n] /\ \A i \in 1 .. k : v[i] = s[h[i]]
      /\ \A i, j \in 1 .. k : i < j => h[i] < h[j]
      /\ \A i \in 1 .. n : s[i] \in T => \E j \in 1 .. k : h[j] = i
  BY <1>1 DEF Places
<1>4. DOMAIN s = 1 .. n /\ n \in Nat
  OBVIOUS
<1>5. DOMAIN v = 1 .. k /\ k \in Nat
  BY <1>2
<1> HIDE DEF v, n, k
<1>6. \A i \in 1 .. k : h[i] \in 1 .. n
  BY <1>3
<1>7. Sorted(v)
  BY <1>3, <1>4, <1>5, <1>6 DEF Sorted
<1>8. Range(v) \subseteq Range(s) \cap T
  BY <1>2, <1>3, <1>4, <1>5, <1>6 DEF Range
<1>9. ASSUME NEW i \in 1 .. n, s[i] \in T PROVE s[i] \in Range(v)
  <2>1. PICK j \in 1 .. k : h[j] = i
    BY <1>3, <1>9
  <2>2. v[j] = s[i]
    BY <1>3, <2>1
  <2> QED BY <1>5, <2>1, <2>2 DEF Range
<1>10. Range(s) \cap T \subseteq Range(v)
  BY <1>4, <1>9 DEF Range
<1> QED BY <1>2, <1>7, <1>8, <1>10 DEF v

\* The order after a restart follows from the invariant.
LEMMA OrderOf == TypeOK /\ ConvInv => RestartKeepsOrder
<1>1. SUFFICES ASSUME TypeOK, ConvInv, turn.at # "down", op = NoOp, ~reused
               PROVE  AckedOf(RestoredMessages) = AckedOf(mem)
  BY DEF RestartKeepsOrder
<1>2. Up /\ mem \in Seq(Messages) /\ acked \subseteq Range(mem) /\ acked \subseteq parts /\ Sorted(mem) /\ Files
  BY <1>1, InvParts DEF Up, TypeOK, Acknowledged, AckedOnDisk, Ordered
<1>3. \A p \in parts : p.seq < NextOf(cursor, parts)
  BY <1>1, <1>2, Idled, NoTodo, InvParts DEF Ordered
<1>4. RestoredMessages \in Seq(Messages) /\ Sorted(RestoredMessages) /\ parts \subseteq Range(RestoredMessages)
  BY <1>1, <1>2, <1>3, RestoredFacts
<1>5. /\ Kept(mem, acked) \in Seq(Messages) /\ Sorted(Kept(mem, acked)) /\ Range(Kept(mem, acked)) = acked
  BY <1>2, KeptOrder
<1>6. /\ Kept(RestoredMessages, acked) \in Seq(Messages) /\ Sorted(Kept(RestoredMessages, acked))
      /\ Range(Kept(RestoredMessages, acked)) = acked
  BY <1>2, <1>4, KeptOrder
<1> QED BY <1>5, <1>6, SortedUnique DEF AckedOf

\* A restart between two operations brings the acknowledged messages back in
\* the order the memory has them, compactions included.
THEOREM OrderKept == Spec => []RestartKeepsOrder
BY Invariant, OrderOf, PTL
-----------------------------------------------------------------------------
\* What the model is shown across a compaction.
LEMMA ShownSteps == TypeOK /\ ConvInv /\ Shown /\ [Next]_vars => Shown'
<1>1. SUFFICES ASSUME TypeOK, ConvInv, Shown, [Next]_vars PROVE Shown'
  OBVIOUS
<1>2. ASSUME NEW m, Add(m) PROVE op'.kind = "add"
  BY <1>2 DEF Add, Op
<1>3. CASE AddUserMessage \/ AddToolResult \/ EndStream \/ CutStream
  <2>1. \E m : Add(m)
    BY <1>3 DEF AddUserMessage, AddToolResult, EndStream, CutStream
  <2> QED BY <1>2, <2>1 DEF Shown
<1>4. CASE StartStream \/ FailStream \/ StoreLate \/ UNCHANGED vars
  <2>1. op' = op /\ mem' = mem
    BY <1>4 DEF StartStream, FailStream, StoreLate, memory, vars
  <2> QED BY <1>1, <2>1 DEF Shown
<1>5. CASE \E k \in 0 .. MaxCalls : CheckpointPartialAssistant(k)
  BY <1>5 DEF CheckpointPartialAssistant, Op, Shown
<1>6. CASE \E split \in DOMAIN mem, structure \in BOOLEAN : Compact(split, structure)
  BY <1>1, <1>6, CompactStep
<1>7. CASE Store
  <2>1. op' = NoOp \/ (mem' = mem /\ op'.kind = op.kind /\ op'.mem = op.mem)
    <3> DEFINE do == Head(op.todo).do
               m == Head(op.todo).m
               n == Head(op.todo).n
    <3>1. Stored(do, m, n)
      BY <1>1, <1>7, StoreIs
    <3> HIDE DEF do, m, n
    <3> QED BY <1>1, <3>1, StoreLeft
  <2> QED BY <1>1, <2>1, Idled DEF Shown
<1>8. CASE Crash
  BY <1>8, Idled DEF Crash, Shown
<1>9. CASE Restore
  <2>1. op' = NoOp
    BY <1>1, <1>9, InvParts DEF Restore, Alone
  <2> QED BY <2>1, Idled DEF Shown
<1> QED BY <1>1, <1>3, <1>4, <1>5, <1>6, <1>7, <1>8, <1>9 DEF Next

\* A memory that is replaced was that of a compaction.
LEMMA CompactionEnds ==
  TypeOK /\ ConvInv /\ Shown /\ [Next]_vars =>
    (op.kind = "structure" /\ op' = NoOp /\ turn'.at # "down"
      => ShowsAll(mem, mem'))
<1>1. SUFFICES ASSUME TypeOK, ConvInv, Shown, [Next]_vars, op.kind = "structure", op' = NoOp, turn'.at # "down"
               PROVE  ShowsAll(mem, mem')
  OBVIOUS
<1>2. op # NoOp /\ turn.at # "down"
  BY <1>1, Idled, InvParts DEF Alone
<1>3. ASSUME NEW m, Add(m) PROVE FALSE
  BY <1>1, <1>3, Idled DEF Add, Op
<1>4. ~(AddUserMessage \/ AddToolResult \/ EndStream \/ CutStream)
  BY <1>3 DEF AddUserMessage, AddToolResult, EndStream, CutStream
<1>5. ~(StartStream \/ FailStream \/ StoreLate \/ UNCHANGED vars \/ Crash \/ Restore)
  BY <1>1, <1>2 DEF StartStream, FailStream, StoreLate, vars, Crash, Restore, Down, Quiet
<1>6. ~(\E k \in 0 .. MaxCalls : CheckpointPartialAssistant(k))
  BY <1>2 DEF CheckpointPartialAssistant, Quiet
<1>7. ~(\E split \in DOMAIN mem, structure \in BOOLEAN : Compact(split, structure))
  BY <1>2 DEF Compact, Quiet
<1>8. Store
  BY <1>1, <1>4, <1>5, <1>6, <1>7 DEF Next
<1>9. mem' = op.mem
  <2> DEFINE do == Head(op.todo).do
             m == Head(op.todo).m
             n == Head(op.todo).n
  <2>1. Stored(do, m, n)
    BY <1>1, <1>8, StoreIs
  <2> HIDE DEF do, m, n
  <2> QED BY <1>1, <2>1, StoreLeft
<1> QED BY <1>1, <1>9 DEF Shown

\* The structure-preserving compaction shows the model every tool result the
\* model saw before it.
THEOREM ResultsKept == Spec => CompactionKeepsResults
<1>1. Spec => [](TypeOK /\ ConvInv /\ Shown)
  <2>1. Init => TypeOK /\ ConvInv /\ Shown
    BY Start
  <2>2. TypeOK /\ ConvInv /\ Shown /\ [Next]_vars => TypeOK' /\ ConvInv' /\ Shown'
    BY Steps, ShownSteps
  <2> QED BY <2>1, <2>2, PTL DEF Spec
<1>2. TypeOK /\ ConvInv /\ Shown /\ [Next]_vars =>
        [ op.kind = "structure" /\ op' = NoOp /\ turn'.at # "down"
          => ShowsAll(mem, mem') ]_vars
  BY CompactionEnds
<1> QED BY <1>1, <1>2, PTL DEF Spec, CompactionKeepsResults
=============================================================================
