--------------------------- MODULE McpPoolProofs ---------------------------
(***************************************************************************)
(* The refcount and the connected clients of the pool, for any number of   *)
(* users, calls and timeouts.                                              *)
(*                                                                         *)
(* The argument: a transition belongs to the thread that works on it, so   *)
(* the pooled client changes in its hands only (Turns); clients that are   *)
(* being connected are new, so none of them is the pooled one (Distinct);  *)
(* and every client made and still to be made is paid for by a call or by  *)
(* a timeout (Budget).                                                     *)
(***************************************************************************)
EXTENDS McpPool, FiniteSetTheorems, TLAPS

Making == {"connect", "connected", "redo", "redone"}

\* Who has a handle, and who has a client in hand.
Holding ==
  \A t \in Threads :
    /\ pc[t] \in {"using", "release", "release wait"} => handle[t] # None
    /\ pc[t] = "idle" => handle[t] = None
    /\ pc[t] \in Making \cup {"check", "dial"} => client[t] # None
    /\ pc[t] = "dial" => client[t] \in dialled

Turns ==
  \A t \in Threads : owner = t =>
    /\ pc[t] \in Making \cup {"disconnect", "drop old"}
    /\ pc[t] = "drop old" => client[t] = pool
    /\ pc[t] \in Making => pool \notin connected \/ pool \in dialled

Distinct ==
  /\ pool <= made
  /\ \A t \in Threads : pc[t] \in Making =>
       /\ client[t] <= made
       /\ client[t] # pool
       /\ \A u \in Threads \ {t} : pc[u] \in Making => client[u] # client[t]

\* The threads that are yet to make a client, and those that make one again
\* because they have lost their transition.
Owing == {t \in Threads : pc[t] \in {"acquire", "acquire wait", "reconnect", "reconnect wait",
                                     "drop old"}}
Overtaken == {t \in Threads : pc[t] \in Making \cup {"drop old"} /\ owner # t}

Budget == made + Cardinality(Owing) + Cardinality(Overtaken) <= calls + timeouts

PoolInv == TypeOK /\ Holding /\ Turns /\ Distinct /\ Budget
-----------------------------------------------------------------------------
LEMMA Fewer ==
  ASSUME NEW S, NEW T, IsFiniteSet(T), S \subseteq T
  PROVE  /\ Cardinality(S) \in Nat /\ Cardinality(T) \in Nat
         /\ Cardinality(S) <= Cardinality(T)
  BY FS_Subset, FS_CardinalityType

LEMMA OneFewer ==
  ASSUME NEW S, NEW T, IsFiniteSet(T), NEW x \in T, S \subseteq T \ {x}
  PROVE  /\ Cardinality(S) \in Nat /\ Cardinality(T) \in Nat
         /\ Cardinality(S) + 1 <= Cardinality(T)
<1>1. IsFiniteSet(T \ {x}) /\ Cardinality(T \ {x}) = Cardinality(T) - 1
  BY FS_RemoveElement
<1>2. Cardinality(S) <= Cardinality(T \ {x}) /\ Cardinality(S) \in Nat
  BY <1>1, Fewer
<1> QED BY <1>1, <1>2, FS_CardinalityType

LEMMA OneMore ==
  ASSUME NEW S, NEW T, IsFiniteSet(T), NEW x, S \subseteq T \cup {x}
  PROVE  /\ Cardinality(S) \in Nat /\ Cardinality(T) \in Nat
         /\ Cardinality(S) <= Cardinality(T) + 1
<1>1. /\ IsFiniteSet(T \cup {x}) /\ Cardinality(T) \in Nat
      /\ Cardinality(T \cup {x}) \in {Cardinality(T), Cardinality(T) + 1}
  BY FS_AddElement, FS_CardinalityType
<1>2. Cardinality(S) <= Cardinality(T \cup {x}) /\ Cardinality(S) \in Nat
  BY <1>1, Fewer
<1> QED BY <1>1, <1>2

LEMMA FiniteParts == IsFiniteSet(Owing) /\ IsFiniteSet(Overtaken) /\ IsFiniteSet(Holders)
  BY ThreadsAssumption, FS_Subset DEF Owing, Overtaken, Holders

\* A step moves one thread, and wakes others at most.
Moves(t) == \A u \in Threads \ {t} : pc'[u] \in {pc[u], Retry(pc[u])}

LEMMA RetryStep ==
  ASSUME NEW s \in Steps
  PROVE  Retry(s) \in Steps /\ (s \notin Waiting => Retry(s) = s)
  BY DEF Retry, Steps, Waiting, Waits

LEMMA ResolveStep ==
  ASSUME pc \in [Threads -> Steps], NEW t \in Threads, NEW s \in Steps,
         Resolve(t, s) \/ ResolveOwn(t, s) \/ Goto(t, s)
  PROVE  pc' \in [Threads -> Steps] /\ pc'[t] = s /\ Moves(t)
  BY RetryStep DEF Resolve, ResolveOwn, Goto, Moves

LEMMA Numbers ==
  ASSUME TypeOK
  PROVE  /\ made \in Nat /\ pool \in Nat /\ 0 \notin connected
         /\ made + 1 # 0 /\ 0 <= made
         /\ \A t \in Threads : client[t] \in Nat
<1>1. 0 \notin Clients /\ \A c \in Clients \cup {0} : c \in Nat
  BY BoundsAssumption DEF Clients
<1>2. made \in Nat /\ pool \in Nat
  BY <1>1 DEF TypeOK, None
<1>3. \A t \in Threads : client[t] \in Nat
  BY <1>1 DEF TypeOK, None
<1>4. 0 \notin connected
  BY <1>1 DEF TypeOK
<1> QED BY <1>2, <1>3, <1>4

LEMMA WaitPairs ==
  ASSUME NEW w \in Waits
  PROVE  \/ w[1] = "acquire" /\ w[2] = "acquire wait"
         \/ w[1] = "release" /\ w[2] = "release wait"
         \/ w[1] = "reconnect" /\ w[2] = "reconnect wait"
         \/ w[1] = "health" /\ w[2] = "health wait"
<1>1. CASE w = <<"acquire", "acquire wait">>
  BY <1>1
<1>2. CASE w = <<"release", "release wait">>
  BY <1>2
<1>3. CASE w = <<"reconnect", "reconnect wait">>
  BY <1>3
<1>4. CASE w = <<"health", "health wait">>
  BY <1>4
<1> QED BY <1>1, <1>2, <1>3, <1>4 DEF Waits

\* A step that leaves a thread at s, whether or not it ends a transition.
Leads(t, s) == Resolve(t, s) \/ ResolveOwn(t, s) \/ Goto(t, s)

LEMMA NextPlaces ==
  ASSUME TypeOK, [Next]_vars
  PROVE  pc' \in [Threads -> Steps]
<1> USE DEF TypeOK, server, user, bounds
<1>1. ASSUME NEW t \in Threads, CallAcquire(t) PROVE pc' \in [Threads -> Steps]
  <2>1. PICK s \in Steps : Leads(t, s)
    BY <1>1 DEF CallAcquire, Enter, Leads, Steps, Waiting, Waits
  <2> QED BY <2>1, ResolveStep DEF Leads
<1>2. ASSUME NEW t \in Threads, CallReconnect(t) PROVE pc' \in [Threads -> Steps]
  <2>1. PICK s \in Steps : Leads(t, s)
    BY <1>2 DEF CallReconnect, Enter, Leads, Steps, Waiting, Waits
  <2> QED BY <2>1, ResolveStep DEF Leads
<1>3. ASSUME NEW t \in Threads, CallRelease(t) PROVE pc' \in [Threads -> Steps]
  <2>1. PICK s \in Steps : Leads(t, s)
    BY <1>3 DEF CallRelease, Enter, Leads, Steps, Waiting, Waits
  <2> QED BY <2>1, ResolveStep DEF Leads
<1>4. ASSUME NEW t \in Threads, NEW w \in Waits, Wait(t, w) PROVE pc' \in [Threads -> Steps]
  <2>1. PICK s \in Steps : Leads(t, s)
    BY <1>4 DEF Wait, Leads, Steps, Waiting, Waits
  <2> QED BY <2>1, ResolveStep DEF Leads
<1>5. ASSUME NEW t \in Threads, TimeOut(t) PROVE pc' \in [Threads -> Steps]
  <2>1. PICK s \in Steps : Leads(t, s)
    BY <1>5, RetryStep DEF TimeOut, Leads, Steps, Waiting, Waits
  <2> QED BY <2>1, ResolveStep DEF Leads
<1>6. ASSUME NEW t \in Threads, Reuse(t) PROVE pc' \in [Threads -> Steps]
  <2>1. PICK s \in Steps : Leads(t, s)
    BY <1>6 DEF Reuse, TakeRef, Leads, Steps, Waiting, Waits
  <2> QED BY <2>1, ResolveStep DEF Leads
<1>7. ASSUME NEW t \in Threads, StartConnect(t) PROVE pc' \in [Threads -> Steps]
  <2>1. PICK s \in Steps : Leads(t, s)
    BY <1>7 DEF StartConnect, Fresh, Leads, Steps, Waiting, Waits
  <2> QED BY <2>1, ResolveStep DEF Leads
<1>8. ASSUME NEW t \in Threads, Connect(t) PROVE pc' \in [Threads -> Steps]
  <2>1. PICK s \in Steps : Leads(t, s)
    BY <1>8 DEF Connect, Leads, Steps, Waiting, Waits
  <2> QED BY <2>1, ResolveStep DEF Leads
<1>9. ASSUME NEW t \in Threads, FailConnect(t) PROVE pc' \in [Threads -> Steps]
  <2>1. PICK s \in Steps : Leads(t, s)
    BY <1>9 DEF FailConnect, Back, Leads, Steps, Waiting, Waits
  <2> QED BY <2>1, ResolveStep DEF Leads
<1>10. ASSUME NEW t \in Threads, Publish(t) PROVE pc' \in [Threads -> Steps]
  <2>1. PICK s \in Steps : Leads(t, s)
    BY <1>10 DEF Publish, TakeRef, Leads, Steps, Waiting, Waits
  <2> QED BY <2>1, ResolveStep DEF Leads
<1>11. ASSUME NEW t \in Threads, LoseRace(t) PROVE pc' \in [Threads -> Steps]
  <2>1. PICK s \in Steps : Leads(t, s)
    BY <1>11 DEF LoseRace, Leads, Steps, Waiting, Waits
  <2> QED BY <2>1, ResolveStep DEF Leads
<1>12. ASSUME NEW t \in Threads, Decrement(t) PROVE pc' \in [Threads -> Steps]
  <2>1. PICK s \in Steps : Leads(t, s)
    BY <1>12 DEF Decrement, GiveBack, Leads, Steps, Waiting, Waits
  <2> QED BY <2>1, ResolveStep DEF Leads
<1>13. ASSUME NEW t \in Threads, LastRelease(t) PROVE pc' \in [Threads -> Steps]
  <2>1. PICK s \in Steps : Leads(t, s)
    BY <1>13 DEF LastRelease, GiveBack, Leads, Steps, Waiting, Waits
  <2> QED BY <2>1, ResolveStep DEF Leads
<1>14. ASSUME NEW t \in Threads, Disconnect(t) PROVE pc' \in [Threads -> Steps]
  <2>1. PICK s \in Steps : Leads(t, s)
    BY <1>14 DEF Disconnect, Back, Leads, Steps, Waiting, Waits
  <2> QED BY <2>1, ResolveStep DEF Leads
<1>15. ASSUME NEW t \in Threads, StartReconnect(t) PROVE pc' \in [Threads -> Steps]
  <2>1. PICK s \in Steps : Leads(t, s)
    BY <1>15 DEF StartReconnect, Back, Leads, Steps, Waiting, Waits
  <2> QED BY <2>1, ResolveStep DEF Leads
<1>16. ASSUME NEW t \in Threads, DropOld(t) PROVE pc' \in [Threads -> Steps]
  <2>1. PICK s \in Steps : Leads(t, s)
    BY <1>16 DEF DropOld, Fresh, Leads, Steps, Waiting, Waits
  <2> QED BY <2>1, ResolveStep DEF Leads
<1>17. ASSUME NEW t \in Threads, FailReconnect(t) PROVE pc' \in [Threads -> Steps]
  <2>1. PICK s \in Steps : Leads(t, s)
    BY <1>17 DEF FailReconnect, Back, Leads, Steps, Waiting, Waits
  <2> QED BY <2>1, ResolveStep DEF Leads
<1>18. ASSUME NEW t \in Threads, Replace(t) PROVE pc' \in [Threads -> Steps]
  <2>1. PICK s \in Steps : Leads(t, s)
    BY <1>18 DEF Replace, Back, Leads, Steps, Waiting, Waits
  <2> QED BY <2>1, ResolveStep DEF Leads
<1>19. ASSUME NEW t \in Threads, Dial(t) PROVE pc' \in [Threads -> Steps]
  <2>1. PICK s \in Steps : Leads(t, s)
    BY <1>19 DEF Dial, Leads, Steps, Waiting, Waits
  <2> QED BY <2>1, ResolveStep DEF Leads
<1>20. ASSUME NEW t \in Threads, EndDial(t) PROVE pc' \in [Threads -> Steps]
  <2>1. PICK s \in Steps : Leads(t, s)
    BY <1>20 DEF EndDial, Back, Leads, Steps, Waiting, Waits
  <2> QED BY <2>1, ResolveStep DEF Leads
<1>21. CASE UNCHANGED vars
  BY <1>21 DEF vars, server, user, bounds
<1>22. ASSUME NEW t \in Threads, CallHealth(t) PROVE pc' \in [Threads -> Steps]
  <2>1. PICK s \in Steps : Leads(t, s)
    BY <1>22 DEF CallHealth, Enter, Leads, Steps, Waiting, Waits
  <2> QED BY <2>1, ResolveStep DEF Leads
<1>23. ASSUME NEW t \in Threads, GiveUp(t) PROVE pc' \in [Threads -> Steps]
  <2>1. PICK s \in Steps : Leads(t, s)
    BY <1>23 DEF GiveUp, Back, Leads, Steps, Waiting, Waits
  <2> QED BY <2>1, ResolveStep DEF Leads
<1>24. ASSUME NEW t \in Threads, ReadPool(t) PROVE pc' \in [Threads -> Steps]
  <2>1. PICK s \in Steps : Leads(t, s)
    BY <1>24 DEF ReadPool, Back, Leads, Steps, Waiting, Waits
  <2> QED BY <2>1, ResolveStep DEF Leads
<1>25. ASSUME NEW t \in Threads, Probe(t) PROVE pc' \in [Threads -> Steps]
  <2>1. PICK s \in Steps : Leads(t, s)
    BY <1>25 DEF Probe, Back, Leads, Steps, Waiting, Waits
  <2> QED BY <2>1, ResolveStep DEF Leads
<1>26. ASSUME NEW t \in Threads, Discard(t) PROVE pc' \in [Threads -> Steps]
  <2>1. PICK s \in Steps : Leads(t, s)
    BY <1>26 DEF Discard, Leads, Steps, Waiting, Waits
  <2> QED BY <2>1, ResolveStep DEF Leads
<1> QED
  BY <1>1, <1>2, <1>3, <1>4, <1>5, <1>6, <1>7, <1>8, <1>9, <1>10, <1>11,
     <1>12, <1>13, <1>14, <1>15, <1>16, <1>17, <1>18, <1>19, <1>20, <1>21,
     <1>22, <1>23, <1>24, <1>25, <1>26 DEF Next, Step, Connecting

LEMMA NextHolding ==
  ASSUME TypeOK, Holding, [Next]_vars
  PROVE  Holding'
<1> USE DEF TypeOK, Holding, server, user, bounds, Making, Resolve, ResolveOwn, Goto, Retry, None
<1>0. /\ made \in Nat /\ pool \in Nat /\ 0 \notin connected /\ made + 1 # 0 /\ 0 <= made
      /\ \A t \in Threads : client[t] \in Nat
  BY Numbers
<1> USE <1>0
<1>1. ASSUME NEW t \in Threads, CallAcquire(t) PROVE Holding'
  BY <1>1 DEF CallAcquire, Enter
<1>2. ASSUME NEW t \in Threads, CallReconnect(t) PROVE Holding'
  BY <1>2 DEF CallReconnect, Enter
<1>3. ASSUME NEW t \in Threads, CallRelease(t) PROVE Holding'
  BY <1>3 DEF CallRelease, Enter
<1>4. ASSUME NEW t \in Threads, NEW w \in Waits, Wait(t, w) PROVE Holding'
  <2>1. w[1] \in {"acquire", "release", "reconnect", "health"} /\ w[2] \in Waiting
    BY WaitPairs DEF Waiting
  <2> QED BY <1>4, <2>1, WaitPairs DEF Wait
<1>5. ASSUME NEW t \in Threads, TimeOut(t) PROVE Holding'
  BY <1>5 DEF TimeOut
<1>6. ASSUME NEW t \in Threads, Reuse(t) PROVE Holding'
  BY <1>6, Numbers DEF Reuse, TakeRef
<1>7. ASSUME NEW t \in Threads, StartConnect(t) PROVE Holding'
  BY <1>7, Numbers DEF StartConnect, Fresh
<1>8. ASSUME NEW t \in Threads, Connect(t) PROVE Holding'
  BY <1>8 DEF Connect
<1>9. ASSUME NEW t \in Threads, FailConnect(t) PROVE Holding'
  BY <1>9 DEF FailConnect, Back
<1>10. ASSUME NEW t \in Threads, Publish(t) PROVE Holding'
  BY <1>10 DEF Publish, TakeRef
<1>11. ASSUME NEW t \in Threads, LoseRace(t) PROVE Holding'
  BY <1>11 DEF LoseRace
<1>12. ASSUME NEW t \in Threads, Decrement(t) PROVE Holding'
  BY <1>12 DEF Decrement, GiveBack
<1>13. ASSUME NEW t \in Threads, LastRelease(t) PROVE Holding'
  BY <1>13 DEF LastRelease, GiveBack
<1>14. ASSUME NEW t \in Threads, Disconnect(t) PROVE Holding'
  BY <1>14 DEF Disconnect, Back
<1>15. ASSUME NEW t \in Threads, StartReconnect(t) PROVE Holding'
  BY <1>15 DEF StartReconnect, Back
<1>16. ASSUME NEW t \in Threads, DropOld(t) PROVE Holding'
  BY <1>16, Numbers DEF DropOld, Fresh
<1>17. ASSUME NEW t \in Threads, FailReconnect(t) PROVE Holding'
  BY <1>17 DEF FailReconnect, Back
<1>18. ASSUME NEW t \in Threads, Replace(t) PROVE Holding'
  BY <1>18 DEF Replace, Back
<1>19. ASSUME NEW t \in Threads, Dial(t) PROVE Holding'
  BY <1>19 DEF Dial
<1>20. ASSUME NEW t \in Threads, EndDial(t) PROVE Holding'
  BY <1>20 DEF EndDial, Back
<1>21. CASE UNCHANGED vars
  BY <1>21 DEF vars, server, user, bounds
<1>22. ASSUME NEW t \in Threads, CallHealth(t) PROVE Holding'
  BY <1>22 DEF CallHealth, Enter
<1>23. ASSUME NEW t \in Threads, GiveUp(t) PROVE Holding'
  BY <1>23 DEF GiveUp, Back
<1>24. ASSUME NEW t \in Threads, ReadPool(t) PROVE Holding'
  BY <1>24 DEF ReadPool, Back
<1>25. ASSUME NEW t \in Threads, Probe(t) PROVE Holding'
  BY <1>25 DEF Probe, Back
<1>26. ASSUME NEW t \in Threads, Discard(t) PROVE Holding'
  BY <1>26 DEF Discard
<1> QED
  BY <1>1, <1>2, <1>3, <1>4, <1>5, <1>6, <1>7, <1>8, <1>9, <1>10, <1>11,
     <1>12, <1>13, <1>14, <1>15, <1>16, <1>17, <1>18, <1>19, <1>20, <1>21,
     <1>22, <1>23, <1>24, <1>25, <1>26 DEF Next, Step, Connecting

LEMMA NextTurns ==
  ASSUME TypeOK, Holding, Turns, Distinct, [Next]_vars
  PROVE  Turns'
<1> USE ThreadsAssumption DEF TypeOK, Turns, server, user, bounds, Making, Resolve, ResolveOwn, Goto, Retry
<1>0. /\ made \in Nat /\ pool \in Nat /\ 0 \notin connected /\ made + 1 # 0 /\ 0 <= made
      /\ \A t \in Threads : client[t] \in Nat
  BY Numbers
<1> USE <1>0
<1>1. ASSUME NEW t \in Threads, CallAcquire(t) PROVE Turns'
  BY <1>1 DEF CallAcquire, Enter
<1>2. ASSUME NEW t \in Threads, CallReconnect(t) PROVE Turns'
  BY <1>2 DEF CallReconnect, Enter
<1>3. ASSUME NEW t \in Threads, CallRelease(t) PROVE Turns'
  BY <1>3 DEF CallRelease, Enter
<1>4. ASSUME NEW t \in Threads, NEW w \in Waits, Wait(t, w) PROVE Turns'
  <2>1. w[1] \in {"acquire", "release", "reconnect", "health"} /\ w[2] \in Waiting
    BY WaitPairs DEF Waiting
  <2> QED BY <1>4, <2>1, WaitPairs DEF Wait
<1>5. ASSUME NEW t \in Threads, TimeOut(t) PROVE Turns'
  BY <1>5 DEF TimeOut
<1>6. ASSUME NEW t \in Threads, Reuse(t) PROVE Turns'
  BY <1>6 DEF Reuse, TakeRef
<1>7. ASSUME NEW t \in Threads, StartConnect(t) PROVE Turns'
  BY <1>7 DEF StartConnect, Fresh
<1>8. ASSUME NEW t \in Threads, Connect(t) PROVE Turns'
  BY <1>8 DEF Connect, Distinct
<1>9. ASSUME NEW t \in Threads, FailConnect(t) PROVE Turns'
  BY <1>9 DEF FailConnect, Back
<1>10. ASSUME NEW t \in Threads, Publish(t) PROVE Turns'
  BY <1>10 DEF Publish, TakeRef
<1>11. ASSUME NEW t \in Threads, LoseRace(t) PROVE Turns'
  BY <1>11 DEF LoseRace
<1>12. ASSUME NEW t \in Threads, Decrement(t) PROVE Turns'
  BY <1>12 DEF Decrement, GiveBack
<1>13. ASSUME NEW t \in Threads, LastRelease(t) PROVE Turns'
  BY <1>13 DEF LastRelease, GiveBack
<1>14. ASSUME NEW t \in Threads, Disconnect(t) PROVE Turns'
  BY <1>14 DEF Disconnect, Back
<1>15. ASSUME NEW t \in Threads, StartReconnect(t) PROVE Turns'
  BY <1>15 DEF StartReconnect, Back
<1>16. ASSUME NEW t \in Threads, DropOld(t) PROVE Turns'
  BY <1>16 DEF DropOld, Fresh
<1>17. ASSUME NEW t \in Threads, FailReconnect(t) PROVE Turns'
  BY <1>17 DEF FailReconnect, Back
<1>18. ASSUME NEW t \in Threads, Replace(t) PROVE Turns'
  BY <1>18 DEF Replace, Back
<1>19. ASSUME NEW t \in Threads, Dial(t) PROVE Turns'
  BY <1>19 DEF Dial
<1>20. ASSUME NEW t \in Threads, EndDial(t) PROVE Turns'
  BY <1>20 DEF EndDial, Back, Holding
<1>21. CASE UNCHANGED vars
  BY <1>21 DEF vars, server, user, bounds
<1>22. ASSUME NEW t \in Threads, CallHealth(t) PROVE Turns'
  BY <1>22 DEF CallHealth, Enter
<1>23. ASSUME NEW t \in Threads, GiveUp(t) PROVE Turns'
  BY <1>23 DEF GiveUp, Back
<1>24. ASSUME NEW t \in Threads, ReadPool(t) PROVE Turns'
  BY <1>24 DEF ReadPool, Back
<1>25. ASSUME NEW t \in Threads, Probe(t) PROVE Turns'
  BY <1>25 DEF Probe, Back
<1>26. ASSUME NEW t \in Threads, Discard(t) PROVE Turns'
  BY <1>26 DEF Discard
<1> QED
  BY <1>1, <1>2, <1>3, <1>4, <1>5, <1>6, <1>7, <1>8, <1>9, <1>10, <1>11,
     <1>12, <1>13, <1>14, <1>15, <1>16, <1>17, <1>18, <1>19, <1>20, <1>21,
     <1>22, <1>23, <1>24, <1>25, <1>26 DEF Next, Step, Connecting

LEMMA NextDistinct ==
  ASSUME TypeOK, Holding, Distinct, [Next]_vars
  PROVE  Distinct'
<1> USE BoundsAssumption DEF TypeOK, Holding, Distinct, server, user, bounds, Making, Resolve, ResolveOwn, Goto, Retry, Clients, None
<1>0. /\ made \in Nat /\ pool \in Nat /\ 0 \notin connected /\ made + 1 # 0 /\ 0 <= made
      /\ \A t \in Threads : client[t] \in Nat
  BY Numbers
<1> USE <1>0
<1>1. ASSUME NEW t \in Threads, CallAcquire(t) PROVE Distinct'
  BY <1>1 DEF CallAcquire, Enter
<1>2. ASSUME NEW t \in Threads, CallReconnect(t) PROVE Distinct'
  BY <1>2 DEF CallReconnect, Enter
<1>3. ASSUME NEW t \in Threads, CallRelease(t) PROVE Distinct'
  BY <1>3 DEF CallRelease, Enter
<1>4. ASSUME NEW t \in Threads, NEW w \in Waits, Wait(t, w) PROVE Distinct'
  <2>1. w[1] \in {"acquire", "release", "reconnect", "health"} /\ w[2] \in Waiting
    BY WaitPairs DEF Waiting
  <2> QED BY <1>4, <2>1, WaitPairs DEF Wait
<1>5. ASSUME NEW t \in Threads, TimeOut(t) PROVE Distinct'
  BY <1>5 DEF TimeOut
<1>6. ASSUME NEW t \in Threads, Reuse(t) PROVE Distinct'
  BY <1>6 DEF Reuse, TakeRef
<1>7. ASSUME NEW t \in Threads, StartConnect(t) PROVE Distinct'
  <2>1. /\ made' = made + 1 /\ client'[t] = made + 1 /\ pool' = pool
        /\ \A u \in Threads \ {t} : pc'[u] = pc[u] /\ client'[u] = client[u]
    BY <1>7 DEF StartConnect, Fresh
  <2>2. \A u \in Threads \ {t} : pc[u] \in Making => client[u] <= made /\ client[u] # pool
    BY DEF Distinct
  <2>3. pool <= made
    BY DEF Distinct
  <2>4. pool' <= made' /\ client'[t] # pool' /\ client'[t] <= made'
    BY ONLY <1>0, <2>1, <2>3
  <2>5. \A u \in Threads \ {t} : pc'[u] \in Making =>
           client'[u] <= made' /\ client'[u] # pool' /\ client'[u] # client'[t]
    BY ONLY <1>0, <2>1, <2>2
  <2>6. \A u, v \in Threads \ {t} : u # v /\ pc'[u] \in Making /\ pc'[v] \in Making
           => client'[u] # client'[v]
    BY <2>1 DEF Distinct
  <2> QED BY <2>4, <2>5, <2>6 DEF Distinct
<1>8. ASSUME NEW t \in Threads, Connect(t) PROVE Distinct'
  BY <1>8 DEF Connect
<1>9. ASSUME NEW t \in Threads, FailConnect(t) PROVE Distinct'
  BY <1>9 DEF FailConnect, Back
<1>10. ASSUME NEW t \in Threads, Publish(t) PROVE Distinct'
  BY <1>10 DEF Publish, TakeRef
<1>11. ASSUME NEW t \in Threads, LoseRace(t) PROVE Distinct'
  BY <1>11 DEF LoseRace
<1>12. ASSUME NEW t \in Threads, Decrement(t) PROVE Distinct'
  BY <1>12 DEF Decrement, GiveBack
<1>13. ASSUME NEW t \in Threads, LastRelease(t) PROVE Distinct'
  BY <1>13 DEF LastRelease, GiveBack
<1>14. ASSUME NEW t \in Threads, Disconnect(t) PROVE Distinct'
  <2>1. pool' = pool /\ made' = made /\ client' = client
    BY <1>14 DEF Disconnect
  <2>2. pc'[t] \notin Making
    BY <1>14 DEF Disconnect, Back
  <2>3. \A u \in Threads \ {t} : pc'[u] \in Making => pc[u] \in Making
    BY <1>14 DEF Disconnect
  <2> QED BY ONLY Distinct, <2>1, <2>2, <2>3 DEF Distinct
<1>15. ASSUME NEW t \in Threads, StartReconnect(t) PROVE Distinct'
  BY <1>15 DEF StartReconnect, Back
<1>16. ASSUME NEW t \in Threads, DropOld(t) PROVE Distinct'
  <2>1. /\ made' = made + 1 /\ client'[t] = made + 1 /\ pool' = pool
        /\ \A u \in Threads \ {t} : pc'[u] = pc[u] /\ client'[u] = client[u]
    BY <1>16 DEF DropOld, Fresh
  <2>2. \A u \in Threads \ {t} : pc[u] \in Making => client[u] <= made /\ client[u] # pool
    BY DEF Distinct
  <2>3. pool <= made
    BY DEF Distinct
  <2>4. pool' <= made' /\ client'[t] # pool' /\ client'[t] <= made'
    BY ONLY <1>0, <2>1, <2>3
  <2>5. \A u \in Threads \ {t} : pc'[u] \in Making =>
           client'[u] <= made' /\ client'[u] # pool' /\ client'[u] # client'[t]
    BY ONLY <1>0, <2>1, <2>2
  <2>6. \A u, v \in Threads \ {t} : u # v /\ pc'[u] \in Making /\ pc'[v] \in Making
           => client'[u] # client'[v]
    BY <2>1 DEF Distinct
  <2> QED BY <2>4, <2>5, <2>6 DEF Distinct
<1>17. ASSUME NEW t \in Threads, FailReconnect(t) PROVE Distinct'
  BY <1>17 DEF FailReconnect, Back
<1>18. ASSUME NEW t \in Threads, Replace(t) PROVE Distinct'
  BY <1>18 DEF Replace, Back
<1>19. ASSUME NEW t \in Threads, Dial(t) PROVE Distinct'
  BY <1>19 DEF Dial
<1>20. ASSUME NEW t \in Threads, EndDial(t) PROVE Distinct'
  BY <1>20 DEF EndDial, Back
<1>21. CASE UNCHANGED vars
  BY <1>21 DEF vars, server, user, bounds
<1>22. ASSUME NEW t \in Threads, CallHealth(t) PROVE Distinct'
  BY <1>22 DEF CallHealth, Enter
<1>23. ASSUME NEW t \in Threads, GiveUp(t) PROVE Distinct'
  BY <1>23 DEF GiveUp, Back
<1>24. ASSUME NEW t \in Threads, ReadPool(t) PROVE Distinct'
  BY <1>24 DEF ReadPool, Back
<1>25. ASSUME NEW t \in Threads, Probe(t) PROVE Distinct'
  BY <1>25 DEF Probe, Back
<1>26. ASSUME NEW t \in Threads, Discard(t) PROVE Distinct'
  BY <1>26 DEF Discard
<1> QED
  BY <1>1, <1>2, <1>3, <1>4, <1>5, <1>6, <1>7, <1>8, <1>9, <1>10, <1>11,
     <1>12, <1>13, <1>14, <1>15, <1>16, <1>17, <1>18, <1>19, <1>20, <1>21,
     <1>22, <1>23, <1>24, <1>25, <1>26 DEF Next, Step, Connecting

\* A step that makes no client and owes none that is not paid for.
LEMMA Thrifty ==
  ASSUME made \in Nat, calls \in Nat, timeouts \in Nat, Budget,
         made' = made, calls' = calls, timeouts' = timeouts,
         Owing' \subseteq Owing, Overtaken' \subseteq Overtaken
  PROVE  Budget'
<1>1. Cardinality(Owing') <= Cardinality(Owing) /\ Cardinality(Owing') \in Nat /\ Cardinality(Owing) \in Nat
  BY FiniteParts, Fewer
<1>2. Cardinality(Overtaken') <= Cardinality(Overtaken) /\ Cardinality(Overtaken') \in Nat /\ Cardinality(Overtaken) \in Nat
  BY FiniteParts, Fewer
<1> QED BY <1>1, <1>2 DEF Budget

\* A call, which may owe one.
LEMMA Paid ==
  ASSUME made \in Nat, calls \in Nat, timeouts \in Nat, Budget, NEW t \in Threads,
         made' = made, calls' = calls + 1, timeouts' = timeouts,
         Owing' \subseteq Owing \cup {t}, Overtaken' \subseteq Overtaken
  PROVE  Budget'
<1>1. Cardinality(Owing') <= Cardinality(Owing) + 1 /\ Cardinality(Owing') \in Nat /\ Cardinality(Owing) \in Nat
  BY FiniteParts, OneMore
<1>2. Cardinality(Overtaken') <= Cardinality(Overtaken) /\ Cardinality(Overtaken') \in Nat /\ Cardinality(Overtaken) \in Nat
  BY FiniteParts, Fewer
<1> QED BY <1>1, <1>2 DEF Budget

\* A timeout, which may take the transition of one.
LEMMA Overtakes ==
  ASSUME made \in Nat, calls \in Nat, timeouts \in Nat, Budget,
         made' = made, calls' = calls, timeouts' = timeouts + 1,
         Owing' \subseteq Owing, Overtaken' \subseteq Overtaken \cup {owner}
  PROVE  Budget'
<1>1. Cardinality(Owing') <= Cardinality(Owing) /\ Cardinality(Owing') \in Nat /\ Cardinality(Owing) \in Nat
  BY FiniteParts, Fewer
<1>2. Cardinality(Overtaken') <= Cardinality(Overtaken) + 1 /\ Cardinality(Overtaken') \in Nat /\ Cardinality(Overtaken) \in Nat
  BY FiniteParts, OneMore
<1> QED BY <1>1, <1>2 DEF Budget

\* A client is made by one that owed it.
LEMMA Makes ==
  ASSUME made \in Nat, calls \in Nat, timeouts \in Nat, Budget, NEW t \in Owing,
         made' = made + 1, calls' = calls, timeouts' = timeouts,
         Owing' \subseteq Owing \ {t}, Overtaken' \subseteq Overtaken
  PROVE  Budget'
<1>1. Cardinality(Owing') + 1 <= Cardinality(Owing) /\ Cardinality(Owing') \in Nat /\ Cardinality(Owing) \in Nat
  <2>1. IsFiniteSet(Owing) /\ t \in Owing
    BY FiniteParts
  <2> QED BY ONLY <2>1, Owing' \subseteq Owing \ {t}, OneFewer
<1>2. Cardinality(Overtaken') <= Cardinality(Overtaken) /\ Cardinality(Overtaken') \in Nat /\ Cardinality(Overtaken) \in Nat
  BY FiniteParts, Fewer
<1> QED BY <1>1, <1>2 DEF Budget

\* One that was overtaken owes another.
LEMMA Retries ==
  ASSUME made \in Nat, calls \in Nat, timeouts \in Nat, Budget, NEW t \in Overtaken,
         made' = made, calls' = calls, timeouts' = timeouts,
         Owing' \subseteq Owing \cup {t}, Overtaken' \subseteq Overtaken \ {t}
  PROVE  Budget'
<1>1. Cardinality(Owing') <= Cardinality(Owing) + 1 /\ Cardinality(Owing') \in Nat /\ Cardinality(Owing) \in Nat
  BY FiniteParts, OneMore
<1>2. Cardinality(Overtaken') + 1 <= Cardinality(Overtaken) /\ Cardinality(Overtaken') \in Nat /\ Cardinality(Overtaken) \in Nat
  BY FiniteParts, OneFewer
<1> QED BY <1>1, <1>2 DEF Budget

LEMMA NextBudget ==
  ASSUME TypeOK, Budget, Turns, [Next]_vars
  PROVE  Budget'
<1> USE ThreadsAssumption, BoundsAssumption DEF TypeOK, Owing, Overtaken, server, user, bounds, Making, Resolve, ResolveOwn, Goto, Retry
<1>0. /\ made \in Nat /\ pool \in Nat /\ 0 \notin connected /\ made + 1 # 0 /\ 0 <= made
      /\ \A t \in Threads : client[t] \in Nat
  BY Numbers
<1>a. calls \in Nat /\ timeouts \in Nat
  BY DEF TypeOK
<1>1. ASSUME NEW t \in Threads, CallAcquire(t) PROVE Budget'
  <2>1. Owing' \subseteq Owing \cup {t}
    BY <1>1 DEF CallAcquire, Enter
  <2>2. Overtaken' \subseteq Overtaken
    BY <1>1 DEF CallAcquire, Enter
  <2>3. made' = made /\ calls' = calls + 1 /\ timeouts' = timeouts
    BY ONLY <1>1 DEF CallAcquire, Enter, server, user, bounds
  <2> QED BY ONLY Budget, <1>0, <1>a, <1>1, <2>1, <2>2, <2>3, Paid
<1>2. ASSUME NEW t \in Threads, CallReconnect(t) PROVE Budget'
  <2>1. Owing' \subseteq Owing \cup {t}
    BY <1>2 DEF CallReconnect, Enter
  <2>2. Overtaken' \subseteq Overtaken
    BY <1>2 DEF CallReconnect, Enter
  <2>3. made' = made /\ calls' = calls + 1 /\ timeouts' = timeouts
    BY ONLY <1>2 DEF CallReconnect, Enter, server, user, bounds
  <2> QED BY ONLY Budget, <1>0, <1>a, <1>2, <2>1, <2>2, <2>3, Paid
<1>3. ASSUME NEW t \in Threads, CallRelease(t) PROVE Budget'
  <2>1. Owing' \subseteq Owing
    BY <1>3 DEF CallRelease, Enter
  <2>2. Overtaken' \subseteq Overtaken
    BY <1>3 DEF CallRelease, Enter
  <2>3. made' = made /\ calls' = calls /\ timeouts' = timeouts
    BY ONLY <1>3 DEF CallRelease, Enter, server, user, bounds
  <2> QED BY ONLY Budget, <1>0, <1>a, <1>3, <2>1, <2>2, <2>3, Thrifty
<1>4. ASSUME NEW t \in Threads, NEW w \in Waits, Wait(t, w) PROVE Budget'
  <2>1. Owing' \subseteq Owing
    BY <1>4, WaitPairs DEF Wait
  <2>2. Overtaken' \subseteq Overtaken
    BY <1>4, WaitPairs DEF Wait
  <2>3. made' = made /\ calls' = calls /\ timeouts' = timeouts
    BY ONLY <1>4 DEF Wait, server, user, bounds
  <2> QED BY ONLY Budget, <1>0, <1>a, <1>4, <2>1, <2>2, <2>3, Thrifty
<1>5. ASSUME NEW t \in Threads, TimeOut(t) PROVE Budget'
  <2>1. Owing' \subseteq Owing
    BY <1>5 DEF TimeOut
  <2>2. Overtaken' \subseteq Overtaken \cup {owner}
    BY <1>5 DEF TimeOut
  <2>3. made' = made /\ calls' = calls /\ timeouts' = timeouts + 1
    BY ONLY <1>5 DEF TimeOut, server, user, bounds
  <2> QED BY ONLY Budget, <1>0, <1>a, <1>5, <2>1, <2>2, <2>3, Overtakes
<1>6. ASSUME NEW t \in Threads, Reuse(t) PROVE Budget'
  <2>1. Owing' \subseteq Owing
    BY <1>6 DEF Reuse, TakeRef
  <2>2. Overtaken' \subseteq Overtaken
    BY <1>6 DEF Reuse, TakeRef
  <2>3. made' = made /\ calls' = calls /\ timeouts' = timeouts
    BY ONLY <1>6 DEF Reuse, TakeRef, server, user, bounds
  <2> QED BY ONLY Budget, <1>0, <1>a, <1>6, <2>1, <2>2, <2>3, Thrifty
<1>7. ASSUME NEW t \in Threads, StartConnect(t) PROVE Budget'
  <2>1. t \in Owing /\ Owing' \subseteq Owing \ {t}
    BY <1>7 DEF StartConnect, Fresh
  <2>2. Overtaken' \subseteq Overtaken
    BY <1>7 DEF StartConnect, Fresh
  <2>3. made' = made + 1 /\ calls' = calls /\ timeouts' = timeouts
    BY ONLY <1>7 DEF StartConnect, Fresh, server, user, bounds
  <2> QED BY ONLY Budget, <1>0, <1>a, <1>7, <2>1, <2>2, <2>3, Makes
<1>8. ASSUME NEW t \in Threads, Connect(t) PROVE Budget'
  <2>1. Owing' \subseteq Owing
    BY <1>8 DEF Connect
  <2>2. Overtaken' \subseteq Overtaken
    BY <1>8 DEF Connect
  <2>3. made' = made /\ calls' = calls /\ timeouts' = timeouts
    BY ONLY <1>8 DEF Connect, server, user, bounds
  <2> QED BY ONLY Budget, <1>0, <1>a, <1>8, <2>1, <2>2, <2>3, Thrifty
<1>9. ASSUME NEW t \in Threads, FailConnect(t) PROVE Budget'
  <2>1. Owing' \subseteq Owing
    BY <1>9 DEF FailConnect, Back
  <2>2. Overtaken' \subseteq Overtaken
    BY <1>9 DEF FailConnect, Back
  <2>3. made' = made /\ calls' = calls /\ timeouts' = timeouts
    BY ONLY <1>9 DEF FailConnect, Back, server, user, bounds
  <2> QED BY ONLY Budget, <1>0, <1>a, <1>9, <2>1, <2>2, <2>3, Thrifty
<1>10. ASSUME NEW t \in Threads, Publish(t) PROVE Budget'
  <2>1. Owing' \subseteq Owing
    BY <1>10 DEF Publish, TakeRef
  <2>2. Overtaken' \subseteq Overtaken
    BY <1>10 DEF Publish, TakeRef
  <2>3. made' = made /\ calls' = calls /\ timeouts' = timeouts
    BY ONLY <1>10 DEF Publish, TakeRef, server, user, bounds
  <2> QED BY ONLY Budget, <1>0, <1>a, <1>10, <2>1, <2>2, <2>3, Thrifty
<1>11. ASSUME NEW t \in Threads, LoseRace(t) PROVE Budget'
  <2>1. Owing' \subseteq Owing \cup {t}
    BY <1>11 DEF LoseRace
  <2>2. t \in Overtaken /\ Overtaken' \subseteq Overtaken \ {t}
    BY <1>11 DEF LoseRace
  <2>3. made' = made /\ calls' = calls /\ timeouts' = timeouts
    BY ONLY <1>11 DEF LoseRace, server, user, bounds
  <2> QED BY ONLY Budget, <1>0, <1>a, <1>11, <2>1, <2>2, <2>3, Retries
<1>12. ASSUME NEW t \in Threads, Decrement(t) PROVE Budget'
  <2>1. Owing' \subseteq Owing
    BY <1>12 DEF Decrement, GiveBack
  <2>2. Overtaken' \subseteq Overtaken
    BY <1>12 DEF Decrement, GiveBack
  <2>3. made' = made /\ calls' = calls /\ timeouts' = timeouts
    BY ONLY <1>12 DEF Decrement, GiveBack, server, user, bounds
  <2> QED BY ONLY Budget, <1>0, <1>a, <1>12, <2>1, <2>2, <2>3, Thrifty
<1>13. ASSUME NEW t \in Threads, LastRelease(t) PROVE Budget'
  <2>1. Owing' \subseteq Owing
    BY <1>13 DEF LastRelease, GiveBack
  <2>2. Overtaken' \subseteq Overtaken
    BY <1>13 DEF LastRelease, GiveBack
  <2>3. made' = made /\ calls' = calls /\ timeouts' = timeouts
    BY ONLY <1>13 DEF LastRelease, GiveBack, server, user, bounds
  <2> QED BY ONLY Budget, <1>0, <1>a, <1>13, <2>1, <2>2, <2>3, Thrifty
<1>14. ASSUME NEW t \in Threads, Disconnect(t) PROVE Budget'
  <2>1. Owing' \subseteq Owing
    BY <1>14 DEF Disconnect, Back
  <2>2. Overtaken' \subseteq Overtaken
    BY <1>14 DEF Disconnect, Back
  <2>3. made' = made /\ calls' = calls /\ timeouts' = timeouts
    BY ONLY <1>14 DEF Disconnect, Back, server, user, bounds
  <2> QED BY ONLY Budget, <1>0, <1>a, <1>14, <2>1, <2>2, <2>3, Thrifty
<1>15. ASSUME NEW t \in Threads, StartReconnect(t) PROVE Budget'
  <2>1. Owing' \subseteq Owing
    BY <1>15 DEF StartReconnect, Back
  <2>2. Overtaken' \subseteq Overtaken
    <3>1. CASE known
      BY <1>15, <3>1 DEF StartReconnect, Back
    <3>2. CASE ~known
      BY <1>15, <3>2 DEF StartReconnect, Back
    <3> QED BY <3>1, <3>2
  <2>3. made' = made /\ calls' = calls /\ timeouts' = timeouts
    BY ONLY <1>15 DEF StartReconnect, Back, server, user, bounds
  <2> QED BY ONLY Budget, <1>0, <1>a, <1>15, <2>1, <2>2, <2>3, Thrifty
<1>16. ASSUME NEW t \in Threads, DropOld(t) PROVE Budget'
  <2>1. t \in Owing /\ Owing' \subseteq Owing \ {t}
    BY <1>16 DEF DropOld, Fresh
  <2>2. Overtaken' \subseteq Overtaken
    BY <1>16 DEF DropOld, Fresh
  <2>3. made' = made + 1 /\ calls' = calls /\ timeouts' = timeouts
    BY ONLY <1>16 DEF DropOld, Fresh, server, user, bounds
  <2> QED BY ONLY Budget, <1>0, <1>a, <1>16, <2>1, <2>2, <2>3, Makes
<1>17. ASSUME NEW t \in Threads, FailReconnect(t) PROVE Budget'
  <2>1. Owing' \subseteq Owing
    BY <1>17 DEF FailReconnect, Back
  <2>2. Overtaken' \subseteq Overtaken
    BY <1>17 DEF FailReconnect, Back
  <2>3. made' = made /\ calls' = calls /\ timeouts' = timeouts
    BY ONLY <1>17 DEF FailReconnect, Back, server, user, bounds
  <2> QED BY ONLY Budget, <1>0, <1>a, <1>17, <2>1, <2>2, <2>3, Thrifty
<1>18. ASSUME NEW t \in Threads, Replace(t) PROVE Budget'
  <2>1. Owing' \subseteq Owing
    BY <1>18 DEF Replace, Back
  <2>2. Overtaken' \subseteq Overtaken
    BY <1>18 DEF Replace, Back
  <2>3. made' = made /\ calls' = calls /\ timeouts' = timeouts
    BY ONLY <1>18 DEF Replace, Back, server, user, bounds
  <2> QED BY ONLY Budget, <1>0, <1>a, <1>18, <2>1, <2>2, <2>3, Thrifty
<1>19. ASSUME NEW t \in Threads, Dial(t) PROVE Budget'
  <2>1. Owing' \subseteq Owing \cup {t}
    BY <1>19 DEF Dial
  <2>2. Overtaken' \subseteq Overtaken
    BY <1>19 DEF Dial
  <2>3. made' = made /\ calls' = calls + 1 /\ timeouts' = timeouts
    BY ONLY <1>19 DEF Dial, server, user, bounds
  <2> QED BY ONLY Budget, <1>0, <1>a, <1>19, <2>1, <2>2, <2>3, Paid
<1>20. ASSUME NEW t \in Threads, EndDial(t) PROVE Budget'
  <2>1. Owing' \subseteq Owing
    BY <1>20 DEF EndDial, Back
  <2>2. Overtaken' \subseteq Overtaken
    BY <1>20 DEF EndDial, Back
  <2>3. made' = made /\ calls' = calls /\ timeouts' = timeouts
    BY ONLY <1>20 DEF EndDial, Back, server, user, bounds
  <2> QED BY ONLY Budget, <1>0, <1>a, <1>20, <2>1, <2>2, <2>3, Thrifty
<1>21. CASE UNCHANGED vars
  BY ONLY Budget, <1>21 DEF vars, bounds, server, user, Budget, Owing, Overtaken
<1>22. ASSUME NEW t \in Threads, CallHealth(t) PROVE Budget'
  <2>1. Owing' \subseteq Owing \cup {t}
    BY <1>22 DEF CallHealth, Enter
  <2>2. Overtaken' \subseteq Overtaken
    BY <1>22 DEF CallHealth, Enter
  <2>3. made' = made /\ calls' = calls + 1 /\ timeouts' = timeouts
    BY ONLY <1>22 DEF CallHealth, Enter, server, user, bounds
  <2> QED BY ONLY Budget, <1>0, <1>a, <1>22, <2>1, <2>2, <2>3, Paid
<1>23. ASSUME NEW t \in Threads, GiveUp(t) PROVE Budget'
  <2>1. Owing' \subseteq Owing
    BY <1>23 DEF GiveUp, Back
  <2>2. Overtaken' \subseteq Overtaken \cup {owner}
    BY <1>23 DEF GiveUp, Back
  <2>3. made' = made /\ calls' = calls /\ timeouts' = timeouts + 1
    BY ONLY <1>23 DEF GiveUp, Back, server, user, bounds
  <2> QED BY ONLY Budget, <1>0, <1>a, <1>23, <2>1, <2>2, <2>3, Overtakes
<1>24. ASSUME NEW t \in Threads, ReadPool(t) PROVE Budget'
  <2>1. Owing' \subseteq Owing
    BY <1>24 DEF ReadPool, Back
  <2>2. Overtaken' \subseteq Overtaken
    BY <1>24 DEF ReadPool, Back
  <2>3. made' = made /\ calls' = calls /\ timeouts' = timeouts
    BY ONLY <1>24 DEF ReadPool, Back, server, user, bounds
  <2> QED BY ONLY Budget, <1>0, <1>a, <1>24, <2>1, <2>2, <2>3, Thrifty
<1>25. ASSUME NEW t \in Threads, Probe(t) PROVE Budget'
  <2>1. Owing' \subseteq Owing
    BY <1>25 DEF Probe, Back
  <2>2. Overtaken' \subseteq Overtaken
    BY <1>25 DEF Probe, Back
  <2>3. made' = made /\ calls' = calls /\ timeouts' = timeouts
    BY ONLY <1>25 DEF Probe, Back, server, user, bounds
  <2> QED BY ONLY Budget, <1>0, <1>a, <1>25, <2>1, <2>2, <2>3, Thrifty
<1>26. ASSUME NEW t \in Threads, Discard(t) PROVE Budget'
  <2>1. Owing' \subseteq Owing
    BY <1>26 DEF Discard
  <2>2. Overtaken' \subseteq Overtaken
    BY <1>26 DEF Discard
  <2>3. made' = made /\ calls' = calls /\ timeouts' = timeouts
    BY ONLY <1>26 DEF Discard, server, user, bounds
  <2> QED BY ONLY Budget, <1>0, <1>a, <1>26, <2>1, <2>2, <2>3, Thrifty
<1> QED
  BY <1>1, <1>2, <1>3, <1>4, <1>5, <1>6, <1>7, <1>8, <1>9, <1>10, <1>11,
     <1>12, <1>13, <1>14, <1>15, <1>16, <1>17, <1>18, <1>19, <1>20, <1>21,
     <1>22, <1>23, <1>24, <1>25, <1>26 DEF Next, Step, Connecting

\* There is a client left for one that owes it.
LEMMA Room ==
  ASSUME TypeOK, Budget, NEW t \in Owing
  PROVE  made + 1 \in Clients
<1>1. made \in Nat /\ calls \in 0 .. MaxCalls /\ timeouts \in 0 .. MaxTimeouts
  BY Numbers DEF TypeOK
<1>2. Cardinality({}) + 1 <= Cardinality(Owing) /\ Cardinality(Owing) \in Nat
  <2>1. IsFiniteSet(Owing) /\ {} \subseteq Owing \ {t}
    BY FiniteParts
  <2> QED BY ONLY <2>1, t \in Owing, OneFewer
<1>3. Cardinality({}) = 0 /\ Cardinality(Overtaken) \in Nat
  BY FS_EmptySet, FiniteParts, FS_CardinalityType
<1>4. made + Cardinality(Owing) + Cardinality(Overtaken) <= calls + timeouts
  BY DEF Budget
<1> QED BY ONLY BoundsAssumption, <1>1, <1>2, <1>3, <1>4 DEF Clients

LEMMA NextTypes ==
  ASSUME TypeOK, Holding, Budget, [Next]_vars
  PROVE  TypeOK'
<1> USE BoundsAssumption DEF TypeOK, server, user, bounds, Resolve, ResolveOwn
<1>0. /\ made \in Nat /\ pool \in Nat /\ 0 \notin connected /\ made + 1 # 0 /\ 0 <= made
      /\ \A t \in Threads : client[t] \in Nat
  BY Numbers
<1> USE <1>0
<1>1. ASSUME NEW t \in Threads, CallAcquire(t) PROVE TypeOK'
  BY <1>1, NextPlaces DEF CallAcquire, Enter
<1>2. ASSUME NEW t \in Threads, CallReconnect(t) PROVE TypeOK'
  BY <1>2, NextPlaces DEF CallReconnect, Enter
<1>3. ASSUME NEW t \in Threads, CallRelease(t) PROVE TypeOK'
  BY <1>3, NextPlaces DEF CallRelease, Enter
<1>4. ASSUME NEW t \in Threads, NEW w \in Waits, Wait(t, w) PROVE TypeOK'
  BY <1>4, NextPlaces DEF Wait
<1>5. ASSUME NEW t \in Threads, TimeOut(t) PROVE TypeOK'
  <2>1. timeouts' \in 0 .. MaxTimeouts
    <3>1. timeouts < MaxTimeouts /\ timeouts' = timeouts + 1
      BY <1>5 DEF TimeOut
    <3>2. timeouts \in 0 .. MaxTimeouts
      BY DEF TypeOK
    <3> QED BY ONLY <3>1, <3>2, BoundsAssumption
  <2>2. UNCHANGED <<pool, refs, known, connected, made, user, dialled, calls>>
    BY <1>5 DEF TimeOut
  <2>3. owner' \in Threads \cup {Nobody}
    BY <1>5 DEF TimeOut
  <2> QED BY <2>1, <2>2, <2>3, NextPlaces
<1>6. ASSUME NEW t \in Threads, Reuse(t) PROVE TypeOK'
  BY <1>6, NextPlaces DEF Reuse, TakeRef
<1>7. ASSUME NEW t \in Threads, StartConnect(t) PROVE TypeOK'
  <2>1. made + 1 \in Clients
    <3>1. t \in Owing
      BY <1>7 DEF StartConnect, Owing
    <3> QED BY <3>1, Room
  <2>2. made' \in Clients \cup {0} /\ client' \in [Threads -> Clients \cup {None}]
    BY <1>7, <2>1 DEF StartConnect, Fresh
  <2> QED BY <1>7, <2>2, NextPlaces DEF StartConnect, Fresh
<1>8. ASSUME NEW t \in Threads, Connect(t) PROVE TypeOK'
  <2>1. client[t] \in Clients
    BY <1>8 DEF Connect, Holding, Making
  <2> QED BY <1>8, <2>1, NextPlaces DEF Connect
<1>9. ASSUME NEW t \in Threads, FailConnect(t) PROVE TypeOK'
  BY <1>9, NextPlaces DEF FailConnect, Back
<1>10. ASSUME NEW t \in Threads, Publish(t) PROVE TypeOK'
  BY <1>10, NextPlaces DEF Publish, TakeRef
<1>11. ASSUME NEW t \in Threads, LoseRace(t) PROVE TypeOK'
  BY <1>11, NextPlaces DEF LoseRace
<1>12. ASSUME NEW t \in Threads, Decrement(t) PROVE TypeOK'
  BY <1>12, NextPlaces DEF Decrement, GiveBack
<1>13. ASSUME NEW t \in Threads, LastRelease(t) PROVE TypeOK'
  BY <1>13, NextPlaces DEF LastRelease, GiveBack
<1>14. ASSUME NEW t \in Threads, Disconnect(t) PROVE TypeOK'
  BY <1>14, NextPlaces DEF Disconnect, Back
<1>15. ASSUME NEW t \in Threads, StartReconnect(t) PROVE TypeOK'
  BY <1>15, NextPlaces DEF StartReconnect, Back
<1>16. ASSUME NEW t \in Threads, DropOld(t) PROVE TypeOK'
  <2>1. made + 1 \in Clients
    <3>1. t \in Owing
      BY <1>16 DEF DropOld, Owing
    <3> QED BY <3>1, Room
  <2>2. made' \in Clients \cup {0} /\ client' \in [Threads -> Clients \cup {None}]
    BY <1>16, <2>1 DEF DropOld, Fresh
  <2> QED BY <1>16, <2>2, NextPlaces DEF DropOld, Fresh
<1>17. ASSUME NEW t \in Threads, FailReconnect(t) PROVE TypeOK'
  BY <1>17, NextPlaces DEF FailReconnect, Back
<1>18. ASSUME NEW t \in Threads, Replace(t) PROVE TypeOK'
  BY <1>18, NextPlaces DEF Replace, Back
<1>19. ASSUME NEW t \in Threads, Dial(t) PROVE TypeOK'
  <2>1. handle[t] \in Clients
    BY <1>19 DEF Dial, Holding
  <2>2. calls' \in 0 .. MaxCalls
    BY <1>19 DEF Dial
  <2>3. dialled' \subseteq Clients /\ connected' \subseteq Clients
    BY <1>19, <2>1 DEF Dial
  <2> QED BY <1>19, <2>2, <2>3, NextPlaces DEF Dial
<1>20. ASSUME NEW t \in Threads, EndDial(t) PROVE TypeOK'
  <2>1. client[t] \in Clients
    BY <1>20 DEF EndDial, Holding
  <2> QED BY <1>20, <2>1, NextPlaces DEF EndDial, Back
<1>21. CASE UNCHANGED vars
  BY <1>21 DEF vars, server, user, bounds
<1>22. ASSUME NEW t \in Threads, CallHealth(t) PROVE TypeOK'
  BY <1>22, NextPlaces DEF CallHealth, Enter
<1>23. ASSUME NEW t \in Threads, GiveUp(t) PROVE TypeOK'
  <2>1. timeouts' \in 0 .. MaxTimeouts
    <3>1. timeouts < MaxTimeouts /\ timeouts' = timeouts + 1
      BY <1>23 DEF GiveUp
    <3>2. timeouts \in 0 .. MaxTimeouts
      BY DEF TypeOK
    <3> QED BY ONLY <3>1, <3>2, BoundsAssumption
  <2>2. UNCHANGED <<pool, refs, known, connected, made, user, dialled, calls>>
    BY <1>23 DEF GiveUp
  <2>3. owner' \in Threads \cup {Nobody}
    BY <1>23 DEF GiveUp
  <2> QED BY <2>1, <2>2, <2>3, NextPlaces
<1>24. ASSUME NEW t \in Threads, ReadPool(t) PROVE TypeOK'
  BY <1>24, NextPlaces DEF ReadPool, Back
<1>25. ASSUME NEW t \in Threads, Probe(t) PROVE TypeOK'
  <2>1. client[t] \in Clients
    BY <1>25 DEF Probe, Holding
  <2> QED BY <1>25, <2>1, NextPlaces DEF Probe, Back
<1>26. ASSUME NEW t \in Threads, Discard(t) PROVE TypeOK'
  BY <1>26, NextPlaces DEF Discard
<1> QED
  BY <1>1, <1>2, <1>3, <1>4, <1>5, <1>6, <1>7, <1>8, <1>9, <1>10, <1>11,
     <1>12, <1>13, <1>14, <1>15, <1>16, <1>17, <1>18, <1>19, <1>20, <1>21,
     <1>22, <1>23, <1>24, <1>25, <1>26 DEF Next, Step, Connecting

LEMMA NextRefs ==
  ASSUME TypeOK, Holding, RefsAreHolders, [Next]_vars
  PROVE  RefsAreHolders'
<1> USE DEF TypeOK, RefsAreHolders, Holders, server, user, bounds, Resolve, ResolveOwn
<1>0. /\ made \in Nat /\ pool \in Nat /\ 0 \notin connected /\ made + 1 # 0 /\ 0 <= made
      /\ \A t \in Threads : client[t] \in Nat
  BY Numbers
<1>a. refs \in Nat /\ extra \in Nat /\ Cardinality(Holders) \in Nat
  BY FiniteParts, FS_CardinalityType DEF TypeOK
<1>1. ASSUME NEW t \in Threads, CallAcquire(t) PROVE RefsAreHolders'
  <2>1. Holders' = Holders
    BY <1>1 DEF CallAcquire, Enter
  <2> QED BY <1>1, <2>1 DEF CallAcquire, Enter
<1>2. ASSUME NEW t \in Threads, CallReconnect(t) PROVE RefsAreHolders'
  <2>1. Holders' = Holders
    BY <1>2 DEF CallReconnect, Enter
  <2> QED BY <1>2, <2>1 DEF CallReconnect, Enter
<1>3. ASSUME NEW t \in Threads, CallRelease(t) PROVE RefsAreHolders'
  <2>1. Holders' = Holders
    BY <1>3 DEF CallRelease, Enter
  <2> QED BY <1>3, <2>1 DEF CallRelease, Enter
<1>4. ASSUME NEW t \in Threads, NEW w \in Waits, Wait(t, w) PROVE RefsAreHolders'
  <2>1. Holders' = Holders
    BY <1>4 DEF Wait
  <2> QED BY <1>4, <2>1 DEF Wait
<1>5. ASSUME NEW t \in Threads, TimeOut(t) PROVE RefsAreHolders'
  <2>1. Holders' = Holders
    BY <1>5 DEF TimeOut
  <2> QED BY <1>5, <2>1 DEF TimeOut
<1>6. ASSUME NEW t \in Threads, Reuse(t) PROVE RefsAreHolders'
  <2>1. pool # None
    BY <1>6, <1>0 DEF Reuse, Holding, Making, None
  <2>2. CASE handle[t] = None
    <3>1. t \notin Holders /\ Holders' = Holders \cup {t}
      BY <1>6, <2>1, <2>2 DEF Reuse, TakeRef
    <3>2. Cardinality(Holders') = Cardinality(Holders) + 1
      BY ONLY <3>1, FiniteParts, FS_AddElement
    <3> QED BY <1>6, <2>2, <3>2, <1>a DEF Reuse, TakeRef
  <2>3. CASE handle[t] # None
    <3>1. Holders' = Holders
      BY <1>6, <2>1, <2>3 DEF Reuse, TakeRef
    <3> QED BY <1>6, <2>3, <3>1, <1>a DEF Reuse, TakeRef
  <2> QED BY <2>2, <2>3
<1>7. ASSUME NEW t \in Threads, StartConnect(t) PROVE RefsAreHolders'
  <2>1. Holders' = Holders
    BY <1>7 DEF StartConnect, Fresh
  <2> QED BY <1>7, <2>1 DEF StartConnect, Fresh
<1>8. ASSUME NEW t \in Threads, Connect(t) PROVE RefsAreHolders'
  <2>1. Holders' = Holders
    BY <1>8 DEF Connect
  <2> QED BY <1>8, <2>1 DEF Connect
<1>9. ASSUME NEW t \in Threads, FailConnect(t) PROVE RefsAreHolders'
  <2>1. Holders' = Holders
    BY <1>9 DEF FailConnect, Back
  <2> QED BY <1>9, <2>1 DEF FailConnect, Back
<1>10. ASSUME NEW t \in Threads, Publish(t) PROVE RefsAreHolders'
  <2>1. client[t] # None
    BY <1>10, <1>0 DEF Publish, Holding, Making, None
  <2>2. CASE handle[t] = None
    <3>1. t \notin Holders /\ Holders' = Holders \cup {t}
      BY <1>10, <2>1, <2>2 DEF Publish, TakeRef
    <3>2. Cardinality(Holders') = Cardinality(Holders) + 1
      BY ONLY <3>1, FiniteParts, FS_AddElement
    <3> QED BY <1>10, <2>2, <3>2, <1>a DEF Publish, TakeRef
  <2>3. CASE handle[t] # None
    <3>1. Holders' = Holders
      BY <1>10, <2>1, <2>3 DEF Publish, TakeRef
    <3>2. refs' = refs + 1 /\ extra' = extra + 1
      BY <1>10, <2>3 DEF Publish, TakeRef
    <3>3. Cardinality(Holders') = Cardinality(Holders)
      BY ONLY <3>1
    <3> QED BY ONLY <3>2, <3>3, <1>a, RefsAreHolders DEF RefsAreHolders
  <2> QED BY <2>2, <2>3
<1>11. ASSUME NEW t \in Threads, LoseRace(t) PROVE RefsAreHolders'
  <2>1. Holders' = Holders
    BY <1>11 DEF LoseRace
  <2> QED BY <1>11, <2>1 DEF LoseRace
<1>12. ASSUME NEW t \in Threads, Decrement(t) PROVE RefsAreHolders'
  <2>1. t \in Holders /\ Holders' = Holders \ {t}
    BY <1>12 DEF Decrement, GiveBack, Holding
  <2>2. Cardinality(Holders') = Cardinality(Holders) - 1
    BY ONLY <2>1, FiniteParts, FS_RemoveElement
  <2>3. Cardinality(Holders) >= 1
    BY ONLY <2>1, <2>2, <1>a, FiniteParts, OneFewer, {} \subseteq Holders \ {t}, Cardinality({}) \in Nat
  <2>4. refs' = refs - 1 /\ extra' = extra
    BY <1>12, <2>3, <1>a DEF Decrement, GiveBack
  <2> QED BY ONLY <2>2, <2>4, <1>a, RefsAreHolders DEF RefsAreHolders
<1>13. ASSUME NEW t \in Threads, LastRelease(t) PROVE RefsAreHolders'
  <2>1. t \in Holders /\ Holders' = Holders \ {t}
    BY <1>13 DEF LastRelease, GiveBack, Holding
  <2>2. Cardinality(Holders') = Cardinality(Holders) - 1
    BY ONLY <2>1, FiniteParts, FS_RemoveElement
  <2>3. Cardinality(Holders) >= 1
    BY ONLY <2>1, <2>2, <1>a, FiniteParts, OneFewer, {} \subseteq Holders \ {t}, Cardinality({}) \in Nat
  <2>4. refs' = refs - 1 /\ extra' = extra
    BY <1>13, <2>3, <1>a DEF LastRelease, GiveBack
  <2> QED BY ONLY <2>2, <2>4, <1>a, RefsAreHolders DEF RefsAreHolders
<1>14. ASSUME NEW t \in Threads, Disconnect(t) PROVE RefsAreHolders'
  <2>1. Holders' = Holders
    BY <1>14 DEF Disconnect, Back
  <2> QED BY <1>14, <2>1 DEF Disconnect, Back
<1>15. ASSUME NEW t \in Threads, StartReconnect(t) PROVE RefsAreHolders'
  <2>1. Holders' = Holders
    BY <1>15 DEF StartReconnect, Back
  <2> QED BY <1>15, <2>1 DEF StartReconnect, Back
<1>16. ASSUME NEW t \in Threads, DropOld(t) PROVE RefsAreHolders'
  <2>1. Holders' = Holders
    BY <1>16 DEF DropOld, Fresh
  <2> QED BY <1>16, <2>1 DEF DropOld, Fresh
<1>17. ASSUME NEW t \in Threads, FailReconnect(t) PROVE RefsAreHolders'
  <2>1. Holders' = Holders
    BY <1>17 DEF FailReconnect, Back
  <2> QED BY <1>17, <2>1 DEF FailReconnect, Back
<1>18. ASSUME NEW t \in Threads, Replace(t) PROVE RefsAreHolders'
  <2>1. Holders' = Holders
    BY <1>18, <1>0 DEF Replace, Back, Holding, Making, None
  <2> QED BY <1>18, <2>1 DEF Replace, Back
<1>19. ASSUME NEW t \in Threads, Dial(t) PROVE RefsAreHolders'
  <2>1. Holders' = Holders
    BY <1>19 DEF Dial
  <2> QED BY <1>19, <2>1 DEF Dial
<1>20. ASSUME NEW t \in Threads, EndDial(t) PROVE RefsAreHolders'
  <2>1. Holders' = Holders
    BY <1>20 DEF EndDial, Back
  <2> QED BY <1>20, <2>1 DEF EndDial, Back
<1>21. CASE UNCHANGED vars
  BY <1>21 DEF vars, server, user, bounds
<1>22. ASSUME NEW t \in Threads, CallHealth(t) PROVE RefsAreHolders'
  <2>1. Holders' = Holders
    BY <1>22 DEF CallHealth, Enter
  <2> QED BY <1>22, <2>1 DEF CallHealth, Enter
<1>23. ASSUME NEW t \in Threads, GiveUp(t) PROVE RefsAreHolders'
  <2>1. Holders' = Holders
    BY <1>23 DEF GiveUp, Back
  <2> QED BY <1>23, <2>1 DEF GiveUp, Back
<1>24. ASSUME NEW t \in Threads, ReadPool(t) PROVE RefsAreHolders'
  <2>1. Holders' = Holders
    BY <1>24 DEF ReadPool, Back
  <2> QED BY <1>24, <2>1 DEF ReadPool, Back
<1>25. ASSUME NEW t \in Threads, Probe(t) PROVE RefsAreHolders'
  <2>1. Holders' = Holders
    BY <1>25 DEF Probe, Back
  <2> QED BY <1>25, <2>1 DEF Probe, Back
<1>26. ASSUME NEW t \in Threads, Discard(t) PROVE RefsAreHolders'
  <2>1. Holders' = Holders
    BY <1>26 DEF Discard
  <2> QED BY <1>26, <2>1 DEF Discard
<1> QED
  BY <1>1, <1>2, <1>3, <1>4, <1>5, <1>6, <1>7, <1>8, <1>9, <1>10, <1>11,
     <1>12, <1>13, <1>14, <1>15, <1>16, <1>17, <1>18, <1>19, <1>20, <1>21,
     <1>22, <1>23, <1>24, <1>25, <1>26 DEF Next, Step, Connecting

\* A client in hand is being pooled or dropped.
Hands == {"connected", "disconnect", "drop old", "redone"}

LEMMA NextNoOrphan ==
  ASSUME TypeOK, Holding, Turns, NoOrphan, [Next]_vars
  PROVE  NoOrphan'
<1> USE ThreadsAssumption DEF TypeOK, Making, server, user, bounds, Resolve, ResolveOwn, Goto, Retry
<1>1. ASSUME NEW t \in Threads, CallAcquire(t) PROVE NoOrphan'
  BY <1>1 DEF CallAcquire, Enter, NoOrphan
<1>2. ASSUME NEW t \in Threads, CallReconnect(t) PROVE NoOrphan'
  <2> SUFFICES ASSUME NEW c \in connected', c # pool', c \notin dialled'
               PROVE  \E u \in Threads : client'[u] = c /\ pc'[u] \in Hands
    BY DEF NoOrphan, Hands
  <2>1. c \in connected /\ c # pool /\ c \notin dialled
    BY <1>2 DEF CallReconnect, Enter
  <2>2. PICK u \in Threads : client[u] = c /\ pc[u] \in Hands
    BY <2>1 DEF NoOrphan, Hands
  <2>3. u # t
    BY <1>2, <2>2 DEF CallReconnect, Enter, Hands
  <2>4. client'[u] = c /\ pc'[u] \in Hands
    BY <1>2, <2>2, <2>3 DEF CallReconnect, Enter, Hands
  <2> QED BY <2>4
<1>3. ASSUME NEW t \in Threads, CallRelease(t) PROVE NoOrphan'
  BY <1>3 DEF CallRelease, Enter, NoOrphan
<1>4. ASSUME NEW t \in Threads, NEW w \in Waits, Wait(t, w) PROVE NoOrphan'
  <2> SUFFICES ASSUME NEW c \in connected', c # pool', c \notin dialled'
               PROVE  \E u \in Threads : client'[u] = c /\ pc'[u] \in Hands
    BY DEF NoOrphan, Hands
  <2>1. c \in connected /\ c # pool /\ c \notin dialled
    BY <1>4, WaitPairs DEF Wait, Turns, Holding
  <2>2. PICK u \in Threads : client[u] = c /\ pc[u] \in Hands
    BY <2>1 DEF NoOrphan, Hands
  <2>3. u # t
    BY <1>4, <2>2, WaitPairs DEF Wait, Hands
  <2>4. client'[u] = c /\ pc'[u] \in Hands
    BY <1>4, <2>2, <2>3, WaitPairs DEF Wait, Hands
  <2> QED BY <2>4
<1>5. ASSUME NEW t \in Threads, TimeOut(t) PROVE NoOrphan'
  BY <1>5 DEF TimeOut, NoOrphan
<1>6. ASSUME NEW t \in Threads, Reuse(t) PROVE NoOrphan'
  BY <1>6 DEF Reuse, TakeRef, NoOrphan
<1>7. ASSUME NEW t \in Threads, StartConnect(t) PROVE NoOrphan'
  BY <1>7 DEF StartConnect, Fresh, NoOrphan
<1>8. ASSUME NEW t \in Threads, Connect(t) PROVE NoOrphan'
  BY <1>8 DEF Connect, NoOrphan
<1>9. ASSUME NEW t \in Threads, FailConnect(t) PROVE NoOrphan'
  <2> SUFFICES ASSUME NEW c \in connected', c # pool', c \notin dialled'
               PROVE  \E u \in Threads : client'[u] = c /\ pc'[u] \in Hands
    BY DEF NoOrphan, Hands
  <2>1. c \in connected /\ c # pool /\ c \notin dialled
    BY <1>9 DEF FailConnect, Back, Turns, Holding
  <2>2. PICK u \in Threads : client[u] = c /\ pc[u] \in Hands
    BY <2>1 DEF NoOrphan, Hands
  <2>3. u # t
    BY <1>9, <2>2 DEF FailConnect, Back, Hands
  <2>4. client'[u] = c /\ pc'[u] \in Hands
    BY <1>9, <2>2, <2>3 DEF FailConnect, Back, Hands
  <2> QED BY <2>4
<1>10. ASSUME NEW t \in Threads, Publish(t) PROVE NoOrphan'
  <2> SUFFICES ASSUME NEW c \in connected', c # pool', c \notin dialled'
               PROVE  \E u \in Threads : client'[u] = c /\ pc'[u] \in Hands
    BY DEF NoOrphan, Hands
  <2>1. c \in connected /\ c # pool /\ c \notin dialled
    BY <1>10 DEF Publish, TakeRef, Turns, Holding
  <2>2. PICK u \in Threads : client[u] = c /\ pc[u] \in Hands
    BY <2>1 DEF NoOrphan, Hands
  <2>3. u # t
    BY <1>10, <2>2 DEF Publish, TakeRef, Hands
  <2>4. client'[u] = c /\ pc'[u] \in Hands
    BY <1>10, <2>2, <2>3 DEF Publish, TakeRef, Hands
  <2> QED BY <2>4
<1>11. ASSUME NEW t \in Threads, LoseRace(t) PROVE NoOrphan'
  BY <1>11 DEF LoseRace, NoOrphan
<1>12. ASSUME NEW t \in Threads, Decrement(t) PROVE NoOrphan'
  BY <1>12 DEF Decrement, GiveBack, NoOrphan
<1>13. ASSUME NEW t \in Threads, LastRelease(t) PROVE NoOrphan'
  BY <1>13 DEF LastRelease, GiveBack, NoOrphan
<1>14. ASSUME NEW t \in Threads, Disconnect(t) PROVE NoOrphan'
  <2> SUFFICES ASSUME NEW c \in connected', c # pool', c \notin dialled'
               PROVE  \E u \in Threads : client'[u] = c /\ pc'[u] \in Hands
    BY DEF NoOrphan, Hands
  <2>1. c \in connected /\ c # pool /\ c \notin dialled
    BY <1>14 DEF Disconnect, Back, Turns, Holding
  <2>2. PICK u \in Threads : client[u] = c /\ pc[u] \in Hands
    BY <2>1 DEF NoOrphan, Hands
  <2>3. u # t
    BY <1>14, <2>2 DEF Disconnect, Back, Hands
  <2>4. client'[u] = c /\ pc'[u] \in Hands
    BY <1>14, <2>2, <2>3 DEF Disconnect, Back, Hands
  <2> QED BY <2>4
<1>15. ASSUME NEW t \in Threads, StartReconnect(t) PROVE NoOrphan'
  <2> SUFFICES ASSUME NEW c \in connected', c # pool', c \notin dialled'
               PROVE  \E u \in Threads : client'[u] = c /\ pc'[u] \in Hands
    BY DEF NoOrphan, Hands
  <2>1. c \in connected /\ c # pool /\ c \notin dialled
    BY <1>15 DEF StartReconnect, Back, Turns, Holding
  <2>2. PICK u \in Threads : client[u] = c /\ pc[u] \in Hands
    BY <2>1 DEF NoOrphan, Hands
  <2>3. u # t
    BY <1>15, <2>2 DEF StartReconnect, Back, Hands
  <2>4. client'[u] = c /\ pc'[u] \in Hands
    BY <1>15, <2>2, <2>3 DEF StartReconnect, Back, Hands
  <2> QED BY <2>4
<1>16. ASSUME NEW t \in Threads, DropOld(t) PROVE NoOrphan'
  BY <1>16 DEF DropOld, Fresh, NoOrphan, Turns
<1>17. ASSUME NEW t \in Threads, FailReconnect(t) PROVE NoOrphan'
  <2> SUFFICES ASSUME NEW c \in connected', c # pool', c \notin dialled'
               PROVE  \E u \in Threads : client'[u] = c /\ pc'[u] \in Hands
    BY DEF NoOrphan, Hands
  <2>1. c \in connected /\ c # pool /\ c \notin dialled
    BY <1>17 DEF FailReconnect, Back, Turns, Holding
  <2>2. PICK u \in Threads : client[u] = c /\ pc[u] \in Hands
    BY <2>1 DEF NoOrphan, Hands
  <2>3. u # t
    BY <1>17, <2>2 DEF FailReconnect, Back, Hands
  <2>4. client'[u] = c /\ pc'[u] \in Hands
    BY <1>17, <2>2, <2>3 DEF FailReconnect, Back, Hands
  <2> QED BY <2>4
<1>18. ASSUME NEW t \in Threads, Replace(t) PROVE NoOrphan'
  <2> SUFFICES ASSUME NEW c \in connected', c # pool', c \notin dialled'
               PROVE  \E u \in Threads : client'[u] = c /\ pc'[u] \in Hands
    BY DEF NoOrphan, Hands
  <2>1. c \in connected /\ c # pool /\ c \notin dialled
    BY <1>18 DEF Replace, Back, Turns, Holding
  <2>2. PICK u \in Threads : client[u] = c /\ pc[u] \in Hands
    BY <2>1 DEF NoOrphan, Hands
  <2>3. u # t
    BY <1>18, <2>2 DEF Replace, Back, Hands
  <2>4. client'[u] = c /\ pc'[u] \in Hands
    BY <1>18, <2>2, <2>3 DEF Replace, Back, Hands
  <2> QED BY <2>4
<1>19. ASSUME NEW t \in Threads, Dial(t) PROVE NoOrphan'
  BY <1>19 DEF Dial, NoOrphan
<1>20. ASSUME NEW t \in Threads, EndDial(t) PROVE NoOrphan'
  <2> SUFFICES ASSUME NEW c \in connected', c # pool', c \notin dialled'
               PROVE  \E u \in Threads : client'[u] = c /\ pc'[u] \in Hands
    BY DEF NoOrphan, Hands
  <2>1. c \in connected /\ c # pool /\ c \notin dialled
    <3>1. client[t] \in dialled
      BY <1>20 DEF EndDial, Holding
    <3>2. c \in connected \cup {client[t]} /\ pool' = pool /\ dialled' = dialled
      BY <1>20 DEF EndDial, Back, NoOrphan
    <3> QED BY <3>1, <3>2
  <2>2. PICK u \in Threads : client[u] = c /\ pc[u] \in Hands
    BY <2>1 DEF NoOrphan, Hands
  <2>3. u # t
    BY <1>20, <2>2 DEF EndDial, Back, Hands
  <2>4. client'[u] = c /\ pc'[u] \in Hands
    BY <1>20, <2>2, <2>3 DEF EndDial, Back, Hands
  <2> QED BY <2>4
<1>21. CASE UNCHANGED vars
  BY <1>21 DEF vars, server, user, bounds, NoOrphan
<1>22. ASSUME NEW t \in Threads, CallHealth(t) PROVE NoOrphan'
  <2> SUFFICES ASSUME NEW c \in connected', c # pool', c \notin dialled'
               PROVE  \E u \in Threads : client'[u] = c /\ pc'[u] \in Hands
    BY DEF NoOrphan, Hands
  <2>1. c \in connected /\ c # pool /\ c \notin dialled
    BY <1>22 DEF CallHealth, Enter
  <2>2. PICK u \in Threads : client[u] = c /\ pc[u] \in Hands
    BY <2>1 DEF NoOrphan, Hands
  <2>3. u # t
    BY <1>22, <2>2 DEF CallHealth, Enter, Hands
  <2>4. client'[u] = c /\ pc'[u] \in Hands
    BY <1>22, <2>2, <2>3 DEF CallHealth, Enter, Hands
  <2> QED BY <2>4
<1>23. ASSUME NEW t \in Threads, GiveUp(t) PROVE NoOrphan'
  BY <1>23 DEF GiveUp, Back, NoOrphan
<1>24. ASSUME NEW t \in Threads, ReadPool(t) PROVE NoOrphan'
  <2> SUFFICES ASSUME NEW c \in connected', c # pool', c \notin dialled'
               PROVE  \E u \in Threads : client'[u] = c /\ pc'[u] \in Hands
    BY DEF NoOrphan, Hands
  <2>1. c \in connected /\ c # pool /\ c \notin dialled
    BY <1>24 DEF ReadPool, Back
  <2>2. PICK u \in Threads : client[u] = c /\ pc[u] \in Hands
    BY <2>1 DEF NoOrphan, Hands
  <2>3. client'[u] = c /\ pc'[u] \in Hands
    BY <1>24, <2>2 DEF ReadPool, Back, Hands
  <2> QED BY <2>3
<1>25. ASSUME NEW t \in Threads, Probe(t) PROVE NoOrphan'
  <2> SUFFICES ASSUME NEW c \in connected', c # pool', c \notin dialled'
               PROVE  \E u \in Threads : client'[u] = c /\ pc'[u] \in Hands
    BY DEF NoOrphan, Hands
  <2>1. c \in connected /\ c # pool /\ c \notin dialled
    BY <1>25 DEF Probe, Back
  <2>2. PICK u \in Threads : client[u] = c /\ pc[u] \in Hands
    BY <2>1 DEF NoOrphan, Hands
  <2>3. u # t
    BY <1>25, <2>2 DEF Probe, Back, Hands
  <2>4. client'[u] = c /\ pc'[u] \in Hands
    BY <1>25, <2>2, <2>3 DEF Probe, Back, Hands
  <2> QED BY <2>4
<1>26. ASSUME NEW t \in Threads, Discard(t) PROVE NoOrphan'
  <2> SUFFICES ASSUME NEW c \in connected', c # pool', c \notin dialled'
               PROVE  \E u \in Threads : client'[u] = c /\ pc'[u] \in Hands
    BY DEF NoOrphan, Hands
  <2>1. c \in connected /\ c # pool /\ c \notin dialled
    BY <1>26 DEF Discard
  <2>2. PICK u \in Threads : client[u] = c /\ pc[u] \in Hands
    BY <2>1 DEF NoOrphan, Hands
  <2>3. client'[u] = c /\ pc'[u] \in Hands
    BY <1>26, <2>2 DEF Discard, Hands
  <2> QED BY <2>3
<1> QED
  BY <1>1, <1>2, <1>3, <1>4, <1>5, <1>6, <1>7, <1>8, <1>9, <1>10, <1>11,
     <1>12, <1>13, <1>14, <1>15, <1>16, <1>17, <1>18, <1>19, <1>20, <1>21,
     <1>22, <1>23, <1>24, <1>25, <1>26 DEF Next, Step, Connecting

-----------------------------------------------------------------------------
\* The invariant of this module holds in every reachable state; with it every
\* variable has its type, and no more clients are made than the calls and the
\* timeouts account for.
THEOREM TypeCorrect == Spec => [](TypeOK /\ PoolInv)
<1>1. Init => PoolInv
  <2> SUFFICES ASSUME Init PROVE PoolInv
    OBVIOUS
  <2>1. TypeOK
    <3>1. client \in [Threads -> Clients \cup {None}] /\ handle \in [Threads -> Clients \cup {None}]
      BY DEF Init
    <3>2. pc \in [Threads -> Steps]
      BY DEF Init, Steps
    <3>3. calls \in 0 .. MaxCalls /\ timeouts \in 0 .. MaxTimeouts
      BY BoundsAssumption DEF Init
    <3> QED BY <3>1, <3>2, <3>3 DEF Init, TypeOK, None
  <2>2. Holding /\ Turns /\ Distinct
    BY ThreadsAssumption DEF Init, Holding, Turns, Distinct, Making, None
  <2>3. Owing = {} /\ Overtaken = {}
    BY DEF Init, Owing, Overtaken, Making
  <2>4. Budget
    BY <2>3, FS_EmptySet DEF Init, Budget
  <2> QED BY <2>1, <2>2, <2>4 DEF PoolInv
<1>2. PoolInv /\ [Next]_vars => PoolInv'
  BY NextTypes, NextHolding, NextTurns, NextDistinct, NextBudget DEF PoolInv
<1>3. PoolInv => TypeOK
  BY DEF PoolInv
<1> QED BY <1>1, <1>2, <1>3, PTL DEF Spec

\* The refcount counts the holders exactly: no release disconnects a client
\* under another user.
THEOREM RefsHold == Spec => []RefsAreHolders
<1>1. Init => RefsAreHolders
  <2>1. Init => Holders = {}
    BY DEF Init, Holders
  <2> QED BY <2>1, FS_EmptySet DEF Init, RefsAreHolders
<1>2. PoolInv /\ RefsAreHolders /\ [Next]_vars => RefsAreHolders'
  BY NextRefs DEF PoolInv
<1> QED BY <1>1, <1>2, TypeCorrect, PTL DEF Spec

\* Connects of the pool that overtake one another leave no client connected:
\* one that is neither pooled nor in the hands of a thread that will drop or
\* pool it has connected itself, for a tool call or a health check.
THEOREM NoneLeft == Spec => []NoOrphan
<1>1. Init => NoOrphan
  BY DEF Init, NoOrphan
<1>2. PoolInv /\ NoOrphan /\ [Next]_vars => NoOrphan'
  BY NextNoOrphan DEF PoolInv
<1> QED BY <1>1, <1>2, TypeCorrect, PTL DEF Spec
=============================================================================
