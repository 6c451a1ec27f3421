------------------------------ MODULE McpPool ------------------------------
(***************************************************************************)
(* MCPConnectionManager (loader/mcp_connection_manager.py) for one server: *)
(* threads share one client, counted by a refcount, and a change of the    *)
(* connection is announced by a transition that the others wait for.       *)
(*                                                                         *)
(* An action is a block under _pool_lock or a call of the client.  A       *)
(* transition is named by its owner: a thread has one at a time, and all   *)
(* that wait do so for the present one.  Of a client the model has what    *)
(* the pool sees, its _connected: the loop thread and the process that a   *)
(* failed connect leaves are not in it.  A caller of reconnect that has no *)
(* reference does not keep the client it is given.  cleanup_all, which     *)
(* runs when the program ends, is left out.                                *)
(***************************************************************************)
EXTENDS Naturals, FiniteSets

CONSTANTS
  Threads,    \* the users of the pool
  Nobody,     \* no thread
  MaxCalls,   \* bound: calls of acquire, reconnect and health_check, and dials
  MaxTimeouts \* bound: waits that last _TRANSITION_TIMEOUT

ASSUME ThreadsAssumption == IsFiniteSet(Threads) /\ Nobody \notin Threads
ASSUME BoundsAssumption == MaxCalls \in Nat /\ MaxTimeouts \in Nat

\* A call makes one client, and one more each time a timeout takes its turn away.
Clients == 1 .. (MaxCalls + MaxTimeouts)
None == 0

VARIABLES
  pool,      \* _pool
  refs,      \* _refcounts, 0 when absent
  known,     \* the server is in _configs
  owner,     \* _transitions: who made the present one
  connected, \* the clients with _connected
  made,      \* number of clients made
  pc,        \* what each thread is doing
  client,    \* the client it is connecting, disconnecting or checking
  handle,    \* the client it was given
  extra,     \* references taken by a thread that had one
  dialled,   \* clients that have connected themselves: see Dial and Probe
  calls, timeouts

server == <<pool, refs, known, owner>>
user == <<client, handle, extra>>
bounds == <<calls, timeouts>>
vars == <<server, connected, made, pc, user, dialled, bounds>>

Init ==
  /\ pool = None /\ refs = 0 /\ known = FALSE /\ owner = Nobody
  /\ connected = {} /\ made = 0 /\ dialled = {}
  /\ pc = [t \in Threads |-> "idle"]
  /\ client = [t \in Threads |-> None]
  /\ handle = [t \in Threads |-> None]
  /\ extra = 0 /\ calls = 0 /\ timeouts = 0
-----------------------------------------------------------------------------
Waits == {<<"acquire", "acquire wait">>, <<"release", "release wait">>,
          <<"reconnect", "reconnect wait">>, <<"health", "health wait">>}
Waiting == {w[2] : w \in Waits}
Retry(s) == CASE s = "acquire wait" -> "acquire"
              [] s = "release wait" -> "release"
              [] s = "reconnect wait" -> "reconnect"
              [] s = "health wait" -> "health"
              [] OTHER -> s

Goto(t, s) == pc' = [pc EXCEPT ![t] = s]

\* The present transition is removed and its event set: all that wait try again.
Resolve(t, s) ==
  /\ owner' = Nobody
  /\ pc' = [u \in Threads |-> IF u = t THEN s ELSE Retry(pc[u])]

\* The same for a transition that may have been taken away meanwhile.
ResolveOwn(t, s) == IF owner = t THEN Resolve(t, s) ELSE Goto(t, s) /\ UNCHANGED owner

\* A call that raises, or is over, leaves its user with what it had.
Back(t) == IF handle[t] = None THEN "idle" ELSE "using"

Fresh(t) ==
  /\ made' = made + 1
  /\ client' = [client EXCEPT ![t] = made + 1]

\* A user enters acquire, release, reconnect or health_check.
Enter(t, from, to) ==
  /\ pc[t] = from
  /\ IF to = "release" THEN UNCHANGED calls ELSE calls < MaxCalls /\ calls' = calls + 1
  /\ Goto(t, to)
  /\ UNCHANGED <<server, connected, made, user, dialled, timeouts>>

CallAcquire(t) == Enter(t, "idle", "acquire")
CallRelease(t) == Enter(t, "using", "release")
CallReconnect(t) == \E from \in {"idle", "using"} : Enter(t, from, "reconnect")
CallHealth(t) == \E from \in {"idle", "using"} : Enter(t, from, "health")

\* Another transition is in progress: wait for its event.
Wait(t, w) ==
  /\ pc[t] = w[1] /\ owner # Nobody
  /\ Goto(t, w[2])
  /\ UNCHANGED <<server, connected, made, user, dialled, bounds>>

\* The wait lasts _TRANSITION_TIMEOUT: the transition is removed as stuck.
TimeOut(t) ==
  /\ pc[t] \in Waiting \ {"health wait"} /\ timeouts < MaxTimeouts
  /\ timeouts' = timeouts + 1
  /\ Resolve(t, Retry(pc[t]))
  /\ UNCHANGED <<pool, refs, known, connected, made, user, dialled, calls>>
-----------------------------------------------------------------------------
\* acquire

TakeRef(t, c) ==
  /\ refs' = refs + 1 /\ known' = TRUE
  /\ handle' = [handle EXCEPT ![t] = c]
  /\ extra' = IF handle[t] = None THEN extra ELSE extra + 1

Reuse(t) ==
  /\ pc[t] = "acquire" /\ owner = Nobody /\ pool \in connected
  /\ TakeRef(t, pool)
  /\ Goto(t, "using")
  /\ UNCHANGED <<pool, owner, connected, made, client, dialled, bounds>>

FaultStartConnect(t) ==
  /\ pc[t] = "acquire" /\ pool \notin connected
  /\ Fresh(t)
  /\ owner' = t /\ known' = TRUE
  /\ Goto(t, "connect")
  /\ UNCHANGED <<pool, refs, connected, handle, extra, dialled, bounds>>

StartConnect(t) ==
  /\ pc[t] = "acquire" /\ owner = Nobody /\ pool \notin connected
  /\ Fresh(t)
  /\ owner' = t /\ known' = TRUE
  /\ Goto(t, "connect")
  /\ UNCHANGED <<pool, refs, connected, handle, extra, dialled, bounds>>

\* client.connect() of an acquire or of a reconnect
Connect(t) ==
  /\ pc[t] \in {"connect", "redo"}
  /\ connected' = connected \cup {client[t]}
  /\ Goto(t, IF pc[t] = "connect" THEN "connected" ELSE "redone")
  /\ UNCHANGED <<server, made, user, dialled, bounds>>

FailConnect(t) ==
  /\ pc[t] = "connect"
  /\ known' = IF owner = t /\ pool = None /\ refs = 0 THEN FALSE ELSE known
  /\ ResolveOwn(t, Back(t))
  /\ UNCHANGED <<pool, refs, connected, made, user, dialled, bounds>>

FaultPublish(t) ==
  /\ pc[t] = "connected" /\ owner = t
  /\ pool' = client[t]
  /\ refs' = 1 /\ known' = TRUE
  /\ handle' = [handle EXCEPT ![t] = client[t]]
  /\ extra' = IF handle[t] = None THEN extra ELSE extra + 1
  /\ Resolve(t, "using")
  /\ UNCHANGED <<connected, made, client, dialled, bounds>>

Publish(t) ==
  /\ pc[t] = "connected" /\ owner = t
  /\ pool' = client[t]
  /\ TakeRef(t, client[t])
  /\ Resolve(t, "using")
  /\ UNCHANGED <<connected, made, client, dialled, bounds>>

FaultLoseRace(t) ==
  /\ pc[t] \in {"connected", "redone"} /\ owner # t
  /\ Goto(t, "acquire")
  /\ UNCHANGED <<server, connected, made, user, dialled, bounds>>

\* The transition was taken away meanwhile: drop the client and acquire.
LoseRace(t) ==
  /\ pc[t] \in {"connected", "redone"} /\ owner # t
  /\ connected' = connected \ {client[t]}
  /\ Goto(t, "acquire")
  /\ UNCHANGED <<server, made, user, dialled, bounds>>
-----------------------------------------------------------------------------
\* release

GiveBack(t) == handle' = [handle EXCEPT ![t] = None]

Decrement(t) ==
  /\ pc[t] = "release" /\ owner = Nobody /\ refs # 1
  /\ refs' = IF refs > 1 THEN refs - 1 ELSE refs
  /\ GiveBack(t)
  /\ Goto(t, "idle")
  /\ UNCHANGED <<pool, known, owner, connected, made, client, extra, dialled, bounds>>

LastRelease(t) ==
  /\ pc[t] = "release" /\ owner = Nobody /\ refs = 1
  /\ client' = [client EXCEPT ![t] = pool]
  /\ pool' = None /\ refs' = 0 /\ known' = FALSE
  /\ owner' = t
  /\ GiveBack(t)
  /\ Goto(t, "disconnect")
  /\ UNCHANGED <<connected, made, extra, dialled, bounds>>

FaultDisconnect(t) ==
  /\ pc[t] = "disconnect"
  /\ connected' = connected \ {client[t]}
  /\ owner' = (IF owner = t THEN Nobody ELSE owner)
  /\ Goto(t, Back(t))
  /\ UNCHANGED <<pool, refs, known, made, user, dialled, bounds>>

\* client.disconnect() of the last release, whether it fails or not, and of the
\* client that a reconnect discards
Disconnect(t) ==
  /\ pc[t] = "disconnect"
  /\ connected' = connected \ {client[t]}
  /\ ResolveOwn(t, Back(t))
  /\ UNCHANGED <<pool, refs, known, made, user, dialled, bounds>>
-----------------------------------------------------------------------------
\* reconnect

StartReconnect(t) ==
  /\ pc[t] = "reconnect" /\ owner = Nobody
  /\ IF known
     THEN /\ owner' = t
          /\ client' = [client EXCEPT ![t] = pool]
          /\ Goto(t, "drop old")
     ELSE Goto(t, Back(t)) /\ UNCHANGED <<owner, client>>  \* KeyError
  /\ UNCHANGED <<pool, refs, known, connected, made, handle, extra, dialled, bounds>>

DropOld(t) ==
  /\ pc[t] = "drop old"
  /\ connected' = connected \ {client[t]}
  /\ Fresh(t)
  /\ Goto(t, "redo")
  /\ UNCHANGED <<server, handle, extra, dialled, bounds>>

FailReconnect(t) ==
  /\ pc[t] = "redo"
  /\ pool' = IF owner = t THEN None ELSE pool
  /\ ResolveOwn(t, Back(t))
  /\ UNCHANGED <<refs, known, connected, made, user, dialled, bounds>>

\* Other users that had the old client keep it.
Replace(t) ==
  /\ pc[t] = "redone" /\ owner = t /\ refs > 0
  /\ pool' = client[t] /\ known' = TRUE
  /\ handle' = IF handle[t] = None THEN handle ELSE [handle EXCEPT ![t] = client[t]]
  /\ Resolve(t, Back(t))
  /\ UNCHANGED <<refs, connected, made, client, extra, dialled, bounds>>

\* Nobody has a reference: the new client is dropped, after the transition.
Discard(t) ==
  /\ pc[t] = "redone" /\ owner = t /\ refs = 0
  /\ Resolve(t, "disconnect")
  /\ UNCHANGED <<pool, refs, known, connected, made, user, dialled, bounds>>
-----------------------------------------------------------------------------
\* health_check, of a server over stdio or sse: over http and unix it does not
\* touch the client.

\* The wait lasts _TRANSITION_TIMEOUT: the answer is False.
GiveUp(t) ==
  /\ pc[t] = "health wait" /\ timeouts < MaxTimeouts
  /\ timeouts' = timeouts + 1
  /\ Goto(t, Back(t))
  /\ UNCHANGED <<server, connected, made, user, dialled, calls>>

ReadPool(t) ==
  /\ pc[t] = "health" /\ owner = Nobody
  /\ client' = [client EXCEPT ![t] = pool]
  /\ Goto(t, IF pool = None \/ ~known THEN Back(t) ELSE "check")
  /\ UNCHANGED <<server, connected, made, handle, extra, dialled, bounds>>

\* client.list_tools(), after the lock: a client that is not connected any more
\* connects.
Probe(t) ==
  /\ pc[t] = "check"
  /\ IF client[t] \in connected
     THEN Goto(t, Back(t)) /\ UNCHANGED dialled
     ELSE Goto(t, "dial") /\ dialled' = dialled \cup {client[t]}
  /\ UNCHANGED <<server, connected, made, user, bounds>>
-----------------------------------------------------------------------------
\* A call of a tool finds the session dead (_call_tool_with_retry), or the
\* client disconnected by another: the client connects itself, and the pool
\* knows nothing of it.
Dial(t) ==
  /\ pc[t] = "using" /\ calls < MaxCalls
  /\ calls' = calls + 1
  /\ client' = [client EXCEPT ![t] = handle[t]]
  /\ connected' = connected \ {handle[t]}
  /\ dialled' = dialled \cup {handle[t]}
  /\ Goto(t, "dial")
  /\ UNCHANGED <<server, made, handle, extra, timeouts>>

\* client.connect() of call_tool or list_tools
EndDial(t) ==
  /\ pc[t] = "dial"
  /\ \/ connected' = connected \cup {client[t]}
     \/ UNCHANGED connected
  /\ Goto(t, Back(t))
  /\ UNCHANGED <<server, made, user, dialled, bounds>>

\* What a thread does within a call, the connects of a client apart.
Step(t) ==
  \/ \E w \in Waits : Wait(t, w)
  \/ Reuse(t) \/ StartConnect(t) \/ Publish(t) \/ LoseRace(t)
  \/ Decrement(t) \/ LastRelease(t) \/ Disconnect(t)
  \/ StartReconnect(t) \/ DropOld(t) \/ Replace(t) \/ Discard(t)
  \/ ReadPool(t) \/ Probe(t)

\* The end of a connect, if it has one.
Connecting(t) == Connect(t) \/ FailConnect(t) \/ FailReconnect(t) \/ EndDial(t)

Next == \E t \in Threads :
  \/ CallAcquire(t) \/ CallRelease(t) \/ CallReconnect(t) \/ CallHealth(t) \/ Dial(t)
  \/ TimeOut(t) \/ GiveUp(t)
  \/ Step(t) \/ Connecting(t)

Spec == Init /\ [][Next]_vars

\* Threads run, and a disconnect ends (_CLEANUP_TIMEOUT, _THREAD_JOIN_TIMEOUT).
\* A connect need not: it asks the server for its tools with no timeout.
\* Nobody has to make a call, and no wait has to last until its timeout.
FairSpec == Spec /\ \A t \in Threads : WF_vars(Step(t))
-----------------------------------------------------------------------------
Steps == {"idle", "using", "acquire", "release", "reconnect", "health", "connect",
          "connected", "disconnect", "drop old", "redo", "redone", "check", "dial"} \cup Waiting

\* Type invariant.  A client is made by a call, and made again only for a call
\* whose transition a timeout has taken away: there are never more of them.
TypeOK ==
  /\ pool \in Clients \cup {None} /\ refs \in Nat /\ known \in BOOLEAN
  /\ owner \in Threads \cup {Nobody}
  /\ connected \subseteq Clients /\ dialled \subseteq Clients
  /\ made \in Clients \cup {0}
  /\ pc \in [Threads -> Steps]
  /\ client \in [Threads -> Clients \cup {None}]
  /\ handle \in [Threads -> Clients \cup {None}]
  /\ extra \in Nat /\ calls \in 0 .. MaxCalls /\ timeouts \in 0 .. MaxTimeouts

Holders == {t \in Threads : handle[t] # None}

\* The refcount is the number of users that hold the connection, plus the
\* references that a reconnect overtaken by a timeout took on top of its own:
\* no release disconnects a client under another user, however late a slow
\* connect, a failure or a removed transition comes in between.
RefsAreHolders == refs = Cardinality(Holders) + extra

\* A connected client is the pooled one, or its thread is about to pool or to
\* drop it: the connects of the pool that overtake one another leave no server
\* behind, whichever of them wins.  The exception is a client that has connected
\* itself for a tool call or a health check, which nobody may be left to drop.
NoOrphan ==
  \A c \in connected :
    \/ c = pool \/ c \in dialled
    \/ \E t \in Threads : client[t] = c
                         /\ pc[t] \in {"connected", "redone", "disconnect", "drop old"}

\* If no connect of a client hangs for ever, every call ends, whether or not
\* waits time out: no thread sleeps on an event that nobody is left to set.
ConnectsEnd == \A t \in Threads : []<>(pc[t] \notin {"connect", "redo", "dial"})
CallsEnd == ConnectsEnd =>
  \A t \in Threads : pc[t] \notin {"idle", "using"} ~> pc[t] \in {"idle", "using"}

\* When nobody holds a reference and no call is in progress the server is
\* disconnected ("disconnect when the last user releases").
LastReleaseDisconnects ==
  refs = 0 /\ (\A t \in Threads : pc[t] = "idle") => connected = {}
=============================================================================
