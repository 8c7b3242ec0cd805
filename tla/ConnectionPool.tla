--------------------------- MODULE ConnectionPool ---------------------------
(***************************************************************************)
(* db/connection.py: the bounded pool every repository call goes through.  *)
(* get_connection() is cut where another thread can run: after the check   *)
(* of _closed, while it waits in queue.Queue.get(timeout), and while the   *)
(* body of the `with` statement has the connection.  No body of the code   *)
(* asks for a second connection, so a thread owns at most one handle.      *)
(* close() drains the queue one handle at a time.                          *)
(***************************************************************************)
EXTENDS Naturals, Sequences, FiniteSets

CONSTANTS Threads,      \* callers of get_connection() and close()
          Handles,      \* the raw ibm_db handles the constructor opened
          NoHandle

ASSUME PoolAssumption ==
    /\ IsFiniteSet(Handles)
    /\ NoHandle \notin Handles

VARIABLES
    queue,      \* _pool: the free handles, oldest first
    closed,     \* _closed
    at,         \* where each thread is
    handle,     \* the handle each thread has checked out
    disconnected,   \* handles that ibm_db.close() has closed
    lost        \* handles taken from the queue whose wrapper was not built

poolVars == <<queue, closed, at, handle, disconnected, lost>>

Free == {queue[i] : i \in 1..Len(queue)}
Owned == {handle[t] : t \in Threads} \ {NoHandle}

\* The constructor has opened every handle; when one fails to open it raises
\* and there is no pool.
PoolInit == /\ queue \in [1..Cardinality(Handles) -> Handles]
            /\ Free = Handles
            /\ \A i, j \in 1..Len(queue) : i # j => queue[i] # queue[j]
            /\ closed = FALSE
            /\ at = [t \in Threads |-> "idle"]
            /\ handle = [t \in Threads |-> NoHandle]
            /\ disconnected = {} /\ lost = {}

-----------------------------------------------------------------------------
\* The check of _closed; a closed pool raises ConnectionError.
Enter(t) ==
    /\ at[t] = "idle" /\ ~closed
    /\ at' = [at EXCEPT ![t] = "waiting"]
    /\ UNCHANGED <<queue, closed, handle, disconnected, lost>>

\* A variant of the get that leaves the handle in the queue.
CheckOutPeek(t) ==
    /\ at[t] = "waiting" /\ queue # <<>>
    /\ handle' = [handle EXCEPT ![t] = Head(queue)]
    /\ at' = [at EXCEPT ![t] = "using"]
    /\ UNCHANGED <<queue, closed, disconnected, lost>>

\* Queue.get() returns and the wrapper is built around the handle.
CheckOut(t) ==
    /\ at[t] = "waiting" /\ queue # <<>>
    /\ queue' = Tail(queue)
    /\ handle' = [handle EXCEPT ![t] = Head(queue)]
    /\ at' = [at EXCEPT ![t] = "using"]
    /\ UNCHANGED <<closed, disconnected, lost>>

\* The wrapper raises; it is built before the `try`, so nothing puts the
\* handle back.
WrapFails(t) ==
    /\ at[t] = "waiting" /\ queue # <<>>
    /\ queue' = Tail(queue)
    /\ lost' = lost \cup {Head(queue)}
    /\ at' = [at EXCEPT ![t] = "idle"]
    /\ UNCHANGED <<closed, handle, disconnected>>

\* A variant in which an expired wait is retried instead of raised.
TimeOutRetried(t) ==
    /\ at[t] = "waiting" /\ queue = <<>>
    /\ UNCHANGED poolVars

\* Queue.get() gives up, but only on an empty queue: ConnectionPoolExhausted.
TimeOut(t) ==
    /\ at[t] = "waiting" /\ queue = <<>>
    /\ at' = [at EXCEPT ![t] = "idle"]
    /\ UNCHANGED <<queue, closed, handle, disconnected, lost>>

\* A variant in which the handle goes back only to an open pool.
ReleaseUnlessClosed(t) ==
    /\ at[t] = "using"
    /\ queue' = IF closed THEN queue ELSE Append(queue, handle[t])
    /\ handle' = [handle EXCEPT ![t] = NoHandle]
    /\ at' = [at EXCEPT ![t] = "idle"]
    /\ UNCHANGED <<closed, disconnected, lost>>

\* The `finally`: rollback, put_nowait.  It runs however the body ends.
Release(t) ==
    /\ at[t] = "using"
    /\ queue' = Append(queue, handle[t])
    /\ handle' = [handle EXCEPT ![t] = NoHandle]
    /\ at' = [at EXCEPT ![t] = "idle"]
    /\ UNCHANGED <<closed, disconnected, lost>>

CloseBegin(t) ==
    /\ at[t] = "idle"
    /\ closed' = TRUE
    /\ at' = [at EXCEPT ![t] = "closing"]
    /\ UNCHANGED <<queue, handle, disconnected, lost>>

CloseDrain(t) ==
    /\ at[t] = "closing" /\ queue # <<>>
    /\ queue' = Tail(queue)
    /\ disconnected' = disconnected \cup {Head(queue)}
    /\ UNCHANGED <<closed, at, handle, lost>>

CloseEnd(t) ==
    /\ at[t] = "closing" /\ queue = <<>>
    /\ at' = [at EXCEPT ![t] = "idle"]
    /\ UNCHANGED <<queue, closed, handle, disconnected, lost>>

Leave(t) == CheckOut(t) \/ WrapFails(t) \/ TimeOut(t)

PoolNext ==
    \E t \in Threads : \/ Enter(t) \/ Leave(t) \/ Release(t)
                       \/ CloseBegin(t) \/ CloseDrain(t) \/ CloseEnd(t)

PoolSpec == PoolInit /\ [][PoolNext]_poolVars

\* A wait ends (it has a timeout), the body of a `with` ends, close() ends.
PoolFairSpec ==
    /\ PoolSpec
    /\ \A t \in Threads : /\ WF_poolVars(Leave(t)) /\ WF_poolVars(Release(t))
                          /\ WF_poolVars(CloseDrain(t)) /\ WF_poolVars(CloseEnd(t))

-----------------------------------------------------------------------------
\* Every variable has its type.
PoolTypeOK ==
    /\ queue \in Seq(Handles)
    /\ closed \in BOOLEAN
    /\ at \in [Threads -> {"idle", "waiting", "using", "closing"}]
    /\ handle \in [Threads -> Handles \cup {NoHandle}]
    /\ disconnected \subseteq Handles /\ lost \subseteq Handles

\* "concurrent callers each get a distinct connection": no two threads own one
\* handle, no free handle is owned, and none is in the queue twice.
NoSharing ==
    /\ \A t, u \in Threads :
          t # u /\ handle[t] # NoHandle => handle[t] # handle[u]
    /\ Free \cap Owned = {}
    /\ \A i, j \in 1..Len(queue) : i # j => queue[i] # queue[j]

\* close() may run at any moment, but never closes a connection somebody is
\* using: only handles it has taken from the queue itself.
NeverClosedInUse == Owned \cap disconnected = {}

\* No handle goes astray: each is free, owned by a thread, or closed by
\* close(), but for those whose wrapper could not be built.  So nothing else
\* shrinks the pool, and put_nowait() never finds the queue full.
EveryHandleAccounted == Free \cup Owned \cup disconnected \cup lost = Handles

\* A thread owns a handle exactly while it is in the body of its `with`.
OwnsWhileUsing == \A t \in Threads : handle[t] # NoHandle <=> at[t] = "using"

\* A caller never waits for ever, also when the pool is closed meanwhile.
WaitEnds == \A t \in Threads : at[t] = "waiting" ~> at[t] # "waiting"
=============================================================================
