------------------------------- MODULE Session -------------------------------
(***************************************************************************)
(* The conversations in working_memory: Db2Session (OpenAI Agents),        *)
(* Db2ChatMessageHistory (LangChain), the Agent Framework providers and    *)
(* the messages of MemoryStore and Thread.  They differ in how they encode *)
(* a message, which is left out: a message is its row.  A session without  *)
(* an id has the scope of all threads of its agent.                        *)
(***************************************************************************)
EXTENDS Listing

CONSTANT MaxBatch       \* bound on the messages of one call

ASSUME SessionAssumption == MaxBatch \in Nat

VARIABLES
    queue,     \* per client: the messages its call has still to write
    todo,      \* per client: the rows its clear has still to forget
    \* history
    taken,     \* the rows that calls of pop_item() have returned
    takenAt    \* per client: those of them when its pop_item() listed

sessionVars == <<queue, todo, taken, takenAt>>

SessionInit == /\ queue = [c \in Clients |-> 0]
               /\ todo = [c \in Clients |-> {}]
               /\ taken = {}
               /\ takenAt = [c \in Clients |-> {}]

\* add_items(), add_messages(), save_messages() and after_run() remember() one
\* message after the other.
Add(c, s, n) == /\ Begin(c, Op("add", s, NoKey, NoContent), 0, "create")
                /\ queue' = [queue EXCEPT ![c] = n]
                /\ UNCHANGED <<todo, taken, takenAt>>

\* MemoryStoreHistoryProvider: its thread is the session_id it is called with.
SaveMessages(c, session_id, n) == Add(c, session_id, n)

\* MemoryStoreContextProvider: the thread in the state comes before the id of
\* the session, which there may be none of.
ContextThread(state, session) == IF state # NoOwner THEN state ELSE session
AfterRun(c, state, session, n) == Add(c, ContextThread(state, session), n)

StampMessage(c) == Stamp(c) /\ UNCHANGED sessionVars

InsertMessage(c) ==
    /\ Insert(c)
    /\ queue' = [queue EXCEPT ![c] = @ - 1]
    /\ IF queue[c] = 1
       THEN End(c)
       ELSE /\ pc' = [pc EXCEPT ![c] = "create"]
            /\ draft' = [draft EXCEPT ![c] = 0]
            /\ UNCHANGED <<op, held, saw>>
    /\ UNCHANGED <<todo, taken, takenAt>>

-----------------------------------------------------------------------------
\* A variant of clear that lists one row, as pop_item() does.
ClearOne(c, s) == /\ Begin(c, Op("clear", s, NoKey, NoContent), 0, "forget")
                  /\ todo' = [todo EXCEPT ![c] = ListAll(s, 1)]
                  /\ UNCHANGED <<queue, taken, takenAt>>

\* clear_session(), clear(): a list of the session's rows ...
Clear(c, s) == /\ Begin(c, Op("clear", s, NoKey, NoContent), 0, "forget")
               /\ todo' = [todo EXCEPT ![c] = ListAll(s, PageLimit)]
               /\ UNCHANGED <<queue, taken, takenAt>>

\* ... each of which is forgotten, the newest first.
ForgetNext(c) ==
    /\ pc[c] = "forget"
    /\ IF todo[c] = {}
       THEN End(c) /\ Finished(c) /\ UNCHANGED <<rows, todo>>
       ELSE /\ Forget(c, Newest(todo[c]))
            /\ todo' = [todo EXCEPT ![c] = @ \ {Newest(@)}]
            /\ UNCHANGED <<pc, op, held, draft, saw>>
    /\ UNCHANGED <<clock, queue, taken, takenAt>>

\* pop_item(): the newest row is read (or there is none, and no step) ...
Pop(c, s) == \E a \in ListAll(s, 1) :
    /\ Begin(c, Op("pop", s, NoKey, NoContent), a, "remove")
    /\ takenAt' = [takenAt EXCEPT ![c] = taken]
    /\ UNCHANGED <<queue, todo, taken>>

\* A variant of pop_item() that raises when the list is outdated, after it has
\* answered.
PopUnforgotten(c) ==
    /\ pc[c] = "remove"
    /\ IF c \in quiet THEN Forget(c, held[c]) ELSE Finished(c) /\ UNCHANGED rows
    /\ End(c)
    /\ taken' = IF op[c].kind = "pop" THEN taken \cup {held[c]} ELSE taken
    /\ takenAt' = [takenAt EXCEPT ![c] = {}]
    /\ UNCHANGED <<clock, queue, todo>>

\* ... forgotten, and returned.
RemoveMessage(c) ==
    /\ Remove(c)
    /\ taken' = IF op[c].kind = "pop" THEN taken \cup {held[c]} ELSE taken
    /\ takenAt' = [takenAt EXCEPT ![c] = {}]
    /\ UNCHANGED <<queue, todo>>

BreakSession(c) ==
    /\ Break(c)
    /\ queue' = [queue EXCEPT ![c] = 0] /\ todo' = [todo EXCEPT ![c] = {}]
    /\ takenAt' = [takenAt EXCEPT ![c] = {}]
    /\ UNCHANGED taken

SessionCall(c) ==
    \/ \E s \in Scopes : \/ \E n \in 1..MaxBatch : \/ Add(c, s, n)
                                                   \/ SaveMessages(c, s, n)
                                                   \/ \E t \in Scopes : AfterRun(c, t, s, n)
                         \/ Clear(c, s) \/ Pop(c, s)
                         \/ \E a \in Visible(s) : Delete(c, s, a) /\ UNCHANGED sessionVars
    \/ StampMessage(c) \/ InsertMessage(c)
    \/ ForgetNext(c) \/ RemoveMessage(c) \/ BreakSession(c)

-----------------------------------------------------------------------------
SessionTypeOK ==
    /\ queue \in [Clients -> 0..MaxBatch] /\ todo \in [Clients -> SUBSET Stamps]
    /\ taken \subseteq Stamps /\ takenAt \in [Clients -> SUBSET taken]

\* A clear that is about to end leaves none of the newest PageLimit messages
\* there were when it began, whoever else pops or clears; later ones stay.
ClearEmptiesPage ==
    \A c \in Clients : pc[c] = "forget" /\ todo[c] = {} =>
       \A a \in saw[c] : ~Live(a)

\* Two calls of pop_item() return one message only if they overlap: what a
\* call has returned, no later call finds.
PoppedOnce ==
    \A c \in Clients : pc[c] = "remove" /\ op[c].kind = "pop" =>
       held[c] \notin takenAt[c]
=============================================================================
