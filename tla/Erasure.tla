------------------------------ MODULE Erasure ------------------------------
(***************************************************************************)
(* MemoryStore.erase_all(), also reached by delete_user() and              *)
(* delete_agent(): six DELETEs in six transactions, the chunks last, while *)
(* other callers remember, update and consolidate.  A remember() of a long *)
(* content writes a row, its chunks, and what the inline consolidator      *)
(* derives from it, in this order and each in a transaction of its own.    *)
(* Every row carries `call`, the remember() its content goes back to.      *)
(***************************************************************************)
EXTENDS Scope, Naturals, Sequences

CONSTANTS Calls,        \* the remember() calls
          Clients,      \* threads that write
          Erasers,      \* threads that erase, once each
          Requests,     \* scopes an erasure may be asked for
          MaxUpdates    \* bound on the updates of a row

\* What remember(), update() and consolidation have left to do, one
\* transaction after the other.
Lefts == {<<"delete_by_source", "memory_chunks", "semantic_facts">>,
          <<"memory_chunks", "semantic_facts">>, <<"semantic_facts">>,
          <<"delete_by_source", "memory_chunks">>, <<"memory_chunks">>}

Task == [call : Calls, scope : MemoryScope, version : 0..(MaxUpdates + 1), left : Lefts]

ASSUME ErasureAssumption ==
    /\ Requests \subseteq MemoryScope
    /\ MaxUpdates \in Nat
    /\ None \notin MemoryScope \cup Task

\* The order in which erase_all() visits the tables.
Tables == <<"working_memory", "episodic_memory", "semantic_facts",
            "entity_profiles", "procedural_memory", "memory_chunks">>

VARIABLES
    db,         \* rows [table, scope, call, version]
    scopeOf,    \* per call: its scope, or None before it
    version,    \* per call: how often its row was updated
    claimed,    \* calls whose row the worker has claimed
    task,       \* per client: [call, scope, version, left], or None
    request,    \* per eraser: the scope it was called with, or None
    position,   \* per eraser: the table it deletes from next
    before      \* history: per eraser, the rows in its scope when it began

vars == <<db, scopeOf, version, claimed, task, request, position, before>>

Row(table, scope, call, ver) ==
    [table |-> table, scope |-> scope, call |-> call, version |-> ver]

Erased(e) == request[e] # None /\ position[e] > Len(Tables)
Quiet(c) == \A p \in Clients : task[p] = None \/ task[p].call # c

Init == /\ db = {}
        /\ scopeOf = [c \in Calls |-> None]
        /\ version = [c \in Calls |-> 0]
        /\ claimed = {}
        /\ task = [p \in Clients |-> None]
        /\ request = [e \in Erasers |-> None]
        /\ position = [e \in Erasers |-> 1]
        /\ before = [e \in Erasers |-> {}]

-----------------------------------------------------------------------------
Begin(p, c, scope, ver, left) ==
    task' = [task EXCEPT ![p] =
                [call |-> c, scope |-> scope, version |-> ver, left |-> left]]

\* remember() of a working memory: the row is committed first.
Remember(p, c, scope) ==
    /\ task[p] = None /\ scopeOf[c] = None
    /\ scopeOf' = [scopeOf EXCEPT ![c] = scope]
    /\ db' = db \cup {Row("working_memory", scope, c, 0)}
    /\ Begin(p, c, scope, 0, <<"delete_by_source", "memory_chunks", "semantic_facts">>)
    /\ UNCHANGED <<version, claimed, request, position, before>>

\* update() with another long content.  It may be called with any scope that
\* matches the row, and the new chunks get that scope.
Update(p, c) ==
    /\ task[p] = None /\ version[c] < MaxUpdates
    /\ Row("working_memory", scopeOf[c], c, 0) \in db
    /\ version' = [version EXCEPT ![c] = @ + 1]
    /\ \E scope \in {s \in MemoryScope : ScopePredicates(s, scopeOf[c])} :
          Begin(p, c, scope, version'[c], <<"delete_by_source", "memory_chunks">>)
    /\ UNCHANGED <<db, scopeOf, claimed, request, position, before>>

\* The worker is run for an agent, and maybe a tenant; so is what it derives.
WorkerScopes(c) == {s \in MemoryScope : /\ ScopePredicates(s, scopeOf[c])
                                        /\ s.user_id = None /\ s.thread_id = None}

Consolidate(p, c) ==
    /\ task[p] = None /\ c \notin claimed
    /\ Row("working_memory", scopeOf[c], c, 0) \in db
    /\ claimed' = claimed \cup {c}
    /\ \E scope \in WorkerScopes(c) : Begin(p, c, scope, 1, <<"semantic_facts">>)
    /\ UNCHANGED <<db, scopeOf, version, request, position, before>>

\* A variant of delete_by_source() without source_id.
SameAgent(r, c, scope) == ScopePredicates(scope, r.scope)

\* The WHERE clause of delete_by_source(): user and thread are not compared.
OldChunk(r, c, scope) ==
    /\ r.call = c /\ r.scope.agent_id = scope.agent_id
    /\ scope.tenant_id \in {None, r.scope.tenant_id}

\* The next transaction of a write; the last one ends the call.
WriteNext(p) ==
    /\ task[p] # None
    /\ LET t == task[p]
           table == Head(t.left)
       IN /\ db' = IF table = "delete_by_source"
                   THEN {r \in db : ~(r.table = "memory_chunks" /\ OldChunk(r, t.call, t.scope))}
                   ELSE db \cup {Row(table, t.scope, t.call, t.version)}
          /\ task' = [task EXCEPT ![p] =
                         IF Len(t.left) = 1 THEN None ELSE [t EXCEPT !.left = Tail(@)]]
    /\ UNCHANGED <<scopeOf, version, claimed, request, position, before>>

-----------------------------------------------------------------------------
\* A call of erase_all().  What was in its scope at this time is remembered.
EraseBegin(e, scope) ==
    /\ request[e] = None
    /\ request' = [request EXCEPT ![e] = scope]
    /\ before' = [before EXCEPT ![e] = {r \in db : ScopePredicates(scope, r.scope)}]
    /\ UNCHANGED <<db, scopeOf, version, claimed, task, position>>

\* A variant that leaves the chunks to a store that has chunking enabled.
EraseRowsOnly(e) ==
    /\ request[e] # None /\ position[e] <= Len(Tables)
    /\ db' = {r \in db : ~(/\ r.table = Tables[position[e]]
                           /\ r.table # "memory_chunks"
                           /\ ScopePredicates(request[e], r.scope))}
    /\ position' = [position EXCEPT ![e] = @ + 1]
    /\ UNCHANGED <<scopeOf, version, claimed, task, request, before>>

\* erase_all() of one repository, or erase_by_scope() of the chunks.
EraseTable(e) ==
    /\ request[e] # None /\ position[e] <= Len(Tables)
    /\ db' = {r \in db : ~(/\ r.table = Tables[position[e]]
                           /\ ScopePredicates(request[e], r.scope))}
    /\ position' = [position EXCEPT ![e] = @ + 1]
    /\ UNCHANGED <<scopeOf, version, claimed, task, request, before>>

Next == \/ \E p \in Clients, c \in Calls :
              \/ \E scope \in MemoryScope : Remember(p, c, scope)
              \/ Update(p, c) \/ Consolidate(p, c)
        \/ \E p \in Clients : WriteNext(p)
        \/ \E e \in Erasers : EraseTable(e) \/ \E scope \in Requests : EraseBegin(e, scope)

Spec == Init /\ [][Next]_vars
-----------------------------------------------------------------------------
RowType == [table : {Tables[i] : i \in 1..Len(Tables)}, scope : MemoryScope,
            call : Calls, version : 0..(MaxUpdates + 1)]

\* Every variable has its type.
TypeOK ==
    /\ db \subseteq RowType
    /\ scopeOf \in [Calls -> MemoryScope \cup {None}]
    /\ version \in [Calls -> 0..MaxUpdates] /\ claimed \subseteq Calls
    /\ task \in [Clients -> Task \cup {None}]
    /\ request \in [Erasers -> Requests \cup {None}]
    /\ position \in [Erasers -> 1..(Len(Tables) + 1)]
    /\ before \in [Erasers -> SUBSET RowType]

\* "hard-deletes every row matching scope in every table": when erase_all()
\* returns, none of the rows it was asked to erase is left, whatever other
\* callers wrote and erased between its six transactions.
EarlierRowsGone ==
    \A e \in Erasers : Erased(e) => before[e] \cap db = {}

\* Erasure "can never spill outside the requested tenant/agent/user/thread":
\* a call that no erasure asked for keeps its row, its derived fact and its
\* chunks, also when the chunks were written again with a broader scope.
OthersKeepTheirRows ==
    \A c \in Calls :
        /\ scopeOf[c] # None /\ Quiet(c)
        /\ \A e \in Erasers : request[e] # None => ~ScopePredicates(request[e], scopeOf[c])
        => \A table \in {"working_memory", "semantic_facts", "memory_chunks"} :
               \E r \in db : r.table = table /\ r.call = c

\* delete_user() without a tenant_id erases nothing of a tenant: the argument
\* means "match rows with no tenant" (the default scope).
NoOtherTenantErased ==
    \A e \in Erasers : \A r \in before[e] :
        r \notin db => r.scope.tenant_id = request[e].tenant_id
=============================================================================
