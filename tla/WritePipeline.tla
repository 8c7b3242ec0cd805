--------------------------- MODULE WritePipeline ---------------------------
(***************************************************************************)
(* MemoryStore.remember(), end to end, by several threads of one store:    *)
(* the IntegrityGuard of procedures, the IngestResolver and what its       *)
(* decision does to the table, the consolidate_every_n throttle, and the   *)
(* consolidator with the create() of every record it derives, which no     *)
(* guard sees.  The guard, the resolver and the consolidator are user code:*)
(* the model lets them answer anything, or raise.  What                    *)
(* search() shows the resolver is left out for this reason: it may name    *)
(* any id, also one that is gone or belongs to somebody else.              *)
(*                                                                         *)
(* The throttle is a plain dict guarded by no lock: each access to it is a *)
(* step.  A `with pool.get_connection()` block is one step.                *)
(***************************************************************************)
EXTENDS Scope, Naturals

CONSTANTS Clients, ScopeOf,     \* threads, and the scope each one uses
          Ids,                  \* UUIDs, drawn once each
          Kinds,                \* the memory types that are written
          Contents,
          Rejected,             \* procedures the guard answers REJECT to
          MaxEveryN,            \* bound on consolidate_every_n
          MaxCalls,             \* bound on the calls of each thread
          NoRow

ASSUME PipelineAssumption ==
    /\ ScopeOf \in [Clients -> MemoryScope]
    /\ Kinds \subseteq {"working", "episodic", "procedural"}
    /\ Rejected \subseteq Contents
    /\ MaxEveryN \in Nat \ {0} /\ MaxCalls \in [Clients -> Nat]
    /\ None \notin Ids

\* The origin column, the values that remember() and the consolidator give it:
\* set by the INSERT, and written by no UPDATE.
Origins == {"direct", "consolidation"}

Row == [kind : Kinds, scope : MemoryScope, content : Contents,
        origin : Origins, version : Nat, deleted_at : BOOLEAN]

VARIABLES
    every_n,    \* _consolidate_every_n, set by the constructor
    table,      \* the rows of the repositories, by id
    task,       \* per thread: where its remember() is, and its locals
    calls,      \* calls started per thread
    counters,   \* _consolidate_counters; a missing key reads as 0
    failedOpen, \* history: contents for which the guard has raised
    declined,   \* history: threads whose candidate the resolver turned down
    committed,  \* history: <<kind, content, scope, origin>> written to the
                \* table, "direct" by remember(), merges included
    adds, fired \* history: per thread, the calls of this process that reached
                \* the throttle, and those it answered True

storeVars == <<table, committed>>
answerVars == <<failedOpen, declined>>
throttleVars == <<every_n, counters, adds, fired>>
vars == <<storeVars, task, calls, answerVars, throttleVars>>

Guarded(kind) == kind = "procedural"
DedupOnWrite(kind) == kind # "working"
Consolidated(kind) == kind \in {"working", "episodic"}

\* tenant_id is not part of the key.
KeyOf(scope) == [agent_id |-> scope.agent_id, user_id |-> scope.user_id,
                 thread_id |-> scope.thread_id]
Key(c) == KeyOf(ScopeOf[c])
Keys == {Key(c) : c \in Clients}

At(c, pc) == task[c].pc = pc
Between == {"idle", "returned", "raised"}
Idle(c) == task[c].pc \in Between
NoTask == [pc |-> "idle", kind |-> None, content |-> None, target |-> None,
           version |-> 0, count |-> 0, derived |-> None]

Init == /\ every_n \in 1..MaxEveryN
        /\ table = [i \in Ids |-> NoRow]
        /\ task = [c \in Clients |-> NoTask]
        /\ calls = [c \in Clients |-> 0]
        /\ counters = [k \in Keys |-> 0]
        /\ failedOpen = {} /\ declined = {} /\ committed = {}
        /\ adds = [c \in Clients |-> 0] /\ fired = [c \in Clients |-> 0]

Goto(c, pc) == task' = [task EXCEPT ![c].pc = pc]

\* What get_by_id(), update(), forget() and the deduplication can see.
Sees(c, kind, i) == /\ table[i] # NoRow /\ ~table[i].deleted_at
                    /\ table[i].kind = kind
                    /\ ScopePredicates(ScopeOf[c], table[i].scope)

Visible(c, i) == Sees(c, task[c].kind, i)

-----------------------------------------------------------------------------
Remember(c, kind, content) ==
    /\ Idle(c) /\ calls[c] < MaxCalls[c]
    /\ calls' = [calls EXCEPT ![c] = @ + 1]
    /\ task' = [task EXCEPT ![c] =
          [NoTask EXCEPT !.pc = IF Guarded(kind) THEN "guard" ELSE "resolve",
                         !.kind = kind, !.content = content]]
    /\ declined' = declined \ {c}
    /\ UNCHANGED <<storeVars, failedOpen, throttleVars>>

\* A variant of the guard that only warns.
GuardWarns(c) ==
    /\ At(c, "guard")
    /\ Goto(c, "resolve")
    /\ UNCHANGED <<storeVars, calls, answerVars, throttleVars>>

\* ACCEPT and QUARANTINE go on, the latter with a flag on the record that no
\* column stores; REJECT raises.
Guard(c) ==
    /\ At(c, "guard")
    /\ Goto(c, IF task[c].content \in Rejected THEN "raised" ELSE "resolve")
    /\ UNCHANGED <<storeVars, calls, answerVars, throttleVars>>

\* The guard raises: the write goes on.
GuardFails(c) ==
    /\ At(c, "guard")
    /\ Goto(c, "resolve")
    /\ failedOpen' = failedOpen \cup {task[c].content}
    /\ UNCHANGED <<storeVars, calls, declined, throttleVars>>

\* ADD, an UPDATE without a target, or an exception of the resolver.
ResolveAdd(c) ==
    /\ At(c, "resolve")
    /\ Goto(c, "create")
    /\ UNCHANGED <<storeVars, calls, answerVars, throttleVars>>

ResolveUpdate(c, i) ==
    /\ At(c, "resolve")
    /\ task' = [task EXCEPT ![c].pc = "read", ![c].target = i]
    /\ UNCHANGED <<storeVars, calls, answerVars, throttleVars>>

\* DELETE of a target: the candidate is not written.
ResolveDelete(c, i) ==
    /\ At(c, "resolve")
    /\ table' = IF Visible(c, i) THEN [table EXCEPT ![i].deleted_at = TRUE,
                                                    ![i].version = @ + 1]
                ELSE table
    /\ declined' = declined \cup {c}
    /\ Goto(c, "returned")
    /\ UNCHANGED <<committed, calls, failedOpen, throttleVars>>

\* NOOP, or a DELETE without a target.
ResolveNoop(c) ==
    /\ At(c, "resolve")
    /\ declined' = declined \cup {c}
    /\ Goto(c, "returned")
    /\ UNCHANGED <<storeVars, calls, failedOpen, throttleVars>>

\* A variant that gives the candidate up with its target.
ReadTargetOrStop(c) ==
    /\ At(c, "read")
    /\ LET i == task[c].target IN
       IF Visible(c, i)
       THEN task' = [task EXCEPT ![c].pc = "update", ![c].version = table[i].version]
       ELSE Goto(c, "returned")
    /\ UNCHANGED <<storeVars, calls, answerVars, throttleVars>>

\* get_by_id() of the target; when it finds none, the candidate is added.
ReadTarget(c) ==
    /\ At(c, "read")
    /\ LET i == task[c].target IN
       IF Visible(c, i)
       THEN task' = [task EXCEPT ![c].pc = "update", ![c].version = table[i].version]
       ELSE Goto(c, "create")
    /\ UNCHANGED <<storeVars, calls, answerVars, throttleVars>>

\* update() of the target with what the candidate holds, or StaleWriteError.
UpdateTarget(c) ==
    /\ At(c, "update")
    /\ LET i == task[c].target IN
       IF Visible(c, i) /\ table[i].version = task[c].version
       THEN /\ table' = [table EXCEPT ![i].content = task[c].content,
                                      ![i].version = @ + 1]
            /\ committed' = committed \cup
                  {<<task[c].kind, task[c].content, table[i].scope, "direct">>}
            /\ Goto(c, "returned")
       ELSE UNCHANGED storeVars /\ Goto(c, "raised")
    /\ UNCHANGED <<calls, answerVars, throttleVars>>

-----------------------------------------------------------------------------
\* create(): a duplicate is returned as it is, and counts as added.
CreateHit(c, i) ==
    /\ At(c, "create") /\ DedupOnWrite(task[c].kind)
    /\ Visible(c, i) /\ table[i].content = task[c].content
    /\ task' = [task EXCEPT ![c].target = i, ![c].pc =
                   IF Consolidated(task[c].kind) THEN "throttle" ELSE "returned"]
    /\ UNCHANGED <<storeVars, calls, answerVars, throttleVars>>

CreateMiss(c) ==
    /\ At(c, "create")
    /\ DedupOnWrite(task[c].kind) =>
          \A i \in Ids : ~(Visible(c, i) /\ table[i].content = task[c].content)
    /\ Goto(c, "insert")
    /\ UNCHANGED <<storeVars, calls, answerVars, throttleVars>>

CreateInsert(c, i) ==
    /\ At(c, "insert") /\ table[i] = NoRow
    /\ table' = [table EXCEPT ![i] =
          [kind |-> task[c].kind, scope |-> ScopeOf[c], content |-> task[c].content,
           origin |-> "direct", version |-> 1, deleted_at |-> FALSE]]
    /\ committed' = committed \cup
          {<<task[c].kind, task[c].content, ScopeOf[c], "direct">>}
    /\ task' = [task EXCEPT ![c].target = i, ![c].pc =
                   IF Consolidated(task[c].kind) THEN "throttle" ELSE "returned"]
    /\ UNCHANGED <<calls, answerVars, throttleVars>>

\* A statement fails: the exception reaches the caller.
StoreRaises(c) ==
    /\ task[c].pc \in {"resolve", "read", "update", "create", "insert"}
    /\ Goto(c, "raised")
    /\ UNCHANGED <<storeVars, calls, answerVars, throttleVars>>

-----------------------------------------------------------------------------
\* With every_n = 1 _should_consolidate() reads no counter.
AlwaysFires(c) ==
    /\ At(c, "throttle") /\ every_n = 1
    /\ Goto(c, "consolidate")
    /\ adds' = [adds EXCEPT ![c] = @ + 1]
    /\ fired' = [fired EXCEPT ![c] = @ + 1]
    /\ UNCHANGED <<storeVars, calls, answerVars, every_n, counters>>

\* count = counters.get(key, 0) + 1
ReadCounter(c) ==
    /\ At(c, "throttle") /\ every_n > 1
    /\ task' = [task EXCEPT ![c].pc = "count", ![c].count = counters[Key(c)] + 1]
    /\ adds' = [adds EXCEPT ![c] = @ + 1]
    /\ UNCHANGED <<storeVars, calls, answerVars, every_n, counters, fired>>

\* A variant whose comparison is off by one.
ReachesLate(count) == count > every_n

Reaches(count) == count >= every_n

\* counters[key] = count
StoreCounter(c) ==
    /\ At(c, "count")
    /\ counters' = [counters EXCEPT ![Key(c)] = task[c].count]
    /\ Goto(c, IF Reaches(task[c].count) THEN "reached" ELSE "returned")
    /\ UNCHANGED <<storeVars, calls, answerVars, every_n, adds, fired>>

\* counters[key] = 0
Fires(c) ==
    /\ At(c, "reached")
    /\ counters' = [counters EXCEPT ![Key(c)] = 0]
    /\ fired' = [fired EXCEPT ![c] = @ + 1]
    /\ Goto(c, "consolidate")
    /\ UNCHANGED <<storeVars, calls, answerVars, every_n, adds>>

\* _run_consolidator() over the row: create() of a record it derived, of the
\* kind and content d.  The deduplication found none; when it finds one, when
\* it fails, and for a record of another type, nothing changes here (what goes
\* to the tables of facts and profiles: see Consolidation).
DeriveMiss(c, d) ==
    /\ At(c, "consolidate") /\ task[c].derived = None
    /\ DedupOnWrite(d[1]) =>
          \A i \in Ids : ~(Sees(c, d[1], i) /\ table[i].content = d[2])
    /\ task' = [task EXCEPT ![c].derived = d]
    /\ UNCHANGED <<storeVars, calls, answerVars, throttleVars>>

\* The INSERT of that record: in the scope of the call, and past no guard.
DeriveInsert(c, i) ==
    /\ At(c, "consolidate") /\ task[c].derived # None /\ table[i] = NoRow
    /\ LET d == task[c].derived IN
       /\ table' = [table EXCEPT ![i] =
             [kind |-> d[1], scope |-> ScopeOf[c], content |-> d[2],
              origin |-> "consolidation", version |-> 1, deleted_at |-> FALSE]]
       /\ committed' = committed \cup {<<d[1], d[2], ScopeOf[c], "consolidation">>}
    /\ task' = [task EXCEPT ![c].derived = None]
    /\ UNCHANGED <<calls, answerVars, throttleVars>>

\* The INSERT raises: logged, and the loop goes on.
DeriveFails(c) ==
    /\ At(c, "consolidate") /\ task[c].derived # None
    /\ task' = [task EXCEPT ![c].derived = None]
    /\ UNCHANGED <<storeVars, calls, answerVars, throttleVars>>

\* The loop is over, or the consolidator raised, which is logged.
RunConsolidator(c) ==
    /\ At(c, "consolidate") /\ task[c].derived = None
    /\ Goto(c, "returned")
    /\ UNCHANGED <<storeVars, calls, answerVars, throttleVars>>

\* The process ends, in the middle of any calls, and another one starts.
Restart ==
    /\ \E c \in Clients : ~Idle(c) \/ adds[c] > 0
    /\ task' = [c \in Clients |-> NoTask]
    /\ counters' = [k \in Keys |-> 0]
    /\ adds' = [c \in Clients |-> 0] /\ fired' = [c \in Clients |-> 0]
    /\ UNCHANGED <<storeVars, calls, answerVars, every_n>>

Resolve(c) == \/ ResolveAdd(c) \/ ResolveNoop(c)
              \/ \E i \in Ids : ResolveUpdate(c, i) \/ ResolveDelete(c, i)

Create(c) == \/ CreateMiss(c)
             \/ \E i \in Ids : CreateHit(c, i) \/ CreateInsert(c, i)

Consolidate(c) == \/ AlwaysFires(c) \/ ReadCounter(c) \/ StoreCounter(c)
                  \/ Fires(c) \/ RunConsolidator(c)

Derive(c) == \/ \E d \in Kinds \X Contents : DeriveMiss(c, d)
             \/ \E i \in Ids : DeriveInsert(c, i)
             \/ DeriveFails(c)

Step(c) == \/ \E kind \in Kinds, content \in Contents : Remember(c, kind, content)
           \/ Guard(c) \/ GuardFails(c) \/ Resolve(c)
           \/ ReadTarget(c) \/ UpdateTarget(c)
           \/ Create(c) \/ StoreRaises(c)
           \/ Consolidate(c) \/ Derive(c)

Next == Restart \/ \E c \in Clients : Step(c)

Spec == Init /\ [][Next]_vars

-----------------------------------------------------------------------------
Pcs == Between \cup {"guard", "resolve", "read", "update", "create", "insert",
                     "throttle", "count", "reached", "consolidate"}

Task == [pc : Pcs, kind : Kinds \cup {None}, content : Contents \cup {None},
         target : Ids \cup {None}, version : Nat, count : Nat,
         derived : (Kinds \X Contents) \cup {None}]

\* Every variable has its type.  A thread counts at most once per call, and
\* fires at most as often; two threads of one key may count past every_n.
TypeOK ==
    /\ every_n \in 1..MaxEveryN
    /\ table \in [Ids -> Row \cup {NoRow}]
    /\ task \in [Clients -> Task]
    /\ counters \in [Keys -> Nat]
    /\ failedOpen \subseteq Contents /\ declined \subseteq Clients
    /\ committed \subseteq Kinds \X Contents \X MemoryScope \X Origins
    /\ calls \in [Clients -> Nat]
    /\ adds \in [Clients -> Nat] /\ fired \in [Clients -> Nat]
    /\ \A c \in Clients : fired[c] <= adds[c] /\ adds[c] <= calls[c] /\ calls[c] <= MaxCalls[c]

\* A remember() that returns has stored its candidate where the caller can see
\* it, in a row of its own, in the target of an UPDATE or in a duplicate,
\* unless the resolver turned the candidate down: whatever the resolver names
\* and however the target changes under it, no candidate is silently dropped.
NothingLost ==
    \A c \in Clients : At(c, "returned") /\ c \notin declined =>
        \E s \in MemoryScope : /\ ScopePredicates(ScopeOf[c], s)
                               /\ \E o \in Origins :
                                     <<task[c].kind, task[c].content, s, o>> \in committed

\* A procedure the guard rejects is never written by remember(), neither
\* inserted nor merged into another row by the resolver, unless the guard failed
\* open on it; and a row that holds it all the same says that the consolidator,
\* which the guard does not see, derived it.
RejectedNeverStored ==
    \A k \in Kinds, x \in Rejected \ failedOpen : Guarded(k) =>
        /\ \A s \in MemoryScope : <<k, x, s, "direct">> \notin committed
        /\ \A i \in Ids : table[i] # NoRow /\ table[i].kind = k /\ table[i].content = x
                => table[i].origin = "consolidation"

\* "each distinct conversational scope gets its own independent cadence": of
\* the calls of a thread that alone writes for its key, the consolidator fires
\* on every n-th that added, whatever other threads are in the middle of, and
\* the calls the guard or the resolver ended do not count.
CadencePerScope ==
    \A c \in Clients :
        /\ task[c].pc \notin {"count", "reached"}
        /\ \A d \in Clients \ {c} : Key(d) # Key(c)
        => fired[c] = adds[c] \div every_n

\* Whatever id a resolver makes up, a remember() changes no row outside the
\* scope it was called with, and adds rows to no other scope.
OthersUntouched ==
    [][\A c \in Clients, i \in Ids :
          task'[c] # task[c] /\ task'[c] # NoTask /\ table'[i] # table[i] =>
             IF table[i] = NoRow THEN table'[i].scope = ScopeOf[c]
             ELSE ScopePredicates(ScopeOf[c], table[i].scope)]_vars
=============================================================================
