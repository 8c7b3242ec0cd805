------------------------ MODULE WritePipeline_proofs ------------------------
(***************************************************************************)
(* What remember() promises whatever the guard, the resolver and the       *)
(* consolidator answer, for any number of threads, scopes and rows.        *)
(***************************************************************************)
EXTENDS WritePipeline, TLAPS

Shape == /\ task \in [Clients -> Task]
         /\ table \in [Ids -> Row \cup {NoRow}]
         /\ every_n \in Nat /\ counters \in [Keys -> Nat]

\* A call in progress has a candidate, and an UPDATE a target.
HasCandidate ==
    \A c \in Clients :
        /\ task[c].pc # "idle" =>
              task[c].kind \in Kinds /\ task[c].content \in Contents
        /\ task[c].pc \in {"read", "update"} => task[c].target \in Ids

\* Where the candidate has been stored, or nothing is left to do.
Past == {"throttle", "count", "reached", "consolidate", "returned"}

Stored(c) == \E s \in MemoryScope :
                /\ ScopePredicates(ScopeOf[c], s)
                /\ \E o \in Origins :
                      <<task[c].kind, task[c].content, s, o>> \in committed

PastIsStored == \A c \in Clients : task[c].pc \in Past /\ c \notin declined => Stored(c)

RowsCommitted ==
    \A i \in Ids : table[i] # NoRow => \E o \in Origins :
        <<table[i].kind, table[i].content, table[i].scope, o>> \in committed

\* A rejected procedure does not get past the guard.
RejectedIsHeld ==
    \A c \in Clients :
        Guarded(task[c].kind) /\ task[c].content \in Rejected \ failedOpen =>
            task[c].pc \in {"idle", "guard", "raised"}

IInv == /\ Shape /\ HasCandidate /\ PastIsStored /\ RowsCommitted
        /\ RejectedIsHeld /\ RejectedNeverStored

\* The invariant holds when the process starts.
LEMMA InvInit == Init => IInv
<1>. SUFFICES ASSUME Init PROVE IInv
  OBVIOUS
<1>1. NoTask \in Task /\ NoTask.pc = "idle"
  BY DEF NoTask, Task, Pcs, Between
<1>2. Shape
  BY <1>1, PipelineAssumption DEF Init, Shape
<1>. QED BY <1>1, <1>2 DEF Init, IInv, HasCandidate, PastIsStored, RowsCommitted,
                           RejectedIsHeld, RejectedNeverStored, Past

\* A step of one thread: what it has to show for its own task and for the table.
LEMMA ThreadStep ==
    ASSUME IInv, NEW c \in Clients, Shape',
           \A d \in Clients \ {c} : task'[d] = task[d],
           committed \subseteq committed', failedOpen \subseteq failedOpen',
           declined \ {c} \subseteq declined',
           task'[c].pc # "idle" =>
               task'[c].kind \in Kinds /\ task'[c].content \in Contents,
           task'[c].pc \in {"read", "update"} => task'[c].target \in Ids,
           task'[c].pc \in Past /\ c \notin declined' => Stored(c)',
           Guarded(task'[c].kind) /\ task'[c].content \in Rejected \ failedOpen' =>
               task'[c].pc \in {"idle", "guard", "raised"},
           RowsCommitted', RejectedNeverStored'
    PROVE  IInv'
<1>1. HasCandidate'
  BY DEF IInv, HasCandidate
<1>2. PastIsStored'
  <2>. SUFFICES ASSUME NEW d \in Clients, task'[d].pc \in Past, d \notin declined'
                PROVE  Stored(d)'
    BY DEF PastIsStored
  <2>1. CASE d = c
    BY <2>1
  <2>2. CASE d # c
    BY <2>2 DEF IInv, PastIsStored, Stored
  <2>. QED BY <2>1, <2>2
<1>3. RejectedIsHeld'
  BY DEF IInv, RejectedIsHeld
<1>. QED BY <1>1, <1>2, <1>3 DEF IInv

\* The same for a step that leaves the table alone and goes on with its
\* candidate: from `from` to `to`.
LEMMA MoveStep ==
    ASSUME IInv, NEW c \in Clients, Shape', UNCHANGED storeVars,
           \A d \in Clients \ {c} : task'[d] = task[d],
           task'[c].kind = task[c].kind, task'[c].content = task[c].content,
           task[c].pc # "idle", failedOpen \subseteq failedOpen',
           task'[c].pc \in {"read", "update"} => task'[c].target \in Ids,
           declined \ {c} \subseteq declined',
           task'[c].pc \in Past /\ c \notin declined' => Stored(c),
           \/ task'[c].pc \in {"guard", "raised"}
           \/ task[c].pc \notin {"idle", "guard", "raised"}
           \/ task[c].content \notin Rejected \ failedOpen'
    PROVE  IInv'
<1>1. task'[c].kind \in Kinds /\ task'[c].content \in Contents
  BY DEF IInv, HasCandidate
<1>2. task'[c].pc \in Past /\ c \notin declined' => Stored(c)'
  BY DEF Stored, storeVars
<1>3. RowsCommitted' /\ RejectedNeverStored'
  BY DEF IInv, RowsCommitted, RejectedNeverStored, storeVars
<1>4. Guarded(task'[c].kind) /\ task'[c].content \in Rejected \ failedOpen' =>
               task'[c].pc \in {"idle", "guard", "raised"}
  BY DEF IInv, RejectedIsHeld
<1>5. committed \subseteq committed'
  BY DEF storeVars
<1>. QED BY <1>1, <1>2, <1>3, <1>4, <1>5, ThreadStep

\* What Goto() leaves of a task.
LEMMA GotoFacts ==
    ASSUME Shape, NEW c \in Clients, NEW pc \in Pcs, Goto(c, pc)
    PROVE  /\ task' \in [Clients -> Task] /\ task'[c] = [task[c] EXCEPT !.pc = pc]
           /\ task'[c].pc = pc /\ task'[c].kind = task[c].kind
           /\ task'[c].content = task[c].content
           /\ \A d \in Clients \ {c} : task'[d] = task[d]
<1>1. task[c] \in Task
  BY DEF Shape
<1>2. [task[c] EXCEPT !.pc = pc] \in Task
  BY <1>1 DEF Task
<1>3. task' = [task EXCEPT ![c] = [task[c] EXCEPT !.pc = pc]]
  BY DEF Goto
<1>. QED BY <1>1, <1>2, <1>3 DEF Shape, Task

\* A step that only moves a call on, and may touch the throttle.
LEMMA GotoStep ==
    ASSUME IInv, NEW c \in Clients, NEW pc \in Pcs \ {"read", "update"}, Goto(c, pc),
           UNCHANGED storeVars,
           every_n' = every_n, counters' \in [Keys -> Nat],
           task[c].pc # "idle", failedOpen \subseteq failedOpen',
           declined \ {c} \subseteq declined',
           pc \in Past /\ c \notin declined' => Stored(c),
           \/ pc \in {"guard", "raised"}
           \/ task[c].pc \notin {"idle", "guard", "raised"}
           \/ task[c].content \notin Rejected \ failedOpen'
    PROVE  IInv'
<1>1. Shape
  BY DEF IInv
<1>2. /\ task' \in [Clients -> Task] /\ task'[c].pc = pc
      /\ task'[c].kind = task[c].kind /\ task'[c].content = task[c].content
      /\ \A d \in Clients \ {c} : task'[d] = task[d]
  BY <1>1, GotoFacts
<1>3. Shape'
  BY <1>1, <1>2 DEF Shape, storeVars
<1>4. task'[c].pc \notin {"read", "update"}
  BY <1>2
<1>. QED BY <1>2, <1>3, <1>4, MoveStep

\* The steps before the table is written.
LEMMA AnswerStep ==
    ASSUME IInv, NEW c \in Clients,
           \/ Guard(c) \/ GuardFails(c) \/ ResolveAdd(c) \/ ResolveNoop(c)
           \/ StoreRaises(c) \/ CreateMiss(c)
    PROVE  IInv'
<1>a. every_n' = every_n /\ counters' \in [Keys -> Nat] /\ UNCHANGED storeVars
  BY DEF Guard, GuardFails, ResolveAdd, ResolveNoop, StoreRaises, CreateMiss,
         throttleVars, storeVars, IInv, Shape
<1>b. {"raised", "resolve", "create", "insert", "returned"} \subseteq Pcs \ {"read", "update"}
  BY DEF Pcs, Between
<1>c. "raised" \notin Past /\ "resolve" \notin Past /\ "create" \notin Past
      /\ "insert" \notin Past
  BY DEF Past
<1>1. CASE Guard(c)
  <2>1. /\ task[c].pc = "guard" /\ UNCHANGED <<failedOpen, declined>>
        /\ Goto(c, IF task[c].content \in Rejected THEN "raised" ELSE "resolve")
    BY <1>1 DEF Guard, At, answerVars
  <2>2. CASE task[c].content \in Rejected
    BY <1>a, <1>b, <1>c, <2>1, <2>2, GotoStep
  <2>3. CASE task[c].content \notin Rejected
    BY <1>a, <1>b, <1>c, <2>1, <2>3, GotoStep
  <2>. QED BY <2>2, <2>3
<1>2. CASE GuardFails(c)
  <2>1. /\ task[c].pc = "guard" /\ Goto(c, "resolve") /\ declined' = declined
        /\ failedOpen' = failedOpen \cup {task[c].content}
    BY <1>2 DEF GuardFails, At
  <2>. QED BY <1>a, <1>b, <1>c, <2>1, GotoStep
<1>3. CASE ResolveAdd(c) \/ CreateMiss(c) \/ StoreRaises(c)
  <2>1. /\ task[c].pc \notin {"idle", "guard", "raised"}
        /\ UNCHANGED <<failedOpen, declined>>
        /\ Goto(c, "create") \/ Goto(c, "insert") \/ Goto(c, "raised")
    BY <1>3 DEF ResolveAdd, CreateMiss, StoreRaises, At, answerVars
  <2>. QED BY <1>a, <1>b, <1>c, <2>1, GotoStep
<1>4. CASE ResolveNoop(c)
  <2>1. /\ task[c].pc = "resolve" /\ Goto(c, "returned")
        /\ declined' = declined \cup {c} /\ failedOpen' = failedOpen
    BY <1>4 DEF ResolveNoop, At
  <2>. QED BY <1>a, <1>b, <2>1, GotoStep
<1>. QED BY <1>1, <1>2, <1>3, <1>4

\* The steps after it: the throttle and the consolidator.
LEMMA ConsolidateStep ==
    ASSUME IInv, NEW c \in Clients, Consolidate(c)
    PROVE  IInv'
<1>a. Shape /\ Key(c) \in Keys /\ task[c] \in Task
  BY DEF IInv, Shape, Keys
<1>b. task[c].pc \in Past /\ c \notin declined => Stored(c)
  BY DEF IInv, PastIsStored
<1>c. Past \subseteq Pcs \ {"read", "update"} /\ Past \cap {"idle", "guard", "raised"} = {}
  BY DEF Past, Pcs, Between
<1>d. /\ task[c].pc \in Past /\ UNCHANGED storeVars
      /\ UNCHANGED <<failedOpen, declined, every_n>>
  BY DEF Consolidate, AlwaysFires, ReadCounter, StoreCounter, Fires, RunConsolidator,
         At, Past, storeVars, answerVars, throttleVars
<1>e. counters' \in [Keys -> Nat]
  <2>1. task[c].count \in Nat
    BY <1>a DEF Task
  <2>. QED BY <1>a, <2>1 DEF Consolidate, AlwaysFires, ReadCounter, StoreCounter, Fires,
                             RunConsolidator, throttleVars, Shape
<1>1. CASE ReadCounter(c)
  <2>. DEFINE next == [task[c] EXCEPT !.pc = "count", !.count = counters[Key(c)] + 1]
  <2>1. task' = [task EXCEPT ![c] = next]
    BY <1>1 DEF ReadCounter
  <2>2. counters[Key(c)] + 1 \in Nat /\ "count" \in Pcs
    BY <1>a DEF Shape, Pcs
  <2>3. /\ next \in Task /\ next.pc = "count" /\ next.kind = task[c].kind
        /\ next.content = task[c].content
    BY <1>a, <2>2 DEF Task
  <2>. HIDE DEF next
  <2>4. Shape' /\ task'[c] = next /\ \A d \in Clients \ {c} : task'[d] = task[d]
    BY <1>a, <1>d, <1>e, <2>1, <2>3 DEF Shape, storeVars
  <2>. QED BY <1>b, <1>c, <1>d, <2>3, <2>4, MoveStep
<1>2. ASSUME NEW pc \in Past, Goto(c, pc) PROVE IInv'
  BY <1>2, <1>b, <1>c, <1>d, <1>e, GotoStep
<1>3. CASE ~ReadCounter(c)
  <2>1. \E pc \in Past : Goto(c, pc)
    BY <1>3 DEF Consolidate, AlwaysFires, StoreCounter, Fires, RunConsolidator, Past
  <2>. QED BY <1>2, <2>1
<1>. QED BY <1>1, <1>3

\* The resolver names a target, and it is read.
LEMMA TargetStep ==
    ASSUME IInv, NEW c \in Clients,
           (\E i \in Ids : ResolveUpdate(c, i)) \/ ReadTarget(c)
    PROVE  IInv'
<1>a. Shape /\ task[c] \in Task
  BY DEF IInv, Shape
<1>b. /\ {"read", "update"} \subseteq Pcs /\ "create" \in Pcs \ {"read", "update"}
      /\ {"read", "update", "create"} \cap Past = {}
  BY DEF Pcs, Past
<1>c. /\ UNCHANGED storeVars /\ UNCHANGED <<failedOpen, declined, every_n, counters>>
      /\ task[c].pc \in {"resolve", "read"}
  BY DEF ResolveUpdate, ReadTarget, At, storeVars, answerVars, throttleVars
<1>1. ASSUME NEW next \in Task, task' = [task EXCEPT ![c] = next],
             next.pc \in {"read", "update"}, next.kind = task[c].kind,
             next.content = task[c].content, next.target \in Ids
      PROVE  IInv'
  <2>1. Shape' /\ task'[c] = next /\ \A d \in Clients \ {c} : task'[d] = task[d]
    BY <1>1, <1>a, <1>c DEF Shape, storeVars
  <2>. QED BY <1>1, <1>b, <1>c, <2>1, MoveStep
<1>2. ASSUME NEW i \in Ids, ResolveUpdate(c, i) PROVE IInv'
  <2>. DEFINE next == [task[c] EXCEPT !.pc = "read", !.target = i]
  <2>1. task' = [task EXCEPT ![c] = next]
    BY <1>2 DEF ResolveUpdate
  <2>2. /\ next \in Task /\ next.pc = "read" /\ next.kind = task[c].kind
        /\ next.content = task[c].content /\ next.target = i
    BY <1>a, <1>b DEF Task
  <2>. QED BY <1>1, <2>1, <2>2
<1>3. CASE ReadTarget(c) /\ Visible(c, task[c].target)
  <2>. DEFINE i == task[c].target
              next == [task[c] EXCEPT !.pc = "update", !.version = table[i].version]
  <2>1. task' = [task EXCEPT ![c] = next]
    BY <1>3 DEF ReadTarget
  <2>2. i \in Ids /\ table[i].version \in Nat
    <3>1. i \in Ids
      BY <1>3 DEF ReadTarget, At, IInv, HasCandidate
    <3>. QED BY <3>1, <1>3, <1>a DEF Visible, Sees, Shape, Row
  <2>3. /\ next \in Task /\ next.pc = "update" /\ next.kind = task[c].kind
        /\ next.content = task[c].content /\ next.target = i
    BY <1>a, <1>b, <2>2 DEF Task
  <2>. HIDE DEF next, i
  <2>. QED BY <1>1, <2>1, <2>2, <2>3
<1>4. CASE ReadTarget(c) /\ ~Visible(c, task[c].target)
  <2>1. Goto(c, "create")
    BY <1>4 DEF ReadTarget
  <2>2. counters' \in [Keys -> Nat]
    BY <1>a, <1>c DEF Shape
  <2>. QED BY <1>b, <1>c, <2>1, <2>2, GotoStep
<1>. QED BY <1>2, <1>3, <1>4

\* remember() begins with a candidate that is not stored yet.
LEMMA RememberStep ==
    ASSUME IInv, NEW c \in Clients, NEW kind \in Kinds, NEW content \in Contents,
           Remember(c, kind, content)
    PROVE  IInv'
<1>. DEFINE next == [NoTask EXCEPT !.pc = IF Guarded(kind) THEN "guard" ELSE "resolve",
                                   !.kind = kind, !.content = content]
<1>1. /\ next \in Task /\ next.kind = kind /\ next.content = content
      /\ next.pc \in {"guard", "resolve"}
      /\ Guarded(kind) => next.pc = "guard"
  BY DEF NoTask, Task, Pcs, Between
<1>2. task' = [task EXCEPT ![c] = next]
  BY DEF Remember
<1>. HIDE DEF next
<1>3. /\ task' \in [Clients -> Task] /\ task'[c] = next
      /\ \A d \in Clients \ {c} : task'[d] = task[d]
  BY <1>1, <1>2 DEF IInv, Shape
<1>4. /\ UNCHANGED <<table, committed, every_n, counters, failedOpen>>
      /\ declined' = declined \ {c}
  BY DEF Remember, storeVars, throttleVars
<1>5. Shape' /\ RowsCommitted' /\ RejectedNeverStored'
  BY <1>3, <1>4 DEF IInv, Shape, RowsCommitted, RejectedNeverStored
<1>6. task'[c].pc \notin Past /\ task'[c].pc \notin {"read", "update"}
  BY <1>1, <1>3 DEF Past
<1>. QED BY <1>1, <1>3, <1>4, <1>5, <1>6, ThreadStep

\* The row an UPDATE or a DELETE of the resolver changes.
LEMMA RowFacts ==
    ASSUME Shape, NEW c \in Clients, NEW i \in Ids, Visible(c, i)
    PROVE  /\ table[i] # NoRow /\ table[i] \in Row /\ table[i].kind = task[c].kind
           /\ table[i].version + 1 \in Nat /\ table[i].scope \in MemoryScope
           /\ ScopePredicates(ScopeOf[c], table[i].scope)
BY DEF Shape, Visible, Sees, Row

\* DELETE: the target is tombstoned, the candidate declined.
LEMMA DeleteStep ==
    ASSUME IInv, NEW c \in Clients, NEW i \in Ids, ResolveDelete(c, i)
    PROVE  IInv'
<1>a. Shape /\ task[c].pc = "resolve" /\ "returned" \in Pcs \ {"read", "update"}
  BY DEF IInv, ResolveDelete, At, Pcs, Between
<1>b. /\ UNCHANGED <<committed, every_n, counters, failedOpen>> /\ Goto(c, "returned")
      /\ declined' = declined \cup {c}
  BY DEF ResolveDelete, throttleVars
<1>1. CASE ~Visible(c, i)
  <2>1. UNCHANGED storeVars /\ counters' \in [Keys -> Nat]
    BY <1>1, <1>a, <1>b DEF ResolveDelete, storeVars, Shape
  <2>. QED BY <1>a, <1>b, <2>1, GotoStep
<1>2. CASE Visible(c, i)
  <2>. DEFINE row == [table[i] EXCEPT !.deleted_at = TRUE, !.version = @ + 1]
  <2>1. /\ row \in Row /\ row.kind = table[i].kind /\ row.content = table[i].content
        /\ row.scope = table[i].scope /\ row.origin = table[i].origin
    BY <1>2, <1>a, RowFacts DEF Row
  <2>2. table' = [table EXCEPT ![i] = row]
    BY <1>2 DEF ResolveDelete
  <2>. HIDE DEF row
  <2>3. Shape'
    BY <1>a, <1>b, <2>1, <2>2, GotoFacts DEF Shape
  <2>4. RowsCommitted' /\ RejectedNeverStored'
    <3>1. \A j \in Ids : table'[j] # NoRow =>
             /\ table[j] # NoRow
             /\ table'[j].kind = table[j].kind /\ table'[j].content = table[j].content
             /\ table'[j].scope = table[j].scope /\ table'[j].origin = table[j].origin
      BY <1>2, <1>a, <2>1, <2>2, RowFacts DEF Shape
    <3>2. RowsCommitted'
      BY <1>b, <3>1 DEF IInv, RowsCommitted
    <3>3. RejectedNeverStored'
      BY <1>b, <3>1 DEF IInv, RejectedNeverStored
    <3>. QED BY <3>2, <3>3
  <2>5. /\ task'[c].pc = "returned" /\ task'[c].kind = task[c].kind
        /\ task'[c].content = task[c].content
        /\ \A d \in Clients \ {c} : task'[d] = task[d]
    BY <1>a, <1>b, GotoFacts
  <2>6. ~(Guarded(task[c].kind) /\ task[c].content \in Rejected \ failedOpen)
    BY <1>a DEF IInv, RejectedIsHeld
  <2>7. task[c].kind \in Kinds /\ task[c].content \in Contents
    BY <1>a DEF IInv, HasCandidate
  <2>. QED BY <1>b, <2>3, <2>4, <2>5, <2>6, <2>7, ThreadStep
<1>. QED BY <1>1, <1>2

\* The three steps that store a candidate: in row i of scope, under task next.
LEMMA StoreStep ==
    ASSUME IInv, NEW c \in Clients, NEW i \in Ids, NEW row \in Row, NEW next \in Task,
           task[c].pc \in {"update", "create", "insert"},
           table' = [table EXCEPT ![i] = row],
           row.kind = task[c].kind, row.content = task[c].content,
           ScopePredicates(ScopeOf[c], row.scope),
           committed \subseteq committed',
           committed' \subseteq committed \cup {<<row.kind, row.content, row.scope, "direct">>},
           \E o \in Origins : <<row.kind, row.content, row.scope, o>> \in committed',
           task' = [task EXCEPT ![c] = next],
           next.kind = task[c].kind, next.content = task[c].content,
           next.pc \in Past,
           UNCHANGED <<failedOpen, declined, every_n, counters>>
    PROVE  IInv'
<1>a. Shape
  BY DEF IInv
<1>1. Shape' /\ task'[c] = next /\ \A d \in Clients \ {c} : task'[d] = task[d]
  BY <1>a DEF Shape
<1>b. table'[i] = row /\ \A j \in Ids \ {i} : table'[j] = table[j]
  BY <1>a DEF Shape
<1>2. RowsCommitted'
  <2>. SUFFICES ASSUME NEW j \in Ids, table'[j] # NoRow
                PROVE  \E o \in Origins :
                          <<table'[j].kind, table'[j].content, table'[j].scope, o>> \in committed'
    BY DEF RowsCommitted
  <2>1. CASE j = i
    BY <1>b, <2>1
  <2>2. CASE j # i
    BY <1>b, <2>2 DEF IInv, RowsCommitted
  <2>. QED BY <2>1, <2>2
<1>3. ~(Guarded(task[c].kind) /\ task[c].content \in Rejected \ failedOpen)
  BY DEF IInv, RejectedIsHeld
<1>4. RejectedNeverStored'
  <2>. SUFFICES ASSUME NEW k \in Kinds, NEW x \in Rejected \ failedOpen, Guarded(k)
                PROVE  /\ \A s \in MemoryScope : <<k, x, s, "direct">> \notin committed'
                       /\ \A j \in Ids :
                             table'[j] # NoRow /\ table'[j].kind = k /\ table'[j].content = x
                                => table'[j].origin = "consolidation"
    BY DEF RejectedNeverStored
  <2>1. \A s : <<k, x, s, "direct">> # <<row.kind, row.content, row.scope, "direct">>
    BY <1>3
  <2>2. /\ \A s \in MemoryScope : <<k, x, s, "direct">> \notin committed
        /\ \A j \in Ids : table[j] # NoRow /\ table[j].kind = k /\ table[j].content = x
                => table[j].origin = "consolidation"
    BY DEF IInv, RejectedNeverStored
  <2>3. ~(row.kind = k /\ row.content = x)
    BY <1>3
  <2>. QED BY <1>b, <2>1, <2>2, <2>3
<1>5. Stored(c)'
  <2>1. row.scope \in MemoryScope
    BY DEF Row
  <2>. QED BY <1>1, <2>1 DEF Stored
<1>6. task[c].kind \in Kinds /\ task[c].content \in Contents
  BY DEF IInv, HasCandidate
<1>7. next.pc \notin {"read", "update"}
  BY DEF Past
<1>. QED BY <1>1, <1>2, <1>3, <1>4, <1>5, <1>6, <1>7, ThreadStep

\* The records the consolidator derives: the task stays where it is, and a row
\* it adds is marked as derived.
LEMMA DeriveStep ==
    ASSUME IInv, NEW c \in Clients, Derive(c)
    PROVE  IInv'
<1>a. Shape /\ task[c] \in Task
  BY DEF IInv, Shape
<1>b. /\ task[c].pc = "consolidate" /\ UNCHANGED <<failedOpen, declined, every_n, counters>>
      /\ committed \subseteq committed'
  BY DEF Derive, DeriveMiss, DeriveInsert, DeriveFails, At, storeVars, answerVars, throttleVars
<1>1. PICK d \in (Kinds \X Contents) \cup {None} : task' = [task EXCEPT ![c].derived = d]
  BY DEF Derive, DeriveMiss, DeriveInsert, DeriveFails
<1>. DEFINE next == [task[c] EXCEPT !.derived = d]
<1>2. /\ next \in Task /\ next.pc = task[c].pc /\ next.kind = task[c].kind
      /\ next.content = task[c].content /\ next.target = task[c].target
  BY <1>a DEF Task
<1>3. task' = [task EXCEPT ![c] = next]
  BY <1>1
<1>. HIDE DEF next
<1>4. /\ task' \in [Clients -> Task] /\ task'[c] = next
      /\ \A e \in Clients \ {c} : task'[e] = task[e]
  BY <1>2, <1>3, <1>a DEF Shape
<1>5. task[c].kind \in Kinds /\ task[c].content \in Contents
  BY <1>b DEF IInv, HasCandidate
<1>6. c \notin declined => Stored(c)'
  <2>1. c \notin declined => Stored(c)
    BY <1>b DEF IInv, PastIsStored, Past
  <2>. QED BY <1>b, <1>2, <1>4, <2>1 DEF Stored
<1>7. ~(Guarded(task[c].kind) /\ task[c].content \in Rejected \ failedOpen)
  BY <1>b DEF IInv, RejectedIsHeld
<1>8. CASE UNCHANGED storeVars
  <2>1. Shape' /\ RowsCommitted' /\ RejectedNeverStored'
    BY <1>a, <1>b, <1>4, <1>8
       DEF storeVars, Shape, IInv, RowsCommitted, RejectedNeverStored
  <2>. QED BY <1>b, <1>2, <1>4, <1>5, <1>6, <1>7, <2>1, ThreadStep
<1>9. ASSUME NEW i \in Ids, DeriveInsert(c, i) PROVE IInv'
  <2>. DEFINE e == task[c].derived
              row == [kind |-> e[1], scope |-> ScopeOf[c], content |-> e[2],
                      origin |-> "consolidation", version |-> 1, deleted_at |-> FALSE]
  <2>1. e \in Kinds \X Contents
    BY <1>9, <1>a DEF DeriveInsert, Task
  <2>2. /\ row \in Row /\ row.origin = "consolidation"
        /\ row.kind = e[1] /\ row.content = e[2] /\ row.scope = ScopeOf[c]
    BY <2>1, PipelineAssumption DEF Row, Origins
  <2>3. /\ table' = [table EXCEPT ![i] = row]
        /\ committed' = committed \cup {<<row.kind, row.content, row.scope, "consolidation">>}
    BY <1>9 DEF DeriveInsert
  <2>. HIDE DEF e, row
  <2>4. table'[i] = row /\ \A j \in Ids \ {i} : table'[j] = table[j]
    BY <1>a, <2>3 DEF Shape
  <2>5. Shape'
    BY <1>a, <1>b, <1>4, <2>2, <2>3 DEF Shape
  <2>6. RowsCommitted'
    <3>. SUFFICES ASSUME NEW j \in Ids, table'[j] # NoRow
                  PROVE  \E o \in Origins :
                          <<table'[j].kind, table'[j].content, table'[j].scope, o>> \in committed'
      BY DEF RowsCommitted
    <3>1. CASE j = i
      BY <2>3, <2>4, <3>1 DEF Origins
    <3>2. CASE j # i
      BY <1>b, <2>4, <3>2 DEF IInv, RowsCommitted
    <3>. QED BY <3>1, <3>2
  <2>7. RejectedNeverStored'
    BY <1>b, <2>2, <2>3, <2>4 DEF IInv, RejectedNeverStored
  <2>. QED BY <1>b, <1>2, <1>4, <1>5, <1>6, <1>7, <2>5, <2>6, <2>7, ThreadStep
<1>. QED BY <1>8, <1>9 DEF Derive, DeriveMiss, DeriveFails

\* UPDATE: the target takes the content of the candidate, or the call raises.
LEMMA UpdateStep ==
    ASSUME IInv, NEW c \in Clients, UpdateTarget(c)
    PROVE  IInv'
<1>. DEFINE i == task[c].target
<1>a. /\ Shape /\ task[c].pc = "update" /\ task[c] \in Task /\ i \in Ids
      /\ task[c].content \in Contents
  BY DEF IInv, Shape, HasCandidate, UpdateTarget, At
<1>b. UNCHANGED <<failedOpen, declined, every_n, counters>>
  BY DEF UpdateTarget, answerVars, throttleVars
<1>1. CASE Visible(c, i) /\ table[i].version = task[c].version
  <2>. DEFINE row == [table[i] EXCEPT !.content = task[c].content, !.version = @ + 1]
              next == [task[c] EXCEPT !.pc = "returned"]
  <2>1. /\ row \in Row /\ row.kind = task[c].kind /\ row.content = task[c].content
        /\ row.scope = table[i].scope /\ ScopePredicates(ScopeOf[c], row.scope)
    BY <1>1, <1>a, RowFacts DEF Row
  <2>2. /\ next \in Task /\ next.kind = task[c].kind /\ next.content = task[c].content
        /\ next.pc \in Past
    BY <1>a DEF Task, Pcs, Between, Past
  <2>3. /\ table' = [table EXCEPT ![i] = row] /\ task' = [task EXCEPT ![c] = next]
        /\ committed' = committed \cup {<<row.kind, row.content, row.scope, "direct">>}
    BY <1>1, <2>1 DEF UpdateTarget, Goto
  <2>4. \E o \in Origins : <<row.kind, row.content, row.scope, o>> \in committed'
    BY <2>3 DEF Origins
  <2>. HIDE DEF i, row, next
  <2>. QED BY <1>a, <1>b, <2>1, <2>2, <2>3, <2>4, StoreStep
<1>2. CASE ~(Visible(c, i) /\ table[i].version = task[c].version)
  <2>1. UNCHANGED storeVars /\ Goto(c, "raised")
    BY <1>2 DEF UpdateTarget
  <2>2. "raised" \in Pcs \ {"read", "update"} /\ counters' \in [Keys -> Nat]
    BY <1>a, <1>b DEF Pcs, Between, Shape
  <2>3. "raised" \notin Past
    BY DEF Past
  <2>. QED BY <1>a, <1>b, <2>1, <2>2, <2>3, GotoStep
<1>. QED BY <1>1, <1>2

\* create(): the candidate is there already, or is inserted.
LEMMA CreateStep ==
    ASSUME IInv, NEW c \in Clients, NEW i \in Ids, CreateHit(c, i) \/ CreateInsert(c, i)
    PROVE  IInv'
<1>. DEFINE next == [task[c] EXCEPT !.target = i, !.pc =
                        IF Consolidated(task[c].kind) THEN "throttle" ELSE "returned"]
<1>a. /\ Shape /\ task[c].pc \in {"create", "insert"} /\ task[c] \in Task
      /\ task[c].kind \in Kinds /\ task[c].content \in Contents
  BY DEF IInv, Shape, HasCandidate, CreateHit, CreateInsert, At
<1>b. /\ UNCHANGED <<failedOpen, declined, every_n, counters>>
      /\ task' = [task EXCEPT ![c] = next]
  BY DEF CreateHit, CreateInsert, answerVars, throttleVars
<1>c. /\ next \in Task /\ next.kind = task[c].kind /\ next.content = task[c].content
      /\ next.pc \in Past
  BY <1>a DEF Task, Pcs, Between, Past
<1>. HIDE DEF next
<1>1. CASE CreateHit(c, i)
  <2>1. /\ Visible(c, i) /\ table[i].content = task[c].content /\ UNCHANGED storeVars
    BY <1>1 DEF CreateHit
  <2>2. table' = [table EXCEPT ![i] = table[i]]
    BY <1>a, <2>1 DEF Shape, storeVars
  <2>3. /\ table[i] \in Row /\ table[i].kind = task[c].kind
        /\ ScopePredicates(ScopeOf[c], table[i].scope)
        /\ \E o \in Origins :
              <<table[i].kind, table[i].content, table[i].scope, o>> \in committed
    BY <1>a, <2>1, RowFacts DEF IInv, RowsCommitted
  <2>4. committed' = committed
    BY <2>1 DEF storeVars
  <2>. QED BY <1>a, <1>b, <1>c, <2>1, <2>2, <2>3, <2>4, StoreStep
<1>2. CASE CreateInsert(c, i)
  <2>. DEFINE row == [kind |-> task[c].kind, scope |-> ScopeOf[c],
                      content |-> task[c].content, origin |-> "direct",
                      version |-> 1, deleted_at |-> FALSE]
  <2>1. /\ row \in Row /\ row.kind = task[c].kind /\ row.content = task[c].content
        /\ row.scope = ScopeOf[c]
    BY <1>a, PipelineAssumption DEF Row, Origins
  <2>2. /\ table' = [table EXCEPT ![i] = row]
        /\ committed' = committed \cup {<<task[c].kind, task[c].content, ScopeOf[c], "direct">>}
    BY <1>2 DEF CreateInsert
  <2>. HIDE DEF row
  <2>4. \E o \in Origins : <<row.kind, row.content, row.scope, o>> \in committed'
    BY <2>1, <2>2 DEF Origins
  <2>3. ScopePredicates(ScopeOf[c], row.scope)
    BY <2>1 DEF ScopePredicates
  <2>. QED BY <1>a, <1>b, <1>c, <2>1, <2>2, <2>3, <2>4, StoreStep
<1>. QED BY <1>1, <1>2

\* A new process knows of no call.
LEMMA RestartStep == ASSUME IInv, Restart PROVE IInv'
<1>1. NoTask \in Task /\ NoTask.pc = "idle"
  BY DEF NoTask, Task, Pcs, Between
<1>2. /\ task' = [c \in Clients |-> NoTask]
      /\ counters' = [k \in Keys |-> 0]
      /\ UNCHANGED <<table, committed, failedOpen, declined, every_n>>
  BY DEF Restart, storeVars, answerVars
<1>. QED BY <1>1, <1>2 DEF IInv, Shape, HasCandidate, PastIsStored, RowsCommitted,
                           RejectedIsHeld, RejectedNeverStored, Past

\* Every step keeps the invariant.
LEMMA InvStep == IInv /\ [Next]_vars => IInv'
<1>. SUFFICES ASSUME IInv, [Next]_vars PROVE IInv'
  OBVIOUS
<1>1. CASE UNCHANGED vars
  BY <1>1 DEF vars, storeVars, answerVars, throttleVars, IInv, Shape, HasCandidate,
              PastIsStored, Stored, RowsCommitted, RejectedIsHeld, RejectedNeverStored
<1>2. ASSUME NEW c \in Clients, Step(c) PROVE IInv'
  <2>1. CASE Resolve(c)
    BY <2>1, AnswerStep, TargetStep, DeleteStep DEF Resolve
  <2>2. CASE Create(c)
    BY <2>2, AnswerStep, CreateStep DEF Create
  <2>. QED BY <1>2, <2>1, <2>2, RememberStep, AnswerStep, TargetStep, UpdateStep,
              ConsolidateStep, DeriveStep DEF Step
<1>. QED BY <1>1, <1>2, RestartStep DEF Next

\* A remember() that returns has stored its candidate where its caller can see
\* it, unless the resolver turned it down.
THEOREM NoCandidateIsLost == Spec => []NothingLost
<1>1. IInv => NothingLost
  BY DEF IInv, PastIsStored, Past, Stored, NothingLost, At
<1>. QED BY <1>1, InvInit, InvStep, PTL DEF Spec

\* remember() never writes a procedure the guard rejects, and a row that holds
\* it all the same is marked as derived by the consolidator.
THEOREM RejectedStaysOut == Spec => []RejectedNeverStored
<1>1. IInv => RejectedNeverStored
  BY DEF IInv
<1>. QED BY <1>1, InvInit, InvStep, PTL DEF Spec

-----------------------------------------------------------------------------
\* What a thread does to a row: it inserts it with its scope, or changes one
\* that its scope reaches.
Own(c, i) == IF table[i] = NoRow THEN table'[i].scope = ScopeOf[c]
             ELSE ScopePredicates(ScopeOf[c], table[i].scope)

\* Only the three writing steps change rows, and each its own.
LEMMA OwnStep ==
    ASSUME IInv, NEW c \in Clients, Step(c), NEW i \in Ids, table'[i] # table[i]
    PROVE  Own(c, i)
<1>a. Shape
  BY DEF IInv
<1>1. ASSUME NEW j \in Ids, ResolveDelete(c, j) PROVE Own(c, i)
  <2>1. Visible(c, j) /\ i = j
    BY <1>1, <1>a DEF ResolveDelete, Shape
  <2>. QED BY <1>a, <2>1, RowFacts DEF Own
<1>2. CASE UpdateTarget(c)
  <2>1. task[c].target \in Ids
    BY <1>2 DEF UpdateTarget, At, IInv, HasCandidate
  <2>2. Visible(c, task[c].target) /\ i = task[c].target
    BY <1>2, <1>a, <2>1 DEF UpdateTarget, Shape, storeVars
  <2>. QED BY <1>a, <2>2, RowFacts DEF Own
<1>3. ASSUME NEW j \in Ids, CreateInsert(c, j) PROVE Own(c, i)
  <2>. DEFINE row == [kind |-> task[c].kind, scope |-> ScopeOf[c],
                      content |-> task[c].content, origin |-> "direct",
                      version |-> 1, deleted_at |-> FALSE]
  <2>1. table' = [table EXCEPT ![j] = row] /\ table[j] = NoRow /\ row.scope = ScopeOf[c]
    BY <1>3 DEF CreateInsert
  <2>. HIDE DEF row
  <2>. QED BY <1>a, <2>1 DEF Own, Shape
<1>5. ASSUME NEW j \in Ids, DeriveInsert(c, j) PROVE Own(c, i)
  <2>. DEFINE row == [kind |-> task[c].derived[1], scope |-> ScopeOf[c],
                      content |-> task[c].derived[2], origin |-> "consolidation",
                      version |-> 1, deleted_at |-> FALSE]
  <2>1. table' = [table EXCEPT ![j] = row] /\ table[j] = NoRow /\ row.scope = ScopeOf[c]
    BY <1>5 DEF DeriveInsert
  <2>. HIDE DEF row
  <2>. QED BY <1>a, <2>1 DEF Own, Shape
<1>4. CASE /\ \A j \in Ids : /\ ~ResolveDelete(c, j) /\ ~CreateInsert(c, j)
                            /\ ~DeriveInsert(c, j)
           /\ ~UpdateTarget(c)
  <2>1. table' = table
    BY <1>4 DEF Step, Remember, Guard, GuardFails, Resolve, ResolveAdd, ResolveNoop,
                ResolveUpdate, ReadTarget, Create, CreateMiss, CreateHit, StoreRaises,
                Consolidate, AlwaysFires, ReadCounter, StoreCounter, Fires,
                RunConsolidator, Derive, DeriveMiss, DeriveFails, storeVars
  <2>. QED BY <2>1
<1>. QED BY <1>1, <1>2, <1>3, <1>4, <1>5

\* A step is the step of one thread: of the tasks it changes its own only.
LEMMA OneThread ==
    ASSUME IInv, NEW c \in Clients, Step(c), NEW d \in Clients \ {c}
    PROVE  task'[d] = task[d]
<1>1. Shape
  BY DEF IInv
<1>2. \A t : task' = [task EXCEPT ![c] = t] => task'[d] = task[d]
  BY <1>1 DEF Shape
<1>3. \E t : task' = [task EXCEPT ![c] = t]
  BY <1>1 DEF Step, Remember, Guard, GuardFails, Resolve, ResolveAdd, ResolveNoop,
        ResolveUpdate, ResolveDelete, ReadTarget, UpdateTarget, Create, CreateMiss,
        CreateHit, CreateInsert, StoreRaises, Consolidate, AlwaysFires, ReadCounter,
        StoreCounter, Fires, RunConsolidator, Derive, DeriveMiss, DeriveInsert,
        DeriveFails, Goto
<1>. QED BY <1>2, <1>3

\* Whatever id a resolver makes up, remember() changes no row outside its scope.
THEOREM OthersAreUntouched == Spec => OthersUntouched
<1>1. IInv /\ [Next]_vars =>
        [\A c \in Clients, i \in Ids :
          task'[c] # task[c] /\ task'[c] # NoTask /\ table'[i] # table[i] =>
             IF table[i] = NoRow THEN table'[i].scope = ScopeOf[c]
             ELSE ScopePredicates(ScopeOf[c], table[i].scope)]_vars
  <2>. SUFFICES ASSUME IInv, Next, NEW c \in Clients, NEW i \in Ids,
                       task'[c] # task[c], table'[i] # table[i]
                PROVE  Own(c, i)
    BY DEF Own
  <2>1. CASE Restart
    BY <2>1 DEF Restart, storeVars
  <2>2. ASSUME NEW d \in Clients, Step(d) PROVE Own(c, i)
    BY <2>2, OneThread, OwnStep
  <2>. QED BY <2>1, <2>2 DEF Next
<1>. QED BY <1>1, InvInit, InvStep, PTL DEF Spec, OthersUntouched

-----------------------------------------------------------------------------
\* A thread whose key no other thread writes for, and the throttle's counter
\* of that key: between two reads of it the calls that reached the throttle
\* are the rounds that fired and the count of the round that has begun.
Alone(c) == \A d \in Clients \ {c} : Key(d) # Key(c)
Reading(c) == task[c].pc \in {"count", "reached"}

Cadence(c) ==
    /\ every_n = 1 => ~Reading(c) /\ fired[c] = adds[c]
    /\ every_n # 1 /\ Alone(c) =>
          /\ task[c].pc = "count" =>
                /\ task[c].count = counters[Key(c)] + 1
                /\ counters[Key(c)] < every_n
                /\ adds[c] = every_n * fired[c] + task[c].count
          /\ task[c].pc = "reached" => adds[c] = every_n * fired[c] + every_n
          /\ ~Reading(c) => /\ counters[Key(c)] < every_n
                            /\ adds[c] = every_n * fired[c] + counters[Key(c)]

Counts == /\ every_n \in Nat \ {0} /\ counters \in [Keys -> Nat]
          /\ adds \in [Clients -> Nat] /\ fired \in [Clients -> Nat]

CadenceInv == IInv /\ Counts /\ \A c \in Clients : Cadence(c)

\* A quotient is the number that leaves a remainder below the divisor.
LEMMA Quotient ==
    ASSUME NEW n \in Nat \ {0}, NEW q \in Nat, NEW k \in 0..(n-1)
    PROVE  (n * q + k) \div n = q
<1>. DEFINE a == n * q + k
            d == a \div n
            m == a % n
<1>1. a \in Nat
  <2>1. n * q \in Nat
    OBVIOUS
  <2>. QED BY <2>1
<1>. HIDE DEF a
<1>2. d \in Nat /\ m \in 0..(n-1) /\ a = n * d + m
  BY <1>1
<1>. HIDE DEF d, m
<1>3. n * q + k = n * d + m
  BY <1>2 DEF a
<1>4. q = d
  BY <1>2, <1>3
<1>. QED BY <1>4 DEF a, d

LEMMA NextMultiple == ASSUME NEW n \in Nat, NEW f \in Nat PROVE n * (f + 1) = n * f + n
OBVIOUS

\* What every step but the four of the throttle leaves alone.
LEMMA OutsideThrottle ==
    ASSUME IInv, NEW c \in Clients, Step(c),
           ~AlwaysFires(c), ~ReadCounter(c), ~StoreCounter(c), ~Fires(c)
    PROVE  /\ UNCHANGED throttleVars /\ ~Reading(c) /\ ~Reading(c)'
<1>1. Shape
  BY DEF IInv
<1>2. /\ UNCHANGED throttleVars /\ ~Reading(c)
  <2>1. ASSUME NEW kind \in Kinds, NEW content \in Contents, Remember(c, kind, content)
        PROVE  UNCHANGED throttleVars /\ ~Reading(c)
    BY <2>1 DEF Remember, Idle, Between, Reading
  <2>2. ASSUME Guard(c) \/ GuardFails(c) \/ Resolve(c) \/ ReadTarget(c) \/ UpdateTarget(c)
        PROVE  UNCHANGED throttleVars /\ ~Reading(c)
    BY <2>2 DEF Guard, GuardFails, Resolve, ResolveAdd, ResolveNoop, ResolveUpdate,
                ResolveDelete, ReadTarget, UpdateTarget, At, Reading
  <2>3. ASSUME Create(c) \/ StoreRaises(c) \/ RunConsolidator(c)
        PROVE  UNCHANGED throttleVars /\ ~Reading(c)
    BY <2>3 DEF Create, CreateMiss, CreateHit, CreateInsert, StoreRaises,
                RunConsolidator, At, Reading
  <2>4. ASSUME Derive(c)
        PROVE  UNCHANGED throttleVars /\ ~Reading(c)
    BY <2>4 DEF Derive, DeriveMiss, DeriveInsert, DeriveFails, At, Reading
  <2>. QED BY <2>1, <2>2, <2>3, <2>4 DEF Step, Consolidate
<1>3. ~Reading(c)'
  <2>1. ASSUME NEW pc, pc \notin {"count", "reached"}, Goto(c, pc) PROVE ~Reading(c)'
    BY <1>1, <2>1 DEF Goto, Shape, Task, Reading
  <2>2. ASSUME NEW i \in Ids, ResolveUpdate(c, i) \/ CreateHit(c, i) \/ CreateInsert(c, i)
        PROVE  ~Reading(c)'
    BY <1>1, <2>2 DEF ResolveUpdate, CreateHit, CreateInsert, Shape, Task, Reading
  <2>3. CASE ReadTarget(c)
    BY <1>1, <2>1, <2>3 DEF ReadTarget, Shape, Task, Reading
  <2>4. ASSUME NEW kind \in Kinds, NEW content \in Contents, Remember(c, kind, content)
        PROVE  ~Reading(c)'
    BY <1>1, <2>4 DEF Remember, NoTask, Shape, Reading
  <2>5. ASSUME \/ Guard(c) \/ GuardFails(c) \/ ResolveAdd(c) \/ ResolveNoop(c)
               \/ \E i \in Ids : ResolveDelete(c, i)
               \/ UpdateTarget(c) \/ CreateMiss(c) \/ StoreRaises(c) \/ RunConsolidator(c)
        PROVE  \E pc : pc \notin {"count", "reached"} /\ Goto(c, pc)
    BY <2>5 DEF Guard, GuardFails, ResolveAdd, ResolveNoop, ResolveDelete, UpdateTarget,
                CreateMiss, StoreRaises, RunConsolidator
  <2>6. ASSUME Derive(c) PROVE ~Reading(c)'
    BY <1>1, <2>6 DEF Derive, DeriveMiss, DeriveInsert, DeriveFails, At, Shape, Task, Reading
  <2>. QED BY <2>1, <2>2, <2>3, <2>4, <2>5, <2>6 DEF Step, Resolve, Create, Consolidate
<1>. QED BY <1>2, <1>3

\* A step of a thread moves the counts of its own key only.
LEMMA ThrottleFrame ==
    ASSUME CadenceInv, NEW c \in Clients, Step(c)
    PROVE  /\ every_n' = every_n /\ Counts'
           /\ \A d \in Clients \ {c} :
                 /\ adds'[d] = adds[d] /\ fired'[d] = fired[d] /\ task'[d] = task[d]
                 /\ Key(d) # Key(c) => counters'[Key(d)] = counters[Key(d)]
<1>1. /\ Counts /\ IInv /\ task[c].count \in Nat
      /\ \A d \in Clients : Key(d) \in Keys
  BY DEF CadenceInv, IInv, Shape, Task, Keys
<1>2. \A d \in Clients \ {c} : task'[d] = task[d]
  BY <1>1, OneThread
<1>3. CASE UNCHANGED throttleVars
  BY <1>1, <1>2, <1>3 DEF throttleVars, Counts
<1>4. CASE AlwaysFires(c)
  <2>1. /\ adds' = [adds EXCEPT ![c] = adds[c] + 1]
        /\ fired' = [fired EXCEPT ![c] = fired[c] + 1]
        /\ UNCHANGED <<every_n, counters>>
    BY <1>4 DEF AlwaysFires
  <2>2. adds[c] + 1 \in Nat /\ fired[c] + 1 \in Nat
    BY <1>1 DEF Counts
  <2>3. /\ adds' \in [Clients -> Nat] /\ fired' \in [Clients -> Nat]
        /\ \A d \in Clients \ {c} : adds'[d] = adds[d] /\ fired'[d] = fired[d]
    BY <1>1, <2>1, <2>2 DEF Counts
  <2>. QED BY <1>1, <1>2, <2>1, <2>3 DEF Counts
<1>5. CASE ReadCounter(c)
  <2>1. /\ adds' = [adds EXCEPT ![c] = adds[c] + 1]
        /\ UNCHANGED <<every_n, counters, fired>>
    BY <1>5 DEF ReadCounter
  <2>2. adds[c] + 1 \in Nat
    BY <1>1 DEF Counts
  <2>3. adds' \in [Clients -> Nat] /\ \A d \in Clients \ {c} : adds'[d] = adds[d]
    BY <1>1, <2>1, <2>2 DEF Counts
  <2>. QED BY <1>1, <1>2, <2>1, <2>3 DEF Counts
<1>6. CASE StoreCounter(c)
  BY <1>1, <1>2, <1>6 DEF StoreCounter, Counts
<1>7. CASE Fires(c)
  BY <1>1, <1>2, <1>7 DEF Fires, Counts
<1>. QED BY <1>1, <1>3, <1>4, <1>5, <1>6, <1>7, OutsideThrottle

\* The thread itself: a count that reaches every_n is every_n exactly.
LEMMA CadenceOwn ==
    ASSUME CadenceInv, NEW c \in Clients, Step(c)
    PROVE  Cadence(c)'
<1>1. /\ Counts /\ IInv /\ Cadence(c) /\ Key(c) \in Keys /\ every_n' = every_n
      /\ task \in [Clients -> Task] /\ task[c] \in Task /\ Counts'
  BY ThrottleFrame DEF CadenceInv, IInv, Shape, Keys
<1>2. Alone(c)' = Alone(c) /\ Key(c)' = Key(c)
  BY DEF Alone, Key
<1>3. CASE AlwaysFires(c)
  <2>1. /\ every_n = 1 /\ adds'[c] = adds[c] + 1 /\ fired'[c] = fired[c] + 1
        /\ task'[c].pc = "consolidate"
    BY <1>1, <1>3 DEF AlwaysFires, Goto, Counts, Task
  <2>. QED BY <1>1, <2>1 DEF Cadence, Reading
<1>4. CASE ReadCounter(c)
  <2>1. /\ every_n # 1 /\ task[c].pc = "throttle"
        /\ task'[c].pc = "count" /\ task'[c].count = counters[Key(c)] + 1
        /\ adds'[c] = adds[c] + 1 /\ fired'[c] = fired[c] /\ counters' = counters
    BY <1>1, <1>4 DEF ReadCounter, At, Counts, Task
  <2>2. every_n * fired[c] \in Nat /\ counters[Key(c)] \in Nat /\ adds[c] \in Nat
    BY <1>1 DEF Counts
  <2>. DEFINE rounds == every_n * fired[c]
  <2>3. Alone(c) => counters[Key(c)] < every_n /\ adds[c] = rounds + counters[Key(c)]
    BY <1>1, <2>1 DEF Cadence, Reading
  <2>4. rounds' = rounds
    BY <1>1, <2>1
  <2>5. Alone(c) => adds'[c] = rounds' + task'[c].count
    <3>. HIDE DEF rounds
    <3>. QED BY <2>1, <2>2, <2>3, <2>4 DEF rounds
  <2>. QED BY <1>1, <1>2, <2>1, <2>3, <2>5 DEF Cadence, Reading
<1>5. CASE StoreCounter(c)
  <2>1. /\ every_n # 1 /\ task[c].pc = "count" /\ task[c].count \in Nat
        /\ counters'[Key(c)] = task[c].count
        /\ adds'[c] = adds[c] /\ fired'[c] = fired[c]
        /\ task'[c].pc = IF Reaches(task[c].count) THEN "reached" ELSE "returned"
    BY <1>1, <1>5 DEF StoreCounter, At, Goto, Counts, Task, Cadence, Reading
  <2>2. /\ counters[Key(c)] \in Nat /\ every_n \in Nat
    BY <1>1 DEF Counts
  <2>3. Alone(c) => /\ task[c].count = counters[Key(c)] + 1 /\ counters[Key(c)] < every_n
                    /\ adds[c] = every_n * fired[c] + task[c].count
    BY <1>1, <2>1 DEF Cadence
  <2>4. Alone(c) /\ Reaches(task[c].count) => task[c].count = every_n
    BY <2>2, <2>3 DEF Reaches
  <2>5. ~Reaches(task[c].count) => task[c].count < every_n
    BY <2>1, <2>2 DEF Reaches
  <2>. QED BY <1>1, <1>2, <2>1, <2>3, <2>4, <2>5 DEF Cadence, Reading
<1>6. CASE Fires(c)
  <2>1. /\ every_n # 1 /\ task[c].pc = "reached" /\ task'[c].pc = "consolidate"
        /\ counters'[Key(c)] = 0 /\ adds'[c] = adds[c] /\ fired'[c] = fired[c] + 1
    BY <1>1, <1>6 DEF Fires, At, Goto, Counts, Task, Cadence, Reading
  <2>2. every_n * (fired[c] + 1) = every_n * fired[c] + every_n
    BY <1>1, NextMultiple DEF Counts
  <2>3. Alone(c) => adds[c] = every_n * (fired[c] + 1)
    BY <1>1, <2>1, <2>2 DEF Cadence
  <2>4. /\ every_n * (fired[c] + 1) \in Nat /\ 0 < every_n
    BY <1>1 DEF Counts
  <2>5. every_n * (fired[c] + 1) + 0 = every_n * (fired[c] + 1)
    BY <2>4
  <2>. QED BY <1>1, <1>2, <2>1, <2>3, <2>4, <2>5 DEF Cadence, Reading
<1>7. CASE ~AlwaysFires(c) /\ ~ReadCounter(c) /\ ~StoreCounter(c) /\ ~Fires(c)
  <2>1. /\ ~Reading(c) /\ ~Reading(c)'
        /\ UNCHANGED <<every_n, counters, adds, fired>>
    BY <1>1, <1>7, OutsideThrottle DEF throttleVars
  <2>2. task'[c].pc \notin {"count", "reached"}
    BY <2>1 DEF Reading
  <2>. QED BY <1>1, <1>2, <2>1, <2>2 DEF Cadence
<1>. QED BY <1>3, <1>4, <1>5, <1>6, <1>7

\* Every step keeps the cadence of every thread.
LEMMA CadenceStep == CadenceInv /\ [Next]_vars => CadenceInv'
<1>. SUFFICES ASSUME CadenceInv, [Next]_vars PROVE CadenceInv'
  OBVIOUS
<1>1. IInv'
  BY InvStep DEF CadenceInv
<1>2. CASE UNCHANGED vars
  BY <1>1, <1>2 DEF vars, throttleVars, CadenceInv, Counts, Cadence, Reading, Alone, Key
<1>3. CASE Restart
  <2>1. /\ task' = [c \in Clients |-> NoTask] /\ counters' = [k \in Keys |-> 0]
        /\ adds' = [c \in Clients |-> 0] /\ fired' = [c \in Clients |-> 0]
        /\ every_n' = every_n /\ every_n \in Nat \ {0}
    BY <1>3 DEF Restart, CadenceInv, Counts
  <2>2. Counts'
    BY <2>1 DEF Counts
  <2>3. ASSUME NEW c \in Clients PROVE Cadence(c)'
    <3>1. /\ task'[c].pc = "idle" /\ counters'[Key(c)] = 0
          /\ adds'[c] = 0 /\ fired'[c] = 0 /\ Key(c)' = Key(c)
      BY <2>1 DEF NoTask, Keys, Key
    <3>2. every_n' * fired'[c] + counters'[Key(c)] = 0
      BY <2>1, <3>1
    <3>. QED BY <2>1, <3>1, <3>2 DEF Cadence, Reading
  <2>. QED BY <1>1, <2>2, <2>3 DEF CadenceInv
<1>4. ASSUME NEW c \in Clients, Step(c) PROVE CadenceInv'
  <2>1. Counts' /\ every_n' = every_n
    BY <1>4, ThrottleFrame
  <2>2. Cadence(c)'
    BY <1>4, CadenceOwn
  <2>3. ASSUME NEW d \in Clients \ {c} PROVE Cadence(d)'
    <3>1. /\ adds'[d] = adds[d] /\ fired'[d] = fired[d] /\ task'[d] = task[d]
          /\ Key(d) # Key(c) => counters'[Key(d)] = counters[Key(d)]
      BY <1>4, ThrottleFrame
    <3>2. Alone(d) => Key(d) # Key(c)
      BY DEF Alone, Key
    <3>3. Cadence(d) /\ Key(d)' = Key(d) /\ Alone(d)' = Alone(d)
      BY DEF CadenceInv, Alone, Key
    <3>. QED BY <2>1, <3>1, <3>2, <3>3 DEF Cadence, Reading
  <2>. QED BY <1>1, <2>1, <2>2, <2>3 DEF CadenceInv
<1>. QED BY <1>2, <1>3, <1>4 DEF Next

\* No thread has counted anything when the process starts.
LEMMA CadenceInit == Init => CadenceInv
<1>. SUFFICES ASSUME Init PROVE CadenceInv
  OBVIOUS
<1>1. IInv
  BY InvInit
<1>2. /\ Counts /\ \A c \in Clients : Key(c) \in Keys
      /\ \A c \in Clients : /\ task[c].pc = "idle" /\ counters[Key(c)] = 0
                            /\ adds[c] = 0 /\ fired[c] = 0
  BY PipelineAssumption DEF Init, Counts, Keys, NoTask
<1>3. every_n * 0 + 0 = 0 /\ 0 < every_n
  BY <1>2 DEF Counts
<1>. QED BY <1>1, <1>2, <1>3 DEF CadenceInv, Cadence, Reading

\* The throttle of remember(): of the calls of a thread that alone writes for
\* its key the consolidator fires on every n-th, whatever n and whatever
\* threads of other scopes are in the middle of.
THEOREM CadenceIsPerScope == Spec => []CadencePerScope
<1>1. CadenceInv => CadencePerScope
  <2>. SUFFICES ASSUME CadenceInv, NEW c \in Clients, ~Reading(c), Alone(c)
                PROVE  fired[c] = adds[c] \div every_n
    BY DEF CadencePerScope, Reading, Alone
  <2>1. /\ every_n \in Nat \ {0} /\ counters[Key(c)] \in Nat /\ adds[c] \in Nat
        /\ fired[c] \in Nat /\ Cadence(c)
    BY DEF CadenceInv, Counts, Keys
  <2>2. CASE every_n = 1
    <3>1. fired[c] = adds[c]
      BY <2>1, <2>2 DEF Cadence
    <3>2. adds[c] \div 1 = adds[c]
      BY <2>1
    <3>. QED BY <2>2, <3>1, <3>2
  <2>3. CASE every_n # 1
    <3>1. /\ counters[Key(c)] \in 0..(every_n - 1)
          /\ adds[c] = every_n * fired[c] + counters[Key(c)]
      BY <2>1, <2>3 DEF Cadence
    <3>2. (every_n * fired[c] + counters[Key(c)]) \div every_n = fired[c]
      BY <2>1, <3>1, Quotient
    <3>. QED BY <3>1, <3>2
  <2>. QED BY <2>2, <2>3
<1>. QED BY <1>1, CadenceInit, CadenceStep, PTL DEF Spec

-----------------------------------------------------------------------------
\* What a thread has counted: a call is counted once, when it is past
\* create(), and fires once, when it is past the counter.
Begun == {"guard", "resolve", "read", "update", "create", "insert", "throttle"}

Tally(c) == /\ fired[c] <= adds[c] /\ adds[c] <= calls[c] /\ calls[c] <= MaxCalls[c]
            /\ task[c].pc \in Begun => adds[c] < calls[c]
            /\ Reading(c) => fired[c] < adds[c]

Sets == /\ failedOpen \subseteq Contents /\ declined \subseteq Clients
        /\ committed \subseteq Kinds \X Contents \X MemoryScope \X Origins

TallyInv == /\ CadenceInv /\ every_n \in 1..MaxEveryN /\ Sets
            /\ calls \in [Clients -> Nat]
            /\ \A c \in Clients : Tally(c)

\* What is committed and answered is of its type.
LEMMA SetsStep ==
    ASSUME IInv, Sets, NEW c \in Clients, Step(c)
    PROVE  Sets'
<1>a. Shape /\ (task[c].pc # "idle" => task[c].kind \in Kinds /\ task[c].content \in Contents)
  BY DEF IInv, HasCandidate
<1>1. CASE GuardFails(c)
  BY <1>1, <1>a DEF GuardFails, At, Sets, storeVars
<1>2. CASE UpdateTarget(c)
  <2>1. task[c].target \in Ids /\ task[c].kind \in Kinds /\ task[c].content \in Contents
    BY <1>2, <1>a DEF UpdateTarget, At, IInv, HasCandidate
  <2>2. Visible(c, task[c].target) => table[task[c].target].scope \in MemoryScope
    BY <1>a, <2>1, RowFacts
  <2>. QED BY <1>2, <2>1, <2>2 DEF UpdateTarget, Sets, storeVars, answerVars, Origins
<1>3. ASSUME NEW i \in Ids, CreateInsert(c, i) PROVE Sets'
  <2>1. task[c].kind \in Kinds /\ task[c].content \in Contents /\ ScopeOf[c] \in MemoryScope
    BY <1>3, <1>a, PipelineAssumption DEF CreateInsert, At
  <2>. QED BY <1>3, <2>1 DEF CreateInsert, Sets, answerVars, Origins
<1>6. ASSUME NEW i \in Ids, DeriveInsert(c, i) PROVE Sets'
  <2>1. task[c].derived \in Kinds \X Contents /\ ScopeOf[c] \in MemoryScope
    BY <1>6, <1>a, PipelineAssumption DEF DeriveInsert, Shape, Task
  <2>. QED BY <1>6, <2>1 DEF DeriveInsert, Sets, answerVars, Origins
<1>4. ASSUME NEW i \in Ids, ResolveDelete(c, i) PROVE Sets'
  BY <1>4 DEF ResolveDelete, Sets
<1>5. CASE /\ ~GuardFails(c) /\ ~UpdateTarget(c)
           /\ \A i \in Ids : /\ ~CreateInsert(c, i) /\ ~ResolveDelete(c, i)
                            /\ ~DeriveInsert(c, i)
  <2>1. /\ committed' = committed /\ failedOpen' = failedOpen
        /\ declined' \subseteq declined \cup {c}
    BY <1>5 DEF Step, Remember, Guard, Resolve, ResolveAdd, ResolveNoop, ResolveUpdate,
                ReadTarget, Create, CreateMiss, CreateHit, StoreRaises, Consolidate,
                AlwaysFires, ReadCounter, StoreCounter, Fires, RunConsolidator,
                Derive, DeriveMiss, DeriveFails, storeVars, answerVars
  <2>. QED BY <2>1 DEF Sets
<1>. QED BY <1>1, <1>2, <1>3, <1>4, <1>5, <1>6

\* Only remember() begins a call, and no other step leads back to its start.
LEMMA OnlyRememberBegins ==
    ASSUME IInv, NEW c \in Clients, Step(c),
           \A kind \in Kinds, content \in Contents : ~Remember(c, kind, content)
    PROVE  calls' = calls /\ (task'[c].pc \in Begun => task[c].pc \in Begun)
<1>1. Shape /\ task[c] \in Task
  BY DEF IInv, Shape
<1>2. ASSUME \/ Guard(c) \/ GuardFails(c) \/ Resolve(c) \/ ReadTarget(c)
             \/ UpdateTarget(c) \/ Create(c) \/ StoreRaises(c)
      PROVE  calls' = calls /\ task[c].pc \in Begun
  BY <1>2 DEF Guard, GuardFails, Resolve, ResolveAdd, ResolveNoop, ResolveUpdate,
              ResolveDelete, ReadTarget, UpdateTarget, Create, CreateMiss, CreateHit,
              CreateInsert, StoreRaises, At, Begun
<1>3. ASSUME Consolidate(c) PROVE calls' = calls /\ task'[c].pc \notin Begun
  BY <1>1, <1>3 DEF Consolidate, AlwaysFires, ReadCounter, StoreCounter, Fires,
                    RunConsolidator, Goto, Task, Begun, Shape
<1>4. ASSUME Derive(c) PROVE calls' = calls /\ task'[c].pc \notin Begun
  BY <1>1, <1>4 DEF Derive, DeriveMiss, DeriveInsert, DeriveFails, At, Task, Begun, Shape
<1>. QED BY <1>2, <1>3, <1>4 DEF Step

\* The thread that steps keeps its tally.
LEMMA TallyOwn ==
    ASSUME TallyInv, NEW c \in Clients, Step(c)
    PROVE  Tally(c)'
<1>1. /\ IInv /\ Shape /\ Tally(c) /\ task \in [Clients -> Task] /\ task[c] \in Task
      /\ calls \in [Clients -> Nat] /\ adds \in [Clients -> Nat] /\ fired \in [Clients -> Nat]
      /\ calls[c] \in Nat /\ adds[c] \in Nat /\ fired[c] \in Nat /\ MaxCalls[c] \in Nat
  BY PipelineAssumption DEF TallyInv, CadenceInv, Counts, IInv, Shape
<1>2. ASSUME NEW kind \in Kinds, NEW content \in Contents, Remember(c, kind, content)
      PROVE  Tally(c)'
  <2>1. /\ calls'[c] = calls[c] + 1 /\ calls[c] < MaxCalls[c]
        /\ adds' = adds /\ fired' = fired
    BY <1>1, <1>2 DEF Remember, throttleVars
  <2>2. ~Reading(c)'
    BY <1>1, <1>2 DEF Remember, NoTask, Shape, Reading
  <2>. QED BY <1>1, <2>1, <2>2 DEF Tally
<1>3. CASE \A kind \in Kinds, content \in Contents : ~Remember(c, kind, content)
  <2>a. calls' = calls /\ (task'[c].pc \in Begun => task[c].pc \in Begun)
    BY <1>1, <1>3, OnlyRememberBegins
  <2>1. CASE AlwaysFires(c)
    <3>1. /\ task[c].pc \in Begun /\ adds'[c] = adds[c] + 1 /\ fired'[c] = fired[c] + 1
          /\ task'[c].pc = "consolidate"
      BY <1>1, <2>1 DEF AlwaysFires, At, Goto, Begun, Task
    <3>. QED BY <1>1, <2>a, <3>1 DEF Tally, Reading, Begun
  <2>2. CASE ReadCounter(c)
    <3>1. /\ task[c].pc \in Begun /\ adds'[c] = adds[c] + 1 /\ fired' = fired
          /\ task'[c].pc = "count"
      BY <1>1, <2>2 DEF ReadCounter, At, Begun, Task
    <3>. QED BY <1>1, <2>a, <3>1 DEF Tally, Begun
  <2>3. CASE StoreCounter(c)
    <3>1. Reading(c) /\ adds' = adds /\ fired' = fired
      BY <2>3 DEF StoreCounter, At, Reading
    <3>2. task'[c].pc \in {"reached", "returned"}
      BY <1>1, <2>3 DEF StoreCounter, Goto, Task
    <3>. QED BY <1>1, <2>a, <3>1, <3>2 DEF Tally, Begun
  <2>4. CASE Fires(c)
    <3>1. /\ Reading(c) /\ adds' = adds /\ fired'[c] = fired[c] + 1
          /\ task'[c].pc = "consolidate"
      BY <1>1, <2>4 DEF Fires, At, Goto, Reading, Task
    <3>. QED BY <1>1, <2>a, <3>1 DEF Tally, Reading, Begun
  <2>5. CASE ~AlwaysFires(c) /\ ~ReadCounter(c) /\ ~StoreCounter(c) /\ ~Fires(c)
    <3>1. adds' = adds /\ fired' = fired /\ ~Reading(c)'
      BY <1>1, <2>5, OutsideThrottle DEF throttleVars
    <3>. QED BY <1>1, <2>a, <3>1 DEF Tally
  <2>. QED BY <2>1, <2>2, <2>3, <2>4, <2>5
<1>. QED BY <1>2, <1>3

\* Every step keeps every tally.
LEMMA TallyStep == TallyInv /\ [Next]_vars => TallyInv'
<1>. SUFFICES ASSUME TallyInv, [Next]_vars PROVE TallyInv'
  OBVIOUS
<1>1. CadenceInv'
  BY CadenceStep DEF TallyInv
<1>2. CASE UNCHANGED vars
  BY <1>1, <1>2 DEF vars, storeVars, answerVars, throttleVars, TallyInv, Sets, Tally, Reading
<1>3. CASE Restart
  <2>1. /\ calls' = calls /\ every_n' = every_n
        /\ UNCHANGED <<failedOpen, declined, committed>>
        /\ \A c \in Clients : /\ adds'[c] = 0 /\ fired'[c] = 0 /\ task'[c].pc = "idle"
                              /\ calls[c] \in Nat
    BY <1>3 DEF Restart, NoTask, storeVars, answerVars, TallyInv
  <2>2. ASSUME NEW c \in Clients PROVE Tally(c)'
    BY <2>1 DEF TallyInv, Tally, Reading, Begun
  <2>. QED BY <1>1, <2>1, <2>2 DEF TallyInv, Sets
<1>4. ASSUME NEW c \in Clients, Step(c) PROVE TallyInv'
  <2>1. Sets'
    BY <1>4, SetsStep DEF TallyInv, CadenceInv
  <2>2. Tally(c)'
    BY <1>4, TallyOwn
  <2>3. calls' \in [Clients -> Nat] /\ \A d \in Clients \ {c} : calls'[d] = calls[d]
    <3>1. calls \in [Clients -> Nat] /\ IInv
      BY DEF TallyInv, CadenceInv
    <3>2. ASSUME NEW kind \in Kinds, NEW content \in Contents, Remember(c, kind, content)
          PROVE  calls' = [calls EXCEPT ![c] = calls[c] + 1]
      BY <3>2 DEF Remember
    <3>. QED BY <1>4, <3>1, <3>2, OnlyRememberBegins
  <2>4. ASSUME NEW d \in Clients \ {c} PROVE Tally(d)'
    <3>1. adds'[d] = adds[d] /\ fired'[d] = fired[d] /\ task'[d] = task[d] /\ calls'[d] = calls[d]
      BY <1>4, <2>3, ThrottleFrame DEF TallyInv
    <3>. QED BY <3>1 DEF TallyInv, Tally, Reading
  <2>5. every_n' = every_n
    BY <1>4, ThrottleFrame DEF TallyInv
  <2>. QED BY <1>1, <2>1, <2>2, <2>3, <2>4, <2>5 DEF TallyInv
<1>. QED BY <1>2, <1>3, <1>4 DEF Next

\* Every variable has its type, and no thread counts a call twice.
THEOREM TypeCorrect == Spec => []TypeOK
<1>1. Init => TallyInv
  <2>. SUFFICES ASSUME Init PROVE TallyInv
    OBVIOUS
  <2>1. CadenceInv
    BY CadenceInit
  <2>2. /\ every_n \in 1..MaxEveryN /\ Sets /\ calls \in [Clients -> Nat]
        /\ \A c \in Clients : /\ adds[c] = 0 /\ fired[c] = 0 /\ calls[c] = 0
                              /\ task[c].pc = "idle" /\ MaxCalls[c] \in Nat
    BY PipelineAssumption DEF Init, Sets, NoTask
  <2>. QED BY <2>1, <2>2 DEF TallyInv, Tally, Reading, Begun
<1>2. TallyInv => TypeOK
  BY DEF TallyInv, CadenceInv, Counts, IInv, Shape, Sets, Tally, TypeOK
<1>. QED BY <1>1, <1>2, TallyStep, PTL DEF Spec
=============================================================================
