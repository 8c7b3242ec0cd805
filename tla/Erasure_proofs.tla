--------------------------- MODULE Erasure_proofs ---------------------------
(***************************************************************************)
(* What erase_all() promises, for any number of calls, clients, erasures   *)
(* and scopes: the rows it was asked for are gone when it returns, and     *)
(* those of calls it was not asked for stay.                               *)
(***************************************************************************)
EXTENDS Erasure, TLAPS

\* What a write has left to do, as a set.
Ahead(left) == {left[i] : i \in 1..Len(left)}

\* Whether client p has still to do `table` for call c.
Writes(p, c, table) ==
    task[p] # None /\ task[p].call = c /\ table \in Ahead(task[p].left)

\* A broader scope reaches what a narrower one reaches.
LEMMA ScopeTransitive ==
    ASSUME NEW a, NEW b, NEW c, ScopePredicates(a, b), ScopePredicates(b, c)
    PROVE  ScopePredicates(a, c)
BY DEF ScopePredicates

\* A write goes on with the rest of what it had to do.
LEMMA LeftFacts ==
    ASSUME NEW left \in Lefts
    PROVE  /\ Head(left) \in Ahead(left)
           /\ Ahead(left) \subseteq {"delete_by_source", "memory_chunks", "semantic_facts"}
           /\ Len(left) = 1 => Ahead(left) = {Head(left)} /\ Head(left) # "delete_by_source"
           /\ Len(left) # 1 => /\ Tail(left) \in Lefts
                               /\ Ahead(Tail(left)) = Ahead(left) \ {Head(left)}
           /\ Head(left) = "delete_by_source" => "memory_chunks" \in Ahead(left)
<1>1. CASE left = <<"delete_by_source", "memory_chunks", "semantic_facts">>
  BY <1>1 DEF Lefts, Ahead
<1>2. CASE left = <<"memory_chunks", "semantic_facts">>
  BY <1>2 DEF Lefts, Ahead
<1>3. CASE left = <<"semantic_facts">>
  BY <1>3 DEF Lefts, Ahead
<1>4. CASE left = <<"delete_by_source", "memory_chunks">>
  BY <1>4 DEF Lefts, Ahead
<1>5. CASE left = <<"memory_chunks">>
  BY <1>5 DEF Lefts, Ahead
<1>. QED BY <1>1, <1>2, <1>3, <1>4, <1>5 DEF Lefts

-----------------------------------------------------------------------------
\* The rows there are, and those an erasure is to remove.
Known == db \cup UNION {before[e] : e \in Erasers}

\* A version of the chunks is counted, and the worker derives facts once.
Numbered(table, c, ver) ==
    /\ table = "memory_chunks" => ver <= version[c]
    /\ table = "semantic_facts" /\ ver = 1 => c \in claimed

\* Every row belongs to a call, and its scope reaches that of the call.
RowsBelong ==
    \A r \in Known : /\ scopeOf[r.call] # None
                     /\ ScopePredicates(r.scope, scopeOf[r.call])
                     /\ Numbered(r.table, r.call, r.version)

\* So does what a client is about to write.
TasksBelong ==
    \A p \in Clients : task[p] # None =>
        /\ scopeOf[task[p].call] # None
        /\ ScopePredicates(task[p].scope, scopeOf[task[p].call])
        /\ \A table \in Ahead(task[p].left) :
               Numbered(table, task[p].call, task[p].version)

\* No row is written twice: what a client is about to write is neither there,
\* nor did an erasure find it, nor does another client write it.
Fresh ==
    \A p \in Clients : \A table \in {"memory_chunks", "semantic_facts"} :
        Writes(p, task[p].call, table) =>
            /\ \A r \in Known : ~(/\ r.table = table /\ r.call = task[p].call
                                  /\ r.version = task[p].version)
            /\ \A q \in Clients \ {p} :
                  ~(Writes(q, task[p].call, table) /\ task[q].version = task[p].version)

\* An erasure has deleted what it found in the tables behind it.
Deleted ==
    \A e \in Erasers :
        /\ request[e] = None => position[e] = 1
        /\ \A r \in before[e] :
              /\ ScopePredicates(request[e], r.scope)
              /\ \A i \in 1..Len(Tables) :
                     i < position[e] /\ r.table = Tables[i] => r \notin db

\* A call that no erasure reaches.
Spared(c) ==
    /\ scopeOf[c] # None
    /\ \A e \in Erasers : request[e] # None => ~ScopePredicates(request[e], scopeOf[c])

\* ... keeps its row, and has its fact and its chunks, or gets them yet.
Kept(c, table) ==
    \/ \E r \in db : r.table = table /\ r.call = c
    \/ table # "working_memory" /\ \E p \in Clients : Writes(p, c, table)

SparedIsKept ==
    \A c \in Calls : Spared(c) =>
        \A table \in {"working_memory", "memory_chunks", "semantic_facts"} : Kept(c, table)

IInv == TypeOK /\ RowsBelong /\ TasksBelong /\ Fresh /\ Deleted /\ SparedIsKept

-----------------------------------------------------------------------------
\* The types of a row and of a task.
LEMMA KnownType ==
    ASSUME TypeOK, NEW r \in Known
    PROVE  r \in RowType /\ r.call \in Calls /\ r.version \in Nat
<1>1. r \in RowType
  BY DEF TypeOK, Known
<1>. QED BY <1>1, ErasureAssumption DEF RowType

LEMMA TaskType ==
    ASSUME TypeOK, NEW p \in Clients, task[p] # None
    PROVE  /\ task[p].call \in Calls /\ task[p].scope \in MemoryScope
           /\ task[p].version \in 0..(MaxUpdates + 1) /\ task[p].left \in Lefts
<1>1. task[p] \in Task
  BY DEF TypeOK
<1>. QED BY <1>1 DEF Task

\* What was counted stays counted.
LEMMA NumberedGrows ==
    ASSUME TypeOK, TypeOK', NEW table, NEW c \in Calls, NEW ver \in Nat,
           version[c] <= version'[c], claimed \subseteq claimed',
           Numbered(table, c, ver)
    PROVE  Numbered(table, c, ver)'
<1>1. version[c] \in Nat /\ version'[c] \in Nat
  BY ErasureAssumption DEF TypeOK
<1>. QED BY <1>1 DEF Numbered

\* A write that begins: client p takes up call c, and db may get its row.
LEMMA BeginStep ==
    ASSUME IInv, TypeOK', NEW p \in Clients, NEW c \in Calls,
           task[p] = None, task'[p] # None, task'[p].call = c,
           \A q \in Clients \ {p} : task'[q] = task[q],
           UNCHANGED <<request, position, before>>,
           claimed \subseteq claimed',
           \A d \in Calls : /\ version[d] <= version'[d]
                            /\ scopeOf[d] # None \/ d # c => scopeOf'[d] = scopeOf[d],
           db \subseteq db',
           \A r \in db' \ db : /\ r.table = "working_memory" /\ r.call = c
                               /\ r.scope = scopeOf'[c] /\ r \notin Known,
           scopeOf'[c] # None, ScopePredicates(task'[p].scope, scopeOf'[c]),
           \A table \in Ahead(task'[p].left) : Numbered(table, c, task[p].version)',
           \A table \in {"memory_chunks", "semantic_facts"} :
               table \in Ahead(task'[p].left) =>
                   /\ \A r \in Known : ~(/\ r.table = table /\ r.call = c
                                         /\ r.version = task'[p].version)
                   /\ \A q \in Clients \ {p} :
                         ~(Writes(q, c, table) /\ task[q].version = task'[p].version),
           scopeOf[c] = None =>
               \A table \in {"working_memory", "memory_chunks", "semantic_facts"} :
                   Kept(c, table)'
    PROVE  IInv'
<1>. TypeOK /\ RowsBelong /\ TasksBelong /\ Fresh /\ Deleted /\ SparedIsKept
  BY DEF IInv
<1>1. Known \subseteq Known' /\ \A r \in Known' : r \in Known \/ r \in db' \ db
  BY DEF Known
<1>2. RowsBelong'
  <2>. SUFFICES ASSUME NEW r \in Known'
       PROVE (/\ scopeOf[r.call] # None /\ ScopePredicates(r.scope, scopeOf[r.call])
              /\ Numbered(r.table, r.call, r.version))'
    BY DEF RowsBelong
  <2>1. CASE r \in Known
    <3>1. r.call \in Calls /\ r.version \in Nat
      BY <2>1, KnownType
    <3>2. /\ scopeOf[r.call] # None /\ ScopePredicates(r.scope, scopeOf[r.call])
          /\ Numbered(r.table, r.call, r.version)
      BY <2>1 DEF RowsBelong
    <3>3. scopeOf'[r.call] = scopeOf[r.call] /\ version[r.call] <= version'[r.call]
      BY <3>1, <3>2
    <3>4. Numbered(r.table, r.call, r.version)'
      BY <3>1, <3>2, <3>3, NumberedGrows
    <3>. QED BY <3>2, <3>3, <3>4
  <2>2. CASE r \in db' \ db
    <3>1. r.table = "working_memory" /\ scopeOf'[r.call] # None /\ r.scope = scopeOf'[r.call]
      BY <2>2
    <3>2. scopeOf'[r.call] \in MemoryScope
      BY <2>2, <3>1 DEF TypeOK
    <3>3. ScopePredicates(r.scope, scopeOf'[r.call])
      BY <3>1, <3>2 DEF ScopePredicates
    <3>. QED BY <3>1, <3>3 DEF Numbered
  <2>. QED BY <1>1, <2>1, <2>2
<1>3. TasksBelong'
  <2>. SUFFICES ASSUME NEW q \in Clients, task'[q] # None
       PROVE (/\ scopeOf[task[q].call] # None
              /\ ScopePredicates(task[q].scope, scopeOf[task[q].call])
              /\ \A table \in Ahead(task[q].left) :
                    Numbered(table, task[q].call, task[q].version))'
    BY DEF TasksBelong
  <2>1. CASE q = p
    BY <2>1 DEF Numbered
  <2>2. CASE q # p
    <3>1. task'[q] = task[q] /\ task[q] # None
      BY <2>2
    <3>2. task[q].call \in Calls /\ task[q].version \in Nat
      BY <3>1, TaskType, ErasureAssumption
    <3>3. /\ scopeOf[task[q].call] # None
          /\ ScopePredicates(task[q].scope, scopeOf[task[q].call])
          /\ \A table \in Ahead(task[q].left) :
                Numbered(table, task[q].call, task[q].version)
      BY <3>1 DEF TasksBelong
    <3>4. /\ scopeOf'[task[q].call] = scopeOf[task[q].call]
          /\ version[task[q].call] <= version'[task[q].call]
      BY <3>2, <3>3
    <3>5. PICK d \in Calls, v \in Nat : d = task[q].call /\ v = task[q].version
      BY <3>2
    <3>6. ASSUME NEW table \in Ahead(task[q].left) PROVE Numbered(table, d, v)'
      BY <3>3, <3>4, <3>5, NumberedGrows
    <3>7. \A table \in Ahead(task[q].left) : Numbered(table, task[q].call, task[q].version)'
      BY <3>1, <3>5, <3>6 DEF Numbered
    <3>. QED BY <3>1, <3>3, <3>4, <3>7
  <2>. QED BY <2>1, <2>2
<1>4. Fresh'
  <2>1. \A q \in Clients \ {p} : \A d, table : Writes(q, d, table)' <=> Writes(q, d, table)
    BY DEF Writes
  <2>2. \A q \in Clients : Writes(q, c, "memory_chunks") \/ Writes(q, c, "semantic_facts")
                          => scopeOf[c] # None
    BY DEF TasksBelong, Writes
  <2>. SUFFICES ASSUME NEW q \in Clients, NEW table \in {"memory_chunks", "semantic_facts"},
                       Writes(q, task[q].call, table)'
       PROVE /\ \A r \in Known' : ~(/\ r.table = table /\ r.call = task'[q].call
                                    /\ r.version = task'[q].version)
             /\ \A u \in Clients \ {q} : ~(/\ Writes(u, task[q].call, table)'
                                          /\ task'[u].version = task'[q].version)
    BY DEF Fresh
  <2>3. \A r \in Known' : r.table = table => r \in Known
    BY <1>1
  <2>4. CASE q = p
    <3>1. table \in Ahead(task'[p].left)
      BY <2>4 DEF Writes
    <3>2. \A u \in Clients \ {p} : Writes(u, task[p].call, table)' => Writes(u, c, table)
      BY DEF Writes
    <3>3. \A u \in Clients \ {p} : task'[u].version = task[u].version
      OBVIOUS
    <3>. QED BY <2>3, <2>4, <3>1, <3>2, <3>3
  <2>5. CASE q # p
    <3>1. task'[q] = task[q] /\ Writes(q, task[q].call, table)
      BY <2>5 DEF Writes
    <3>2. ASSUME NEW u \in Clients \ {q}, Writes(u, task[q].call, table)',
                 task'[u].version = task'[q].version
          PROVE  FALSE
      <4>1. CASE u = p
        <5>1. task[q].call = c /\ table \in Ahead(task'[p].left)
          BY <2>5, <3>1, <3>2, <4>1 DEF Writes
        <5>. QED BY <2>5, <3>1, <3>2, <4>1, <5>1
      <4>2. CASE u # p
        BY <3>1, <3>2, <4>2 DEF Fresh, Writes
      <4>. QED BY <4>1, <4>2
    <3>. QED BY <2>3, <3>1, <3>2 DEF Fresh
  <2>. QED BY <2>4, <2>5
<1>5. Deleted'
  <2>1. \A e \in Erasers : before[e] \subseteq Known
    BY DEF Known
  <2>. QED BY <2>1 DEF Deleted
<1>6. SparedIsKept'
  <2>. SUFFICES ASSUME NEW d \in Calls, Spared(d)',
                       NEW table \in {"working_memory", "memory_chunks", "semantic_facts"}
                PROVE  Kept(d, table)'
    BY DEF SparedIsKept
  <2>1. CASE scopeOf[d] = None
    BY <2>1 DEF Spared
  <2>2. CASE scopeOf[d] # None
    <3>1. Spared(d)
      BY <2>2 DEF Spared
    <3>2. Kept(d, table)
      BY <3>1 DEF SparedIsKept
    <3>3. \A q \in Clients : Writes(q, d, table) => Writes(q, d, table)'
      BY DEF Writes
    <3>. QED BY <3>2, <3>3 DEF Kept
  <2>. QED BY <2>1, <2>2
<1>. QED BY <1>2, <1>3, <1>4, <1>5, <1>6 DEF IInv

\* Begin(), as the lemmas about the writers need it.
LEMMA BeginFacts ==
    ASSUME TypeOK, NEW p \in Clients, NEW c \in Calls, NEW scope \in MemoryScope,
           NEW ver \in 0..(MaxUpdates + 1), NEW left \in Lefts,
           Begin(p, c, scope, ver, left)
    PROVE  /\ task' \in [Clients -> Task \cup {None}] /\ task'[p] # None
           /\ task'[p].call = c /\ task'[p].scope = scope
           /\ task'[p].version = ver /\ task'[p].left = left
           /\ \A q \in Clients \ {p} : task'[q] = task[q]
<1>. DEFINE t == [call |-> c, scope |-> scope, version |-> ver, left |-> left]
<1>1. /\ t \in Task /\ t # None /\ t.call = c /\ t.scope = scope
      /\ t.version = ver /\ t.left = left
  BY ErasureAssumption DEF Task
<1>2. task' = [task EXCEPT ![p] = t] /\ task \in [Clients -> Task \cup {None}]
  BY DEF Begin, TypeOK
<1>. HIDE DEF t
<1>. QED BY <1>1, <1>2

\* remember(): the call had no row and no writer before.
LEMMA RememberStep ==
    ASSUME IInv, NEW p \in Clients, NEW c \in Calls, NEW scope \in MemoryScope,
           Remember(p, c, scope)
    PROVE  IInv'
<1>. DEFINE left == <<"delete_by_source", "memory_chunks", "semantic_facts">>
            w == Row("working_memory", scope, c, 0)
<1>. TypeOK /\ RowsBelong /\ TasksBelong
  BY DEF IInv
<1>1. /\ task[p] = None /\ scopeOf[c] = None /\ left \in Lefts
      /\ scopeOf' = [scopeOf EXCEPT ![c] = scope] /\ db' = db \cup {w}
      /\ Begin(p, c, scope, 0, left)
      /\ UNCHANGED <<version, claimed, request, position, before>>
  BY DEF Remember, Lefts
<1>2. /\ w \in RowType /\ w.table = "working_memory" /\ w.call = c /\ w.scope = scope
  BY ErasureAssumption DEF RowType, Row, Tables
<1>3. Ahead(left) = {"delete_by_source", "memory_chunks", "semantic_facts"}
  BY DEF Ahead
<1>. HIDE DEF left, w
<1>4. /\ task' \in [Clients -> Task \cup {None}] /\ task'[p] # None
      /\ task'[p].call = c /\ task'[p].scope = scope
      /\ task'[p].version = 0 /\ task'[p].left = left
      /\ \A q \in Clients \ {p} : task'[q] = task[q]
  BY <1>1, BeginFacts, ErasureAssumption
<1>5. /\ scopeOf'[c] = scope /\ \A d \in Calls \ {c} : scopeOf'[d] = scopeOf[d]
      /\ scopeOf' \in [Calls -> MemoryScope \cup {None}]
  BY <1>1 DEF TypeOK
<1>6. TypeOK'
  BY <1>1, <1>2, <1>4, <1>5 DEF TypeOK
<1>7. /\ \A r \in Known : r.call # c
      /\ \A q \in Clients : \A table : ~Writes(q, c, table)
  BY <1>1 DEF RowsBelong, TasksBelong, Writes
<1>8. \A r \in db' \ db : /\ r.table = "working_memory" /\ r.call = c
                          /\ r.scope = scopeOf'[c] /\ r \notin Known
  BY <1>1, <1>2, <1>5, <1>7
<1>9. scopeOf'[c] # None /\ ScopePredicates(task'[p].scope, scopeOf'[c])
  BY <1>4, <1>5, ErasureAssumption DEF ScopePredicates
<1>10. \A table \in Ahead(task'[p].left) : Numbered(table, c, task[p].version)'
  BY <1>1, <1>4, <1>6, ErasureAssumption DEF Numbered, TypeOK
<1>11. \A table \in {"working_memory", "memory_chunks", "semantic_facts"} : Kept(c, table)'
  <2>1. Writes(p, c, "memory_chunks")' /\ Writes(p, c, "semantic_facts")'
    BY <1>3, <1>4 DEF Writes
  <2>. QED BY <1>1, <1>2, <2>1 DEF Kept
<1>12. \A d \in Calls : /\ version[d] <= version'[d]
                        /\ scopeOf[d] # None \/ d # c => scopeOf'[d] = scopeOf[d]
  BY <1>1, <1>5 DEF TypeOK
<1>. QED BY <1>1, <1>4, <1>6, <1>7, <1>8, <1>9, <1>10, <1>11, <1>12, BeginStep

\* A row in the table belongs to a call that has a scope.
LEMMA RowHasScope ==
    ASSUME TypeOK, RowsBelong, NEW c \in Calls,
           Row("working_memory", scopeOf[c], c, 0) \in db
    PROVE  scopeOf[c] \in MemoryScope /\ scopeOf[c] # None
<1>1. Row("working_memory", scopeOf[c], c, 0) \in Known
  BY DEF Known
<1>2. scopeOf[c] # None
  BY <1>1 DEF RowsBelong, Row
<1>. QED BY <1>2 DEF TypeOK

\* update(): its version is higher than that of all chunks.
LEMMA UpdateStep ==
    ASSUME IInv, NEW p \in Clients, NEW c \in Calls, Update(p, c)
    PROVE  IInv'
<1>. DEFINE left == <<"delete_by_source", "memory_chunks">>
            ver == version[c] + 1
<1>. TypeOK /\ RowsBelong /\ TasksBelong
  BY DEF IInv
<1>1. PICK scope \in MemoryScope :
          /\ ScopePredicates(scope, scopeOf[c])
          /\ Begin(p, c, scope, version'[c], left)
  BY DEF Update
<1>2. /\ task[p] = None /\ version[c] < MaxUpdates /\ left \in Lefts
      /\ version' = [version EXCEPT ![c] = ver]
      /\ UNCHANGED <<db, scopeOf, claimed, request, position, before>>
  BY DEF Update, Lefts
<1>3. scopeOf[c] # None
  BY RowHasScope DEF Update
<1>4. Ahead(left) = {"delete_by_source", "memory_chunks"}
  BY DEF Ahead
<1>5. /\ version[c] \in Nat /\ ver \in 0..MaxUpdates /\ ver \in 0..(MaxUpdates + 1)
      /\ version[c] < ver
  BY <1>2, ErasureAssumption DEF TypeOK
<1>. HIDE DEF left, ver
<1>6. /\ version'[c] = ver /\ \A d \in Calls \ {c} : version'[d] = version[d]
      /\ version' \in [Calls -> 0..MaxUpdates]
  BY <1>2, <1>5 DEF TypeOK
<1>7. /\ task' \in [Clients -> Task \cup {None}] /\ task'[p] # None
      /\ task'[p].call = c /\ task'[p].scope = scope
      /\ task'[p].version = ver /\ task'[p].left = left
      /\ \A q \in Clients \ {p} : task'[q] = task[q]
  BY <1>1, <1>2, <1>5, <1>6, BeginFacts
<1>8. TypeOK'
  BY <1>2, <1>6, <1>7 DEF TypeOK
<1>9. \A table \in Ahead(task'[p].left) : Numbered(table, c, task[p].version)'
  BY <1>4, <1>5, <1>6, <1>7 DEF Numbered
<1>10. \A r \in Known : ~(r.table = "memory_chunks" /\ r.call = c /\ r.version = ver)
  <2>. SUFFICES ASSUME NEW r \in Known, r.table = "memory_chunks", r.call = c, r.version = ver
                PROVE  FALSE
    OBVIOUS
  <2>1. ver <= version[c]
    BY DEF RowsBelong, Numbered
  <2>. QED BY <1>5, <2>1
<1>11. \A q \in Clients : ~(Writes(q, c, "memory_chunks") /\ task[q].version = ver)
  <2>. SUFFICES ASSUME NEW q \in Clients, Writes(q, c, "memory_chunks"), task[q].version = ver
                PROVE  FALSE
    OBVIOUS
  <2>1. ver <= version[c]
    BY DEF TasksBelong, Numbered, Writes
  <2>. QED BY <1>5, <2>1
<1>12. \A d \in Calls : /\ version[d] <= version'[d]
                        /\ scopeOf[d] # None \/ d # c => scopeOf'[d] = scopeOf[d]
  <2>1. \A d \in Calls : version[d] \in Nat
    BY ErasureAssumption DEF TypeOK
  <2>. QED BY <1>2, <1>5, <1>6, <2>1
<1>13. \A table \in {"memory_chunks", "semantic_facts"} :
               table \in Ahead(task'[p].left) =>
                   /\ \A r \in Known : ~(/\ r.table = table /\ r.call = c
                                         /\ r.version = task'[p].version)
                   /\ \A q \in Clients \ {p} :
                         ~(Writes(q, c, table) /\ task[q].version = task'[p].version)
  BY <1>4, <1>7, <1>10, <1>11
<1>. QED BY <1>1, <1>2, <1>3, <1>7, <1>8, <1>9, <1>12, <1>13, BeginStep

\* The worker: it writes the only facts of version 1.
LEMMA ConsolidateStep ==
    ASSUME IInv, NEW p \in Clients, NEW c \in Calls, Consolidate(p, c)
    PROVE  IInv'
<1>. DEFINE left == <<"semantic_facts">>
<1>. TypeOK /\ RowsBelong /\ TasksBelong
  BY DEF IInv
<1>1. PICK scope \in MemoryScope :
          ScopePredicates(scope, scopeOf[c]) /\ Begin(p, c, scope, 1, left)
  BY DEF Consolidate, WorkerScopes
<1>2. /\ task[p] = None /\ c \notin claimed /\ left \in Lefts
      /\ claimed' = claimed \cup {c}
      /\ UNCHANGED <<db, scopeOf, version, request, position, before>>
  BY DEF Consolidate, Lefts
<1>3. scopeOf[c] # None
  BY RowHasScope DEF Consolidate
<1>4. Ahead(left) = {"semantic_facts"}
  BY DEF Ahead
<1>. HIDE DEF left
<1>5. 1 \in 0..(MaxUpdates + 1)
  BY ErasureAssumption
<1>6. /\ task' \in [Clients -> Task \cup {None}] /\ task'[p] # None
      /\ task'[p].call = c /\ task'[p].scope = scope
      /\ task'[p].version = 1 /\ task'[p].left = left
      /\ \A q \in Clients \ {p} : task'[q] = task[q]
  BY <1>1, <1>2, <1>5, BeginFacts
<1>7. TypeOK'
  BY <1>2, <1>6 DEF TypeOK
<1>8. \A table \in Ahead(task'[p].left) : Numbered(table, c, task[p].version)'
  BY <1>2, <1>4, <1>6 DEF Numbered
<1>9. /\ \A r \in Known : ~(r.table = "semantic_facts" /\ r.call = c /\ r.version = 1)
      /\ \A q \in Clients : ~(Writes(q, c, "semantic_facts") /\ task[q].version = 1)
  BY <1>2 DEF RowsBelong, TasksBelong, Numbered, Writes
<1>10. \A d \in Calls : /\ version[d] <= version'[d]
                        /\ scopeOf[d] # None \/ d # c => scopeOf'[d] = scopeOf[d]
  BY <1>2, ErasureAssumption DEF TypeOK
<1>11. \A table \in {"memory_chunks", "semantic_facts"} :
               table \in Ahead(task'[p].left) =>
                   /\ \A r \in Known : ~(/\ r.table = table /\ r.call = c
                                         /\ r.version = task'[p].version)
                   /\ \A q \in Clients \ {p} :
                         ~(Writes(q, c, table) /\ task[q].version = task'[p].version)
  BY <1>4, <1>6, <1>9
<1>. QED BY <1>1, <1>2, <1>3, <1>6, <1>7, <1>8, <1>10, <1>11, BeginStep

\* What the next transaction of a write does to the rows and to the task.
LEMMA WriteFacts ==
    ASSUME TypeOK, NEW p \in Clients, WriteNext(p),
           NEW c, c = task[p].call, NEW head, head = Head(task[p].left)
    PROVE  /\ task[p] # None /\ c \in Calls /\ head \in Ahead(task[p].left)
           /\ task' \in [Clients -> Task \cup {None}]
           /\ \A q \in Clients \ {p} : task'[q] = task[q]
           /\ task'[p] # None => /\ task'[p].call = c
                                 /\ task'[p].scope = task[p].scope
                                 /\ task'[p].version = task[p].version
           /\ \A d, table : Writes(p, d, table)' <=> Writes(p, d, table) /\ table # head
           /\ UNCHANGED <<scopeOf, version, claimed, request, position, before>>
           /\ \/ /\ head = "delete_by_source" /\ db' \subseteq db
                 /\ \A r \in db \ db' : r.table = "memory_chunks" /\ r.call = c
                 /\ Writes(p, c, "memory_chunks")
              \/ /\ head \in {"memory_chunks", "semantic_facts"}
                 /\ db' = db \cup {Row(head, task[p].scope, c, task[p].version)}
<1>. DEFINE t == task[p]
            rest == IF Len(t.left) = 1 THEN None ELSE [t EXCEPT !.left = Tail(t.left)]
<1>1. /\ t # None /\ t \in Task /\ t.call \in Calls /\ t.left \in Lefts
  BY TaskType DEF WriteNext, TypeOK
<1>2. /\ task' = [task EXCEPT ![p] = rest] /\ task \in [Clients -> Task \cup {None}]
      /\ UNCHANGED <<scopeOf, version, claimed, request, position, before>>
  BY DEF WriteNext, TypeOK
<1>3. /\ rest \in Task \cup {None}
      /\ rest # None => /\ Len(t.left) # 1 /\ rest.left = Tail(t.left)
                        /\ rest.call = t.call /\ rest.scope = t.scope
                        /\ rest.version = t.version
      /\ Len(t.left) # 1 => rest # None
  BY <1>1, LeftFacts, ErasureAssumption DEF Task
<1>. HIDE DEF rest
<1>4. /\ task' \in [Clients -> Task \cup {None}] /\ task'[p] = rest
      /\ \A q \in Clients \ {p} : task'[q] = task[q]
  BY <1>2, <1>3
<1>5. \A d, table : Writes(p, d, table)' <=> Writes(p, d, table) /\ table # head
  BY <1>1, <1>3, <1>4, LeftFacts DEF Writes
<1>6. CASE head = "delete_by_source"
  <2>1. db' = {r \in db : ~(r.table = "memory_chunks" /\ OldChunk(r, c, t.scope))}
    BY <1>6 DEF WriteNext
  <2>2. Writes(p, c, "memory_chunks")
    BY <1>1, <1>6, LeftFacts DEF Writes
  <2>3. \A r : OldChunk(r, c, t.scope) => r.call = c
    BY DEF OldChunk
  <2>. QED BY <1>1, <1>2, <1>3, <1>4, <1>5, <1>6, <2>1, <2>2, <2>3, LeftFacts
<1>7. CASE head # "delete_by_source"
  <2>1. db' = db \cup {Row(head, t.scope, c, t.version)}
    BY <1>7 DEF WriteNext
  <2>. QED BY <1>1, <1>2, <1>3, <1>4, <1>5, <1>7, <2>1, LeftFacts
<1>. QED BY <1>6, <1>7

\* A transaction of a write replaces chunks of its call, or adds a new row.
LEMMA WriteStep == ASSUME IInv, NEW p \in Clients, WriteNext(p) PROVE IInv'
<1>. DEFINE c == task[p].call
            head == Head(task[p].left)
            w == Row(head, task[p].scope, c, task[p].version)
<1>. TypeOK /\ RowsBelong /\ TasksBelong /\ Fresh /\ Deleted /\ SparedIsKept
  BY DEF IInv
<1>1. /\ task[p] # None /\ c \in Calls /\ head \in Ahead(task[p].left)
      /\ task' \in [Clients -> Task \cup {None}]
      /\ \A q \in Clients \ {p} : task'[q] = task[q]
      /\ task'[p] # None => /\ task'[p].call = c
                            /\ task'[p].scope = task[p].scope
                            /\ task'[p].version = task[p].version
      /\ \A d, table : Writes(p, d, table)' <=> Writes(p, d, table) /\ table # head
      /\ UNCHANGED <<scopeOf, version, claimed, request, position, before>>
  BY WriteFacts
<1>2. \/ /\ head = "delete_by_source" /\ db' \subseteq db
         /\ \A r \in db \ db' : r.table = "memory_chunks" /\ r.call = c
         /\ Writes(p, c, "memory_chunks")
      \/ /\ head \in {"memory_chunks", "semantic_facts"} /\ db' = db \cup {w}
  BY WriteFacts
<1>3. /\ w.table = head /\ w.call = c /\ w.version = task[p].version
      /\ w.scope = task[p].scope
      /\ head \in {"memory_chunks", "semantic_facts"} => w \in RowType
  BY <1>1, TaskType DEF Row, RowType, Tables
<1>4. /\ scopeOf[c] # None /\ ScopePredicates(task[p].scope, scopeOf[c])
      /\ Numbered(head, c, task[p].version) /\ Writes(p, c, head)
  BY <1>1 DEF TasksBelong, Writes
<1>. HIDE DEF c, head, w
<1>5. Known' \subseteq Known \cup db' /\ (\A r \in Known' : r \notin Known => r = w)
  BY <1>1, <1>2 DEF Known
<1>6. head \in {"memory_chunks", "semantic_facts"} =>
          /\ \A r \in Known : ~(r.table = head /\ r.call = c /\ r.version = task[p].version)
          /\ \A q \in Clients \ {p} :
                ~(Writes(q, c, head) /\ task[q].version = task[p].version)
  BY <1>4 DEF Fresh, c
<1>7. \A q \in Clients \ {p} : \A d, table : Writes(q, d, table)' <=> Writes(q, d, table)
  BY <1>1 DEF Writes
<1>8. TypeOK'
  BY <1>1, <1>2, <1>3 DEF TypeOK
<1>9. RowsBelong'
  <2>1. w \in Known' => /\ scopeOf[w.call] # None
                        /\ ScopePredicates(w.scope, scopeOf[w.call])
                        /\ Numbered(w.table, w.call, w.version)
    BY <1>3, <1>4
  <2>2. \A table, d, v : Numbered(table, d, v)' <=> Numbered(table, d, v)
    BY <1>1 DEF Numbered
  <2>. QED BY <1>1, <1>5, <2>1, <2>2 DEF RowsBelong
<1>10. TasksBelong'
  <2>1. \A table, d, v : Numbered(table, d, v)' <=> Numbered(table, d, v)
    BY <1>1 DEF Numbered
  <2>2. ASSUME NEW q \in Clients, task'[q] # None
        PROVE  /\ task[q] # None /\ task'[q].call = task[q].call
               /\ task'[q].scope = task[q].scope /\ task'[q].version = task[q].version
               /\ Ahead(task'[q].left) \subseteq Ahead(task[q].left)
    <3>1. CASE q = p
      BY <1>1, <2>2, <3>1 DEF Writes, c
    <3>2. CASE q # p
      BY <1>1, <2>2, <3>2
    <3>. QED BY <3>1, <3>2
  <2>. SUFFICES ASSUME NEW q \in Clients, task'[q] # None
       PROVE (/\ scopeOf[task[q].call] # None
              /\ ScopePredicates(task[q].scope, scopeOf[task[q].call])
              /\ \A table \in Ahead(task[q].left) :
                    Numbered(table, task[q].call, task[q].version))'
    BY DEF TasksBelong
  <2>3. /\ scopeOf[task[q].call] # None
        /\ ScopePredicates(task[q].scope, scopeOf[task[q].call])
        /\ \A table \in Ahead(task[q].left) :
              Numbered(table, task[q].call, task[q].version)
    BY <2>2 DEF TasksBelong
  <2>. QED BY <1>1, <2>2, <2>3 DEF Numbered
<1>11. Fresh'
  <2>. SUFFICES ASSUME NEW q \in Clients, NEW table \in {"memory_chunks", "semantic_facts"},
                       Writes(q, task[q].call, table)'
       PROVE /\ \A r \in Known' : ~(/\ r.table = table /\ r.call = task'[q].call
                                    /\ r.version = task'[q].version)
             /\ \A u \in Clients \ {q} : ~(/\ Writes(u, task[q].call, table)'
                                          /\ task'[u].version = task'[q].version)
    BY DEF Fresh
  <2>1. /\ Writes(q, task[q].call, table) /\ task'[q].call = task[q].call
        /\ task'[q].version = task[q].version
    <3>1. CASE q = p
      BY <1>1, <3>1 DEF Writes, c
    <3>2. CASE q # p
      BY <1>1, <3>2 DEF Writes
    <3>. QED BY <3>1, <3>2
  <2>2. \A u \in Clients : Writes(u, task[q].call, table)' =>
            Writes(u, task[q].call, table) /\ task'[u].version = task[u].version
    <3>. SUFFICES ASSUME NEW u \in Clients, Writes(u, task[q].call, table)'
                  PROVE Writes(u, task[q].call, table) /\ task'[u].version = task[u].version
      OBVIOUS
    <3>1. CASE u = p
      BY <1>1, <2>1, <3>1 DEF Writes, c
    <3>2. CASE u # p
      BY <1>1, <2>1, <3>2 DEF Writes
    <3>. QED BY <3>1, <3>2
  <2>3. ~(w.table = table /\ w.call = task[q].call /\ w.version = task[q].version)
        \/ w \in Known
    <3>1. CASE q = p
      <4>1. table # head
        BY <1>1, <2>1, <3>1 DEF Writes
      <4>. QED BY <1>3, <4>1
    <3>2. CASE q # p
      BY <1>3, <1>6, <2>1, <3>2
    <3>. QED BY <3>1, <3>2
  <2>4. /\ \A r \in Known : ~(/\ r.table = table /\ r.call = task[q].call
                              /\ r.version = task[q].version)
        /\ \A u \in Clients \ {q} : ~(/\ Writes(u, task[q].call, table)
                                     /\ task[u].version = task[q].version)
    BY <2>1 DEF Fresh
  <2>. QED BY <1>5, <2>1, <2>2, <2>3, <2>4
<1>12. Deleted'
  <2>1. \A e \in Erasers : \A r \in before[e] : r \in db' => r \in db
    <3>1. \A e \in Erasers : before[e] \subseteq Known
      BY DEF Known
    <3>. QED BY <1>2, <1>3, <1>6, <3>1
  <2>. QED BY <1>1, <2>1 DEF Deleted
<1>13. SparedIsKept'
  <2>. SUFFICES ASSUME NEW d \in Calls, Spared(d),
                       NEW table \in {"working_memory", "memory_chunks", "semantic_facts"}
                PROVE  Kept(d, table)'
    BY <1>1 DEF SparedIsKept, Spared
  <2>1. Kept(d, table)
    BY DEF SparedIsKept
  <2>2. CASE \E r \in db : r.table = table /\ r.call = d
    <3>1. PICK r \in db : r.table = table /\ r.call = d
      BY <2>2
    <3>2. CASE r \in db'
      BY <3>1, <3>2 DEF Kept
    <3>3. CASE r \notin db'
      <4>1. /\ table = "memory_chunks" /\ d = c /\ head = "delete_by_source"
            /\ Writes(p, c, "memory_chunks")
        BY <1>2, <3>1, <3>3
      <4>2. Writes(p, d, table)'
        BY <1>1, <4>1
      <4>. QED BY <4>1, <4>2 DEF Kept
    <3>. QED BY <3>2, <3>3
  <2>3. CASE table # "working_memory" /\ \E q \in Clients : Writes(q, d, table)
    <3>1. PICK q \in Clients : Writes(q, d, table)
      BY <2>3
    <3>2. CASE q = p /\ table = head
      <4>1. w \in db' /\ w.table = table /\ w.call = d
        BY <1>2, <1>3, <2>3, <3>1, <3>2 DEF Writes, c
      <4>. QED BY <4>1 DEF Kept
    <3>3. CASE ~(q = p /\ table = head)
      <4>1. Writes(q, d, table)'
        BY <1>1, <1>7, <3>1, <3>3
      <4>. QED BY <2>3, <4>1 DEF Kept
    <3>. QED BY <3>2, <3>3
  <2>. QED BY <2>1, <2>2, <2>3 DEF Kept
<1>. QED BY <1>8, <1>9, <1>10, <1>11, <1>12, <1>13 DEF IInv

-----------------------------------------------------------------------------
\* An erasure that begins finds the rows of its scope.
LEMMA EraseBeginStep ==
    ASSUME IInv, NEW e \in Erasers, NEW scope \in Requests, EraseBegin(e, scope)
    PROVE  IInv'
<1>. DEFINE found == {r \in db : ScopePredicates(scope, r.scope)}
<1>. TypeOK /\ RowsBelong /\ TasksBelong /\ Fresh /\ Deleted /\ SparedIsKept
  BY DEF IInv
<1>1. /\ request[e] = None /\ position[e] = 1 /\ scope # None
      /\ request' = [request EXCEPT ![e] = scope]
      /\ before' = [before EXCEPT ![e] = found]
      /\ UNCHANGED <<db, scopeOf, version, claimed, task, position>>
  BY ErasureAssumption DEF EraseBegin, Deleted
<1>2. /\ found \subseteq db /\ found \in SUBSET RowType
      /\ \A r \in found : ScopePredicates(scope, r.scope)
  BY DEF TypeOK
<1>. HIDE DEF found
<1>3. /\ request' \in [Erasers -> Requests \cup {None}]
      /\ request'[e] = scope /\ \A f \in Erasers \ {e} : request'[f] = request[f]
  BY <1>1 DEF TypeOK
<1>4. /\ before' \in [Erasers -> SUBSET RowType]
      /\ before'[e] = found /\ \A f \in Erasers \ {e} : before'[f] = before[f]
  BY <1>1, <1>2 DEF TypeOK
<1>5. Known' \subseteq Known
  BY <1>1, <1>2, <1>4 DEF Known
<1>6. TypeOK'
  BY <1>1, <1>3, <1>4 DEF TypeOK
<1>7. RowsBelong' /\ TasksBelong' /\ Fresh'
  <2>1. \A table, c, v : Numbered(table, c, v)' <=> Numbered(table, c, v)
    BY <1>1 DEF Numbered
  <2>2. RowsBelong'
    BY <1>1, <1>5, <2>1 DEF RowsBelong
  <2>3. TasksBelong'
    BY <1>1 DEF TasksBelong, Numbered
  <2>4. Fresh'
    BY <1>1, <1>5 DEF Fresh, Writes
  <2>. QED BY <2>2, <2>3, <2>4
<1>8. Deleted'
  <2>. SUFFICES ASSUME NEW f \in Erasers
       PROVE /\ request'[f] = None => position'[f] = 1
             /\ \A r \in before'[f] :
                   /\ ScopePredicates(request'[f], r.scope)
                   /\ \A i \in 1..Len(Tables) :
                          i < position'[f] /\ r.table = Tables[i] => r \notin db'
    BY DEF Deleted
  <2>1. CASE f = e
    <3>1. \A i \in 1..Len(Tables) : ~(i < 1)
      BY DEF Tables
    <3>. QED BY <1>1, <1>2, <1>3, <1>4, <2>1, <3>1
  <2>2. CASE f # e
    BY <1>1, <1>3, <1>4, <2>2 DEF Deleted
  <2>. QED BY <2>1, <2>2
<1>9. SparedIsKept'
  <2>1. \A c \in Calls : Spared(c)' => Spared(c)
    BY <1>1, <1>3 DEF Spared
  <2>. QED BY <1>1, <2>1 DEF SparedIsKept, Kept, Writes
<1>. QED BY <1>6, <1>7, <1>8, <1>9 DEF IInv

\* One DELETE of an erasure.  What it matches, its scope reaches: also the
\* call of every row, which the scope of the row reaches.
LEMMA EraseTableStep ==
    ASSUME IInv, NEW e \in Erasers, EraseTable(e) PROVE IInv'
<1>. DEFINE here == Tables[position[e]]
            next == position[e] + 1
<1>. TypeOK /\ RowsBelong /\ TasksBelong /\ Fresh /\ Deleted /\ SparedIsKept
  BY DEF IInv
<1>1. /\ request[e] # None /\ position[e] <= Len(Tables)
      /\ db' = {r \in db : ~(r.table = here /\ ScopePredicates(request[e], r.scope))}
      /\ position' = [position EXCEPT ![e] = next]
      /\ UNCHANGED <<scopeOf, version, claimed, task, request, before>>
  BY DEF EraseTable
<1>2. /\ position[e] \in 1..Len(Tables) /\ next \in 1..(Len(Tables) + 1)
      /\ \A i \in 1..Len(Tables) : i < next => i < position[e] \/ i = position[e]
  BY <1>1 DEF TypeOK, Tables
<1>3. \A i \in 1..Len(Tables) : i < next => i < position[e] \/ Tables[i] = here
  BY <1>2
<1>. HIDE DEF here, next
<1>4. /\ position' \in [Erasers -> 1..(Len(Tables) + 1)] /\ position'[e] = next
      /\ \A f \in Erasers \ {e} : position'[f] = position[f]
  BY <1>1, <1>2 DEF TypeOK
<1>5. db' \subseteq db /\ Known' \subseteq Known
  BY <1>1 DEF Known
<1>6. TypeOK'
  BY <1>1, <1>4, <1>5 DEF TypeOK
<1>7. RowsBelong' /\ TasksBelong' /\ Fresh'
  <2>1. \A table, c, v : Numbered(table, c, v)' <=> Numbered(table, c, v)
    BY <1>1 DEF Numbered
  <2>2. RowsBelong'
    BY <1>1, <1>5, <2>1 DEF RowsBelong
  <2>3. TasksBelong'
    BY <1>1 DEF TasksBelong, Numbered
  <2>4. Fresh'
    BY <1>1, <1>5 DEF Fresh, Writes
  <2>. QED BY <2>2, <2>3, <2>4
<1>8. Deleted'
  <2>. SUFFICES ASSUME NEW f \in Erasers
       PROVE /\ request'[f] = None => position'[f] = 1
             /\ \A r \in before'[f] :
                   /\ ScopePredicates(request'[f], r.scope)
                   /\ \A i \in 1..Len(Tables) :
                          i < position'[f] /\ r.table = Tables[i] => r \notin db'
    BY DEF Deleted
  <2>1. CASE f = e
    <3>. SUFFICES ASSUME NEW r \in before[e], NEW i \in 1..Len(Tables),
                         i < next, r.table = Tables[i], r \in db'
                  PROVE  FALSE
      BY <1>1, <1>4, <2>1 DEF Deleted
    <3>1. ScopePredicates(request[e], r.scope) /\ r \in db
      BY <1>5 DEF Deleted
    <3>2. ~(i < position[e])
      BY <3>1 DEF Deleted
    <3>3. r.table = here
      BY <1>3, <3>2
    <3>. QED BY <1>1, <3>1, <3>3
  <2>2. CASE f # e
    BY <1>1, <1>4, <1>5, <2>2 DEF Deleted
  <2>. QED BY <2>1, <2>2
<1>9. SparedIsKept'
  <2>. SUFFICES ASSUME NEW c \in Calls, Spared(c),
                       NEW table \in {"working_memory", "memory_chunks", "semantic_facts"}
                PROVE  Kept(c, table)'
    BY <1>1 DEF SparedIsKept, Spared
  <2>1. \A r \in db : r.call = c => r \in db'
    <3>. SUFFICES ASSUME NEW r \in db, r.call = c, ScopePredicates(request[e], r.scope)
                  PROVE  FALSE
      BY <1>1
    <3>1. ScopePredicates(r.scope, scopeOf[c])
      BY DEF RowsBelong, Known
    <3>2. ScopePredicates(request[e], scopeOf[c])
      BY <3>1, ScopeTransitive
    <3>. QED BY <1>1, <3>2 DEF Spared
  <2>2. Kept(c, table)
    BY DEF SparedIsKept
  <2>. QED BY <1>1, <2>1, <2>2 DEF Kept, Writes
<1>. QED BY <1>6, <1>7, <1>8, <1>9 DEF IInv

LEMMA InvInit == Init => IInv
<1>. SUFFICES ASSUME Init PROVE IInv
  OBVIOUS
<1>1. Known = {} /\ Len(Tables) = 6
  BY DEF Init, Known, Tables
<1>2. TypeOK
  BY <1>1, ErasureAssumption DEF Init, TypeOK
<1>. QED BY <1>1, <1>2 DEF Init, IInv, RowsBelong, TasksBelong, Fresh, Writes, Deleted,
                           SparedIsKept, Spared

\* Every step keeps the invariant.
LEMMA InvStep == IInv /\ [Next]_vars => IInv'
<1>. SUFFICES ASSUME IInv, [Next]_vars PROVE IInv'
  OBVIOUS
<1>1. CASE UNCHANGED vars
  BY <1>1 DEF vars, IInv, TypeOK, RowsBelong, Known, Numbered, TasksBelong, Fresh, Writes,
              Deleted, SparedIsKept, Spared, Kept
<1>2. ASSUME NEW p \in Clients, NEW c \in Calls, NEW scope \in MemoryScope,
             Remember(p, c, scope)
      PROVE  IInv'
  BY <1>2, RememberStep
<1>3. ASSUME NEW p \in Clients, NEW c \in Calls, Update(p, c) PROVE IInv'
  BY <1>3, UpdateStep
<1>4. ASSUME NEW p \in Clients, NEW c \in Calls, Consolidate(p, c) PROVE IInv'
  BY <1>4, ConsolidateStep
<1>5. ASSUME NEW p \in Clients, WriteNext(p) PROVE IInv'
  BY <1>5, WriteStep
<1>6. ASSUME NEW e \in Erasers, EraseTable(e) PROVE IInv'
  BY <1>6, EraseTableStep
<1>7. ASSUME NEW e \in Erasers, NEW scope \in Requests, EraseBegin(e, scope) PROVE IInv'
  BY <1>7, EraseBeginStep
<1>. QED BY <1>1, <1>2, <1>3, <1>4, <1>5, <1>6, <1>7 DEF Next

\* When erase_all() returns, no row it was asked to erase is left, whatever
\* the others wrote and erased between its six transactions.
THEOREM EarlierRowsAreGone == Spec => []EarlierRowsGone
<1>1. IInv => EarlierRowsGone
  <2>. SUFFICES ASSUME IInv, NEW e \in Erasers, Erased(e),
                       NEW r \in before[e], r \in db
                PROVE  FALSE
    BY DEF EarlierRowsGone
  <2>1. PICK i \in 1..Len(Tables) : r.table = Tables[i]
    BY DEF IInv, TypeOK, RowType
  <2>2. i < position[e]
    BY DEF IInv, TypeOK, Erased, Tables
  <2>. QED BY <2>1, <2>2 DEF IInv, Deleted
<1>. QED BY <1>1, InvInit, InvStep, PTL DEF Spec

\* A call no erasure reaches keeps its row, its fact and its chunks, however
\* broad the scopes its chunks and facts were written with.
THEOREM OthersKeepTheirs == Spec => []OthersKeepTheirRows
<1>1. IInv => OthersKeepTheirRows
  <2>. SUFFICES ASSUME IInv, NEW c \in Calls, Spared(c), Quiet(c),
                       NEW table \in {"working_memory", "semantic_facts", "memory_chunks"}
                PROVE  \E r \in db : r.table = table /\ r.call = c
    BY DEF OthersKeepTheirRows, Spared
  <2>1. Kept(c, table)
    BY DEF IInv, SparedIsKept
  <2>2. \A p \in Clients : ~Writes(p, c, table)
    BY DEF Quiet, Writes
  <2>. QED BY <2>1, <2>2 DEF Kept
<1>. QED BY <1>1, InvInit, InvStep, PTL DEF Spec

\* Every variable has its type.
THEOREM TypeCorrect == Spec => []TypeOK
<1>1. IInv => TypeOK
  BY DEF IInv
<1>. QED BY <1>1, InvInit, InvStep, PTL DEF Spec
=============================================================================
