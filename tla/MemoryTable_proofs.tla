------------------------- MODULE MemoryTable_proofs -------------------------
(***************************************************************************)
(* The table protocol for any number of clients, rows, scopes and classes  *)
(* of repositories.  VersionIdentifiesRow is the heart of the inductive    *)
(* invariant IInv: it holds because every writer but _claim_consolidated   *)
(* moves the version, and _claim_consolidated changes nothing a version    *)
(* stands for.  The optimistic lock, the finality of tombstones and        *)
(* supersessions and the promise of the deduplication follow from it.      *)
(***************************************************************************)
EXTENDS MemoryTable, TLAPS

\* Replacing one value of a function keeps its type.
LEMMA ExceptType ==
    ASSUME NEW S, NEW T, NEW f \in [S -> T], NEW x, NEW y \in T
    PROVE  [f EXCEPT ![x] = y] \in [S -> T]
OBVIOUS

\* The range of a version.
LEMMA RowFields ==
    ASSUME NEW r \in Row
    PROVE  /\ r.version \in 1..MaxVersion /\ r.version \in Nat
           /\ r.scope \in MemoryScope
BY TableAssumption DEF Row

\* The row that update() writes.
Put(r, x, v) == [r EXCEPT !.content = x, !.content_hash = Hash[x], !.version = v]

LEMMA PutFacts ==
    ASSUME NEW r \in Row, NEW x \in Contents, NEW v \in 1..MaxVersion
    PROVE  /\ Put(r, x, v) \in Row
           /\ Put(r, x, v).content = x /\ Put(r, x, v).version = v
           /\ Put(r, x, v).scope = r.scope /\ Put(r, x, v).deleted_at = r.deleted_at
           /\ Put(r, x, v).content_hash = Hash[x]
           /\ Put(r, x, v).superseded_by = r.superseded_by
<1>1. Hash[x] \in Hashes
  BY TableAssumption
<1>. QED BY <1>1 DEF Put, Row

\* What update() finds and what it leaves, in the table and with its client.
LEMMA UpdateFacts ==
    ASSUME TypeOK, NEW c \in Clients, NEW x \in Contents, Update(c, x)
    PROVE  LET id == held[c].id
               v == held[c].row.version + 1
           IN  /\ held[c] \in Record /\ held[c] # NoRecord /\ held[c].row \in Row
               /\ id \in Ids /\ Live(id) /\ Matches(c, id)
               /\ table[id] \in Row /\ table[id] # NoRow
               /\ table[id].version = held[c].row.version /\ v \in 1..MaxVersion
               /\ table' = [table EXCEPT ![id] = Put(table[id], x, v)]
               /\ held' = [held EXCEPT ![c] = [id |-> id, row |-> Put(held[c].row, x, v)]]
               /\ UNCHANGED <<used, pending, seen>>
<1>. DEFINE id == held[c].id
            v == held[c].row.version + 1
<1>1. /\ held[c] # NoRecord /\ Current(c) /\ held[c].row.version < MaxVersion
      /\ table' = [table EXCEPT ![id].content = x, ![id].content_hash = Hash[x],
                                ![id].version = v]
      /\ held' = [held EXCEPT ![c].row.content = x, ![c].row.content_hash = Hash[x],
                              ![c].row.version = v]
      /\ UNCHANGED <<used, pending, seen>>
  BY DEF Update
<1>2. /\ table \in [Ids -> Row \cup {NoRow}]
      /\ held \in [Clients -> Record \cup {NoRecord}]
  BY DEF TypeOK
<1>3. held[c] \in Record
  BY <1>1, <1>2
<1>4. id \in Ids /\ held[c].row \in Row
  BY <1>3 DEF Record
<1>5. Live(id) /\ Matches(c, id) /\ table[id].version = held[c].row.version
  BY <1>1 DEF Current
<1>6. table[id] \in Row /\ table[id] # NoRow
  BY <1>2, <1>4, <1>5 DEF Live, Exists
<1>7. v \in 1..MaxVersion
  BY <1>1, <1>4, RowFields, TableAssumption
<1>. HIDE DEF id, v
<1>. DEFINE h == Hash[x]
<1>a. DOMAIN table = Ids /\ DOMAIN held = Clients
  BY <1>2
<1>8. table' = [table EXCEPT ![id] = Put(table[id], x, v)]
  <2>1. [table EXCEPT ![id].content = x, ![id].content_hash = h, ![id].version = v]
          = [table EXCEPT ![id] = [table[id] EXCEPT !.content = x, !.content_hash = h,
                                                    !.version = v]]
    <3>. HIDE DEF h
    <3>. QED BY <1>a
  <2>. QED BY <1>1, <2>1 DEF Put
<1>9. held' = [held EXCEPT ![c] = [held[c] EXCEPT !.row = Put(held[c].row, x, v)]]
  <2>1. [held EXCEPT ![c].row.content = x, ![c].row.content_hash = h, ![c].row.version = v]
          = [held EXCEPT ![c] = [held[c] EXCEPT !.row = [held[c].row EXCEPT
                               !.content = x, !.content_hash = h, !.version = v]]]
    <3>. HIDE DEF h
    <3>. QED BY <1>a
  <2>. QED BY <1>1, <2>1 DEF Put
<1>10. [held[c] EXCEPT !.row = Put(held[c].row, x, v)]
         = [id |-> id, row |-> Put(held[c].row, x, v)]
  <2>1. \A r \in Record : \A y : [r EXCEPT !.row = y] = [id |-> r.id, row |-> y]
    BY DEF Record
  <2>. QED BY <1>3, <2>1 DEF id
<1>. QED BY <1>1, <1>3, <1>4, <1>5, <1>6, <1>7, <1>8, <1>9, <1>10 DEF id, v

\* What create() and create_many() insert is a row.
LEMMA NewRowType ==
    ASSUME NEW c \in Clients, NEW x \in Contents
    PROVE  NewRow(ScopeOf[c], x) \in Row
<1>1. ScopeOf[c] \in MemoryScope /\ Hash[x] \in Hashes /\ 1 \in 1..MaxVersion
  BY TableAssumption
<1>. QED BY <1>1 DEF NewRow, Row

\* What create() records of its SELECT is a version per id.
LEMMA VersionsType ==
    ASSUME TypeOK
    PROVE  Versions \in [Ids -> 0..MaxVersion] /\ Unseen \in [Ids -> 0..MaxVersion]
<1>1. \A i \in Ids : table[i] # NoRow => table[i].version \in 0..MaxVersion
  BY TableAssumption DEF TypeOK, Row
<1>. QED BY <1>1, TableAssumption DEF Versions, Unseen

\* The types hold at the start.
LEMMA TypeInit == Init => TypeOK
  BY TableAssumption DEF Init, TypeOK, Unseen

\* Every step keeps the types.
LEMMA TypeStep == TypeOK /\ [Next]_vars => TypeOK'
<1>. SUFFICES ASSUME TypeOK, [Next]_vars PROVE TypeOK'
  OBVIOUS
<1>. USE DEF TypeOK
<1>. repository' = repository
  BY DEF Next, vars
<1>0. CASE UNCHANGED vars
  BY <1>0 DEF vars
<1>1. CASE \E c \in Clients : Create(c)
  <2>. PICK c \in Clients : Create(c) BY <1>1
  <2>1. ASSUME NEW x \in Contents, CreateHit(c, x) PROVE TypeOK'
    <3>. PICK i \in Duplicates(c, x) :
            held' = [held EXCEPT ![c] = [id |-> i, row |-> table[i]]]
      BY <2>1 DEF CreateHit
    <3>1. i \in Ids /\ table[i] \in Row
      BY DEF Duplicates, Live, Exists
    <3>2. [id |-> i, row |-> table[i]] \in Record
      BY <3>1 DEF Record
    <3>. QED BY <2>1, <3>2 DEF CreateHit
  <2>2. ASSUME NEW x \in Contents, CreateMiss(c, x) PROVE TypeOK'
    BY <2>2, VersionsType DEF CreateMiss
  <2>3. ASSUME CreateInsert(c) PROVE TypeOK'
    <3>. DEFINE row == NewRow(ScopeOf[c], pending[c])
    <3>1. pending[c] \in Contents
      BY <2>3 DEF CreateInsert, Idle
    <3>2. row \in Row
      BY <3>1, NewRowType
    <3>3. PICK i \in Ids \ used :
             /\ table' = [table EXCEPT ![i] = row]
             /\ used' = used \cup {i}
             /\ held' = [held EXCEPT ![c] = [id |-> i, row |-> row]]
      BY <2>3 DEF CreateInsert
    <3>4. [id |-> i, row |-> row] \in Record
      BY <3>2 DEF Record
    <3>. HIDE DEF row
    <3>5. seen' \in [Clients -> [Ids -> 0..MaxVersion]]
      BY <2>3, VersionsType DEF CreateInsert
    <3>6. pending' \in [Clients -> Contents \cup {NoContent}]
      BY <2>3 DEF CreateInsert
    <3>. QED BY <3>2, <3>3, <3>4, <3>5, <3>6
  <2>4. ASSUME CreateFails(c) PROVE TypeOK'
    BY <2>4, VersionsType DEF CreateFails
  <2>5. ASSUME NEW x \in Contents, NEW y \in Contents, CreateMany(c, x, y)
        PROVE  TypeOK'
    BY <2>5, NewRowType DEF CreateMany
  <2>. QED BY <2>1, <2>2, <2>3, <2>4, <2>5 DEF Create
<1>2. ASSUME NEW c \in Clients, NEW id \in Ids, GetById(c, id) PROVE TypeOK'
  <2>1. Live(id) => [id |-> id, row |-> table[id]] \in Record
    BY DEF Live, Exists, Record
  <2>. QED BY <1>2, <2>1 DEF GetById
<1>3. ASSUME NEW c \in Clients, NEW x \in Contents, Update(c, x) PROVE TypeOK'
  <2>. DEFINE id == held[c].id
              v == held[c].row.version + 1
              row == Put(table[id], x, v)
              rec == [id |-> id, row |-> Put(held[c].row, x, v)]
  <2>1. /\ table' = [table EXCEPT ![id] = row] /\ held' = [held EXCEPT ![c] = rec]
        /\ UNCHANGED <<used, pending, seen>>
        /\ held[c].row \in Row /\ table[id] \in Row /\ id \in Ids /\ v \in 1..MaxVersion
    BY <1>3, UpdateFacts
  <2>2. row \in Row
    BY <2>1, PutFacts
  <2>3. rec \in Record
    BY <2>1, PutFacts DEF Record
  <2>. HIDE DEF row, rec
  <2>4. table' \in [Ids -> Row \cup {NoRow}]
    BY <2>1, <2>2, ExceptType
  <2>5. held' \in [Clients -> Record \cup {NoRecord}]
    BY <2>1, <2>3, ExceptType
  <2>. QED BY <2>1, <2>4, <2>5
<1>4. ASSUME NEW c \in Clients, NEW id \in Ids, Forget(c, id) PROVE TypeOK'
  <2>1. table[id] \in Row
    BY <1>4 DEF Forget, Live, Exists
  <2>a. table[id].version + 1 \in 1..MaxVersion
    BY <1>4, <2>1, RowFields, TableAssumption DEF Forget
  <2>2. [table[id] EXCEPT !.deleted_at = TRUE, !.version = @ + 1] \in Row
    BY <2>1, <2>a DEF Row
  <2>. QED BY <1>4, <2>1, <2>2 DEF Forget
<1>5. ASSUME NEW c \in Clients, NEW loser \in Ids, NEW winner \in Ids,
             Supersede(c, loser, winner)
      PROVE  TypeOK'
  <2>1. table[loser] \in Row
    BY <1>5 DEF Supersede, Live, Exists
  <2>a. table[loser].version + 1 \in 1..MaxVersion
    BY <1>5, <2>1, RowFields, TableAssumption DEF Supersede
  <2>2. [table[loser] EXCEPT !.superseded_by = winner, !.version = @ + 1] \in Row
    BY <2>1, <2>a DEF Row
  <2>. QED BY <1>5, <2>1, <2>2 DEF Supersede
<1>6. ASSUME NEW c \in Clients, NEW id \in Ids, ClaimConsolidated(c, id)
      PROVE  TypeOK'
  <2>1. table[id] \in Row
    BY <1>6 DEF ClaimConsolidated, Matches, Exists
  <2>2. [table[id] EXCEPT !.consolidated_at = TRUE] \in Row
    BY <2>1 DEF Row
  <2>. QED BY <1>6, <2>1, <2>2 DEF ClaimConsolidated
<1>7. ASSUME NEW c \in Clients, PurgeExpired(c) PROVE TypeOK'
  BY <1>7 DEF PurgeExpired, DeleteRows
<1>8. ASSUME NEW c \in Clients, EraseAll(c) PROVE TypeOK'
  BY <1>8 DEF EraseAll, DeleteRows
<1>. QED BY <1>0, <1>1, <1>2, <1>3, <1>4, <1>5, <1>6, <1>7, <1>8 DEF Next

-----------------------------------------------------------------------------
\* What NoLostUpdate rests on.  Ids are never reused, so a record that outlives
\* its row can never meet another row under its id; versions only grow, so the
\* record held is never ahead of the row.
UsedIds ==
    /\ \A i \in Ids : Exists(i) => i \in used
    /\ \A c \in Clients : held[c] # NoRecord => held[c].id \in used

HeldNotAhead ==
    \A c \in Clients :
        held[c] # NoRecord /\ Exists(held[c].id) =>
            held[c].row.version <= table[held[c].id].version

IInv == TypeOK /\ UsedIds /\ HeldNotAhead /\ VersionIdentifiesRow

\* One record against one row: the two middle conjuncts for a single client.
Agree(rec, row) ==
    /\ rec.row.version <= row.version
    /\ row.version = rec.row.version => Core(row) = Core(rec.row)

\* The two conjuncts say that each record agrees with its row.
LEMMA AgreeDef ==
    HeldNotAhead /\ VersionIdentifiesRow
      <=> \A c \in Clients : held[c] # NoRecord /\ Exists(held[c].id)
                               => Agree(held[c], table[held[c].id])
BY DEF HeldNotAhead, VersionIdentifiesRow, Agree

\* The invariant holds before the first call.
LEMMA InvInit == Init => IInv
<1>. SUFFICES ASSUME Init PROVE IInv
  OBVIOUS
<1>. QED BY TypeInit DEF Init, IInv, UsedIds, HeldNotAhead,
                         VersionIdentifiesRow, Exists

\* A step that leaves the records alone, inserts no used id, and changes rows
\* only to rows of a higher version (or of the same core), keeps the invariant.
GrowRows ==
    /\ held' = held /\ used \subseteq used'
    /\ \A i \in Ids : table'[i] # NoRow =>
          \/ /\ table[i] = NoRow /\ i \in used' \ used
          \/ /\ table[i] # NoRow
             /\ \/ Core(table'[i]) = Core(table[i])
                \/ table'[i].version > table[i].version

\* Every step that only lets rows grow keeps the invariant.
LEMMA GrowStep == IInv /\ TypeOK' /\ GrowRows => IInv'
<1>. SUFFICES ASSUME IInv, TypeOK', GrowRows PROVE IInv'
  OBVIOUS
<1>1. UsedIds'
  BY DEF IInv, TypeOK, UsedIds, GrowRows, Exists
<1>2. ASSUME NEW c \in Clients, held[c] # NoRecord, table'[held[c].id] # NoRow
      PROVE  Agree(held[c], table'[held[c].id])
  <2>. DEFINE id == held[c].id
  <2>1. id \in Ids /\ held[c].row \in Row /\ id \in used
    BY <1>2 DEF IInv, TypeOK, Record, UsedIds
  <2>2. table[id] # NoRow /\ table[id] \in Row /\ table'[id] \in Row
    BY <1>2, <2>1 DEF GrowRows, IInv, TypeOK
  <2>3. Agree(held[c], table[id])
    BY <1>2, <2>2, AgreeDef DEF IInv, Exists
  <2>4. /\ table[id].version \in Nat /\ table'[id].version \in Nat
        /\ held[c].row.version \in Nat
    BY <2>1, <2>2, TableAssumption DEF Row
  <2>5. CASE Core(table'[id]) = Core(table[id])
    BY <2>3, <2>4, <2>5 DEF Agree, Core
  <2>6. CASE table'[id].version > table[id].version
    BY <2>3, <2>4, <2>6 DEF Agree
  <2>. QED BY <2>1, <2>2, <2>5, <2>6, <1>2 DEF GrowRows
<1>3. HeldNotAhead' /\ VersionIdentifiesRow'
  BY <1>2 DEF GrowRows, HeldNotAhead, VersionIdentifiesRow, Agree, Exists
<1>. QED BY <1>1, <1>3 DEF IInv

\* Every step keeps the invariant.
LEMMA InvStep == IInv /\ [Next]_vars => IInv'
<1>. SUFFICES ASSUME IInv, [Next]_vars PROVE IInv'
  OBVIOUS
<1>. USE DEF IInv
<1>. TypeOK'
  BY TypeStep
<1>0. CASE UNCHANGED vars
  BY <1>0 DEF vars, UsedIds, HeldNotAhead, VersionIdentifiesRow, Exists
<1>1. ASSUME NEW c \in Clients, NEW id \in Ids, Live(id),
             held' = [held EXCEPT ![c] = [id |-> id, row |-> table[id]]],
             UNCHANGED <<table, used>>
      PROVE  IInv'
  <2>1. table[id] \in Row /\ table[id].version \in Nat
    BY <1>1, TableAssumption DEF TypeOK, Live, Exists, Row
  <2>. QED BY <1>1, <2>1 DEF TypeOK, UsedIds, HeldNotAhead,
                             VersionIdentifiesRow, Exists, Live
<1>2. ASSUME NEW c \in Clients, NEW x \in Contents, CreateHit(c, x) PROVE IInv'
  BY <1>1, <1>2 DEF CreateHit, Duplicates
<1>3. ASSUME NEW c \in Clients, NEW x \in Contents, CreateMiss(c, x) PROVE IInv'
  BY <1>3, GrowStep DEF CreateMiss, GrowRows
<1>4. ASSUME NEW c \in Clients, CreateInsert(c) PROVE IInv'
  <2>. DEFINE row == NewRow(ScopeOf[c], pending[c])
  <2>1. PICK i \in Ids \ used :
           /\ table' = [table EXCEPT ![i] = row]
           /\ used' = used \cup {i}
           /\ held' = [held EXCEPT ![c] = [id |-> i, row |-> row]]
    BY <1>4 DEF CreateInsert
  <2>2. row \in Row /\ row.version \in Nat
    BY <1>4, NewRowType, TableAssumption DEF CreateInsert, Idle, TypeOK, Row
  <2>. HIDE DEF row
  <2>3. UsedIds'
    BY <2>1, <2>2 DEF TypeOK, UsedIds, Exists
  <2>4. HeldNotAhead' /\ VersionIdentifiesRow'
    BY <2>1, <2>2 DEF TypeOK, UsedIds, HeldNotAhead, VersionIdentifiesRow, Exists
  <2>. QED BY <2>3, <2>4
<1>5. ASSUME NEW c \in Clients, NEW x \in Contents, NEW y \in Contents,
             CreateMany(c, x, y)
      PROVE  IInv'
  <2>1. GrowRows
    BY <1>5 DEF CreateMany, GrowRows, TypeOK, UsedIds, Exists
  <2>. QED BY <2>1, GrowStep
<1>6. ASSUME NEW c \in Clients, NEW id \in Ids, GetById(c, id) PROVE IInv'
  <2>1. CASE Live(id) /\ Matches(c, id)
    BY <1>1, <1>6, <2>1 DEF GetById
  <2>2. CASE ~(Live(id) /\ Matches(c, id))
    BY <1>6, <2>2 DEF GetById, TypeOK, UsedIds, HeldNotAhead,
                      VersionIdentifiesRow, Exists
  <2>. QED BY <2>1, <2>2
<1>7. ASSUME NEW c \in Clients, NEW x \in Contents, Update(c, x) PROVE IInv'
  <2>. DEFINE id == held[c].id
              v == held[c].row.version + 1
              row == Put(table[id], x, v)
              rec == [id |-> id, row |-> Put(held[c].row, x, v)]
  <2>a. /\ held[c] \in Record /\ held[c] # NoRecord /\ held[c].row \in Row
        /\ id \in Ids /\ Live(id) /\ table[id] \in Row /\ table[id] # NoRow
        /\ table[id].version = held[c].row.version /\ v \in 1..MaxVersion
        /\ table' = [table EXCEPT ![id] = row] /\ held' = [held EXCEPT ![c] = rec]
        /\ used' = used
    BY <1>7, UpdateFacts
  <2>1. /\ held[c] \in Record /\ id \in Ids /\ held[c].row \in Row
        /\ table[id] \in Row /\ table[id].version \in Nat
        /\ held[c].row.version \in Nat /\ v \in Nat
    BY <2>a, RowFields
  <2>2. Core(table[id]) = Core(held[c].row) /\ table[id].version = held[c].row.version
    BY <2>a DEF Exists, VersionIdentifiesRow
  <2>b. DOMAIN table = Ids /\ DOMAIN held = Clients
    BY DEF TypeOK
  <2>3. table'[id] = row /\ \A i \in Ids \ {id} : table'[i] = table[i]
    BY <2>a, <2>b
  <2>4. /\ held'[c].id = id /\ held'[c].row = Put(held[c].row, x, v)
        /\ \A d \in Clients \ {c} : held'[d] = held[d]
    BY <2>a, <2>b
  <2>5. UsedIds'
    <3>1. id \in used
      BY <2>a DEF UsedIds
    <3>2. \A d \in Clients : held'[d] # NoRecord => held'[d].id \in used
      BY <2>4, <3>1 DEF UsedIds
    <3>3. \A i \in Ids : table'[i] # NoRow => i \in used
      BY <2>3, <3>1 DEF UsedIds, Exists
    <3>. QED BY <2>a, <3>2, <3>3 DEF UsedIds, Exists
  <2>6. Core(table'[id]) = Core(held'[c].row) /\ table'[id].version = v
    <3>1. row.version = v
      BY <2>a, PutFacts
    <3>2. Core(row) = Core(Put(held[c].row, x, v))
      BY <2>a, <2>2, PutFacts DEF Core
    <3>. QED BY <2>3, <2>4, <3>1, <3>2
  <2>7. held'[c].row.version = v
    BY <2>a, <2>4, PutFacts
  <2>. HIDE DEF row, rec
  <2>8. ASSUME NEW d \in Clients, held'[d] # NoRecord, table'[held'[d].id] # NoRow
        PROVE  Agree(held'[d], table'[held'[d].id])
    <3>1. CASE d = c
      BY <3>1, <2>1, <2>4, <2>6, <2>7 DEF Agree
    <3>2. CASE d # c
      <4>1. held'[d] = held[d] /\ held[d] # NoRecord /\ held[d] \in Record
        BY <2>4, <2>8, <3>2 DEF TypeOK
      <4>2. held[d].id \in Ids /\ held[d].row.version \in Nat
        BY <4>1, TableAssumption DEF Record, Row
      <4>3. CASE held[d].id = id
        <5>1. Agree(held[d], table[id])
          BY <4>1, <4>3, AgreeDef, <1>7 DEF Update, Current, Live
        <5>. QED BY <4>1, <4>2, <4>3, <5>1, <2>1, <2>2, <2>6 DEF Agree
      <4>4. CASE held[d].id # id
        BY <4>1, <4>2, <4>4, <2>3, <2>8, AgreeDef DEF Exists
      <4>. QED BY <4>3, <4>4
    <3>. QED BY <3>1, <3>2
  <2>9. HeldNotAhead' /\ VersionIdentifiesRow'
    BY <2>8 DEF HeldNotAhead, VersionIdentifiesRow, Agree, Exists
  <2>. QED BY <2>5, <2>9
<1>8. ASSUME NEW c \in Clients, NEW id \in Ids, Forget(c, id) PROVE IInv'
  <2>1. table[id] \in Row /\ table[id].version \in Nat
    BY <1>8, TableAssumption DEF Forget, Live, Exists, TypeOK, Row
  <2>2. GrowRows
    BY <1>8, <2>1 DEF Forget, GrowRows, TypeOK, Row
  <2>. QED BY <2>2, GrowStep
<1>9. ASSUME NEW c \in Clients, NEW loser \in Ids, NEW winner \in Ids,
             Supersede(c, loser, winner)
      PROVE  IInv'
  <2>1. table[loser] \in Row /\ table[loser].version \in Nat
    BY <1>9, TableAssumption DEF Supersede, Live, Exists, TypeOK, Row
  <2>2. GrowRows
    BY <1>9, <2>1 DEF Supersede, GrowRows, TypeOK, Row
  <2>. QED BY <2>2, GrowStep
<1>10. ASSUME NEW c \in Clients, NEW id \in Ids, ClaimConsolidated(c, id)
       PROVE  IInv'
  <2>1. table[id] \in Row
    BY <1>10 DEF ClaimConsolidated, Matches, Exists, TypeOK
  <2>2. table' = [table EXCEPT ![id] = [table[id] EXCEPT !.consolidated_at = TRUE]]
    BY <1>10 DEF ClaimConsolidated
  <2>3. Core([table[id] EXCEPT !.consolidated_at = TRUE]) = Core(table[id])
    BY <2>1 DEF Core, Row
  <2>4. \A i \in Ids : Core(table'[i]) = Core(table[i])
    BY <2>2, <2>3 DEF TypeOK
  <2>5. table[id] # NoRow /\ \A i \in Ids \ {id} : table'[i] = table[i]
    BY <1>10, <2>2 DEF ClaimConsolidated, Matches, Exists, TypeOK
  <2>6. GrowRows
    BY <1>10, <2>4, <2>5 DEF ClaimConsolidated, GrowRows
  <2>. QED BY <2>6, GrowStep
<1>11. ASSUME NEW c \in Clients, PurgeExpired(c) \/ EraseAll(c) PROVE IInv'
  <2>1. \A i \in Ids : table'[i] \in {NoRow, table[i]}
    BY <1>11 DEF PurgeExpired, EraseAll, DeleteRows
  <2>2. UNCHANGED <<held, used>>
    BY <1>11 DEF PurgeExpired, EraseAll
  <2>3. GrowRows
    BY <2>1, <2>2 DEF GrowRows
  <2>. QED BY <2>3, GrowStep
<1>. HIDE DEF IInv
<1>12. ASSUME NEW c \in Clients, Create(c) PROVE IInv'
  <2>1. CASE \E x \in Contents : CreateHit(c, x) \/ CreateMiss(c, x)
    BY <1>2, <1>3, <2>1
  <2>2. CASE CreateFails(c)
    <3>1. GrowRows
      BY <2>2 DEF CreateFails, GrowRows
    <3>. QED BY <3>1, GrowStep
  <2>3. CASE \E x, y \in Contents : CreateMany(c, x, y)
    BY <1>5, <2>3
  <2>. QED BY <1>4, <1>12, <2>1, <2>2, <2>3 DEF Create
<1>. QED BY <1>0, <1>6, <1>7, <1>8, <1>9, <1>10, <1>11, <1>12 DEF Next

\* Every variable keeps its type.
THEOREM TypeCorrect == Spec => []TypeOK
BY TypeInit, TypeStep, PTL DEF Spec

\* The premise of the optimistic lock holds for any number of clients, rows
\* and scopes.
THEOREM VersionsIdentifyRows == Spec => []VersionIdentifiesRow
<1>1. IInv => VersionIdentifiesRow
  BY DEF IInv
<1>. QED BY <1>1, InvInit, InvStep, PTL DEF Spec

-----------------------------------------------------------------------------
\* Which rows a step can touch, whatever client takes it.
LEMMA ContentStep ==
    ASSUME IInv, [Next]_vars, NEW id \in Ids,
           table[id] # NoRow, table'[id] # NoRow,
           table'[id].content # table[id].content
    PROVE  \E c \in Clients : /\ held[c] # NoRecord /\ held[c].id = id
                              /\ Core(held[c].row) = Core(table[id])
                              /\ held'[c] # held[c]
<1>. USE DEF IInv
<1>1. CASE UNCHANGED vars
  BY <1>1 DEF vars
<1>2. ASSUME NEW c \in Clients, Create(c) PROVE FALSE
  BY <1>2 DEF Create, CreateHit, CreateMiss, CreateInsert, CreateFails,
              CreateMany, UsedIds, Exists, TypeOK
<1>3. ASSUME NEW c \in Clients, NEW i \in Ids, GetById(c, i) PROVE FALSE
  BY <1>3 DEF GetById
<1>4. ASSUME NEW c \in Clients, NEW x \in Contents, Update(c, x)
      PROVE  /\ held[c] # NoRecord /\ held[c].id = id
             /\ Core(held[c].row) = Core(table[id])
             /\ held'[c] # held[c]
  <2>. DEFINE v == held[c].row.version + 1
              rec == [id |-> held[c].id, row |-> Put(held[c].row, x, v)]
  <2>1. /\ held[c] # NoRecord /\ held[c].row \in Row /\ Live(held[c].id)
        /\ table[held[c].id].version = held[c].row.version /\ v \in 1..MaxVersion
        /\ table' = [table EXCEPT ![held[c].id] = Put(table[held[c].id], x, v)]
        /\ held' = [held EXCEPT ![c] = rec]
    BY <1>4, UpdateFacts
  <2>2. held[c].id = id
    BY <2>1 DEF TypeOK
  <2>3. Core(held[c].row) = Core(table[id])
    BY <2>1, <2>2 DEF Live, Exists, VersionIdentifiesRow
  <2>4. rec.row.version = v /\ held[c].row.version \in Nat
    BY <2>1, PutFacts, RowFields
  <2>5. held'[c] = rec
    BY <2>1 DEF TypeOK
  <2>. QED BY <2>1, <2>2, <2>3, <2>4, <2>5
<1>5. ASSUME NEW c \in Clients, NEW i \in Ids,
             Forget(c, i) \/ ClaimConsolidated(c, i)
      PROVE  FALSE
  <2>1. table[i] \in Row
    BY <1>5 DEF Forget, ClaimConsolidated, Live, Matches, Exists, TypeOK
  <2>2. CASE Forget(c, i)
    BY <2>1, <2>2 DEF Forget, TypeOK, Row
  <2>3. CASE ClaimConsolidated(c, i)
    BY <2>1, <2>3 DEF ClaimConsolidated, TypeOK, Row
  <2>. QED BY <1>5, <2>2, <2>3
<1>6. ASSUME NEW c \in Clients, NEW l \in Ids, NEW w \in Ids, Supersede(c, l, w)
      PROVE  FALSE
  <2>1. table[l] \in Row
    BY <1>6 DEF Supersede, Live, Exists, TypeOK
  <2>. QED BY <1>6, <2>1 DEF Supersede, TypeOK, Row
<1>7. ASSUME NEW c \in Clients, PurgeExpired(c) \/ EraseAll(c) PROVE FALSE
  BY <1>7 DEF PurgeExpired, EraseAll, DeleteRows
<1>. QED BY <1>1, <1>2, <1>3, <1>4, <1>5, <1>6, <1>7 DEF Next

\* No client ever overwrites a row it has not read in its current form: the
\* content it replaces is the content its record was read with.
THEOREM NoLostUpdates == Spec => NoLostUpdate
<1>1. IInv /\ [Next]_vars =>
        [\A id \in Ids :
          table[id] # NoRow /\ table'[id] # NoRow
            /\ table'[id].content # table[id].content
          => \E c \in Clients : /\ held[c] # NoRecord /\ held[c].id = id
                                /\ Core(held[c].row) = Core(table[id])
                                /\ held'[c] # held[c]]_vars
  BY ContentStep
<1>. QED BY <1>1, InvInit, InvStep, PTL DEF Spec, NoLostUpdate

\* What a step can do to a row that carries a mark.
LEMMA MarksStep ==
    ASSUME IInv, [Next]_vars, NEW id \in Ids,
           table[id] # NoRow, table'[id] # NoRow
    PROVE  /\ table[id].deleted_at => Core(table'[id]) = Core(table[id])
           /\ table[id].superseded_by # None =>
                 table'[id].superseded_by = table[id].superseded_by
<1>. USE DEF IInv
<1>0. table[id] \in Row
  BY DEF TypeOK
<1>1. CASE UNCHANGED vars
  BY <1>1 DEF vars
<1>2. ASSUME NEW c \in Clients, Create(c) PROVE table'[id] = table[id]
  BY <1>2 DEF Create, CreateHit, CreateMiss, CreateInsert, CreateFails,
              CreateMany, UsedIds, Exists, TypeOK
<1>3. ASSUME NEW c \in Clients, NEW i \in Ids, GetById(c, i)
      PROVE  table'[id] = table[id]
  BY <1>3 DEF GetById
<1>4. ASSUME NEW c \in Clients, NEW x \in Contents, Update(c, x)
      PROVE  \/ table'[id] = table[id]
             \/ /\ ~table[id].deleted_at
                /\ table'[id].superseded_by = table[id].superseded_by
  BY <1>0, <1>4 DEF Update, Current, Live, TypeOK, Row
<1>5. ASSUME NEW c \in Clients, NEW i \in Ids, Forget(c, i)
      PROVE  \/ table'[id] = table[id]
             \/ /\ ~table[id].deleted_at
                /\ table'[id].superseded_by = table[id].superseded_by
  BY <1>0, <1>5 DEF Forget, Live, TypeOK, Row
<1>6. ASSUME NEW c \in Clients, NEW l \in Ids, NEW w \in Ids, Supersede(c, l, w)
      PROVE  \/ table'[id] = table[id]
             \/ ~table[id].deleted_at /\ table[id].superseded_by = None
  BY <1>0, <1>6 DEF Supersede, Live, TypeOK, Row
<1>7. ASSUME NEW c \in Clients, NEW i \in Ids, ClaimConsolidated(c, i)
      PROVE  /\ Core(table'[id]) = Core(table[id])
             /\ table'[id].superseded_by = table[id].superseded_by
  BY <1>0, <1>7 DEF ClaimConsolidated, TypeOK, Row, Core
<1>8. ASSUME NEW c \in Clients, PurgeExpired(c) \/ EraseAll(c)
      PROVE  table'[id] = table[id]
  BY <1>8 DEF PurgeExpired, EraseAll, DeleteRows
<1>. QED BY <1>1, <1>2, <1>3, <1>4, <1>5, <1>6, <1>7, <1>8 DEF Next, vars

\* A tombstone and a supersession are never undone or rewritten.
THEOREM MarksAreFinalThm == Spec => MarksAreFinal
<1>1. IInv /\ [Next]_vars =>
        [\A id \in Ids :
          table[id] # NoRow /\ table'[id] # NoRow =>
            /\ table[id].deleted_at => Core(table'[id]) = Core(table[id])
            /\ table[id].superseded_by # None =>
                  table'[id].superseded_by = table[id].superseded_by]_vars
  BY MarksStep
<1>. QED BY <1>1, InvInit, InvStep, PTL DEF Spec, MarksAreFinal

-----------------------------------------------------------------------------
\* Each record a client holds comes from a row its scope reaches: every path
\* that returns one compares the scopes, or inserts the caller's own.
IsolationInv == TypeOK /\ ScopeIsolation

\* Every step keeps the records within their clients' scopes.
LEMMA IsolationStep == IsolationInv /\ [Next]_vars => IsolationInv'
<1>. SUFFICES ASSUME IsolationInv, [Next]_vars PROVE ScopeIsolation'
  BY TypeStep DEF IsolationInv
<1>. USE DEF IsolationInv
<1>1. CASE UNCHANGED held
  BY <1>1 DEF ScopeIsolation
<1>2. ASSUME NEW c \in Clients, NEW id \in Ids, Live(id), Matches(c, id),
             held' = [held EXCEPT ![c] = [id |-> id, row |-> table[id]]]
      PROVE  ScopeIsolation'
  BY <1>2 DEF ScopeIsolation, Matches, TypeOK
<1>3. ASSUME NEW c \in Clients, NEW x \in Contents, CreateHit(c, x)
      PROVE  ScopeIsolation'
  BY <1>2, <1>3 DEF CreateHit, Duplicates
<1>4. ASSUME NEW c \in Clients, CreateInsert(c) PROVE ScopeIsolation'
  <2>1. PICK i \in Ids : held' = [held EXCEPT ![c] =
                              [id |-> i, row |-> NewRow(ScopeOf[c], pending[c])]]
    BY <1>4 DEF CreateInsert
  <2>2. /\ NewRow(ScopeOf[c], pending[c]).scope = ScopeOf[c]
        /\ ScopePredicates(ScopeOf[c], ScopeOf[c])
    BY DEF NewRow, ScopePredicates
  <2>. QED BY <2>1, <2>2 DEF ScopeIsolation, TypeOK
<1>5. ASSUME NEW c \in Clients, NEW id \in Ids, GetById(c, id) PROVE ScopeIsolation'
  <2>1. CASE Live(id) /\ Matches(c, id)
    BY <1>2, <1>5, <2>1 DEF GetById
  <2>2. CASE ~(Live(id) /\ Matches(c, id))
    BY <1>5, <2>2 DEF GetById, ScopeIsolation, TypeOK
  <2>. QED BY <2>1, <2>2
<1>6. ASSUME NEW c \in Clients, NEW x \in Contents, Update(c, x) PROVE ScopeIsolation'
  <2>1. /\ held[c] # NoRecord /\ DOMAIN held = Clients
        /\ \E i, r : held' = [held EXCEPT ![c] = [id |-> i, row |-> r]]
                    /\ r.scope = held[c].row.scope
    BY <1>6, UpdateFacts, PutFacts DEF TypeOK
  <2>2. /\ held'[c].row.scope = held[c].row.scope
        /\ \A d \in Clients \ {c} : held'[d] = held[d]
    BY <2>1
  <2>. QED BY <2>1, <2>2 DEF ScopeIsolation
<1>7. ASSUME NEW c \in Clients, Create(c) PROVE ScopeIsolation'
  <2>1. ASSUME NEW x \in Contents, CreateMiss(c, x) PROVE UNCHANGED held
    BY <2>1 DEF CreateMiss
  <2>2. ASSUME NEW x \in Contents, NEW y \in Contents, CreateMany(c, x, y)
        PROVE  UNCHANGED held
    BY <2>2 DEF CreateMany
  <2>3. CreateFails(c) => UNCHANGED held
    BY DEF CreateFails
  <2>. QED BY <1>1, <1>3, <1>4, <1>7, <2>1, <2>2, <2>3 DEF Create
<1>8. ASSUME NEW c \in Clients, NEW i \in Ids, NEW w \in Ids,
             Forget(c, i) \/ Supersede(c, i, w) \/ ClaimConsolidated(c, i)
      PROVE  UNCHANGED held
  BY <1>8 DEF Forget, Supersede, ClaimConsolidated
<1>9. ASSUME NEW c \in Clients, PurgeExpired(c) \/ EraseAll(c) PROVE UNCHANGED held
  BY <1>9 DEF PurgeExpired, EraseAll
<1>. QED BY <1>1, <1>5, <1>6, <1>7, <1>8, <1>9 DEF Next, vars

\* No client is ever handed a row outside the scope it calls with.
THEOREM ScopesAreIsolated == Spec => []ScopeIsolation
<1>1. Init => IsolationInv
  BY TypeInit DEF Init, IsolationInv, ScopeIsolation
<1>2. IsolationInv => ScopeIsolation
  BY DEF IsolationInv
<1>. QED BY <1>1, <1>2, IsolationStep, PTL DEF Spec

-----------------------------------------------------------------------------
\* What a pending create() has seen is never ahead of the table ...
SeenNotAhead ==
    \A c \in Clients, i \in Ids :
        /\ i \notin used => seen[c][i] = 0
        /\ table[i] # NoRow => seen[c][i] <= table[i].version

\* ... and a row that duplicates its content is not as it has seen it.
DuplicateOf(c, i) ==
    /\ Live(i) /\ table[i].scope = ScopeOf[c]
    /\ table[i].content_hash = Hash[pending[c]]
    /\ table[i].superseded_by = None

SelectAnswered ==
    \A c \in Clients : DedupOnWrite /\ pending[c] # NoContent =>
        \A i \in Ids : DuplicateOf(c, i) => seen[c][i] # table[i].version

SelectInv == IInv /\ SeenNotAhead /\ SelectAnswered

\* A change of the table as every writer makes it: fresh rows have version 1,
\* other rows keep what a version stands for or move to a higher one.
RowsStep ==
    /\ used \subseteq used'
    /\ \A i \in Ids : table'[i] # NoRow =>
          \/ table[i] = NoRow /\ i \in used' \ used /\ table'[i].version = 1
          \/ /\ table[i] # NoRow
             /\ \/ Core(table'[i]) = Core(table[i])
                \/ table'[i].version > table[i].version

\* Such a change leaves the waiting create() calls with what they have seen.
LEMMA WaitingStep ==
    ASSUME SelectInv, TypeOK', RowsStep, repository' = repository,
           \A c \in Clients : \/ pending'[c] = pending[c] /\ seen'[c] = seen[c]
                              \/ pending'[c] = NoContent /\ seen'[c] = Unseen
    PROVE  SeenNotAhead' /\ SelectAnswered'
<1>1. ASSUME NEW i \in Ids, table'[i] # NoRow
      PROVE  /\ table'[i] \in Row /\ table'[i].version \in Nat
             /\ table[i] # NoRow => table[i] \in Row /\ table[i].version \in Nat
  BY <1>1, TableAssumption DEF SelectInv, IInv, TypeOK, Row
<1>2. ASSUME NEW c \in Clients, NEW i \in Ids
      PROVE  seen[c][i] \in Nat /\ Unseen[i] = 0
  BY TableAssumption DEF SelectInv, IInv, TypeOK, Unseen
<1>3. ASSUME NEW c \in Clients, NEW i \in Ids, table'[i] # NoRow, seen'[c] = seen[c]
      PROVE  /\ seen'[c][i] <= table'[i].version
             /\ \/ seen'[c][i] # table'[i].version
                \/ table[i] # NoRow /\ Core(table'[i]) = Core(table[i])
  <2>1. CASE table[i] = NoRow
    BY <1>2, <1>3, <2>1 DEF RowsStep, SelectInv, SeenNotAhead
  <2>2. CASE table[i] # NoRow /\ Core(table'[i]) = Core(table[i])
    BY <1>3, <2>2 DEF SelectInv, SeenNotAhead, Core
  <2>3. CASE table[i] # NoRow /\ table'[i].version > table[i].version
    BY <1>1, <1>2, <1>3, <2>3 DEF SelectInv, SeenNotAhead
  <2>. QED BY <1>3, <2>1, <2>2, <2>3 DEF RowsStep
<1>4. SeenNotAhead'
  <2>. SUFFICES ASSUME NEW c \in Clients, NEW i \in Ids
                PROVE  /\ i \notin used' => seen'[c][i] = 0
                       /\ table'[i] # NoRow => seen'[c][i] <= table'[i].version
    BY DEF SeenNotAhead
  <2>1. CASE seen'[c] = seen[c]
    BY <1>3, <2>1 DEF SelectInv, SeenNotAhead, RowsStep
  <2>2. CASE seen'[c] = Unseen
    BY <1>1, <1>2, <2>2
  <2>. QED BY <2>1, <2>2
<1>5. SelectAnswered'
  <2>. SUFFICES ASSUME NEW c \in Clients, DedupOnWrite', pending'[c] # NoContent,
                       NEW i \in Ids, DuplicateOf(c, i)'
                PROVE  seen'[c][i] # table'[i].version
    BY DEF SelectAnswered
  <2>1. pending'[c] = pending[c] /\ seen'[c] = seen[c] /\ DedupOnWrite
    BY DEF DedupOnWrite
  <2>2. table'[i] # NoRow
    BY DEF DuplicateOf, Live, Exists
  <2>3. CASE table[i] # NoRow /\ Core(table'[i]) = Core(table[i])
    <3>1. DuplicateOf(c, i) /\ table'[i].version = table[i].version
      BY <2>1, <2>3 DEF DuplicateOf, Live, Exists, Core
    <3>. QED BY <2>1, <3>1 DEF SelectInv, SelectAnswered
  <2>. QED BY <1>3, <2>1, <2>2, <2>3
<1>. QED BY <1>4, <1>5

\* A step of any client keeps what is known of the waiting create() calls.
LEMMA SelectStep == SelectInv /\ [Next]_vars => SelectInv'
<1>. SUFFICES ASSUME SelectInv, [Next]_vars PROVE SeenNotAhead' /\ SelectAnswered'
  BY InvStep DEF SelectInv
<1>a. TypeOK /\ TypeOK' /\ UsedIds /\ repository' = repository
  BY TypeStep DEF SelectInv, IInv, Next, vars
<1>0. CASE UNCHANGED vars
  BY <1>0 DEF vars, SelectInv, SeenNotAhead, SelectAnswered, DuplicateOf, Live,
              Exists, DedupOnWrite
\* Calls that leave pending and seen alone, and those that end a create().
<1>1. ASSUME RowsStep, UNCHANGED <<pending, seen>> PROVE SeenNotAhead' /\ SelectAnswered'
  BY <1>1, <1>a, WaitingStep
<1>2. ASSUME RowsStep, NEW c \in Clients,
             pending' = [pending EXCEPT ![c] = NoContent],
             seen' = [seen EXCEPT ![c] = Unseen]
      PROVE  SeenNotAhead' /\ SelectAnswered'
  <2>1. \A d \in Clients : \/ pending'[d] = pending[d] /\ seen'[d] = seen[d]
                           \/ pending'[d] = NoContent /\ seen'[d] = Unseen
    BY <1>2, <1>a DEF TypeOK
  <2>. QED BY <1>2, <1>a, <2>1, WaitingStep
<1>3. ASSUME table' = table, used' = used PROVE RowsStep
  BY <1>3 DEF RowsStep
<1>4. ASSUME NEW c \in Clients, NEW x \in Contents, CreateMiss(c, x)
      PROVE  SeenNotAhead' /\ SelectAnswered'
  <2>1. /\ pending' = [pending EXCEPT ![c] = x] /\ seen' = [seen EXCEPT ![c] = Versions]
        /\ table' = table /\ used' = used
        /\ DedupOnWrite => Duplicates(c, x) = {}
    BY <1>4 DEF CreateMiss
  <2>2. ASSUME NEW i \in Ids
        PROVE  /\ i \notin used => Versions[i] = 0
               /\ table[i] # NoRow => /\ Versions[i] = table[i].version
                                      /\ table[i].version \in Nat
    BY <1>a, TableAssumption DEF Versions, UsedIds, Exists, TypeOK, Row
  <2>3. SeenNotAhead'
    BY <1>a, <2>1, <2>2 DEF TypeOK, SelectInv, SeenNotAhead
  <2>4. SelectAnswered'
    <3>. SUFFICES ASSUME NEW d \in Clients, DedupOnWrite', pending'[d] # NoContent,
                         NEW i \in Ids, DuplicateOf(d, i)'
                  PROVE  seen'[d][i] # table'[i].version
      BY DEF SelectAnswered
    <3>1. CASE d = c
      <4>1. pending'[c] = x /\ DedupOnWrite
        BY <1>a, <2>1 DEF TypeOK, DedupOnWrite
      <4>2. /\ Live(i) /\ table[i].scope = ScopeOf[c]
            /\ table[i].content_hash = Hash[x] /\ table[i].superseded_by = None
        BY <2>1, <3>1, <4>1 DEF DuplicateOf, Live, Exists
      <4>3. i \in Duplicates(c, x)
        BY <4>2 DEF Duplicates, Matches, ScopePredicates, Live, Exists
      <4>. QED BY <2>1, <4>1, <4>3
    <3>2. CASE d # c
      <4>1. pending'[d] = pending[d] /\ seen'[d] = seen[d] /\ DedupOnWrite
        BY <1>a, <2>1, <3>2 DEF TypeOK, DedupOnWrite
      <4>2. DuplicateOf(d, i)
        BY <2>1, <4>1 DEF DuplicateOf, Live, Exists
      <4>. QED BY <2>1, <4>1, <4>2 DEF SelectInv, SelectAnswered
    <3>. QED BY <3>1, <3>2
  <2>. QED BY <2>3, <2>4
<1>5. ASSUME NEW c \in Clients, CreateInsert(c) PROVE SeenNotAhead' /\ SelectAnswered'
  <2>1. PICK i \in Ids \ used :
           /\ table' = [table EXCEPT ![i] = NewRow(ScopeOf[c], pending[c])]
           /\ used' = used \cup {i}
    BY <1>5 DEF CreateInsert
  <2>2. NewRow(ScopeOf[c], pending[c]).version = 1
    BY DEF NewRow
  <2>3. RowsStep
    BY <1>a, <2>1, <2>2 DEF RowsStep, TypeOK, UsedIds, Exists
  <2>. QED BY <1>2, <1>5, <2>3 DEF CreateInsert
<1>6. ASSUME NEW c \in Clients, NEW x \in Contents, NEW y \in Contents,
             CreateMany(c, x, y)
      PROVE  SeenNotAhead' /\ SelectAnswered'
  <2>. DEFINE row == NewRow(ScopeOf[c], x)
              other == NewRow(ScopeOf[c], y)
  <2>1. row.version = 1 /\ other.version = 1
    BY DEF NewRow
  <2>a. PICK i, j \in Ids \ used :
           /\ table' = [table EXCEPT ![i] = row, ![j] = other]
           /\ used' = used \cup {i, j}
    BY <1>6 DEF CreateMany
  <2>. HIDE DEF row, other
  <2>2. RowsStep
    BY <1>a, <2>1, <2>a DEF RowsStep, TypeOK, UsedIds, Exists
  <2>. QED BY <1>1, <1>6, <2>2 DEF CreateMany
<1>7. ASSUME NEW c \in Clients, Create(c) PROVE SeenNotAhead' /\ SelectAnswered'
  <2>1. ASSUME NEW x \in Contents, CreateHit(c, x)
        PROVE  SeenNotAhead' /\ SelectAnswered'
    BY <1>1, <1>3, <2>1 DEF CreateHit
  <2>2. ASSUME CreateFails(c) PROVE SeenNotAhead' /\ SelectAnswered'
    BY <1>2, <1>3, <2>2 DEF CreateFails
  <2>. QED BY <1>4, <1>5, <1>6, <1>7, <2>1, <2>2 DEF Create
<1>8. ASSUME NEW c \in Clients, NEW id \in Ids, GetById(c, id)
      PROVE  SeenNotAhead' /\ SelectAnswered'
  BY <1>1, <1>3, <1>8 DEF GetById
<1>9. ASSUME NEW c \in Clients, NEW x \in Contents, Update(c, x)
      PROVE  SeenNotAhead' /\ SelectAnswered'
  <2>. DEFINE id == held[c].id
              v == held[c].row.version + 1
              row == Put(table[id], x, v)
  <2>1. /\ id \in Ids /\ table[id] # NoRow /\ table[id] \in Row
        /\ table[id].version = held[c].row.version /\ v \in 1..MaxVersion
        /\ table' = [table EXCEPT ![id] = row]
        /\ UNCHANGED <<used, pending, seen>>
    BY <1>9, <1>a, UpdateFacts
  <2>2. row.version = v /\ v > table[id].version
    BY <2>1, PutFacts, RowFields
  <2>. HIDE DEF id, row
  <2>3. table'[id].version > table[id].version /\ \A i \in Ids \ {id} : table'[i] = table[i]
    BY <1>a, <2>1, <2>2 DEF TypeOK
  <2>4. RowsStep
    BY <2>1, <2>3 DEF RowsStep
  <2>. QED BY <1>1, <2>1, <2>4
<1>10. ASSUME NEW c \in Clients, NEW id \in Ids, NEW w \in Ids,
              Forget(c, id) \/ Supersede(c, id, w)
       PROVE  SeenNotAhead' /\ SelectAnswered'
  <2>1. table[id] # NoRow /\ table[id] \in Row /\ table[id].version \in Nat
    BY <1>10, <1>a, TableAssumption DEF Forget, Supersede, Live, Exists, TypeOK, Row
  <2>2. /\ table'[id].version = table[id].version + 1
        /\ \A i \in Ids \ {id} : table'[i] = table[i]
    BY <1>10, <1>a, <2>1 DEF Forget, Supersede, TypeOK, Row
  <2>3. RowsStep
    BY <1>10, <2>1, <2>2 DEF Forget, Supersede, RowsStep
  <2>. QED BY <1>1, <1>10, <2>3 DEF Forget, Supersede
<1>11. ASSUME NEW c \in Clients, NEW id \in Ids, ClaimConsolidated(c, id)
       PROVE  SeenNotAhead' /\ SelectAnswered'
  <2>1. table[id] # NoRow /\ table[id] \in Row
    BY <1>11, <1>a DEF ClaimConsolidated, Matches, Exists, TypeOK
  <2>2. Core(table'[id]) = Core(table[id]) /\ \A i \in Ids \ {id} : table'[i] = table[i]
    BY <1>11, <1>a, <2>1 DEF ClaimConsolidated, TypeOK, Row, Core
  <2>3. RowsStep
    BY <1>11, <2>1, <2>2 DEF ClaimConsolidated, RowsStep
  <2>. QED BY <1>1, <1>11, <2>3 DEF ClaimConsolidated
<1>12. ASSUME NEW c \in Clients, PurgeExpired(c) \/ EraseAll(c)
       PROVE  SeenNotAhead' /\ SelectAnswered'
  <2>1. RowsStep
    BY <1>12 DEF PurgeExpired, EraseAll, DeleteRows, RowsStep
  <2>. QED BY <1>1, <1>12, <2>1 DEF PurgeExpired, EraseAll
<1>. QED BY <1>0, <1>7, <1>8, <1>9, <1>10, <1>11, <1>12 DEF Next

\* Deduplication fails only by a race: what create() inserts duplicates no live
\* fact of its scope that was there, with that content, when it looked.
THEOREM DuplicatesAreRaced == Spec => DuplicateOnlyIfRaced
<1>1. Init => SelectInv
  BY InvInit DEF Init, SelectInv, SeenNotAhead, SelectAnswered, Unseen
<1>2. SelectInv /\ [Next]_vars =>
        [\A c \in Clients :
          DedupOnWrite /\ pending[c] # NoContent /\ table' # table
            /\ pending'[c] = NoContent
          => \A i \in Ids :
                /\ Live(i) /\ table[i].scope = ScopeOf[c]
                /\ table[i].content_hash = Hash[pending[c]]
                /\ table[i].superseded_by = None
                => seen[c][i] # table[i].version]_vars
  BY DEF SelectInv, SelectAnswered, DuplicateOf
<1>. QED BY <1>1, <1>2, SelectStep, PTL DEF Spec, DuplicateOnlyIfRaced

-----------------------------------------------------------------------------
\* The refinement of RowStore.  The step that needs the invariant is update():
\* its WHERE clause compares versions, RowStore!Replace compares values.

\* The ids of the store are those of the rows of the table.
LEMMA RowsDef ==
    /\ DOMAIN Rows = {i \in Ids : table[i] # NoRow}
    /\ \A i \in Ids : table[i] # NoRow => Rows[i] = Value(table[i])
BY DEF Rows, Exists

\* A view is a function of the clients.
LEMMA ViewDef ==
    /\ DOMAIN View = Clients
    /\ \A c \in Clients :
          View[c] = IF held[c] = NoRecord THEN {}
                    ELSE {[id |-> held[c].id, value |-> Value(held[c].row)]}
BY DEF View

\* What a row of the table shows of itself is a value of the store.
LEMMA ValueType ==
    ASSUME NEW r \in Row
    PROVE  Value(r) \in Store!Value
BY DEF Value, Store!Value, Row

\* The fields of a value, and what replacing one of them does.
LEMMA ValueFields ==
    ASSUME NEW r
    PROVE  /\ Value(r).scope = r.scope /\ Value(r).content = r.content
           /\ Value(r).deleted = r.deleted_at
           /\ Value(r).superseded_by = r.superseded_by
BY DEF Value

LEMMA ValueExcept ==
    ASSUME NEW r, NEW y
    PROVE  /\ [Value(r) EXCEPT !.content = y] =
                [scope |-> r.scope, content |-> y, deleted |-> r.deleted_at,
                 superseded_by |-> r.superseded_by]
           /\ [Value(r) EXCEPT !.deleted = y] =
                [scope |-> r.scope, content |-> r.content, deleted |-> y,
                 superseded_by |-> r.superseded_by]
           /\ [Value(r) EXCEPT !.superseded_by = y] =
                [scope |-> r.scope, content |-> r.content,
                 deleted |-> r.deleted_at, superseded_by |-> y]
BY DEF Value

\* Rows that agree on what a version covers have one value.
LEMMA CoreValue ==
    ASSUME NEW r, NEW s, Core(r) = Core(s)
    PROVE  Value(r) = Value(s)
BY DEF Core, Value

\* A client reaches in the store the rows its scope matches in the table.
LEMMA ReachDef ==
    ASSUME TypeOK, NEW c \in Clients, NEW i \in Ids
    PROVE  Matches(c, i) => Store!Reaches(c, i)
<1>. SUFFICES ASSUME Matches(c, i) PROVE Store!Reaches(c, i)
  OBVIOUS
<1>1. table[i] \in Row /\ table[i].scope \in MemoryScope
  BY DEF TypeOK, Matches, Exists, Row
<1>2. i \in DOMAIN Rows /\ Rows[i].scope = table[i].scope
  BY RowsDef, ValueFields DEF Matches, Exists
<1>3. <<c, table[i].scope>> \in Reach
  BY <1>1 DEF Matches, Reach
<1>. QED BY <1>2, <1>3 DEF Store!Reaches

\* A live row of the table is live in the store.
LEMMA LiveDef ==
    ASSUME NEW i \in Ids, Live(i)
    PROVE  Store!Live(i)
BY RowsDef, ValueFields DEF Live, Exists, Store!Live

\* Steps that change no value and no record are invisible in the store.
LEMMA SameRows ==
    ASSUME \A i \in Ids : \/ table'[i] = table[i]
                          \/ /\ table[i] # NoRow /\ table'[i] # NoRow
                             /\ Value(table'[i]) = Value(table[i])
    PROVE  Rows' = Rows
BY DEF Rows, Exists

LEMMA SameView == held' = held => View' = View
BY DEF View

\* What one record more does to the views.
LEMMA ViewStep ==
    ASSUME NEW c \in Clients, NEW i \in Ids, NEW r \in Row,
           held' = [held EXCEPT ![c] = [id |-> i, row |-> r]], TypeOK
    PROVE  View' = [View EXCEPT ![c] = Store!Seen(i, Value(r))]
<1>1. [id |-> i, row |-> r] \in Record
  BY DEF Record
<1>2. [id |-> i, row |-> r] # NoRecord
  BY <1>1, SentinelAssumption
<1>3. held'[c] = [id |-> i, row |-> r] /\ \A d \in Clients \ {c} : held'[d] = held[d]
  BY DEF TypeOK
<1>4. Store!Seen(i, Value(r)) = {[id |-> i, value |-> Value(r)]}
  BY DEF Store!Seen
<1>5. View' = [d \in Clients |-> IF d = c THEN Store!Seen(i, Value(r)) ELSE View[d]]
  BY <1>2, <1>3, <1>4 DEF View
<1>. QED BY <1>5, ViewDef

-----------------------------------------------------------------------------
\* The hit of create() and get_by_id() read.
LEMMA ReadStep ==
    ASSUME TypeOK, NEW c \in Clients, NEW i \in Ids, Live(i), Matches(c, i),
           held' = [held EXCEPT ![c] = [id |-> i, row |-> table[i]]],
           UNCHANGED <<table, used>>
    PROVE  Store!Read(c)
<1>1. table[i] \in Row
  BY DEF TypeOK, Live, Exists
<1>2. View' = [View EXCEPT ![c] = Store!Seen(i, Value(table[i]))]
  BY <1>1, ViewStep
<1>3. Rows[i] = Value(table[i]) /\ Store!Live(i) /\ Store!Reaches(c, i)
  BY RowsDef, LiveDef, ReachDef DEF Live, Exists
<1>4. Rows' = Rows
  BY SameRows
<1>. QED BY <1>2, <1>3, <1>4 DEF Store!Read

\* What create() inserts is fresh in the store.
LEMMA NewRowFresh ==
    ASSUME NEW c \in Clients, NEW x \in Contents
    PROVE  Store!Fresh(c, Value(NewRow(ScopeOf[c], x)))
<1>1. Value(NewRow(ScopeOf[c], x)) \in Store!Value
  BY NewRowType, ValueType
<1>2. <<c, ScopeOf[c]>> \in Reach
  BY TableAssumption DEF Reach, ScopePredicates
<1>. QED BY <1>1, <1>2 DEF Store!Fresh, Value, NewRow

\* The INSERTs of create() and create_many().
LEMMA InsertStep ==
    ASSUME TypeOK, UsedIds, NEW c \in Clients, NEW S \in SUBSET (Ids \ used),
           \A i \in Ids \ S : table'[i] = table[i],
           \A i \in S : table'[i] # NoRow /\ Store!Fresh(c, Value(table'[i])),
           used' = used \cup S,
           \/ View' = View
           \/ \E i \in S : View' = [View EXCEPT ![c] = Store!Seen(i, Value(table'[i]))]
    PROVE  Store!Insert(c)
<1>1. \A i \in S : table[i] = NoRow
  BY DEF UsedIds, Exists
<1>2. /\ DOMAIN Rows' = {i \in Ids : table'[i] # NoRow}
      /\ \A i \in Ids : table'[i] # NoRow => Rows'[i] = Value(table'[i])
  BY DEF Rows, Exists
<1>3. DOMAIN Rows' = DOMAIN Rows \cup S
  BY <1>1, <1>2, RowsDef
<1>4. \A i \in DOMAIN Rows : Rows'[i] = Rows[i]
  BY <1>1, <1>2, RowsDef
<1>5. \A i \in S : Rows'[i] = Value(table'[i])
  BY <1>2
<1>6. \A i \in S : Store!Fresh(c, Rows'[i])
  BY <1>5
<1>7. \/ View' = View
      \/ \E i \in S : View' = [View EXCEPT ![c] = Store!Seen(i, Rows'[i])]
  BY <1>5
<1>. QED BY <1>3, <1>4, <1>6, <1>7 DEF Store!Insert

\* The DELETEs of purge_expired() and erase_all().
LEMMA RemoveStep ==
    ASSUME TypeOK, NEW c \in Clients, NEW S \in SUBSET Ids,
           \A i \in S : Matches(c, i),
           DeleteRows(S), UNCHANGED <<used, held>>
    PROVE  Store!Remove(c)
<1>1. \A i \in S : Store!Reaches(c, i)
  BY ReachDef
<1>2. Rows' = [i \in DOMAIN Rows \ S |-> Rows[i]]
  BY DEF DeleteRows, Rows, Exists
<1>. QED BY <1>1, <1>2, SameView DEF Store!Remove

\* One row of the table changed to another of the given value.
LEMMA OneRow ==
    ASSUME TypeOK, NEW i \in Ids, table[i] # NoRow, NEW r \in Row,
           table' = [table EXCEPT ![i] = r]
    PROVE  Rows' = [Rows EXCEPT ![i] = Value(r)]
<1>1. table'[i] = r /\ r # NoRow /\ \A j \in Ids \ {i} : table'[j] = table[j]
  BY SentinelAssumption DEF TypeOK
<1>2. Rows' = [j \in {k \in Ids : table[k] # NoRow} |->
                    IF j = i THEN Value(r) ELSE Value(table[j])]
  BY <1>1 DEF Rows, Exists
<1>3. Rows = [j \in {k \in Ids : table[k] # NoRow} |-> Value(table[j])]
  BY DEF Rows, Exists
<1>. QED BY <1>2, <1>3

-----------------------------------------------------------------------------
\* update() replaces: by VersionIdentifiesRow the row whose version it found is
\* the row its client has seen.
LEMMA ReplaceStep ==
    ASSUME IInv, NEW c \in Clients, NEW x \in Contents, Update(c, x)
    PROVE  Store!Replace(c)
<1>. DEFINE id == held[c].id
            v == held[c].row.version + 1
            old == table[id]
            new == [Value(old) EXCEPT !.content = x]
            seenNow == [id |-> id, value |-> Value(held[c].row)]
<1>1. /\ held[c] \in Record /\ held[c] # NoRecord /\ id \in Ids
      /\ held[c].row \in Row /\ old \in Row /\ old # NoRow
      /\ Live(id) /\ Matches(c, id) /\ old.version = held[c].row.version
      /\ v \in 1..MaxVersion
      /\ table' = [table EXCEPT ![id] = Put(old, x, v)]
      /\ held' = [held EXCEPT ![c] = [id |-> id, row |-> Put(held[c].row, x, v)]]
      /\ used' = used /\ TypeOK
  BY UpdateFacts DEF IInv
<1>2. Core(old) = Core(held[c].row)
  BY <1>1 DEF IInv, VersionIdentifiesRow, Exists
<1>3. Value(old) = Value(held[c].row)
  BY <1>2, CoreValue
<1>4. View[c] = {seenNow} /\ Rows[id] = Value(old) /\ id \in DOMAIN Rows
  BY <1>1, ViewDef, RowsDef
<1>5. Store!Live(id) /\ Store!Reaches(c, id)
  BY <1>1, LiveDef, ReachDef
<1>6. v \in 1..MaxVersion
  BY <1>1
<1>. HIDE DEF v
<1>7. ASSUME NEW r \in Row
      PROVE  Put(r, x, v) \in Row /\ Value(Put(r, x, v)) = [Value(r) EXCEPT !.content = x]
  <2>1. /\ Put(r, x, v) \in Row /\ Put(r, x, v).content = x
        /\ Put(r, x, v).scope = r.scope /\ Put(r, x, v).deleted_at = r.deleted_at
        /\ Put(r, x, v).superseded_by = r.superseded_by
    BY <1>6, PutFacts
  <2>2. Value(Put(r, x, v)) = [scope |-> r.scope, content |-> x, deleted |-> r.deleted_at,
                               superseded_by |-> r.superseded_by]
    BY <2>1 DEF Value
  <2>. QED BY <2>1, <2>2, ValueExcept
<1>8. View' = [View EXCEPT ![c] = Store!Seen(id, new)]
  <2>. DEFINE s == Put(held[c].row, x, v)
  <2>1. s \in Row /\ Value(s) = new
    <3>1. held[c].row \in Row
      BY <1>1
    <3>2. s \in Row /\ Value(s) = [Value(held[c].row) EXCEPT !.content = x]
      BY <1>7, <3>1
    <3>3. Value(s) = new
      BY <1>3, <3>2, Zenon
    <3>. QED BY <3>2, <3>3
  <2>2. held' = [held EXCEPT ![c] = [id |-> id, row |-> s]]
    BY <1>1
  <2>3. id \in Ids /\ TypeOK
    BY <1>1
  <2>. HIDE DEF id, new, s
  <2>4. View' = [View EXCEPT ![c] = Store!Seen(id, Value(s))]
    BY <2>1, <2>2, <2>3, ViewStep
  <2>. QED BY <2>1, <2>4
<1>9. Rows' = [Rows EXCEPT ![id] = new]
  <2>. DEFINE s == Put(old, x, v)
  <2>1. s \in Row /\ Value(s) = new /\ table' = [table EXCEPT ![id] = s]
    <3>1. old \in Row
      BY <1>1
    <3>2. s \in Row /\ Value(s) = [Value(old) EXCEPT !.content = x]
      BY <1>7, <3>1
    <3>. QED BY <1>1, <3>2
  <2>. HIDE DEF id, new, s
  <2>. QED BY <1>1, <2>1, OneRow
<1>10. seenNow \in View[c] /\ seenNow.id = id /\ seenNow.value = Value(old)
  BY <1>3, <1>4
<1>. HIDE DEF id, old, new, seenNow
<1>11. [seenNow.value EXCEPT !.content = x] = new
  BY <1>10 DEF new
<1>. QED BY <1>1, <1>4, <1>5, <1>8, <1>9, <1>10, <1>11 DEF Store!Replace

\* forget() and supersede() mark a live row in reach.
LEMMA ForgetStep ==
    ASSUME TypeOK, NEW c \in Clients, NEW id \in Ids, Forget(c, id)
    PROVE  Store!Forget(c)
<1>. DEFINE r == [table[id] EXCEPT !.deleted_at = TRUE, !.version = @ + 1]
<1>1. table[id] \in Row /\ table[id] # NoRow
  BY DEF Forget, Live, Exists, TypeOK
<1>2. r \in Row /\ Value(r) = [Value(table[id]) EXCEPT !.deleted = TRUE]
  <2>0. table[id].version + 1 \in 1..MaxVersion
    BY <1>1, TableAssumption DEF Forget, Row
  <2>1. r \in Row
    BY <1>1, <2>0 DEF Row
  <2>2. Value(r) = [scope |-> table[id].scope, content |-> table[id].content, deleted |-> TRUE,
                       superseded_by |-> table[id].superseded_by]
    BY <1>1 DEF Value, Row
  <2>. QED BY <2>1, <2>2, ValueExcept
<1>3. table' = [table EXCEPT ![id] = r] /\ held' = held /\ used' = used
  BY DEF Forget
<1>. HIDE DEF r
<1>4. Rows' = [Rows EXCEPT ![id] = [Rows[id] EXCEPT !.deleted = TRUE]]
  BY <1>1, <1>2, <1>3, OneRow, RowsDef
<1>5. Store!Live(id) /\ Store!Reaches(c, id)
  BY LiveDef, ReachDef DEF Forget
<1>. QED BY <1>3, <1>4, <1>5, SameView DEF Store!Forget

LEMMA SupersedeStep ==
    ASSUME TypeOK, NEW c \in Clients, NEW loser \in Ids, NEW winner \in Ids,
           Supersede(c, loser, winner)
    PROVE  Store!Supersede(c)
<1>. DEFINE r == [table[loser] EXCEPT !.superseded_by = winner, !.version = @ + 1]
<1>1. table[loser] \in Row /\ table[loser] # NoRow /\ table[loser].superseded_by = None
  BY DEF Supersede, Live, Exists, TypeOK
<1>2. r \in Row /\ Value(r) = [Value(table[loser]) EXCEPT !.superseded_by = winner]
  <2>0. table[loser].version + 1 \in 1..MaxVersion
    BY <1>1, TableAssumption DEF Supersede, Row
  <2>1. r \in Row
    BY <1>1, <2>0 DEF Row
  <2>2. Value(r) = [scope |-> table[loser].scope, content |-> table[loser].content,
                       deleted |-> table[loser].deleted_at, superseded_by |-> winner]
    BY <1>1 DEF Value, Row
  <2>. QED BY <2>1, <2>2, ValueExcept
<1>3. table' = [table EXCEPT ![loser] = r] /\ held' = held /\ used' = used
  BY DEF Supersede
<1>. HIDE DEF r
<1>4. Rows' = [Rows EXCEPT ![loser] = [Rows[loser] EXCEPT !.superseded_by = winner]]
  BY <1>1, <1>2, <1>3, OneRow, RowsDef
<1>5. /\ Store!Live(loser) /\ Store!Reaches(c, loser)
      /\ Rows[loser].superseded_by = None
  BY <1>1, LiveDef, ReachDef, RowsDef, ValueFields DEF Supersede
<1>. QED BY <1>3, <1>4, <1>5, SameView DEF Store!Supersede

\* Every transaction of create(): a read, an insert, or nothing.
LEMMA CreateStep ==
    ASSUME IInv, NEW c \in Clients, Create(c)
    PROVE  Store!Read(c) \/ Store!Insert(c) \/ UNCHANGED Store!vars
<1>. TypeOK /\ UsedIds
  BY DEF IInv
<1>1. ASSUME NEW x \in Contents, CreateHit(c, x) PROVE Store!Read(c)
  BY <1>1, ReadStep DEF CreateHit, Duplicates
<1>2. ASSUME UNCHANGED <<table, used, held>> PROVE UNCHANGED Store!vars
  BY <1>2, SameRows, SameView DEF Store!vars
<1>3. ASSUME CreateInsert(c) PROVE Store!Insert(c)
  <2>. DEFINE row == NewRow(ScopeOf[c], pending[c])
  <2>1. PICK i \in Ids \ used :
           /\ table' = [table EXCEPT ![i] = row]
           /\ used' = used \cup {i}
           /\ held' = [held EXCEPT ![c] = [id |-> i, row |-> row]]
    BY <1>3 DEF CreateInsert
  <2>2. row \in Row /\ row # NoRow /\ Store!Fresh(c, Value(row))
    BY <1>3, NewRowType, NewRowFresh, SentinelAssumption DEF CreateInsert, Idle, TypeOK
  <2>. HIDE DEF row
  <2>3. /\ \A j \in Ids \ {i} : table'[j] = table[j]
        /\ table'[i] = row
    BY <2>1 DEF TypeOK
  <2>3a. View' = [View EXCEPT ![c] = Store!Seen(i, Value(row))]
    BY <2>1, <2>2, ViewStep
  <2>4. View' = [View EXCEPT ![c] = Store!Seen(i, Value(table'[i]))]
    BY <2>3, <2>3a
  <2>5. {i} \in SUBSET (Ids \ used)
    BY <2>1
  <2>. QED BY <2>1, <2>2, <2>3, <2>4, <2>5, InsertStep
<1>4. ASSUME NEW x \in Contents, NEW y \in Contents, CreateMany(c, x, y)
      PROVE  Store!Insert(c)
  <2>. DEFINE row == NewRow(ScopeOf[c], x)
              other == NewRow(ScopeOf[c], y)
  <2>1. PICK i, j \in Ids \ used :
           /\ i # j
           /\ table' = [table EXCEPT ![i] = row, ![j] = other]
           /\ used' = used \cup {i, j}
    BY <1>4 DEF CreateMany
  <2>2. /\ row # NoRow /\ Store!Fresh(c, Value(row))
        /\ other # NoRow /\ Store!Fresh(c, Value(other))
    BY NewRowType, NewRowFresh, SentinelAssumption
  <2>. HIDE DEF row, other
  <2>3. /\ \A k \in Ids \ {i, j} : table'[k] = table[k]
        /\ table'[i] = row /\ table'[j] = other
    BY <2>1 DEF TypeOK
  <2>4. \A k \in {i, j} : table'[k] # NoRow /\ Store!Fresh(c, Value(table'[k]))
    BY <2>2, <2>3
  <2>5. {i, j} \in SUBSET (Ids \ used)
    BY <2>1
  <2>6. View' = View
    BY <1>4, SameView DEF CreateMany
  <2>. QED BY <2>1, <2>3, <2>4, <2>5, <2>6, InsertStep
<1>. QED BY <1>1, <1>2, <1>3, <1>4 DEF Create, CreateMiss, CreateFails

\* Every step of the table is a step of the store, or invisible in it.
LEMMA StoreStep == IInv /\ [Next]_vars => [Store!Next]_Store!vars
<1>. SUFFICES ASSUME IInv, [Next]_vars PROVE [Store!Next]_Store!vars
  OBVIOUS
<1>. TypeOK
  BY DEF IInv
<1>0. ASSUME \A i \in Ids : \/ table'[i] = table[i]
                            \/ /\ table[i] # NoRow /\ table'[i] # NoRow
                               /\ Value(table'[i]) = Value(table[i]),
             UNCHANGED <<used, held>>
      PROVE  UNCHANGED Store!vars
  BY <1>0, SameRows, SameView DEF Store!vars
<1>1. CASE UNCHANGED vars
  BY <1>0, <1>1 DEF vars
<1>2. ASSUME NEW c \in Clients, Create(c) PROVE [Store!Next]_Store!vars
  BY <1>2, CreateStep DEF Store!Next
<1>3. ASSUME NEW c \in Clients, NEW id \in Ids, GetById(c, id) PROVE Store!Next
  <2>1. CASE Live(id) /\ Matches(c, id)
    BY <1>3, <2>1, ReadStep DEF GetById, Store!Next
  <2>2. CASE ~(Live(id) /\ Matches(c, id))
    <3>1. held' = [held EXCEPT ![c] = NoRecord] /\ UNCHANGED <<table, used>>
      BY <1>3, <2>2 DEF GetById
    <3>2. View' = [d \in Clients |-> IF d = c THEN {} ELSE View[d]]
      BY <3>1 DEF View, TypeOK
    <3>3. View' = [View EXCEPT ![c] = {}]
      BY <3>2, ViewDef
    <3>. QED BY <3>1, <3>3, SameRows DEF Store!Read, Store!Next
  <2>. QED BY <2>1, <2>2
<1>4. ASSUME NEW c \in Clients, NEW x \in Contents, Update(c, x) PROVE Store!Next
  BY <1>4, ReplaceStep DEF Store!Next
<1>5. ASSUME NEW c \in Clients, NEW id \in Ids, Forget(c, id) PROVE Store!Next
  BY <1>5, ForgetStep DEF Store!Next
<1>6. ASSUME NEW c \in Clients, NEW l \in Ids, NEW w \in Ids, Supersede(c, l, w)
      PROVE  Store!Next
  BY <1>6, SupersedeStep DEF Store!Next
<1>7. ASSUME NEW c \in Clients, NEW id \in Ids, ClaimConsolidated(c, id)
      PROVE  UNCHANGED Store!vars
  <2>. DEFINE r == [table[id] EXCEPT !.consolidated_at = TRUE]
  <2>1. table[id] \in Row /\ table[id] # NoRow
    BY <1>7 DEF ClaimConsolidated, Matches, Exists, TypeOK
  <2>2. r \in Row /\ Value(r) = Value(table[id]) /\ r # NoRow
    BY <2>1, SentinelAssumption DEF Row, Value
  <2>3. table' = [table EXCEPT ![id] = r] /\ UNCHANGED <<used, held>>
    BY <1>7 DEF ClaimConsolidated
  <2>. HIDE DEF r
  <2>. QED BY <1>0, <2>1, <2>2, <2>3 DEF TypeOK
<1>8. ASSUME NEW c \in Clients, PurgeExpired(c) \/ EraseAll(c) PROVE Store!Next
  <2>1. PICK S \in SUBSET Ids : DeleteRows(S) /\ \A i \in S : Matches(c, i)
    BY <1>8 DEF PurgeExpired, EraseAll
  <2>2. UNCHANGED <<used, held>>
    BY <1>8 DEF PurgeExpired, EraseAll
  <2>3. Store!Remove(c)
    BY <2>1, <2>2, RemoveStep
  <2>. QED BY <2>3 DEF Store!Next
<1>. QED BY <1>1, <1>2, <1>3, <1>4, <1>5, <1>6, <1>7, <1>8 DEF Next

\* The empty table is the empty store.
LEMMA StoreInit == Init => Store!Init
<1>. SUFFICES ASSUME Init PROVE Store!Init
  OBVIOUS
<1>1. Rows = [i \in {} |-> {}]
  BY DEF Init, Rows, Exists
<1>2. View = [c \in Clients |-> {}]
  BY DEF Init, View
<1>. QED BY <1>1, <1>2 DEF Init, Store!Init

\* A repository is a compare-and-set store: what update() checks is a version,
\* and what it thereby promises is that it replaces the row its client saw.
THEOREM Refinement == Spec => ImplementsRowStore
BY StoreInit, InvInit, InvStep, StoreStep, PTL DEF Spec, ImplementsRowStore, Store!Spec
=============================================================================
