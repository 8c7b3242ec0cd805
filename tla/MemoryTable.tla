---------------------------- MODULE MemoryTable ----------------------------
(***************************************************************************)
(* One repository table (BaseRepository and SemanticFactRepository) and    *)
(* the clients that call it.  Every `with pool.get_connection()` block of  *)
(* the code is one committed transaction, hence one action here; a call    *)
(* that opens two blocks (create) is two actions between which the other   *)
(* clients run.  A client keeps the model instance a call returned and     *)
(* hands it back to update(), which is where the optimistic lock bites.    *)
(*                                                                         *)
(* `content` stands for what update() writes as a whole: content, metadata,*)
(* embedding and confidence; Hash gives the class of contents that         *)
(* _content_hash does not tell apart (case, whitespace).                   *)
(***************************************************************************)
EXTENDS Scope, Naturals, FiniteSets

CONSTANTS Clients, ScopeOf,        \* the scope each client calls with
          Ids,                     \* the UUIDs available to this instance
          Contents, Hashes, Hash,
          Repositories,            \* the class attributes of the repositories
          MaxVersion,              \* bound on a row's version
          NoRow, NoRecord, NoContent

ASSUME TableAssumption ==
    /\ ScopeOf \in [Clients -> MemoryScope]
    /\ Hash \in [Contents -> Hashes]
    /\ Repositories \subseteq [DEDUP_ON_WRITE : BOOLEAN, HAS_SUPERSESSION : BOOLEAN,
                                HAS_CONSOLIDATED_AT : BOOLEAN]
    /\ MaxVersion \in Nat \ {0}
    /\ NoContent \notin Contents
    /\ None \notin Ids

Row == [scope : MemoryScope, content : Contents, content_hash : Hashes,
        version : 1..MaxVersion, deleted_at : BOOLEAN,
        superseded_by : Ids \cup {None}, consolidated_at : BOOLEAN]

Record == [id : Ids, row : Row]

ASSUME SentinelAssumption == NoRow \notin Row /\ NoRecord \notin Record

VARIABLES
    repository, \* the class the table belongs to: it never changes
    table,      \* the table: a row or NoRow for every id
    used,       \* the ids ever inserted: a UUID4 is never drawn twice
    held,       \* the record each client holds from its last call
    pending,    \* the content a create() has checked but not yet inserted
    seen        \* history: row versions when that create() ran its SELECT,
                \* kept while it is pending

vars == <<repository, table, used, held, pending, seen>>

DedupOnWrite == repository.DEDUP_ON_WRITE
HasSupersession == repository.HAS_SUPERSESSION
HasConsolidatedAt == repository.HAS_CONSOLIDATED_AT

Exists(id) == table[id] # NoRow
Live(id) == Exists(id) /\ ~table[id].deleted_at
Matches(c, id) == Exists(id) /\ ScopePredicates(ScopeOf[c], table[id].scope)

\* What a version number identifies; consolidated_at is outside it, because
\* _claim_consolidated leaves the version alone.
Core(row) == <<row.scope, row.content, row.content_hash, row.version,
               row.deleted_at, row.superseded_by>>

Versions == [i \in Ids |-> IF table[i] = NoRow THEN 0 ELSE table[i].version]
Unseen == [i \in Ids |-> 0]

\* A variant whose rows are inserted with the version the caller left in them.
NewRowVersionKept(s, x) == [scope |-> s, content |-> x,
                 content_hash |-> Hash[x],
                 version |-> 0, deleted_at |-> FALSE,
                 superseded_by |-> None, consolidated_at |-> FALSE]

NewRow(s, x) == [scope |-> s, content |-> x, content_hash |-> Hash[x],
                 version |-> 1, deleted_at |-> FALSE,
                 superseded_by |-> None, consolidated_at |-> FALSE]

-----------------------------------------------------------------------------
Init == /\ repository \in Repositories
        /\ table = [i \in Ids |-> NoRow]
        /\ used = {}
        /\ held = [c \in Clients |-> NoRecord]
        /\ pending = [c \in Clients |-> NoContent]
        /\ seen = [c \in Clients |-> Unseen]

Idle(c) == pending[c] = NoContent

\* A variant with the supersession predicate the wrong way round.
DuplicatesInverted(c, x) ==
    {i \in Ids : /\ Live(i) /\ Matches(c, i)
                 /\ table[i].content_hash = Hash[x]
                 /\ HasSupersession => table[i].superseded_by # None}

\* The rows the deduplication SELECT of create() accepts.
Duplicates(c, x) ==
    {i \in Ids : /\ Live(i) /\ Matches(c, i)
                 /\ table[i].content_hash = Hash[x]
                 /\ HasSupersession => table[i].superseded_by = None}

\* create(), first transaction: an existing row is returned as it is.
CreateHit(c, x) ==
    /\ Idle(c) /\ DedupOnWrite
    /\ \E i \in Duplicates(c, x) :
          held' = [held EXCEPT ![c] = [id |-> i, row |-> table[i]]]
    /\ UNCHANGED <<table, used, pending, seen>>

\* create(), first transaction: no duplicate (or no SELECT at all).
CreateMiss(c, x) ==
    /\ Idle(c)
    /\ DedupOnWrite => Duplicates(c, x) = {}
    /\ pending' = [pending EXCEPT ![c] = x]
    /\ seen' = [seen EXCEPT ![c] = Versions]
    /\ UNCHANGED <<table, used, held>>

\* create(), second transaction.
CreateInsert(c) ==
    /\ ~Idle(c)
    /\ \E i \in Ids \ used :
          LET row == NewRow(ScopeOf[c], pending[c]) IN
          /\ table' = [table EXCEPT ![i] = row]
          /\ used' = used \cup {i}
          /\ held' = [held EXCEPT ![c] = [id |-> i, row |-> row]]
    /\ pending' = [pending EXCEPT ![c] = NoContent]
    /\ seen' = [seen EXCEPT ![c] = Unseen]

\* The process stops, or the INSERT raises, between the two transactions.
CreateFails(c) ==
    /\ ~Idle(c)
    /\ pending' = [pending EXCEPT ![c] = NoContent]
    /\ seen' = [seen EXCEPT ![c] = Unseen]
    /\ UNCHANGED <<table, used, held>>

\* create_many(): one batch, one commit, no deduplication, nothing returned
\* but a count.
CreateMany(c, x, y) ==
    /\ Idle(c) /\ HasSupersession
    /\ \E i, j \in Ids \ used :
          /\ i # j
          /\ table' = [table EXCEPT ![i] = NewRow(ScopeOf[c], x),
                                    ![j] = NewRow(ScopeOf[c], y)]
          /\ used' = used \cup {i, j}
    /\ UNCHANGED <<held, pending, seen>>

GetById(c, id) ==
    /\ Idle(c)
    /\ held' = [held EXCEPT ![c] =
                   IF Live(id) /\ Matches(c, id)
                   THEN [id |-> id, row |-> table[id]] ELSE NoRecord]
    /\ UNCHANGED <<table, used, pending, seen>>

\* A variant of update()'s WHERE clause without `version = ?`.
CurrentAnyVersion(c) == Live(held[c].id) /\ Matches(c, held[c].id)

\* The WHERE clause of update(): scope, the version read, not tombstoned.
Current(c) ==
    LET id == held[c].id IN
    /\ Live(id) /\ Matches(c, id)
    /\ table[id].version = held[c].row.version

\* update(): the record held, with its content replaced by x.  When no row
\* qualifies the code raises StaleWriteError and changes nothing.
Update(c, x) ==
    /\ Idle(c) /\ held[c] # NoRecord
    /\ Current(c) /\ held[c].row.version < MaxVersion
    /\ LET id == held[c].id
           v == held[c].row.version + 1 IN
       /\ table' = [table EXCEPT ![id].content = x,
                                 ![id].content_hash = Hash[x],
                                 ![id].version = v]
       /\ held' = [held EXCEPT ![c].row.content = x,
                               ![c].row.content_hash = Hash[x],
                               ![c].row.version = v]
    /\ UNCHANGED <<used, pending, seen>>

Forget(c, id) ==
    /\ Idle(c) /\ Live(id) /\ Matches(c, id)
    /\ table[id].version < MaxVersion
    /\ table' = [table EXCEPT ![id].deleted_at = TRUE,
                              ![id].version = @ + 1]
    /\ UNCHANGED <<used, held, pending, seen>>

\* A variant of supersede() without the version bump.
SupersedeSameVersion(c, loser, winner) ==
    /\ HasSupersession /\ Idle(c)
    /\ Live(loser) /\ Matches(c, loser) /\ table[loser].superseded_by = None
    /\ table' = [table EXCEPT ![loser].superseded_by = winner]
    /\ UNCHANGED <<used, held, pending, seen>>

\* supersede(): the winner is whatever id the caller names.
Supersede(c, loser, winner) ==
    /\ HasSupersession /\ Idle(c)
    /\ Live(loser) /\ Matches(c, loser) /\ table[loser].superseded_by = None
    /\ table[loser].version < MaxVersion
    /\ table' = [table EXCEPT ![loser].superseded_by = winner,
                              ![loser].version = @ + 1]
    /\ UNCHANGED <<used, held, pending, seen>>

\* _claim_consolidated(): a tombstoned row qualifies too.
ClaimConsolidated(c, id) ==
    /\ HasConsolidatedAt /\ Idle(c)
    /\ Matches(c, id) /\ ~table[id].consolidated_at
    /\ table' = [table EXCEPT ![id].consolidated_at = TRUE]
    /\ UNCHANGED <<used, held, pending, seen>>

DeleteRows(S) == table' = [i \in Ids |-> IF i \in S THEN NoRow ELSE table[i]]

PurgeExpired(c) ==
    /\ Idle(c)
    /\ DeleteRows({i \in Ids : Matches(c, i) /\ table[i].deleted_at})
    /\ UNCHANGED <<used, held, pending, seen>>

EraseAll(c) ==
    /\ Idle(c)
    /\ DeleteRows({i \in Ids : Matches(c, i)})
    /\ UNCHANGED <<used, held, pending, seen>>

Create(c) == \/ \E x \in Contents : CreateHit(c, x) \/ CreateMiss(c, x)
             \/ CreateInsert(c)
             \/ CreateFails(c)
             \/ \E x, y \in Contents : CreateMany(c, x, y)

Next ==
    /\ UNCHANGED repository
    /\ \E c \in Clients :
          \/ Create(c)
          \/ \E id \in Ids : GetById(c, id)
          \/ \E x \in Contents : Update(c, x)
          \/ \E id \in Ids : Forget(c, id)
          \/ \E loser, winner \in Ids : Supersede(c, loser, winner)
          \/ \E id \in Ids : ClaimConsolidated(c, id)
          \/ PurgeExpired(c)
          \/ EraseAll(c)

Spec == Init /\ [][Next]_vars

-----------------------------------------------------------------------------
\* Every variable has its type.
TypeOK ==
    /\ repository \in Repositories
    /\ table \in [Ids -> Row \cup {NoRow}]
    /\ used \subseteq Ids
    /\ held \in [Clients -> Record \cup {NoRecord}]
    /\ pending \in [Clients -> Contents \cup {NoContent}]
    /\ seen \in [Clients -> [Ids -> 0..MaxVersion]]

\* The premise of update()'s optimistic lock: a record a client holds, however
\* old, that has the version of the row in the table has everything else the
\* row has.  It fails as soon as one writer (update, forget, supersede)
\* changes a row without moving its version.
VersionIdentifiesRow ==
    \A c \in Clients :
        held[c] # NoRecord /\ Exists(held[c].id) =>
            LET row == table[held[c].id] IN
            row.version = held[c].row.version => Core(row) = Core(held[c].row)

\* A client is never handed a row outside the scope it calls with, on any of
\* the paths that return records: the deduplication hit of create(), its
\* insert, get_by_id(), update().
ScopeIsolation ==
    \A c \in Clients :
        held[c] # NoRecord => ScopePredicates(ScopeOf[c], held[c].row.scope)

\* No lost update: whenever the content of a row is replaced, the client that
\* replaces it held exactly the row being replaced, not one that another
\* client had meanwhile updated, forgotten or superseded.
NoLostUpdate ==
    [][\A id \in Ids :
          table[id] # NoRow /\ table'[id] # NoRow
            /\ table'[id].content # table[id].content
          => \E c \in Clients : /\ held[c] # NoRecord /\ held[c].id = id
                                /\ Core(held[c].row) = Core(table[id])
                                /\ held'[c] # held[c]]_vars

\* forget() and supersede() are final: until it is purged a tombstoned row
\* keeps its content, version and marks, whatever stale record is written back,
\* and no later reconciliation pass redirects superseded_by.
MarksAreFinal ==
    [][\A id \in Ids :
          table[id] # NoRow /\ table'[id] # NoRow =>
            /\ table[id].deleted_at => Core(table'[id]) = Core(table[id])
            /\ table[id].superseded_by # None =>
                  table'[id].superseded_by = table[id].superseded_by]_vars

\* What deduplication does promise: create() inserts a second live copy of a
\* content in one and the same scope only if the first copy appeared, or
\* took that content, after create() had run its SELECT.
DuplicateOnlyIfRaced ==
    [][\A c \in Clients :
          DedupOnWrite /\ pending[c] # NoContent /\ table' # table
            /\ pending'[c] = NoContent
          => \A i \in Ids :
                /\ Live(i) /\ table[i].scope = ScopeOf[c]
                /\ table[i].content_hash = Hash[pending[c]]
                /\ table[i].superseded_by = None
                => seen[c][i] # table[i].version]_vars

-----------------------------------------------------------------------------
\* The refinement mapping: a version stands for the value of its row, and
\* create() is one step, its INSERT.
Value(row) == [scope |-> row.scope, content |-> row.content,
               deleted |-> row.deleted_at, superseded_by |-> row.superseded_by]

Rows == [i \in {j \in Ids : Exists(j)} |-> Value(table[i])]

View == [c \in Clients |->
           IF held[c] = NoRecord THEN {}
           ELSE {[id |-> held[c].id, value |-> Value(held[c].row)]}]

Reach == {p \in Clients \X MemoryScope : ScopePredicates(ScopeOf[p[1]], p[2])}

Store == INSTANCE RowStore WITH Scopes <- MemoryScope, rows <- Rows, view <- View

\* A repository implements RowStore: comparing the versions alone, update()
\* never replaces a row that differs in anything from the one its client saw,
\* whatever other clients did in between and however often the row changed.
ImplementsRowStore == Store!Spec
=============================================================================
