--------------------------- MODULE ExportImport ---------------------------
(***************************************************************************)
(* MemoryStore.export_scope() and import_scope() of one memory table and   *)
(* of memory_chunks.  The export is a generator that pages through         *)
(* list_all() with an offset, each page a transaction of its own, while    *)
(* others write.  The import hands record by record to create() and may    *)
(* stop anywhere; it is then run again over the same stream.               *)
(*                                                                         *)
(* The target is an instance, or a scope, nobody else writes to, which is  *)
(* what import_scope() is documented for.  A content stands for its        *)
(* content_hash; a long one has one chunk, its index left out.             *)
(***************************************************************************)
EXTENDS Scope, Naturals, Sequences, FiniteSetsExt

CONSTANTS Ids,              \* the rows
          Stamp,            \* the created_at of each: one for all the rows of
                            \* a create_many(), and no order of the commits
          Rank,             \* the order of their UUIDs
          Contents, Long,   \* Long are the contents above chunk_threshold
          Exported,         \* the scopes an export is asked for
          Targets,          \* the scopes an import is asked for
          PageSize,         \* _EXPORT_BATCH_SIZE
          MaxWrites,        \* bound on the updates and forgets, and on the rows
                            \* and chunks created after the export has begun
          MaxRuns,          \* bound on the runs of the import
          NoRow

Row == [scope : MemoryScope, content : Contents, deleted_at : BOOLEAN]

ASSUME ExportAssumption ==
    /\ IsFiniteSet(Ids) /\ Stamp \in [Ids -> Nat]
    /\ Long \subseteq Contents
    /\ Exported \cup Targets \subseteq MemoryScope
    /\ PageSize \in Nat \ {0} /\ MaxWrites \in Nat /\ MaxRuns \in Nat
    /\ Rank \in [Ids -> Nat] /\ \A i, j \in Ids : Rank[i] = Rank[j] => i = j
    /\ None \notin Ids /\ NoRow \notin Row

Record == [type : {"row", "chunk"}, id : Ids, content : Contents, scope : MemoryScope]
Copy == [id : Ids \cup {None}, content : Contents, scope : MemoryScope]

VARIABLES
    from, to,   \* the scopes of the export and of the import
    dedup,      \* _DEDUP_ON_WRITE of the table
    chunking,   \* is the target store built with enable_chunking?
    table,      \* the source: a row or NoRow for every id
    chunks,     \* per id, the content its chunk was cut from, or None
    pc, offset,
    stream,     \* the records exported
    writes,     \* the writes MaxWrites bounds
    present,    \* history: ids exportable when the export began
    gone,       \* history: ids forgotten since then
    split,      \* history: the created_at whose rows the end of a page divided
    position, runs,
    copies,     \* the rows of the target, in the order of their creation;
                \* the id None stands for a UUID drawn by the import
    copyChunks  \* the source_ids of the chunks of the target, in order

sourceVars == <<table, chunks>>
exportVars == <<from, pc, offset, stream, present, split>>
importVars == <<to, dedup, chunking, position, runs, copies, copyChunks>>
vars == <<sourceVars, exportVars, writes, gone, importVars>>

Live(i) == table[i] # NoRow /\ ~table[i].deleted_at
Exportable(i) == Live(i) /\ ScopePredicates(from, table[i].scope)
Exporting == pc \in {"export_rows", "export_chunks"}

Init == /\ from \in Exported
        /\ table = [i \in Ids |-> NoRow] /\ chunks = [i \in Ids |-> None]
        /\ pc = "begin" /\ offset = 0 /\ stream = <<>>
        /\ present = {} /\ writes = 0 /\ gone = {} /\ split = {}
        /\ to = None /\ dedup = FALSE /\ chunking = FALSE
        /\ position = 1 /\ runs = 0 /\ copies = <<>> /\ copyChunks = <<>>

-----------------------------------------------------------------------------
\* The writers of the source.  What they do after the export matters to nobody.
Filling == /\ pc = "begin" /\ UNCHANGED <<writes, exportVars, importVars>>
Writing == /\ pc = "begin" \/ Exporting
           /\ writes < MaxWrites /\ writes' = writes + 1
           /\ UNCHANGED <<exportVars, importVars>>

CreateRow(i, x, s) ==
    /\ Filling \/ (Exporting /\ Writing)
    /\ table[i] = NoRow
    /\ table' = [table EXCEPT ![i] = [scope |-> s, content |-> x, deleted_at |-> FALSE]]
    /\ UNCHANGED <<chunks, gone>>

\* update(): created_at is left alone, and so are the chunks of a long content
\* that became a short one.
UpdateRow(i, x) ==
    /\ Writing
    /\ Live(i) /\ table[i].content # x
    /\ table' = [table EXCEPT ![i].content = x]
    /\ UNCHANGED <<chunks, gone>>

\* _write_chunks() of a create() or an update(), after its row was committed.
WriteChunk(i) ==
    /\ Filling \/ (Exporting /\ Writing)
    /\ table[i] # NoRow /\ table[i].content \in Long
    /\ chunks[i] # table[i].content
    /\ chunks' = [chunks EXCEPT ![i] = table[i].content]
    /\ UNCHANGED <<table, gone>>

\* forget(), or supersede(): the chunks stay.
ForgetRow(i) ==
    /\ Writing
    /\ Live(i)
    /\ table' = [table EXCEPT ![i].deleted_at = TRUE]
    /\ gone' = IF Exporting THEN gone \cup {i} ELSE gone
    /\ UNCHANGED chunks

-----------------------------------------------------------------------------
StartExport ==
    /\ pc = "begin"
    /\ pc' = "export_rows"
    /\ present' = {i \in Ids : Exportable(i)}
    /\ UNCHANGED <<sourceVars, from, offset, stream, split, writes, gone, importVars>>

Rows == {i \in Ids : Exportable(i)}

\* SELECT ..., ROW_NUMBER() OVER (ORDER BY ...) AS rn: the records of S in the
\* order of their numbers.
Numbered(S, rn) == [k \in 1..Cardinality(S) |-> CHOOSE i \in S : rn[i] = k]

Numberings == {rn \in [Rows -> 1..Cardinality(Rows)] :
                  \A i, j \in Rows : rn[i] = rn[j] => i = j}

\* A variant that lists the oldest first.
OrdersOldestFirst ==
    {rn \in Numberings : \A i, j \in Rows : Stamp[i] < Stamp[j] => rn[i] < rn[j]}

\* list_all(): ORDER BY created_at DESC, and nothing that would tell rows of
\* one created_at apart: each page has an order of its own.
Orders == {rn \in Numberings : \A i, j \in Rows : Stamp[i] > Stamp[j] => rn[i] < rn[j]}

\* ChunkRepository.list_all(): ORDER BY source_id, whatever became of the parent.
Chunked == {i \in Ids : chunks[i] # None /\ ScopePredicates(from, table[i].scope)}
ListedChunks ==
    Numbered(Chunked,
             [i \in Chunked |-> Cardinality({j \in Chunked : Rank[j] <= Rank[i]})])

\* rn > offset AND rn <= offset + limit
Page(records) == SubSeq(records, offset + 1, Min({offset + PageSize, Len(records)}))

RowRecord(i) == [type |-> "row", id |-> i, content |-> table[i].content,
                 scope |-> table[i].scope]
ChunkRecord(i) == [type |-> "chunk", id |-> i, content |-> chunks[i],
                   scope |-> table[i].scope]

RowRecords(rn) == [k \in 1..Cardinality(Rows) |-> RowRecord(Numbered(Rows, rn)[k])]
ChunkRecords == [k \in DOMAIN ListedChunks |-> ChunkRecord(ListedChunks[k])]

\* One page; an incomplete one is the last, and the next table follows.
ExportPage(records, next) ==
    /\ stream' = stream \o Page(records)
    /\ IF Len(Page(records)) < PageSize
       THEN pc' = next /\ offset' = 0
       ELSE offset' = offset + PageSize /\ UNCHANGED pc
    /\ UNCHANGED <<sourceVars, from, present, writes, gone, importVars>>

\* The rows of one created_at, of which some are before the end of the page and
\* some after it.
Divided(rn) ==
    {Stamp[i] : i \in {i \in Rows : \E j \in Rows :
                          /\ Stamp[j] = Stamp[i]
                          /\ rn[i] <= offset + PageSize /\ offset + PageSize < rn[j]}}

ExportRows ==
    /\ pc = "export_rows"
    /\ \E rn \in Orders : /\ ExportPage(RowRecords(rn), "export_chunks")
                          /\ split' = split \cup Divided(rn)

ExportChunks == /\ pc = "export_chunks" /\ ExportPage(ChunkRecords, "exported")
                /\ UNCHANGED split

-----------------------------------------------------------------------------
\* The arguments of the first run are those of all.
StartImport ==
    /\ pc \in {"exported", "interrupted"} /\ runs < MaxRuns
    /\ pc' = "import" /\ runs' = runs + 1
    /\ IF runs = 0 THEN to' \in Targets /\ dedup' \in BOOLEAN /\ chunking' \in BOOLEAN
                   ELSE UNCHANGED <<to, dedup, chunking>>
    /\ UNCHANGED <<sourceVars, from, offset, stream, present, split, writes, gone,
                   position, copies, copyChunks>>

Current == stream[position]
Importing == pc = "import" /\ position <= Len(stream)
ExportUnread == UNCHANGED <<sourceVars, from, offset, stream, present, split, writes,
                            gone, to, dedup, chunking, runs>>

\* The scope of a record, its agent aside, is that of the target; and all
\* records come from one agent.
Consistent(r) == /\ r.scope.tenant_id = to.tenant_id
                 /\ r.scope.user_id = to.user_id
                 /\ r.scope.thread_id = to.thread_id
                 /\ r.scope.agent_id = stream[1].scope.agent_id

\* A migration to another agent draws new ids.
IdFor(r) == IF r.scope.agent_id = to.agent_id THEN r.id ELSE None

\* Variants: deduplication by id, and none.
DuplicateById(r) == \E k \in DOMAIN copies : copies[k].id = IdFor(r)
DuplicateNever(r) == FALSE

\* The deduplication of create().
Duplicate(r) == dedup /\ \E k \in DOMAIN copies : copies[k].content = r.content

KeyTaken(r) == /\ IdFor(r) # None
               /\ \E k \in DOMAIN copies : copies[k].id = IdFor(r)

ImportMismatch ==
    /\ Importing /\ ~Consistent(Current)
    /\ pc' = "scope_mismatch"
    /\ ExportUnread /\ UNCHANGED <<position, copies, copyChunks>>

ImportDuplicate ==
    /\ Importing /\ Consistent(Current) /\ Current.type = "row"
    /\ Duplicate(Current)
    /\ position' = position + 1
    /\ ExportUnread /\ UNCHANGED <<pc, copies, copyChunks>>

\* The INSERT violates the primary key: the import stops.
ImportKeyTaken ==
    /\ Importing /\ Consistent(Current) /\ Current.type = "row"
    /\ ~Duplicate(Current) /\ KeyTaken(Current)
    /\ pc' = "duplicate_key"
    /\ ExportUnread /\ UNCHANGED <<position, copies, copyChunks>>

ImportRow ==
    /\ Importing /\ Consistent(Current) /\ Current.type = "row"
    /\ ~Duplicate(Current) /\ ~KeyTaken(Current)
    /\ copies' = Append(copies, [id |-> IdFor(Current), content |-> Current.content,
                                 scope |-> to])
    /\ IF chunking /\ Current.content \in Long
       THEN pc' = "import_chunks" /\ UNCHANGED position
       ELSE position' = position + 1 /\ UNCHANGED pc
    /\ ExportUnread /\ UNCHANGED copyChunks

\* create() goes on to the chunks of the row it has inserted; no chunk of its
\* id is there to be deleted before.
ImportedRowChunks ==
    /\ pc = "import_chunks"
    /\ copyChunks' = Append(copyChunks, IdFor(Current))
    /\ pc' = "import" /\ position' = position + 1
    /\ ExportUnread /\ UNCHANGED copies

\* _import_chunk_record()
ImportChunk ==
    /\ Importing /\ Consistent(Current) /\ Current.type = "chunk"
    /\ IF chunking
       THEN /\ copyChunks' = Append(copyChunks, Current.id)
            /\ position' = position + 1 /\ UNCHANGED pc
       ELSE pc' = "chunking_disabled" /\ UNCHANGED <<position, copyChunks>>
    /\ ExportUnread /\ UNCHANGED copies

ImportDone ==
    /\ pc = "import" /\ position > Len(stream)
    /\ pc' = "done"
    /\ ExportUnread /\ UNCHANGED <<position, copies, copyChunks>>

\* The process stops, or a statement raises.
Interrupt ==
    /\ pc \in {"import", "import_chunks"}
    /\ pc' = "interrupted" /\ position' = 1
    /\ ExportUnread /\ UNCHANGED <<copies, copyChunks>>

Write == \E i \in Ids :
            \/ \E x \in Contents, s \in Exported : CreateRow(i, x, s)
            \/ \E x \in Contents : UpdateRow(i, x)
            \/ WriteChunk(i) \/ ForgetRow(i)

Import == \/ StartImport \/ ImportMismatch \/ ImportDuplicate \/ ImportKeyTaken
          \/ ImportRow \/ ImportedRowChunks \/ ImportChunk \/ ImportDone
          \/ Interrupt

Next == Write \/ StartExport \/ ExportRows \/ ExportChunks \/ Import

Spec == Init /\ [][Next]_vars

-----------------------------------------------------------------------------
\* Every variable has its type.
TypeOK ==
    /\ from \in Exported /\ to \in Targets \cup {None}
    /\ dedup \in BOOLEAN /\ chunking \in BOOLEAN
    /\ table \in [Ids -> Row \cup {NoRow}]
    /\ chunks \in [Ids -> Contents \cup {None}]
    /\ pc \in {"begin", "export_rows", "export_chunks", "exported", "import",
               "import_chunks", "interrupted", "done", "scope_mismatch",
               "duplicate_key", "chunking_disabled"}
    /\ offset \in Nat /\ stream \in Seq(Record)
    /\ present \subseteq Ids /\ gone \subseteq Ids /\ split \subseteq Nat
    /\ writes \in 0..MaxWrites
    /\ position \in 1..Len(stream) + 1 /\ runs \in 0..MaxRuns
    /\ copies \in Seq(Copy) /\ copyChunks \in Seq(Ids \cup {None})

RowsOf(s) == {s[k] : k \in {n \in DOMAIN s : s[n].type = "row"}}

\* Rows that are created or updated while the export pages through the table
\* cost no row its place: one that was there from the beginning to the end is
\* exported, unless a newer one was forgotten meanwhile, which moves the older
\* ones to a page that was read before, or a page ended among the rows of its
\* created_at, which the next page deals out anew.
ExportComplete ==
    pc \notin {"begin", "export_rows"} =>
        \A i \in present \ gone :
            Stamp[i] \notin split /\ (\A j \in gone : Stamp[j] <= Stamp[i])
                => \E r \in RowsOf(stream) : r.id = i

\* With deduplication an import may be interrupted and run again at will: once
\* it has come to its end the target holds what was exported, each content
\* once, in the restored ids or in new ones.
ImportConverges ==
    pc = "done" /\ dedup =>
        /\ {copies[k].content : k \in DOMAIN copies} = {r.content : r \in RowsOf(stream)}
        /\ \A k, l \in DOMAIN copies : copies[k].content = copies[l].content => k = l

\* An import stops at a primary key for two reasons only: a row was exported
\* twice, as happens when others are created before it between two pages or when
\* rows of one created_at are dealt out anew, or an import without deduplication
\* is run a second time.  Why a row was exported twice is not part of it.
KeyTakenExplained ==
    pc = "duplicate_key" =>
        \/ runs > 1 /\ ~dedup
        \/ \E k, l \in DOMAIN stream : /\ k # l /\ stream[k].id = stream[l].id
                                       /\ stream[k].type = "row" /\ stream[l].type = "row"
=============================================================================
