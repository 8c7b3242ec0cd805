--------------------------- MODULE ChunkedMemory ---------------------------
(***************************************************************************)
(* One memory table and memory_chunks.  A content longer than the          *)
(* threshold is embedded chunk by chunk: its row carries a zero vector and *)
(* _write_chunks() deletes the old chunks and inserts the new ones, each   *)
(* statement in a transaction of its own, after the row is committed.      *)
(* search() ranks chunks in two statements and resolves their parents in a *)
(* third, or falls back to the two statements over the rows themselves.    *)
(*                                                                         *)
(* A row's version stands for its content: no two contents of a row have   *)
(* the same one (MemoryTable_proofs, VersionsIdentifyRows).  Every row is  *)
(* in the scope of every call, and all hits fit in top_k.                  *)
(***************************************************************************)
EXTENDS Naturals, FiniteSets

CONSTANTS Rows, Writers, Searchers,
          None,
          ChunkCount,   \* chunks of a long content
          MaxVersion    \* bound on the updates of a row

ASSUME ChunkAssumption ==
    /\ None \notin Rows
    /\ ChunkCount \in Nat \ {0} /\ MaxVersion \in Nat \ {0}

VARIABLES
    state,      \* per row: none, live, forgotten or purged
    version, length,
    sentinel,   \* per row: is its embedding the zero vector?
    chunks,     \* memory_chunks: rows [source, version, index, writer]
    writing,    \* per writer: the row whose chunks it is writing, or None
    wrote,      \* per writer: the version it has split
    index,      \* per writer: 0 before the delete, then the next chunk_index
    search,     \* per searcher: the next statement of its search()
    hits,       \* per searcher: the chunks it has ranked
    found,      \* per searcher: ids to resolve, and in the end the result
    gaps,       \* history: rows of which some chunk could not be embedded
    steady,     \* history: rows indexed and not written since the search began
    liveDuring  \* history: rows live at some time since the search began

rowVars == <<state, version, length, sentinel>>
writerVars == <<writing, wrote, index>>
searchVars == <<search, hits, found>>
vars == <<rowVars, chunks, writerVars, searchVars, gaps, steady, liveDuring>>

Live == {r \in Rows : state[r] = "live"}
Quiet(r) == \A w \in Writers : writing[w] # r
ChunksOf(r) == {c \in chunks : c.source = r}

Init == /\ state = [r \in Rows |-> "none"]
        /\ version = [r \in Rows |-> 0]
        /\ length = [r \in Rows |-> "short"]
        /\ sentinel = [r \in Rows |-> FALSE]
        /\ chunks = {}
        /\ writing = [w \in Writers |-> None]
        /\ wrote = [w \in Writers |-> 0]
        /\ index = [w \in Writers |-> 0]
        /\ search = [s \in Searchers |-> "begin"]
        /\ hits = [s \in Searchers |-> {}]
        /\ found = [s \in Searchers |-> {}]
        /\ gaps = {}
        /\ steady = [s \in Searchers |-> {}]
        /\ liveDuring = [s \in Searchers |-> {}]

Searching(s) == search[s] \notin {"begin", "returned"}

\* History: row r is written, and afterwards live or not.
Touches(r, live) ==
    /\ steady' = [s \in Searchers |-> steady[s] \ {r}]
    /\ liveDuring' = [s \in Searchers |->
          liveDuring[s] \cup (IF live /\ Searching(s) THEN {r} ELSE {})]

-----------------------------------------------------------------------------
\* The chunking gate of create() and update().
ShouldChunk(len) == len = "long"

\* The row is committed; the chunks, if any, are written afterwards.
Committed(w, r, len) ==
    /\ length' = [length EXCEPT ![r] = len]
    /\ version' = [version EXCEPT ![r] = @ + 1]
    /\ IF ShouldChunk(len)
       THEN /\ writing' = [writing EXCEPT ![w] = r]
            /\ wrote' = [wrote EXCEPT ![w] = version'[r]]
            /\ index' = [index EXCEPT ![w] = 0]
       ELSE UNCHANGED writerVars
    /\ UNCHANGED <<chunks, gaps, searchVars>>
    /\ Touches(r, TRUE)

Create(w, r, len) ==
    /\ writing[w] = None /\ state[r] = "none"
    /\ state' = [state EXCEPT ![r] = "live"]
    /\ \E zero \in {len = "long", TRUE} :
          sentinel' = [sentinel EXCEPT ![r] = zero]
    /\ Committed(w, r, len)

\* Of a record that is not stale.  A short content keeps the embedding that
\* the record was read with, or has a new one.
Update(w, r, len) ==
    /\ writing[w] = None /\ r \in Live /\ version[r] < MaxVersion
    /\ \E zero \in {len = "long", len = "long" \/ sentinel[r], TRUE} :
          sentinel' = [sentinel EXCEPT ![r] = zero]
    /\ UNCHANGED state
    /\ Committed(w, r, len)

\* Variants: the delete forgets its source_id; a writer that has been
\* overtaken gives up after the delete.
DeleteAllChunks(w) ==
    /\ writing[w] # None /\ index[w] = 0
    /\ chunks' = {}
    /\ index' = [index EXCEPT ![w] = 1]
    /\ UNCHANGED <<rowVars, gaps, writing, wrote, searchVars, steady, liveDuring>>

DeleteAndGiveUp(w) ==
    /\ writing[w] # None /\ index[w] = 0
    /\ chunks' = chunks \ ChunksOf(writing[w])
    /\ IF version[writing[w]] = wrote[w]
       THEN index' = [index EXCEPT ![w] = 1] /\ UNCHANGED <<writing, wrote>>
       ELSE /\ writing' = [writing EXCEPT ![w] = None]
            /\ wrote' = [wrote EXCEPT ![w] = 0]
            /\ UNCHANGED index
    /\ UNCHANGED <<rowVars, gaps, searchVars, steady, liveDuring>>

\* delete_by_source()
DeleteOldChunks(w) ==
    /\ writing[w] # None /\ index[w] = 0
    /\ chunks' = chunks \ ChunksOf(writing[w])
    /\ index' = [index EXCEPT ![w] = 1]
    /\ UNCHANGED <<rowVars, gaps, writing, wrote, searchVars, steady, liveDuring>>

\* The loop goes to the next chunk, or ends.
NextChunk(w) ==
    /\ writing[w] # None /\ index[w] > 0
    /\ IF index[w] = ChunkCount
       THEN /\ writing' = [writing EXCEPT ![w] = None]
            /\ index' = [index EXCEPT ![w] = 0]
            /\ wrote' = [wrote EXCEPT ![w] = 0]
       ELSE /\ index' = [index EXCEPT ![w] = @ + 1]
            /\ UNCHANGED <<writing, wrote>>
    /\ UNCHANGED <<rowVars, searchVars, steady, liveDuring>>

InsertChunk(w) ==
    /\ NextChunk(w)
    /\ chunks' = chunks \cup {[source |-> writing[w], version |-> wrote[w],
                               index |-> index[w], writer |-> w]}
    /\ UNCHANGED gaps

\* The provider raises: the chunk is skipped.
SkipChunk(w) ==
    /\ NextChunk(w)
    /\ gaps' = gaps \cup {writing[w]}
    /\ UNCHANGED chunks

\* forget() and purge_expired() leave the chunks where they are.
Forget(r) ==
    /\ r \in Live
    /\ state' = [state EXCEPT ![r] = "forgotten"]
    /\ UNCHANGED <<version, length, sentinel, gaps, chunks, writerVars, searchVars>>
    /\ Touches(r, FALSE)

Purge ==
    /\ \E r \in Rows : state[r] = "forgotten"
    /\ state' = [r \in Rows |-> IF state[r] = "forgotten" THEN "purged" ELSE state[r]]
    /\ UNCHANGED <<version, length, sentinel, gaps, chunks, writerVars, searchVars,
                   steady, liveDuring>>

-----------------------------------------------------------------------------
\* Rows that a search can reach by a vector.
Indexed(r) == ChunksOf(r) # {} \/ ~sentinel[r]

\* search_chunks(): the ids of the nearest chunks ...
RankChunks(s) ==
    /\ search[s] = "begin"
    /\ hits' = [hits EXCEPT ![s] = chunks]
    /\ search' = [search EXCEPT ![s] = "distances"]
    /\ steady' = [steady EXCEPT ![s] = {r \in Live : Quiet(r) /\ Indexed(r)}]
    /\ liveDuring' = [liveDuring EXCEPT ![s] = Live]
    /\ UNCHANGED <<rowVars, gaps, chunks, writerVars, found>>

\* ... and the distances of those that are still there.  Without any, the
\* search falls back to the vectors of the rows.
FetchDistances(s) ==
    /\ search[s] = "distances"
    /\ LET sources == {c.source : c \in hits[s] \cap chunks} IN
       /\ found' = [found EXCEPT ![s] = sources]
       /\ search' = [search EXCEPT ![s] = IF sources = {} THEN "rank" ELSE "parents"]
    /\ hits' = [hits EXCEPT ![s] = {}]
    /\ UNCHANGED <<rowVars, gaps, chunks, writerVars, steady, liveDuring>>

\* A variant of the last statement without `deleted_at IS NULL`.
ReadableAnyway(r) == state[r] \in {"live", "forgotten"}

Readable(r) == state[r] = "live"

\* The ids in nearest-first order: zero vectors are left out.
RankRows(s) ==
    /\ search[s] = "rank"
    /\ found' = [found EXCEPT ![s] = {r \in Live : ~sentinel[r]}]
    /\ search' = [search EXCEPT ![s] = "parents"]
    /\ UNCHANGED <<rowVars, gaps, chunks, writerVars, hits, steady, liveDuring>>

\* The last statement of both paths fetches the rows that are left.
FetchRows(s) ==
    /\ search[s] = "parents"
    /\ found' = [found EXCEPT ![s] = {r \in @ : Readable(r)}]
    /\ search' = [search EXCEPT ![s] = "returned"]
    /\ UNCHANGED <<rowVars, gaps, chunks, writerVars, hits, steady, liveDuring>>

WriterStep(w) == \/ \E r \in Rows, len \in {"short", "long"} :
                       Create(w, r, len) \/ Update(w, r, len)
                 \/ DeleteOldChunks(w) \/ InsertChunk(w) \/ SkipChunk(w)

SearchStep(s) == RankChunks(s) \/ FetchDistances(s) \/ RankRows(s) \/ FetchRows(s)

Next == \/ \E w \in Writers : WriterStep(w)
        \/ \E r \in Rows : Forget(r)
        \/ Purge
        \/ \E s \in Searchers : SearchStep(s)

Spec == Init /\ [][Next]_vars
-----------------------------------------------------------------------------
Chunk == [source : Rows, version : 1..MaxVersion, index : 1..ChunkCount,
          writer : Writers]

\* Every variable has its type.
TypeOK ==
    /\ state \in [Rows -> {"none", "live", "forgotten", "purged"}]
    /\ version \in [Rows -> 0..MaxVersion]
    /\ length \in [Rows -> {"short", "long"}]
    /\ sentinel \in [Rows -> BOOLEAN]
    /\ chunks \subseteq Chunk
    /\ writing \in [Writers -> Rows \cup {None}]
    /\ wrote \in [Writers -> 0..MaxVersion]
    /\ index \in [Writers -> 0..ChunkCount]
    /\ search \in [Searchers -> {"begin", "distances", "rank", "parents", "returned"}]
    /\ hits \in [Searchers -> SUBSET Chunk]
    /\ found \in [Searchers -> SUBSET Rows]
    /\ gaps \subseteq Rows
    /\ steady \in [Searchers -> SUBSET Rows]
    /\ liveDuring \in [Searchers -> SUBSET Rows]

\* A search never returns a row that was forgotten or purged before it began,
\* although its chunks are still there and its statements see different states.
ResultsWereLive ==
    \A s \in Searchers : search[s] = "returned" => found[s] \subseteq liveDuring[s]

\* A long row has only its chunks to be found by: whatever its writers'
\* deletes and inserts interleave to, when they are through it has every chunk
\* of some content it was given, unless the provider failed on it.
LongRowsStayFindable ==
    \A r \in Live \ gaps : length[r] = "long" /\ Quiet(r) =>
        \E v \in 1..version[r] : \A i \in 1..ChunkCount :
            \E c \in ChunksOf(r) : c.version = v /\ c.index = i

\* A search finds every long row that had chunks when it began and that nobody
\* writes while it runs, although others delete and insert theirs between its
\* statements.
SteadyRowsFound ==
    \A s \in Searchers : search[s] = "returned" =>
        \A r \in steady[s] : length[r] = "long" => r \in found[s]
=============================================================================
