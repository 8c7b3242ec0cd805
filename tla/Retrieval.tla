------------------------------ MODULE Retrieval ------------------------------
(***************************************************************************)
(* Reading by similarity: repo.search() with rows or with chunks, pure or  *)
(* hybrid, MemoryStore.search() over several tables, and the long-term     *)
(* sections of the context card.  A reader's statements run between the    *)
(* commits of writers.                                                     *)
(*                                                                         *)
(* The index is the sequence `near`: what carries a vector, nearest to the *)
(* query first.  Without chunks it has each row once at most; with chunks  *)
(* it has a row once per chunk (every row is long: the mixture is in       *)
(* ChunkedMemory), and keeps it when the row is forgotten or superseded.   *)
(* Rows are numbered in the order of their creation.                       *)
(***************************************************************************)
EXTENDS Naturals, Sequences, FiniteSets, Functions

CONSTANTS Memories,         \* the rows
          TypeOf,           \* per row: its table, "working" or "facts"
          ThreadOf,         \* per row: its thread or NoThread
          Words,            \* per row: the words it shares with the query
          Threads, NoThread,
          Indexes,          \* the values of `near` without chunks
          ChunkIndexes,     \* and with chunks
          TopK,             \* top_k, max_results (a search cuts it to 200)
          OverFetch,        \* 4 in the code
          RRFK,             \* 60 in the code
          Minimum,          \* the card's min_results_by_type
          ListLimit         \* 1000 in the code: the cap of list_all()

ASSUME RetrievalAssumption ==
    /\ Memories \subseteq Nat /\ IsFiniteSet(Memories) /\ NoThread \notin Threads
    /\ TypeOf \in [Memories -> {"working", "facts"}]
    /\ ThreadOf \in [Memories -> Threads \cup {NoThread}]
    /\ Words \in [Memories -> Nat]
    /\ Indexes \cup ChunkIndexes \subseteq Seq(Memories)
    /\ TopK \in Nat \ {0} /\ OverFetch \in Nat \ {0}
    /\ RRFK \in Nat /\ Minimum \in Nat /\ ListLimit \in Nat \ {0}

VARIABLES
    near, chunked,    \* the index; they never change
    status,           \* per row: absent, live, superseded or deleted
    pc, call, thread, \* the reader's step, its call, and the scope's thread
    types,            \* the tables it has still to search
    ranked,           \* the rows of its last ranking by distance
    results,
    quiet             \* history: no writer has committed since it began

indexVars == <<near, chunked>>
retrievalVars == <<indexVars, status, pc, call, thread, types, ranked, results, quiet>>

Calls == {"search", "hybrid", "card", "fanout"}

RetrievalInit ==
    /\ \/ chunked = FALSE /\ near \in Indexes
       \/ chunked = TRUE /\ near \in ChunkIndexes
    /\ status \in [Memories -> {"absent", "live"}]
    /\ pc = "idle" /\ call = "search" /\ thread = NoThread
    /\ types = <<>> /\ ranked = {} /\ results = <<>>
    /\ quiet = TRUE

-----------------------------------------------------------------------------
\* ORDER BY: the elements of S in the order of their row numbers rn.
Numbered(S, rn) == [k \in 1..Cardinality(S) |-> CHOOSE a \in S : rn[a] = k]

\* FETCH FIRST n ROWS ONLY, and the slice of a list.
First(S, rn, n) == {a \in S : rn[a] <= n}
Take(s, n) == SubSeq(s, 1, IF n < Len(s) THEN n ELSE Len(s))

\* A row is as near as the first of its entries.
Distance(a) == CHOOSE i \in DOMAIN near : near[i] = a /\ \A j \in 1..(i-1) : near[j] # a

InOrder(S) == [i \in S |-> Cardinality({j \in S : j <= i})]
ByDistance(S) == [a \in S |-> Cardinality({b \in S : Distance(b) <= Distance(a)})]
ByAge(S) == [a \in S |-> Cardinality({b \in S : b >= a})]   \* created_at DESC

-----------------------------------------------------------------------------
\* A call begins.  MemoryStore.search() embeds the query once and searches the
\* tables in their canonical order.
Start(c, t) ==
    /\ pc = "idle"
    /\ call' = c /\ thread' = t
    /\ types' = IF c = "fanout" THEN <<"working", "facts">> ELSE <<"facts">>
    /\ pc' = "rank" /\ quiet' = TRUE
    /\ UNCHANGED <<indexVars, status, ranked, results>>

\* Row a is of the table, and in the scope.
Admitted(a, type) == TypeOf[a] = type /\ thread \in {NoThread, ThreadOf[a]}

LiveIndexed(type) == {a \in Range(near) : Admitted(a, type) /\ status[a] = "live"}

FetchK == IF call = "hybrid" THEN OverFetch * TopK ELSE TopK

\* search(), the first statement.
RankedRows ==
    LET rows == LiveIndexed(Head(types)) IN First(rows, ByDistance(rows), FetchK)

\* The entries of the chunks that are there: a row that is gone keeps its own.
ChunkEntries ==
    {i \in DOMAIN near : Admitted(near[i], Head(types)) /\ status[near[i]] # "absent"}

\* A variant that takes the top_k chunks, then their rows.
RankedOneChunkEach ==
    {near[i] : i \in First(ChunkEntries, InOrder(ChunkEntries), TopK)}

\* _search_via_chunks(): the nearest chunks, then each row once, at its
\* nearest chunk.
RankedByChunks ==
    LET hits == First(ChunkEntries, InOrder(ChunkEntries), OverFetch * TopK)
        rows == {near[i] : i \in hits}
    IN IF call = "hybrid" THEN rows ELSE First(rows, ByDistance(rows), TopK)

Rank ==
    /\ pc = "rank"
    /\ ranked' = IF chunked THEN RankedByChunks ELSE RankedRows
    /\ pc' = "fetch"
    /\ UNCHANGED <<indexVars, status, call, thread, types, results, quiet>>

\* A variant that sorts by overlap, ascending.
KeywordAscending(S) ==
    [a \in S |-> Cardinality({b \in S :
        \/ Words[b] < Words[a]
        \/ Words[b] = Words[a] /\ Distance(b) <= Distance(a)})]

\* The ranking by shared words, ties as in the ranking by distance.
KeywordOrder(S) ==
    [a \in S |-> Cardinality({b \in S :
        \/ Words[b] > Words[a]
        \/ Words[b] = Words[a] /\ Distance(b) <= Distance(a)})]

\* _rrf_fuse(): by 1 / (k + rank) + 1 / (k + rank), descending, ties as in the
\* ranking by distance.
Fuse(S) ==
    LET vector == ByDistance(S)
        keyword == KeywordOrder(S)
        sum(a) == (RRFK + vector[a]) + (RRFK + keyword[a])
        product(a) == (RRFK + vector[a]) * (RRFK + keyword[a])
        score(a, b) == sum(a) * product(b)   \* over their common denominator
    IN [a \in S |-> Cardinality({b \in S :
          \/ score(b, a) > score(a, b)
          \/ score(b, a) = score(a, b) /\ Distance(b) <= Distance(a)})]

\* The last statement of a search; without chunks it does not look at
\* superseded_at again.
Fetched ==
    LET kept == {a \in ranked :
                    status[a] \in {"live"} \cup (IF chunked THEN {} ELSE {"superseded"})}
    IN IF call = "hybrid" THEN Take(Numbered(kept, Fuse(kept)), TopK)
       ELSE Numbered(kept, ByDistance(kept))

\* A variant of the filters after the search: none.
FilterNothing(all) == Take(all, TopK)

\* MemoryStore.search(): exact_thread_match, where None matches None only,
\* and the cut to max_results.
Filter(all) ==
    LET kept == {i \in DOMAIN all : ThreadOf[all[i]] = thread}
        place == Numbered(kept, InOrder(kept))
    IN Take([k \in DOMAIN place |-> all[place[k]]], TopK)

Fetch ==
    /\ pc = "fetch"
    /\ types' = Tail(types)
    /\ LET all == results \o Fetched IN
       IF types' # <<>>
       THEN pc' = "rank" /\ results' = all
       ELSE IF call = "card" /\ Len(all) < Minimum
       THEN pc' = "backfill" /\ results' = all
       ELSE /\ pc' = "done"
            /\ results' = IF call = "fanout" THEN Filter(all) ELSE all
    /\ UNCHANGED <<indexVars, status, call, thread, ranked, quiet>>

\* The call ends.
End == /\ pc' = "idle" /\ results' = <<>> /\ ranked' = {} /\ quiet' = TRUE
       /\ call' = "search" /\ thread' = NoThread

\* The embedding of the query or the search fails: the card goes on without,
\* the other calls raise.
SearchFails ==
    /\ pc \in {"rank", "fetch"}
    /\ types' = <<>>
    /\ IF call = "card"
       THEN /\ pc' = IF Minimum > 0 THEN "backfill" ELSE "done"
            /\ results' = <<>> /\ ranked' = {}
            /\ UNCHANGED <<call, thread, quiet>>
       ELSE End
    /\ UNCHANGED <<indexVars, status>>

\* The rows list_all() reads of, the newest first.
Recent == {a \in Memories : Admitted(a, "facts") /\ status[a] = "live"}

ListAll(limit) == First(Recent, ByAge(Recent), IF limit < ListLimit THEN limit ELSE ListLimit)

\* A variant that lists only as many rows as are needed.
BackfillScant ==
    /\ pc = "backfill"
    /\ LET needed == Minimum - Len(results)
           fresh == ListAll(needed) \ Range(results)
       IN results' = results \o Take(Numbered(fresh, ByAge(fresh)), needed)
    /\ pc' = "done"
    /\ UNCHANGED <<indexVars, status, call, thread, types, ranked, quiet>>

\* _relevant_with_backfill(): recent rows up to the minimum.
Backfill ==
    /\ pc = "backfill"
    /\ LET needed == Minimum - Len(results)
           fresh == ListAll(needed + Len(results)) \ Range(results)
       IN results' = results \o Take(Numbered(fresh, ByAge(fresh)), needed)
    /\ pc' = "done"
    /\ UNCHANGED <<indexVars, status, call, thread, types, ranked, quiet>>

Answer == pc = "done" /\ End /\ UNCHANGED <<indexVars, status, types>>

\* A writer's commit: create(), supersede() (of a fact) or forget().
Write(a, to) ==
    /\ \/ status[a] = "absent" /\ to = "live"
       \/ status[a] = "live" /\ to = "superseded" /\ TypeOf[a] = "facts"
       \/ status[a] \in {"live", "superseded"} /\ to = "deleted"
    /\ status' = [status EXCEPT ![a] = to]
    /\ quiet' = (quiet /\ pc = "idle")
    /\ UNCHANGED <<indexVars, pc, call, thread, types, ranked, results>>

RetrievalNext ==
    \/ \E c \in Calls, t \in Threads \cup {NoThread} : Start(c, t)
    \/ Rank \/ Fetch \/ SearchFails \/ Backfill \/ Answer
    \/ \E a \in Memories, to \in {"live", "superseded", "deleted"} : Write(a, to)

RetrievalSpec == RetrievalInit /\ [][RetrievalNext]_retrievalVars
-----------------------------------------------------------------------------
\* Every variable has its type.
RetrievalTypeOK ==
    /\ near \in Indexes \cup ChunkIndexes /\ chunked \in BOOLEAN
    /\ status \in [Memories -> {"absent", "live", "superseded", "deleted"}]
    /\ pc \in {"idle", "rank", "fetch", "backfill", "done"}
    /\ call \in Calls /\ thread \in Threads \cup {NoThread}
    /\ types \in {<<>>, <<"facts">>, <<"working", "facts">>}
    /\ ranked \subseteq Memories /\ results \in Seq(Memories)
    /\ quiet \in BOOLEAN

\* The live rows a call could find, nearest first.
Searchable(type) == Numbered(LiveIndexed(type), ByDistance(LiveIndexed(type)))

EntriesOf(a) == {i \in DOMAIN near : near[i] = a}

\* The window of OverFetch * top_k chunks cannot be filled by few rows: no row
\* has more than OverFetch chunks, and none is left of a row that is gone.
WindowWide ==
    \A a \in Range(near) : /\ Cardinality(EntriesOf(a)) <= OverFetch
                           /\ status[a] \in {"absent", "live"}

\* A search that no writer disturbs returns the top_k nearest live rows; with
\* chunks, it does when the window is wide enough, and may return fewer
\* otherwise.
NearestFound ==
    pc = "done" /\ call = "search" /\ quiet /\ (chunked => WindowWide) =>
       results = Take(Searchable("facts"), TopK)

\* Hybrid search respects both rankings, whatever is written meanwhile: a
\* ranked row that is still live, nearer than a result, and shares as many
\* words with the query comes before it.
FusionRespectsBoth ==
    pc = "done" /\ call = "hybrid" =>
       \A i \in DOMAIN results : \A b \in ranked :
          /\ status[b] = "live" /\ Words[b] >= Words[results[i]]
          /\ Distance(b) < Distance(results[i])
          => \E j \in 1..(i-1) : results[j] = b

\* MemoryStore.search() answers from the scope's thread exactly (None from
\* rows without a thread only); asked for a thread, it leaves no place empty
\* that a row of any table could take.
ThreadExact ==
    pc = "done" /\ call = "fanout" =>
       /\ \A i \in DOMAIN results : ThreadOf[results[i]] = thread
       /\ quiet /\ ~chunked /\ thread # NoThread =>
             results = Take(Searchable("working") \o Searchable("facts"), TopK)

\* A section of the context card has no row twice and, whatever writers did
\* since the search, its minimum, or as much of it as list_all() returns,
\* unless the table has fewer live rows.
CardHasMinimum ==
    [][pc # "done" /\ pc' = "done" /\ call = "card" =>
          /\ Cardinality(Range(results')) = Len(results')
          /\ \/ Len(results') >= Minimum
             \/ Len(results') >= ListLimit
             \/ Len(results') >= Cardinality(Recent)]_retrievalVars
=============================================================================
