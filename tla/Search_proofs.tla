--------------------------- MODULE Search_proofs ---------------------------
(***************************************************************************)
(* What a search finds, for any number of rows, writers, searches, chunks, *)
(* threads and words.  First ChunkedMemory: never a row that was not live, *)
(* always a long row that nobody writes, which keeps the chunks it is      *)
(* found by.  Then Retrieval: the ranked lists, their fusion, the fan-out  *)
(* of a thread and the sections of a card.  Last Texts: the windows of a   *)
(* long content and the transcript of a summary.                           *)
(***************************************************************************)
EXTENDS ChunkedMemory, Retrieval, Texts, Integers, FiniteSetTheorems, SequenceTheorems, TLAPS

\* Row r has the first n - 1 chunks of its content v.
HasUpTo(r, v, n) ==
    \A i \in 1..ChunkCount : i < n =>
        \E c \in ChunksOf(r) : c.version = v /\ c.index = i

\* Version 0 is that of a row not created yet; a long content has no vector;
\* a writer splits a content the row was given.
RowsOK ==
    /\ \A r \in Rows : /\ state[r] = "none" => version[r] = 0
                       /\ length[r] = "long" => sentinel[r]
    /\ \A w \in Writers : writing[w] # None => wrote[w] \in 1..version[writing[w]]

\* A long row has all chunks of a content, or a writer is about to delete its
\* chunks, or has inserted its own one by one since it deleted them: whoever
\* deletes last is the one whose chunks are complete.
Findable ==
    \A r \in Live \ gaps : length[r] = "long" =>
        \/ \E w \in Writers : writing[w] = r /\ HasUpTo(r, wrote[w], index[w])
        \/ \E v \in 1..version[r] : HasUpTo(r, v, ChunkCount + 1)

\* A search remembers every row that is live while it runs.
LiveSeen ==
    \A s \in Searchers : /\ Searching(s) => Live \subseteq liveDuring[s]
                         /\ search[s] = "returned" => found[s] \subseteq liveDuring[s]

\* A steady row is live and quiet, so what was found of it stays: a chunk to
\* begin with, then its id.
SteadyKept ==
    \A s \in Searchers : \A r \in steady[s] :
        /\ r \in Live /\ Quiet(r) /\ search[s] # "begin"
        /\ length[r] = "long" =>
              /\ search[s] # "rank"
              /\ search[s] = "distances" => \E c \in hits[s] \cap chunks : c.source = r
              /\ search[s] \in {"parents", "returned"} => r \in found[s]

\* The inductive invariant of ChunkedMemory.
IInv == TypeOK /\ RowsOK /\ Findable /\ LiveSeen /\ SteadyKept

-----------------------------------------------------------------------------
\* Chunks that stay keep what a row has of a content.
LEMMA HasUpToKept ==
    ASSUME NEW r, NEW v, NEW n, HasUpTo(r, v, n),
           \A c \in chunks : c.source = r => c \in chunks'
    PROVE  HasUpTo(r, v, n)'
BY DEF HasUpTo, ChunksOf

\* A search changes nothing that the writers' part of the invariant is about.
LEMMA RowsFrame ==
    ASSUME RowsOK, Findable, UNCHANGED <<rowVars, chunks, writerVars, gaps>>
    PROVE  /\ RowsOK' /\ Findable' /\ Live' = Live
           /\ \A r : Quiet(r)' <=> Quiet(r)
<1>1. /\ UNCHANGED <<state, version, length, sentinel>>
      /\ UNCHANGED <<chunks, writing, wrote, index, gaps>>
  BY DEF rowVars, writerVars
<1>2. \A r, v, n : HasUpTo(r, v, n)' <=> HasUpTo(r, v, n)
  BY <1>1 DEF HasUpTo, ChunksOf
<1>3. Live' = Live /\ \A r : Quiet(r)' <=> Quiet(r)
  BY <1>1 DEF Live, Quiet
<1>4. RowsOK'
  BY <1>1 DEF RowsOK
<1>5. Findable'
  <2>. SUFFICES ASSUME NEW r \in Live \ gaps, length[r] = "long"
       PROVE  \/ \E w \in Writers : writing'[w] = r /\ HasUpTo(r, wrote[w], index[w])
              \/ \E v \in 1..version'[r] : HasUpTo(r, v, ChunkCount + 1)
    BY <1>1, <1>2, <1>3 DEF Findable, HasUpTo, ChunksOf
  <2>. QED BY <1>1 DEF Findable
<1>. QED BY <1>3, <1>4, <1>5

\* A writer at work disturbs no search: it touches the chunks of a row that is
\* not quiet, hence not steady.
LEMMA SearchFrame ==
    ASSUME TypeOK, LiveSeen, SteadyKept, NEW w \in Writers, writing[w] # None,
           UNCHANGED <<rowVars, searchVars, steady, liveDuring>>,
           \A c \in chunks : c.source # writing[w] => c \in chunks',
           \A u \in Writers : writing'[u] \in {writing[u], None}
    PROVE  LiveSeen' /\ SteadyKept'
<1>1. /\ UNCHANGED <<state, length, search, hits, found, steady, liveDuring>>
      /\ Live' = Live
  BY DEF rowVars, searchVars, Live
<1>2. LiveSeen'
  BY <1>1 DEF LiveSeen, Searching
<1>3. SteadyKept'
  <2>. SUFFICES ASSUME NEW s \in Searchers, NEW r \in steady[s]
       PROVE  /\ r \in Live /\ Quiet(r)' /\ search[s] # "begin"
              /\ length[r] = "long" =>
                    /\ search[s] # "rank"
                    /\ search[s] = "distances" => \E c \in hits[s] \cap chunks' : c.source = r
                    /\ search[s] \in {"parents", "returned"} => r \in found[s]
    BY <1>1 DEF SteadyKept
  <2>1. r \in Rows /\ r # None /\ writing[w] # r /\ Quiet(r)
    BY ChunkAssumption DEF TypeOK, SteadyKept, Quiet
  <2>2. Quiet(r)'
    BY <2>1 DEF Quiet
  <2>3. \A c \in hits[s] \cap chunks : c.source = r => c \in hits[s] \cap chunks'
    BY <2>1
  <2>. QED BY <2>2, <2>3 DEF SteadyKept
<1>. QED BY <1>2, <1>3

\* A row is created or updated.
LEMMA CommitStep ==
    ASSUME IInv, NEW w \in Writers, NEW r \in Rows, NEW len \in {"short", "long"},
           NEW zero \in BOOLEAN, len = "long" => zero,
           writing[w] = None, version[r] < MaxVersion,
           state' = [state EXCEPT ![r] = "live"],
           sentinel' = [sentinel EXCEPT ![r] = zero], Committed(w, r, len)
    PROVE  IInv'
<1>. TypeOK /\ RowsOK /\ Findable /\ LiveSeen /\ SteadyKept
  BY DEF IInv
<1>. DEFINE v == version[r] + 1
<1>1. /\ length' = [length EXCEPT ![r] = len] /\ version' = [version EXCEPT ![r] = v]
      /\ UNCHANGED <<chunks, gaps, search, hits, found>>
      /\ steady' = [s \in Searchers |-> steady[s] \ {r}]
      /\ liveDuring' = [s \in Searchers |->
             liveDuring[s] \cup (IF Searching(s) THEN {r} ELSE {})]
  BY DEF Committed, Touches, searchVars
<1>2. \/ /\ len = "long" /\ writing' = [writing EXCEPT ![w] = r]
         /\ wrote' = [wrote EXCEPT ![w] = version'[r]]
         /\ index' = [index EXCEPT ![w] = 0]
      \/ len = "short" /\ UNCHANGED <<writing, wrote, index>>
  BY DEF Committed, ShouldChunk, writerVars
<1>3. version[r] \in Nat /\ v \in 1..MaxVersion /\ v \in 0..MaxVersion /\ version[r] <= v
  BY ChunkAssumption DEF TypeOK
<1>. HIDE DEF v
<1>4. /\ version' \in [Rows -> 0..MaxVersion] /\ version'[r] = v
      /\ length' \in [Rows -> {"short", "long"}] /\ length'[r] = len
      /\ sentinel' \in [Rows -> BOOLEAN] /\ sentinel'[r] = zero
      /\ state' \in [Rows -> {"none", "live", "forgotten", "purged"}] /\ state'[r] = "live"
  BY <1>1, <1>3 DEF TypeOK
<1>5. \A q \in Rows \ {r} : /\ version'[q] = version[q] /\ length'[q] = length[q]
                            /\ sentinel'[q] = sentinel[q] /\ state'[q] = state[q]
  BY <1>1 DEF TypeOK
<1>6. /\ Live' = Live \cup {r}
      /\ \A q \in Rows \ {r} : q \in Live' <=> q \in Live
  BY <1>4, <1>5 DEF Live
<1>7. /\ writing' \in [Writers -> Rows \cup {None}]
      /\ wrote' \in [Writers -> 0..MaxVersion]
      /\ index' \in [Writers -> 0..ChunkCount]
  <2>1. /\ writing \in [Writers -> Rows \cup {None}] /\ wrote \in [Writers -> 0..MaxVersion]
        /\ index \in [Writers -> 0..ChunkCount]
    BY DEF TypeOK
  <2>2. version'[r] \in 0..MaxVersion /\ 0 \in 0..ChunkCount
    BY <1>3, <1>4, ChunkAssumption
  <2>. QED BY <1>2, <2>1, <2>2
<1>8. /\ \A u \in Writers \ {w} : /\ writing'[u] = writing[u] /\ wrote'[u] = wrote[u]
                                  /\ index'[u] = index[u]
      /\ writing'[w] \in {None, r}
      /\ writing'[w] # None => wrote'[w] = v
      /\ len = "long" => writing'[w] = r /\ index'[w] = 0
  BY <1>2, <1>4 DEF TypeOK
<1>9. TypeOK'
  <2>1. /\ steady' \in [Searchers -> SUBSET Rows] /\ liveDuring' \in [Searchers -> SUBSET Rows]
    BY <1>1 DEF TypeOK
  <2>. QED BY <1>1, <1>4, <1>7, <2>1 DEF TypeOK
<1>10. RowsOK'
  <2>1. \A q \in Rows : /\ state'[q] = "none" => version'[q] = 0
                        /\ length'[q] = "long" => sentinel'[q]
    BY <1>4, <1>5 DEF RowsOK
  <2>2. ASSUME NEW u \in Writers, writing'[u] # None PROVE wrote'[u] \in 1..version'[writing'[u]]
    <3>1. CASE u = w
      BY <1>3, <1>4, <1>8, <2>2, <3>1
    <3>2. CASE u # w
      <4>1. /\ writing'[u] = writing[u] /\ writing[u] # None /\ writing[u] \in Rows
            /\ wrote'[u] = wrote[u] /\ wrote[u] \in 1..version[writing[u]]
        BY <1>8, <2>2, <3>2 DEF RowsOK, TypeOK
      <4>2. CASE writing[u] = r
        BY <1>3, <1>4, <4>1, <4>2
      <4>3. CASE writing[u] # r
        BY <1>5, <4>1, <4>3
      <4>. QED BY <4>2, <4>3
    <3>. QED BY <3>1, <3>2
  <2>. QED BY <2>1, <2>2 DEF RowsOK
<1>11. Findable'
  <2>. SUFFICES ASSUME NEW q \in Live', q \notin gaps, length'[q] = "long"
       PROVE  \/ \E u \in Writers : writing'[u] = q /\ HasUpTo(q, wrote[u], index[u])'
              \/ \E x \in 1..version'[q] : HasUpTo(q, x, ChunkCount + 1)'
    BY <1>1 DEF Findable
  <2>1. CASE q = r
    <3>1. writing'[w] = r /\ index'[w] = 0
      BY <1>4, <1>8, <2>1
    <3>2. HasUpTo(r, wrote[w], index[w])'
      BY <3>1, ChunkAssumption DEF HasUpTo
    <3>. QED BY <2>1, <3>1, <3>2
  <2>2. CASE q # r
    <3>1. /\ q \in Live /\ q \in Rows /\ length[q] = "long" /\ version'[q] = version[q]
      BY <1>5, <1>6, <2>2 DEF Live
    <3>2. \A x, n : HasUpTo(q, x, n) => HasUpTo(q, x, n)'
      BY <1>1 DEF HasUpTo, ChunksOf
    <3>3. ASSUME NEW u \in Writers, writing[u] = q, HasUpTo(q, wrote[u], index[u])
          PROVE  writing'[u] = q /\ HasUpTo(q, wrote[u], index[u])'
      <4>1. u # w
        BY <3>1, <3>3, ChunkAssumption
      <4>2. writing'[u] = q /\ wrote'[u] = wrote[u] /\ index'[u] = index[u]
        BY <1>8, <3>3, <4>1
      <4>. QED BY <1>1, <3>3, <4>2 DEF HasUpTo, ChunksOf
    <3>4. \/ \E u \in Writers : writing[u] = q /\ HasUpTo(q, wrote[u], index[u])
          \/ \E x \in 1..version[q] : HasUpTo(q, x, ChunkCount + 1)
      BY <3>1 DEF Findable
    <3>. QED BY <3>1, <3>2, <3>3, <3>4
  <2>. QED BY <2>1, <2>2
<1>12. LiveSeen'
  <2>1. \A s \in Searchers : /\ Searching(s)' <=> Searching(s)
                             /\ liveDuring[s] \subseteq liveDuring'[s]
                             /\ Searching(s) => r \in liveDuring'[s]
    BY <1>1 DEF Searching
  <2>. QED BY <1>1, <1>6, <2>1 DEF LiveSeen
<1>13. SteadyKept'
  <2>. SUFFICES ASSUME NEW s \in Searchers, NEW q \in steady'[s]
       PROVE  /\ q \in Live' /\ Quiet(q)' /\ search[s] # "begin"
              /\ length'[q] = "long" =>
                    /\ search[s] # "rank"
                    /\ search[s] = "distances" => \E c \in hits[s] \cap chunks : c.source = q
                    /\ search[s] \in {"parents", "returned"} => q \in found[s]
    BY <1>1 DEF SteadyKept
  <2>1. q \in steady[s] /\ q # r /\ q \in Rows
    BY <1>1 DEF TypeOK
  <2>2. q \in Live /\ Quiet(q)
    BY <2>1 DEF SteadyKept
  <2>3. q \in Live' /\ length'[q] = length[q]
    BY <1>5, <1>6, <2>1, <2>2
  <2>4. Quiet(q)'
    BY <1>8, <2>1, <2>2, ChunkAssumption DEF Quiet
  <2>. QED BY <2>1, <2>3, <2>4 DEF SteadyKept
<1>. QED BY <1>9, <1>10, <1>11, <1>12, <1>13 DEF IInv

\* create() and update(): a long content gets the zero vector.
LEMMA WriteRowStep ==
    ASSUME IInv, NEW w \in Writers, NEW r \in Rows, NEW len \in {"short", "long"},
           Create(w, r, len) \/ Update(w, r, len)
    PROVE  IInv'
<1>1. TypeOK /\ RowsOK
  BY DEF IInv
<1>2. writing[w] = None /\ Committed(w, r, len) /\ version[r] < MaxVersion
  BY <1>1, ChunkAssumption DEF Create, Update, RowsOK
<1>3. state' = [state EXCEPT ![r] = "live"]
  <2>1. CASE Create(w, r, len)
    BY <2>1 DEF Create
  <2>2. CASE Update(w, r, len)
    BY <1>1, <2>2 DEF Update, Live, TypeOK
  <2>. QED BY <2>1, <2>2
<1>4. PICK zero \in BOOLEAN : /\ len = "long" => zero
                              /\ sentinel' = [sentinel EXCEPT ![r] = zero]
  <2>1. sentinel[r] \in BOOLEAN
    BY <1>1 DEF TypeOK
  <2>2. PICK zero \in {len = "long", len = "long" \/ sentinel[r], TRUE} :
            sentinel' = [sentinel EXCEPT ![r] = zero]
    BY DEF Create, Update
  <2>. QED BY <2>1, <2>2
<1>. QED BY <1>2, <1>3, <1>4, CommitStep

\* A writer that deletes begins the chunks of its content anew.
LEMMA DeleteStep ==
    ASSUME IInv, NEW w \in Writers, DeleteOldChunks(w) PROVE IInv'
<1>. TypeOK /\ RowsOK /\ Findable /\ LiveSeen /\ SteadyKept
  BY DEF IInv
<1>. DEFINE r == writing[w]
<1>1. /\ r # None /\ r \in Rows /\ chunks' = chunks \ ChunksOf(r)
      /\ index' = [index EXCEPT ![w] = 1]
      /\ UNCHANGED <<state, version, length, sentinel, gaps, writing, wrote, search, hits,
                     found, steady, liveDuring>>
  BY DEF DeleteOldChunks, rowVars, searchVars, TypeOK
<1>. HIDE DEF r
<1>2. /\ index' \in [Writers -> 0..ChunkCount] /\ index'[w] = 1
      /\ \A u \in Writers \ {w} : index'[u] = index[u]
  BY <1>1, ChunkAssumption DEF TypeOK
<1>3. \A c \in chunks : c.source # r => c \in chunks'
  BY <1>1 DEF ChunksOf
<1>4. TypeOK'
  BY <1>1, <1>2 DEF TypeOK
<1>5. RowsOK'
  BY <1>1 DEF RowsOK
<1>6. LiveSeen' /\ SteadyKept'
  BY <1>1, <1>3, SearchFrame DEF rowVars, searchVars, r
<1>7. Findable'
  <2>. SUFFICES ASSUME NEW q \in Live \ gaps, length[q] = "long"
       PROVE  \/ \E u \in Writers : writing'[u] = q /\ HasUpTo(q, wrote[u], index[u])'
              \/ \E x \in 1..version[q] : HasUpTo(q, x, ChunkCount + 1)'
    BY <1>1 DEF Findable, Live
  <2>1. CASE q = r
    <3>1. HasUpTo(q, wrote[w], index[w])'
      BY <1>2, ChunkAssumption DEF HasUpTo
    <3>. QED BY <1>1, <2>1, <3>1 DEF r
  <2>2. CASE q # r
    <3>1. \A c \in chunks : c.source = q => c \in chunks'
      BY <1>3, <2>2
    <3>2. \A x, n : HasUpTo(q, x, n) => HasUpTo(q, x, n)'
      BY <3>1 DEF HasUpTo, ChunksOf
    <3>3. ASSUME NEW u \in Writers, writing[u] = q, HasUpTo(q, wrote[u], index[u])
          PROVE  writing'[u] = q /\ HasUpTo(q, wrote[u], index[u])'
      <4>1. wrote'[u] = wrote[u] /\ index'[u] = index[u] /\ writing'[u] = writing[u]
        BY <1>1, <1>2, <2>2, <3>3 DEF r
      <4>. QED BY <3>1, <3>3, <4>1 DEF HasUpTo, ChunksOf
    <3>. QED BY <3>2, <3>3 DEF Findable
  <2>. QED BY <2>1, <2>2
<1>. QED BY <1>4, <1>5, <1>6, <1>7 DEF IInv

\* The next chunk is inserted, or skipped and its row is in gaps.
LEMMA ChunkStep ==
    ASSUME IInv, NEW w \in Writers, InsertChunk(w) \/ SkipChunk(w) PROVE IInv'
<1>. TypeOK /\ RowsOK /\ Findable /\ LiveSeen /\ SteadyKept
  BY DEF IInv
<1>. DEFINE r == writing[w]
            n == index[w]
            v == wrote[w]
            new == [source |-> r, version |-> v, index |-> n, writer |-> w]
<1>1. /\ r # None /\ r \in Rows /\ n \in 1..ChunkCount /\ v \in 1..version[r]
      /\ v \in 1..MaxVersion
      /\ UNCHANGED <<state, version, length, sentinel, search, hits, found, steady,
                     liveDuring>>
  BY ChunkAssumption DEF InsertChunk, SkipChunk, NextChunk, rowVars, searchVars, TypeOK,
                         RowsOK
<1>2. new \in Chunk /\ new.source = r /\ new.version = v /\ new.index = n
  BY <1>1 DEF Chunk
<1>3. \/ chunks' = chunks \cup {new} /\ gaps' = gaps
      \/ chunks' = chunks /\ gaps' = gaps \cup {r}
  BY DEF InsertChunk, SkipChunk
<1>4. \/ /\ n = ChunkCount /\ writing' = [writing EXCEPT ![w] = None]
         /\ index' = [index EXCEPT ![w] = 0] /\ wrote' = [wrote EXCEPT ![w] = 0]
      \/ /\ n # ChunkCount /\ index' = [index EXCEPT ![w] = n + 1]
         /\ UNCHANGED <<writing, wrote>>
  BY DEF InsertChunk, SkipChunk, NextChunk
<1>. HIDE DEF r, n, v, new
<1>5. /\ writing' \in [Writers -> Rows \cup {None}] /\ wrote' \in [Writers -> 0..MaxVersion]
      /\ index' \in [Writers -> 0..ChunkCount]
  BY <1>1, <1>4, ChunkAssumption DEF TypeOK
<1>6. /\ \A u \in Writers \ {w} : /\ writing'[u] = writing[u] /\ wrote'[u] = wrote[u]
                                  /\ index'[u] = index[u]
      /\ \/ n = ChunkCount /\ writing'[w] = None
         \/ /\ n # ChunkCount /\ writing'[w] = r /\ wrote'[w] = v /\ index'[w] = n + 1
  BY <1>4 DEF TypeOK, r, v
<1>7. \A c \in chunks : c \in chunks'
  BY <1>3
<1>8. TypeOK'
  <2>1. chunks' \subseteq Chunk /\ gaps' \subseteq Rows
    BY <1>1, <1>2, <1>3 DEF TypeOK
  <2>. QED BY <1>1, <1>5, <2>1 DEF TypeOK
<1>9. RowsOK'
  <2>1. ASSUME NEW u \in Writers, writing'[u] # None PROVE wrote'[u] \in 1..version'[writing'[u]]
    BY <1>1, <1>6, <2>1 DEF RowsOK
  <2>. QED BY <1>1, <2>1 DEF RowsOK
<1>10. LiveSeen' /\ SteadyKept'
  <2>1. \A u \in Writers : writing'[u] \in {writing[u], None}
    BY <1>6 DEF r
  <2>. QED BY <1>1, <1>7, <2>1, SearchFrame DEF rowVars, searchVars, r
<1>11. Findable'
  <2>. SUFFICES ASSUME NEW q \in Live, q \notin gaps', length[q] = "long"
       PROVE  \/ \E u \in Writers : writing'[u] = q /\ HasUpTo(q, wrote[u], index[u])'
              \/ \E x \in 1..version[q] : HasUpTo(q, x, ChunkCount + 1)'
    BY <1>1 DEF Findable, Live
  <2>1. \A x, k : HasUpTo(q, x, k) => HasUpTo(q, x, k)'
    BY <1>7 DEF HasUpTo, ChunksOf
  <2>2. CASE \E x \in 1..version[q] : HasUpTo(q, x, ChunkCount + 1)
    BY <2>1, <2>2
  <2>3. ASSUME NEW u \in Writers, u # w, writing[u] = q, HasUpTo(q, wrote[u], index[u])
        PROVE  writing'[u] = q /\ HasUpTo(q, wrote[u], index[u])'
    <3>1. writing'[u] = q /\ wrote'[u] = wrote[u] /\ index'[u] = index[u]
      BY <1>6, <2>3
    <3>. QED BY <1>7, <2>3, <3>1 DEF HasUpTo, ChunksOf
  <2>4. CASE q = r /\ HasUpTo(r, v, n)
    <3>1. chunks' = chunks \cup {new}
      BY <1>3, <2>4
    <3>2. \A i \in 1..ChunkCount : i < n + 1 =>
              \E c \in chunks' : c.source = r /\ c.version = v /\ c.index = i
      <4>. SUFFICES ASSUME NEW i \in 1..ChunkCount, i < n + 1
                    PROVE  \E c \in chunks' : c.source = r /\ c.version = v /\ c.index = i
        OBVIOUS
      <4>1. CASE i = n
        BY <1>2, <3>1, <4>1
      <4>2. CASE i # n
        <5>1. i < n
          BY <1>1, <4>2
        <5>. QED BY <1>7, <2>4, <5>1 DEF HasUpTo, ChunksOf
      <4>. QED BY <4>1, <4>2
    <3>3. CASE n = ChunkCount
      <4>1. PICK x \in 1..version[q] : x = v
        BY <1>1, <2>4
      <4>2. HasUpTo(q, x, ChunkCount + 1)'
        BY <2>4, <3>2, <3>3, <4>1 DEF HasUpTo, ChunksOf
      <4>. QED BY <4>2
    <3>4. CASE n # ChunkCount
      <4>1. writing'[w] = q /\ wrote'[w] = v /\ index'[w] = n + 1
        BY <1>6, <2>4, <3>4
      <4>2. HasUpTo(q, wrote[w], index[w])'
        BY <2>4, <3>2, <4>1 DEF HasUpTo, ChunksOf
      <4>. QED BY <4>1, <4>2
    <3>. QED BY <3>3, <3>4
  <2>5. q \notin gaps
    BY <1>3
  <2>6. \/ \E u \in Writers : writing[u] = q /\ HasUpTo(q, wrote[u], index[u])
        \/ \E x \in 1..version[q] : HasUpTo(q, x, ChunkCount + 1)
    BY <2>5 DEF Findable
  <2>. QED BY <2>2, <2>3, <2>4, <2>6 DEF r, n, v
<1>. QED BY <1>8, <1>9, <1>10, <1>11 DEF IInv

\* Forgetting and purging only take rows away.
LEMMA ForgetStep == ASSUME IInv, NEW r \in Rows, Forget(r) PROVE IInv'
<1>. TypeOK /\ RowsOK /\ Findable /\ LiveSeen /\ SteadyKept
  BY DEF IInv
<1>1. /\ r \in Live /\ state' = [state EXCEPT ![r] = "forgotten"]
      /\ UNCHANGED <<version, length, sentinel, gaps, chunks, writing, wrote, index,
                     search, hits, found>>
      /\ steady' = [s \in Searchers |-> steady[s] \ {r}]
      /\ liveDuring' = [s \in Searchers |-> liveDuring[s]]
  BY DEF Forget, Touches, writerVars, searchVars
<1>2. /\ state' \in [Rows -> {"none", "live", "forgotten", "purged"}]
      /\ state'[r] = "forgotten" /\ \A q \in Rows \ {r} : state'[q] = state[q]
  BY <1>1 DEF TypeOK
<1>3. Live' = Live \ {r}
  BY <1>1, <1>2 DEF Live
<1>4. /\ \A q, x, n : HasUpTo(q, x, n)' <=> HasUpTo(q, x, n)
      /\ \A q : Quiet(q)' <=> Quiet(q)
  BY <1>1 DEF HasUpTo, ChunksOf, Quiet
<1>5. TypeOK'
  BY <1>1, <1>2 DEF TypeOK
<1>6. RowsOK'
  BY <1>1, <1>2 DEF RowsOK
<1>7. Findable'
  <2>. SUFFICES ASSUME NEW q \in Live', q \notin gaps, length[q] = "long"
       PROVE  \/ \E w \in Writers : writing'[w] = q /\ HasUpTo(q, wrote[w], index[w])'
              \/ \E x \in 1..version'[q] : HasUpTo(q, x, ChunkCount + 1)'
    BY <1>1 DEF Findable
  <2>1. \A w \in Writers : HasUpTo(q, wrote[w], index[w]) => HasUpTo(q, wrote[w], index[w])'
    BY <1>1 DEF HasUpTo, ChunksOf
  <2>. QED BY <1>1, <1>3, <1>4, <2>1 DEF Findable
<1>8. LiveSeen'
  BY <1>1, <1>3 DEF LiveSeen, Searching
<1>9. SteadyKept'
  <2>. SUFFICES ASSUME NEW s \in Searchers, NEW q \in steady'[s]
       PROVE  /\ q \in Live' /\ Quiet(q)' /\ search[s] # "begin"
              /\ length[q] = "long" =>
                    /\ search[s] # "rank"
                    /\ search[s] = "distances" => \E c \in hits[s] \cap chunks : c.source = q
                    /\ search[s] \in {"parents", "returned"} => q \in found[s]
    BY <1>1 DEF SteadyKept
  <2>1. q \in steady[s] /\ q # r
    BY <1>1
  <2>. QED BY <1>3, <1>4, <2>1 DEF SteadyKept
<1>. QED BY <1>5, <1>6, <1>7, <1>8, <1>9 DEF IInv

\* The chunks of a purged row stay behind, of no row that is live.
LEMMA PurgeStep == ASSUME IInv, Purge PROVE IInv'
<1>. TypeOK /\ RowsOK /\ Findable /\ LiveSeen /\ SteadyKept
  BY DEF IInv
<1>1. /\ state' = [r \in Rows |-> IF state[r] = "forgotten" THEN "purged" ELSE state[r]]
      /\ UNCHANGED <<version, length, sentinel, gaps, chunks, writing, wrote, index,
                     search, hits, found, steady, liveDuring>>
  BY DEF Purge, writerVars, searchVars
<1>2. /\ state' \in [Rows -> {"none", "live", "forgotten", "purged"}] /\ Live' = Live
      /\ \A r \in Rows : state'[r] = "none" => state[r] = "none"
  BY <1>1 DEF TypeOK, Live
<1>3. TypeOK'
  BY <1>1, <1>2 DEF TypeOK
<1>4. RowsOK'
  BY <1>1, <1>2 DEF RowsOK
<1>5. Findable'
  <2>. SUFFICES ASSUME NEW q \in Live, q \notin gaps, length[q] = "long"
       PROVE  \/ \E w \in Writers : writing[w] = q /\ HasUpTo(q, wrote[w], index[w])'
              \/ \E x \in 1..version[q] : HasUpTo(q, x, ChunkCount + 1)'
    BY <1>1, <1>2 DEF Findable
  <2>1. /\ \A x, n : HasUpTo(q, x, n)' <=> HasUpTo(q, x, n)
        /\ \A w \in Writers : HasUpTo(q, wrote[w], index[w]) => HasUpTo(q, wrote[w], index[w])'
    BY <1>1 DEF HasUpTo, ChunksOf
  <2>. QED BY <2>1 DEF Findable
<1>6. LiveSeen' /\ SteadyKept'
  BY <1>1, <1>2 DEF LiveSeen, Searching, SteadyKept, Quiet
<1>. QED BY <1>3, <1>4, <1>5, <1>6 DEF IInv

-----------------------------------------------------------------------------
\* The first statement: the long rows that are live and quiet have chunks.
LEMMA RankChunksStep == ASSUME IInv, NEW s \in Searchers, RankChunks(s) PROVE IInv'
<1>. DEFINE begun == {r \in Live : Quiet(r) /\ Indexed(r)}
<1>. TypeOK /\ RowsOK /\ Findable /\ LiveSeen /\ SteadyKept
  BY DEF IInv
<1>1. /\ UNCHANGED <<state, version, length, sentinel, gaps, chunks, writing, wrote, index,
                     found>>
      /\ search[s] = "begin" /\ hits' = [hits EXCEPT ![s] = chunks]
      /\ search' = [search EXCEPT ![s] = "distances"]
      /\ steady' = [steady EXCEPT ![s] = begun]
      /\ liveDuring' = [liveDuring EXCEPT ![s] = Live]
  BY DEF RankChunks, rowVars, writerVars
<1>2. /\ begun \subseteq Live /\ Live \subseteq Rows /\ \A r \in begun : Quiet(r)
      /\ \A r \in begun : length[r] = "long" => \E c \in chunks : c.source = r
  BY DEF Indexed, ChunksOf, RowsOK, Live
<1>. HIDE DEF begun
<1>3. /\ search'[s] = "distances" /\ hits'[s] = chunks /\ steady'[s] = begun
      /\ liveDuring'[s] = Live
      /\ \A q \in Searchers \ {s} : /\ search'[q] = search[q] /\ hits'[q] = hits[q]
                                    /\ steady'[q] = steady[q]
                                    /\ liveDuring'[q] = liveDuring[q]
  BY <1>1 DEF TypeOK
<1>4. RowsOK' /\ Findable' /\ Live' = Live /\ \A r : Quiet(r)' <=> Quiet(r)
  BY <1>1, RowsFrame DEF rowVars, writerVars
<1>5. TypeOK'
  BY <1>1, <1>2 DEF TypeOK
<1>6. LiveSeen'
  BY <1>1, <1>3, <1>4 DEF LiveSeen, Searching
<1>7. SteadyKept'
  <2>. SUFFICES ASSUME NEW q \in Searchers, NEW r \in steady'[q]
       PROVE  /\ r \in Live /\ Quiet(r) /\ search'[q] # "begin"
              /\ length[r] = "long" =>
                    /\ search'[q] # "rank"
                    /\ search'[q] = "distances" => \E c \in hits'[q] \cap chunks : c.source = r
                    /\ search'[q] \in {"parents", "returned"} => r \in found[q]
    BY <1>1, <1>4 DEF SteadyKept
  <2>1. CASE q = s
    BY <1>2, <1>3, <2>1
  <2>2. CASE q # s
    BY <1>3, <2>2 DEF SteadyKept
  <2>. QED BY <2>1, <2>2
<1>. QED BY <1>4, <1>5, <1>6, <1>7 DEF IInv

\* The other statements move one search on.  `all` is what it has found then.
LEMMA SearchOnStep ==
    ASSUME IInv, NEW s \in Searchers, Searching(s),
           UNCHANGED <<rowVars, gaps, chunks, writerVars, steady, liveDuring>>,
           NEW to \in {"rank", "parents", "returned"}, NEW all \in SUBSET Rows,
           NEW left \in SUBSET Chunk,
           search' = [search EXCEPT ![s] = to], found' = [found EXCEPT ![s] = all],
           hits' = [hits EXCEPT ![s] = left],
           to = "returned" => all \subseteq Live,
           \A r \in steady[s] : length[r] = "long" => r \in all /\ to # "rank"
    PROVE  IInv'
<1>. TypeOK /\ RowsOK /\ Findable /\ LiveSeen /\ SteadyKept
  BY DEF IInv
<1>1. RowsOK' /\ Findable' /\ Live' = Live /\ \A r : Quiet(r)' <=> Quiet(r)
  BY RowsFrame
<1>2. UNCHANGED <<state, version, length, sentinel, gaps, chunks, writing, wrote, index,
                  steady, liveDuring>>
  BY DEF rowVars, writerVars
<1>3. /\ search'[s] = to /\ found'[s] = all
      /\ \A q \in Searchers \ {s} : /\ search'[q] = search[q] /\ hits'[q] = hits[q]
                                    /\ found'[q] = found[q]
  BY DEF TypeOK
<1>4. TypeOK'
  <2>1. /\ search' \in [Searchers -> {"begin", "distances", "rank", "parents", "returned"}]
        /\ found' \in [Searchers -> SUBSET Rows] /\ hits' \in [Searchers -> SUBSET Chunk]
    BY DEF TypeOK
  <2>. QED BY <1>2, <2>1 DEF TypeOK
<1>5. LiveSeen'
  BY <1>1, <1>2, <1>3 DEF LiveSeen, Searching
<1>6. SteadyKept'
  <2>. SUFFICES ASSUME NEW q \in Searchers, NEW r \in steady[q]
       PROVE  /\ r \in Live /\ Quiet(r) /\ search'[q] # "begin"
              /\ length[r] = "long" =>
                    /\ search'[q] # "rank"
                    /\ search'[q] = "distances" => \E c \in hits'[q] \cap chunks : c.source = r
                    /\ search'[q] \in {"parents", "returned"} => r \in found'[q]
    BY <1>1, <1>2 DEF SteadyKept
  <2>1. CASE q = s
    BY <1>3, <2>1 DEF SteadyKept
  <2>2. CASE q # s
    BY <1>3, <2>2 DEF SteadyKept
  <2>. QED BY <2>1, <2>2
<1>. QED BY <1>1, <1>4, <1>5, <1>6 DEF IInv

\* The later statements of a search, by the lemma above.
LEMMA SearchInvStep ==
    ASSUME IInv, NEW s \in Searchers, FetchDistances(s) \/ RankRows(s) \/ FetchRows(s)
    PROVE  IInv'
<1>. TypeOK /\ SteadyKept
  BY DEF IInv
<1>1. CASE FetchDistances(s)
  <2>. DEFINE sources == {c.source : c \in hits[s] \cap chunks}
              to == IF sources = {} THEN "rank" ELSE "parents"
  <2>1. /\ search[s] = "distances" /\ Searching(s)
        /\ found' = [found EXCEPT ![s] = sources] /\ search' = [search EXCEPT ![s] = to]
        /\ hits' = [hits EXCEPT ![s] = {}]
        /\ UNCHANGED <<rowVars, gaps, chunks, writerVars, steady, liveDuring>>
    BY <1>1 DEF FetchDistances, Searching
  <2>2. sources \in SUBSET Rows
    BY DEF TypeOK, Chunk
  <2>3. \A r \in steady[s] : length[r] = "long" => r \in sources /\ to # "rank"
    BY <2>1 DEF SteadyKept
  <2>4. /\ to \in {"rank", "parents", "returned"} /\ to # "returned"
        /\ {} \in SUBSET Chunk
    OBVIOUS
  <2>. HIDE DEF sources, to
  <2>. QED BY <2>1, <2>2, <2>3, <2>4, SearchOnStep
<1>2. CASE RankRows(s)
  <2>. DEFINE all == {r \in Live : ~sentinel[r]}
  <2>1. /\ search[s] = "rank" /\ Searching(s) /\ found' = [found EXCEPT ![s] = all]
        /\ search' = [search EXCEPT ![s] = "parents"]
        /\ hits' = [hits EXCEPT ![s] = hits[s]]
        /\ UNCHANGED <<rowVars, gaps, chunks, writerVars, steady, liveDuring>>
    BY <1>2 DEF RankRows, Searching, TypeOK
  <2>2. all \in SUBSET Rows /\ hits[s] \in SUBSET Chunk
    BY DEF Live, TypeOK
  <2>3. \A r \in steady[s] : length[r] # "long"
    BY <2>1 DEF SteadyKept
  <2>. HIDE DEF all
  <2>. QED BY <2>1, <2>2, <2>3, SearchOnStep
<1>3. CASE FetchRows(s)
  <2>. DEFINE all == {r \in found[s] : Readable(r)}
  <2>1. /\ search[s] = "parents" /\ Searching(s) /\ found' = [found EXCEPT ![s] = all]
        /\ search' = [search EXCEPT ![s] = "returned"]
        /\ hits' = [hits EXCEPT ![s] = hits[s]]
        /\ UNCHANGED <<rowVars, gaps, chunks, writerVars, steady, liveDuring>>
    BY <1>3 DEF FetchRows, Searching, TypeOK
  <2>2. all \in SUBSET Rows /\ all \subseteq Live /\ hits[s] \in SUBSET Chunk
    BY DEF Live, TypeOK, Readable
  <2>3. \A r \in steady[s] : length[r] = "long" => r \in all
    BY <2>1 DEF SteadyKept, Readable, Live
  <2>. HIDE DEF all
  <2>. QED BY <2>1, <2>2, <2>3, SearchOnStep
<1>. QED BY <1>1, <1>2, <1>3

-----------------------------------------------------------------------------
\* The invariant holds at first, and every step keeps it.
LEMMA InvInit == Init => IInv
<1>. SUFFICES ASSUME Init PROVE IInv
  OBVIOUS
<1>1. Live = {} /\ \A s \in Searchers : search[s] = "begin" /\ steady[s] = {}
  BY DEF Init, Live
<1>2. TypeOK
  BY ChunkAssumption DEF Init, TypeOK
<1>3. RowsOK
  BY DEF Init, RowsOK
<1>. QED BY <1>1, <1>2, <1>3 DEF IInv, Findable, LiveSeen, Searching, SteadyKept

\* Every step keeps the invariant.
LEMMA InvStep == IInv /\ [Next]_vars => IInv'
<1>. SUFFICES ASSUME IInv, [Next]_vars PROVE IInv'
  OBVIOUS
<1>1. CASE UNCHANGED vars
  <2>1. UNCHANGED <<rowVars, chunks, writerVars, gaps>>
    BY <1>1 DEF vars
  <2>2. RowsOK' /\ Findable' /\ Live' = Live /\ \A r : Quiet(r)' <=> Quiet(r)
    BY <2>1, RowsFrame DEF IInv
  <2>3. /\ UNCHANGED <<state, version, length, sentinel, gaps, chunks>>
        /\ UNCHANGED <<writing, wrote, index, steady, liveDuring, search, hits, found>>
    BY <1>1 DEF vars, rowVars, writerVars, searchVars
  <2>4. TypeOK'
    BY <2>3 DEF IInv, TypeOK
  <2>5. LiveSeen' /\ SteadyKept'
    BY <2>2, <2>3 DEF IInv, LiveSeen, Searching, SteadyKept
  <2>. QED BY <2>2, <2>4, <2>5 DEF IInv
<1>2. ASSUME NEW w \in Writers, WriterStep(w) PROVE IInv'
  BY <1>2, WriteRowStep, DeleteStep, ChunkStep DEF WriterStep
<1>3. ASSUME NEW r \in Rows, Forget(r) PROVE IInv'
  BY <1>3, ForgetStep
<1>4. CASE Purge
  BY <1>4, PurgeStep
<1>5. ASSUME NEW s \in Searchers, SearchStep(s) PROVE IInv'
  BY <1>5, RankChunksStep, SearchInvStep DEF SearchStep
<1>. QED BY <1>1, <1>2, <1>3, <1>4, <1>5 DEF Next

\* Whatever a search returns was live at some time while it ran, although its
\* statements each see another state.
THEOREM ResultsAreLive == Spec => []ResultsWereLive
<1>1. IInv => ResultsWereLive
  BY DEF IInv, LiveSeen, ResultsWereLive
<1>. QED BY <1>1, InvInit, InvStep, PTL DEF Spec

\* However the deletes and inserts of its writers interleave: a long row that
\* nobody writes any more has every chunk of some content it was given.
THEOREM LongRowsAreFindable == Spec => []LongRowsStayFindable
<1>1. IInv => LongRowsStayFindable
  <2>. SUFFICES ASSUME IInv, NEW r \in Live \ gaps, length[r] = "long", Quiet(r)
       PROVE  \E v \in 1..version[r] : \A i \in 1..ChunkCount :
                  \E c \in ChunksOf(r) : c.version = v /\ c.index = i
    BY DEF LongRowsStayFindable
  <2>1. PICK v \in 1..version[r] : HasUpTo(r, v, ChunkCount + 1)
    BY DEF IInv, Findable, Quiet
  <2>2. \A i \in 1..ChunkCount : i < ChunkCount + 1
    BY ChunkAssumption
  <2>. QED BY <2>1, <2>2 DEF HasUpTo
<1>. QED BY <1>1, InvInit, InvStep, PTL DEF Spec

\* A search finds the long rows that had chunks when it began and stay alone.
THEOREM SteadyRowsAreFound == Spec => []SteadyRowsFound
<1>1. IInv => SteadyRowsFound
  BY DEF IInv, SteadyKept, SteadyRowsFound
<1>. QED BY <1>1, InvInit, InvStep, PTL DEF Spec

\* Every variable has its type.
THEOREM TypeCorrect == Spec => []TypeOK
<1>1. IInv => TypeOK
  BY DEF IInv
<1>. QED BY <1>1, InvInit, InvStep, PTL DEF Spec

-----------------------------------------------------------------------------
\* R orders the elements of S, without ties.
Orders(R, S) ==
    /\ \A a \in S : <<a, a>> \in R
    /\ \A a, b \in S : <<a, b>> \in R \/ <<b, a>> \in R
    /\ \A a, b \in S : <<a, b>> \in R /\ <<b, a>> \in R => a = b
    /\ \A a, b, c \in S : <<a, b>> \in R /\ <<b, c>> \in R => <<a, c>> \in R

\* rn gives the elements of S the numbers from 1 to the size of S.
Numbers(S, rn) ==
    /\ IsFiniteSet(S) /\ Cardinality(S) \in Nat
    /\ rn \in [S -> 1..Cardinality(S)]
    /\ \A a, b \in S : rn[a] = rn[b] => a = b
    /\ \A k \in 1..Cardinality(S) : \E a \in S : rn[a] = k

\* Counting the elements up to each numbers a finite set, in its order.
LEMMA CountingNumbers ==
  ASSUME NEW S, IsFiniteSet(S), NEW R, Orders(R, S),
         NEW rn, rn = [a \in S |-> Cardinality({b \in S : <<b, a>> \in R})]
  PROVE  /\ Numbers(S, rn)
         /\ \A a, b \in S : <<a, b>> \in R <=> rn[a] <= rn[b]
<1> DEFINE n == Cardinality(S)
           UpTo(a) == {b \in S : <<b, a>> \in R}
<1>1. n \in Nat
  BY FS_CardinalityType
<1>2. ASSUME NEW a \in S
      PROVE  /\ IsFiniteSet(UpTo(a)) /\ Cardinality(UpTo(a)) \in 1..n
             /\ rn[a] = Cardinality(UpTo(a))
  <2>1. UpTo(a) \in SUBSET S /\ a \in UpTo(a)
    BY DEF Orders
  <2>2. IsFiniteSet(UpTo(a)) /\ Cardinality(UpTo(a)) <= n
    BY <2>1, FS_Subset
  <2>3. Cardinality(UpTo(a)) \in Nat /\ Cardinality(UpTo(a)) # 0
    BY <2>1, <2>2, FS_CardinalityType, FS_EmptySet
  <2> QED
    BY <1>1, <2>2, <2>3
<1>3. rn \in [S -> 1..n]
  BY <1>2
<1>4. ASSUME NEW a \in S, NEW b \in S, <<a, b>> \in R, a # b
      PROVE  rn[a] < rn[b]
  <2>1. UpTo(a) \in SUBSET UpTo(b) /\ b \in UpTo(b) /\ b \notin UpTo(a)
    BY <1>4 DEF Orders
  <2>2. Cardinality(UpTo(a)) <= Cardinality(UpTo(b)) /\ Cardinality(UpTo(a)) # Cardinality(UpTo(b))
    BY <1>2, <2>1, FS_Subset
  <2>3. Cardinality(UpTo(a)) \in Nat /\ Cardinality(UpTo(b)) \in Nat
    BY <1>1, <1>2
  <2> HIDE DEF UpTo
  <2>4. Cardinality(UpTo(a)) < Cardinality(UpTo(b))
    BY <2>2, <2>3
  <2> QED
    BY <1>2, <2>4
<1>5. \A a, b \in S : rn[a] = rn[b] => a = b
  <2> SUFFICES ASSUME NEW a \in S, NEW b \in S, a # b PROVE rn[a] # rn[b]
    OBVIOUS
  <2>1. rn[a] < rn[b] \/ rn[b] < rn[a]
    BY <1>4 DEF Orders
  <2>2. rn[a] \in Nat /\ rn[b] \in Nat
    BY <1>1, <1>3
  <2> QED
    BY <2>1, <2>2
<1>6. ASSUME NEW a \in S, NEW b \in S PROVE <<a, b>> \in R <=> rn[a] <= rn[b]
  <2>1. rn[a] \in Nat /\ rn[b] \in Nat
    BY <1>1, <1>3
  <2>2. CASE a = b
    BY <2>1, <2>2 DEF Orders
  <2>3. CASE a # b
    <3>1. <<a, b>> \in R => rn[a] < rn[b]
      BY <1>4, <2>3
    <3>2. <<a, b>> \notin R => rn[b] < rn[a]
      BY <1>4, <2>3 DEF Orders
    <3> QED BY <2>1, <3>1, <3>2
  <2> QED BY <2>2, <2>3
<1>7. rn \in Injection(S, 1..n)
  BY <1>3, <1>5 DEF Injection, IsInjective
<1>8. IsFiniteSet(1..n) /\ Cardinality(1..n) = n
  BY <1>1, FS_Interval
<1>9. rn \in Surjection(S, 1..n)
  BY <1>7, <1>8, FS_Injection
<1>10. \A k \in 1..n : \E a \in S : rn[a] = k
  BY <1>9 DEF Surjection
<1> QED
  BY <1>1, <1>3, <1>5, <1>6, <1>10 DEF Numbers

\* The list of a numbered set has each of its elements at its number.
LEMMA NumberedList ==
  ASSUME NEW S, NEW rn, Numbers(S, rn)
  PROVE  LET l == Numbered(S, rn) IN
         /\ l \in Seq(S) /\ Len(l) = Cardinality(S) /\ DOMAIN l = 1..Cardinality(S)
         /\ \A k \in 1..Cardinality(S) : l[k] \in S /\ rn[l[k]] = k
         /\ \A a \in S : rn[a] \in 1..Cardinality(S) /\ l[rn[a]] = a
         /\ Range(l) = S
<1> DEFINE n == Cardinality(S)
           l == Numbered(S, rn)
<1>1. \A k \in 1..n : l[k] \in S /\ rn[l[k]] = k
  BY DEF Numbered, Numbers
<1>2. l \in [1..n -> S]
  BY <1>1 DEF Numbered
<1>3. l \in Seq(S) /\ Len(l) = n /\ DOMAIN l = 1..n
  BY <1>2 DEF Numbers
<1>4. ASSUME NEW a \in S PROVE rn[a] \in 1..n /\ l[rn[a]] = a
  BY <1>1 DEF Numbers
<1>5. Range(l) = S
  BY <1>1, <1>3, <1>4 DEF Range
<1> QED
  BY <1>1, <1>3, <1>4, <1>5

\* A slice from the front.
LEMMA TakeFacts ==
  ASSUME NEW S, NEW s \in Seq(S), NEW n \in Nat
  PROVE  /\ Take(s, n) \in Seq(S)
         /\ Len(Take(s, n)) = IF n < Len(s) THEN n ELSE Len(s)
         /\ \A i \in 1..Len(Take(s, n)) : Take(s, n)[i] = s[i]
<1> DEFINE m == IF n < Len(s) THEN n ELSE Len(s)
<1>1. m \in Nat /\ m <= Len(s)
  BY LenProperties
<1>2. \A i \in 1..m : s[i] \in S
  BY <1>1, ElementOfSeq
<1>3. SubSeq(s, 1, m) = [i \in 1..m |-> s[i]]
  BY <1>1
<1> QED BY <1>1, <1>2, <1>3 DEF Take

\* The elements numbered up to n are a slice of the list.
LEMMA FirstIsTake ==
  ASSUME NEW S, NEW rs, Numbers(S, rs), NEW n \in Nat,
         NEW T, T = First(S, rs, n), NEW rt, Numbers(T, rt), \A a \in T : rt[a] = rs[a]
  PROVE  Numbered(T, rt) = Take(Numbered(S, rs), n)
<1> DEFINE s == Numbered(S, rs)
           t == Numbered(T, rt)
           m == IF n < Cardinality(S) THEN n ELSE Cardinality(S)
<1>0. Cardinality(S) \in Nat /\ Cardinality(T) \in Nat /\ m \in Nat
  BY DEF Numbers
<1>1. /\ s \in Seq(S) /\ Len(s) = Cardinality(S)
      /\ \A k \in 1..Cardinality(S) : s[k] \in S /\ rs[s[k]] = k
      /\ \A a \in S : rs[a] \in 1..Cardinality(S) /\ s[rs[a]] = a
  BY NumberedList
<1>2. /\ t \in Seq(T) /\ Len(t) = Cardinality(T)
      /\ \A k \in 1..Cardinality(T) : t[k] \in T /\ rt[t[k]] = k
      /\ \A a \in T : rt[a] \in 1..Cardinality(T) /\ t[rt[a]] = a
  BY NumberedList
<1>3. /\ Take(s, n) \in Seq(S) /\ Len(Take(s, n)) = m
      /\ \A i \in 1..m : Take(s, n)[i] = s[i]
  <2> HIDE DEF s
  <2> QED BY <1>1, TakeFacts
<1> HIDE DEF s, t
<1>4. ASSUME NEW k \in 1..m PROVE k <= Cardinality(T) /\ s[k] \in T /\ rt[s[k]] = k
  <2>1. k \in 1..Cardinality(S) /\ k <= n
    BY <1>0
  <2>2. s[k] \in T
    BY <1>1, <2>1 DEF First
  <2> QED BY <1>0, <1>1, <1>2, <2>1, <2>2
<1>5. ASSUME NEW k \in 1..Cardinality(T) PROVE k <= m /\ t[k] = s[k]
  <2>1. t[k] \in T /\ rs[t[k]] = k /\ t[k] \in S /\ k <= n
    BY <1>2 DEF First
  <2> QED BY <1>0, <1>1, <2>1
<1>6. Cardinality(T) = m
  <2>1. m >= 1 => m <= Cardinality(T)
    BY <1>0, <1>4
  <2>2. Cardinality(T) >= 1 => Cardinality(T) <= m
    BY <1>0, <1>5
  <2> QED BY <1>0, <2>1, <2>2
<1>7. \A i \in 1..m : t[i] = Take(s, n)[i]
  BY <1>3, <1>5, <1>6
<1> QED BY <1>2, <1>3, <1>6, <1>7, SeqEqual DEF s, t
\* Numbers in their own order, and rows by age.
LEMMA InOrderNumbers ==
  ASSUME NEW S \in SUBSET Nat, IsFiniteSet(S)
  PROVE  /\ Numbers(S, InOrder(S))
         /\ \A a, b \in S : a <= b <=> InOrder(S)[a] <= InOrder(S)[b]
<1> DEFINE R == {p \in S \X S : p[1] <= p[2]}
<1>1. \A a, b \in S : <<a, b>> \in R <=> a <= b
  OBVIOUS
<1>2. Orders(R, S)
  BY <1>1 DEF Orders
<1>3. \A a \in S : {b \in S : <<b, a>> \in R} = {b \in S : b <= a}
  BY <1>1
<1>4. InOrder(S) = [a \in S |-> Cardinality({b \in S : <<b, a>> \in R})]
  BY <1>3 DEF InOrder
<1> HIDE DEF R
<1> QED BY <1>1, <1>2, <1>4, CountingNumbers

\* ByAge() numbers rows, the youngest first.
LEMMA ByAgeNumbers ==
  ASSUME NEW S \in SUBSET Nat, IsFiniteSet(S)
  PROVE  /\ Numbers(S, ByAge(S))
         /\ \A a, b \in S : a >= b <=> ByAge(S)[a] <= ByAge(S)[b]
<1> DEFINE R == {p \in S \X S : p[1] >= p[2]}
<1>1. \A a, b \in S : <<a, b>> \in R <=> a >= b
  OBVIOUS
<1>2. Orders(R, S)
  BY <1>1 DEF Orders
<1>3. \A a \in S : {b \in S : <<b, a>> \in R} = {b \in S : b >= a}
  BY <1>1
<1>4. ByAge(S) = [a \in S |-> Cardinality({b \in S : <<b, a>> \in R})]
  BY <1>3 DEF ByAge
<1> HIDE DEF R
<1> QED BY <1>1, <1>2, <1>4, CountingNumbers

\* A set of numbers has a least one.
LEMMA LeastElement ==
  ASSUME NEW T \in SUBSET Nat, T # {}
  PROVE  \E n \in T : \A m \in T : n <= m
<1> DEFINE R == {ss \in Nat \X Nat : ss[1] < ss[2]}
<1>1. IsWellFoundedOn(R, Nat)
  BY NatLessThanWellFounded DEF OpToRel
<1>2. PICK n \in T : \A m \in T : <<m, n>> \notin R
  <2> HIDE DEF R
  <2> QED BY <1>1, WFMin
<1>3. \A m \in T : ~(m < n)
  BY <1>2
<1> QED BY <1>2, <1>3

\* The first entry of a row.
LEMMA DistanceFacts ==
  ASSUME near \in Seq(Memories)
  PROVE  \A a \in Range(near) :
            /\ Distance(a) \in DOMAIN near /\ near[Distance(a)] = a
            /\ \A j \in DOMAIN near : near[j] = a => Distance(a) <= j
<1>1. DOMAIN near = 1..Len(near) /\ Len(near) \in Nat
  BY LenProperties
<1>2. ASSUME NEW a \in Range(near)
      PROVE  /\ Distance(a) \in DOMAIN near /\ near[Distance(a)] = a
             /\ \A j \in DOMAIN near : near[j] = a => Distance(a) <= j
  <2> DEFINE T == {i \in DOMAIN near : near[i] = a}
  <2>1. T # {} /\ T \in SUBSET Nat
    BY <1>1 DEF Range
  <2>2. PICK n \in T : \A m \in T : n <= m
    BY <2>1, LeastElement
  <2>3. n \in DOMAIN near /\ near[n] = a /\ \A j \in 1..(n-1) : near[j] # a
    <3>1. ASSUME NEW j \in 1..(n-1), near[j] = a PROVE FALSE
      <4>1. n \in 1..Len(near)
        BY <1>1, <2>2
      <4>2. j \in 1..Len(near) /\ j < n /\ j \in T
        BY <1>1, <3>1, <4>1
      <4> QED BY <2>2, <4>1, <4>2
    <3> QED BY <2>2, <3>1
  <2> DEFINE d == Distance(a)
  <2>4. d \in DOMAIN near /\ near[d] = a /\ \A j \in 1..(d-1) : near[j] # a
    BY <2>3 DEF Distance
  <2> HIDE DEF d
  <2>5. ASSUME NEW j \in DOMAIN near, near[j] = a PROVE d <= j
    BY <1>1, <2>4, <2>5
  <2> QED BY <2>4, <2>5 DEF d
<1> QED BY <1>2

\* Rows of the index have distances, and no two the same.
LEMMA DistancesDiffer ==
  ASSUME near \in Seq(Memories)
  PROVE  /\ \A a \in Range(near) : Distance(a) \in Nat
         /\ \A a, b \in Range(near) : Distance(a) = Distance(b) => a = b
<1>1. DOMAIN near \subseteq Nat
  BY LenProperties
<1> QED BY <1>1, DistanceFacts

\* Rows by distance.
LEMMA ByDistanceNumbers ==
  ASSUME near \in Seq(Memories), NEW STATE S, S \in SUBSET Range(near), IsFiniteSet(S)
  PROVE  /\ Numbers(S, ByDistance(S))
         /\ \A a, b \in S : Distance(a) <= Distance(b) <=> ByDistance(S)[a] <= ByDistance(S)[b]
<1> DEFINE R == {p \in S \X S : Distance(p[1]) <= Distance(p[2])}
<1>1. \A a, b \in S : <<a, b>> \in R <=> Distance(a) <= Distance(b)
  OBVIOUS
<1>2. Orders(R, S)
  <2>1. /\ \A a \in S : Distance(a) \in Nat
        /\ \A a, b \in S : Distance(a) = Distance(b) => a = b
    BY DistancesDiffer
  <2> HIDE DEF R
  <2> QED BY <1>1, <2>1 DEF Orders
<1>3. \A a \in S : {b \in S : <<b, a>> \in R} = {b \in S : Distance(b) <= Distance(a)}
  BY <1>1
<1>4. ByDistance(S) = [a \in S |-> Cardinality({b \in S : <<b, a>> \in R})]
  BY <1>3 DEF ByDistance
<1> HIDE DEF R
<1> QED BY <1>1, <1>2, <1>4, CountingNumbers

\* Rows by the words they share with the query, the nearer first.
LEMMA KeywordNumbers ==
  ASSUME RetrievalAssumption, near \in Seq(Memories), NEW STATE S, S \in SUBSET Range(near), IsFiniteSet(S)
  PROVE  /\ Numbers(S, KeywordOrder(S))
         /\ \A a, b \in S : Words[a] >= Words[b] /\ Distance(a) < Distance(b)
                              => KeywordOrder(S)[a] < KeywordOrder(S)[b]
<1> DEFINE before(a, b) == \/ Words[a] > Words[b]
                           \/ Words[a] = Words[b] /\ Distance(a) <= Distance(b)
<1> DEFINE R == {p \in S \X S : before(p[1], p[2])}
<1>1. \A a, b \in S : <<a, b>> \in R <=> before(a, b)
  OBVIOUS
<1>2. /\ \A a \in S : Distance(a) \in Nat
      /\ \A a, b \in S : Distance(a) = Distance(b) => a = b
  BY DistancesDiffer
<1>3. \A a \in S : Words[a] \in Nat
  <2>1. S \subseteq Memories
    BY ElementOfSeq DEF Range
  <2> QED BY <2>1 DEF RetrievalAssumption
<1>4. Orders(R, S)
  <2> HIDE DEF R
  <2>1. \A a \in S : before(a, a)
    BY <1>2, <1>3
  <2>2. \A a, b \in S : before(a, b) \/ before(b, a)
    BY <1>2, <1>3
  <2>3. \A a, b \in S : before(a, b) /\ before(b, a) => a = b
    BY <1>2, <1>3
  <2>4. \A a, b, c \in S : before(a, b) /\ before(b, c) => before(a, c)
    BY <1>2, <1>3
  <2> HIDE DEF before
  <2> QED BY <1>1, <2>1, <2>2, <2>3, <2>4 DEF Orders
<1>5. \A a \in S : {b \in S : <<b, a>> \in R} = {b \in S : before(b, a)}
  BY <1>1
<1>6. KeywordOrder(S) = [a \in S |-> Cardinality({b \in S : <<b, a>> \in R})]
  BY <1>5 DEF KeywordOrder
<1> HIDE DEF R
<1>7. /\ Numbers(S, KeywordOrder(S))
      /\ \A a, b \in S : <<a, b>> \in R <=> KeywordOrder(S)[a] <= KeywordOrder(S)[b]
  BY <1>4, <1>6, CountingNumbers
<1>8. ASSUME NEW a \in S, NEW b \in S, Words[a] >= Words[b], Distance(a) < Distance(b)
      PROVE  KeywordOrder(S)[a] < KeywordOrder(S)[b]
  <2>1. ~before(b, a)
    BY <1>2, <1>3, <1>8
  <2>2. KeywordOrder(S)[a] \in Nat /\ KeywordOrder(S)[b] \in Nat
    BY <1>7 DEF Numbers
  <2>3. <<b, a>> \notin R
    BY <1>1, <2>1
  <2>4. ~(KeywordOrder(S)[b] <= KeywordOrder(S)[a])
    BY <1>7, <2>3
  <2> QED BY <2>2, <2>4
<1> QED BY <1>7, <1>8

\* Two fractions, compared over their common denominator.
LEMMA FractionsOrdered ==
  ASSUME NEW p \in Nat, NEW q \in Nat, NEW r \in Nat,
         NEW x \in Nat \ {0}, NEW y \in Nat \ {0}, NEW z \in Nat \ {0}
  PROVE  /\ p * y >= q * x /\ q * z >= r * y => p * z >= r * x
         /\ p * y > q * x /\ q * z >= r * y => p * z > r * x
         /\ p * y >= q * x /\ q * z > r * y => p * z > r * x
<1>1. \A k, l \in Int, m \in Nat \ {0} : (k >= l => k * m >= l * m) /\ (k > l => k * m > l * m)
  OBVIOUS
<1>2. /\ (p * y) * z = (p * z) * y /\ (q * x) * z = (q * z) * x
      /\ (r * y) * x = (r * x) * y
  OBVIOUS
<1>3. /\ p * y \in Int /\ q * x \in Int /\ q * z \in Int /\ r * y \in Int
      /\ p * z \in Int /\ r * x \in Int
  OBVIOUS
<1>4. /\ p * y >= q * x => (p * z) * y >= (q * z) * x
      /\ p * y > q * x => (p * z) * y > (q * z) * x
      /\ q * z >= r * y => (q * z) * x >= (r * x) * y
      /\ q * z > r * y => (q * z) * x > (r * x) * y
  BY <1>1, <1>2, <1>3
<1>5. (p * z) * y \in Int /\ (q * z) * x \in Int /\ (r * x) * y \in Int
  OBVIOUS
<1>6. /\ p * z < r * x => (p * z) * y < (r * x) * y
      /\ p * z = r * x => (p * z) * y = (r * x) * y
  BY <1>1, <1>3
<1> QED BY <1>3, <1>4, <1>5, <1>6

\* A better rank in both lists is a higher score.
LEMMA ScoresDominate ==
  ASSUME NEW p \in Nat \ {0}, NEW q \in Nat \ {0}, NEW x \in Nat \ {0}, NEW y \in Nat \ {0},
         p < x, q < y
  PROVE  (p + q) * (x * y) > (x + y) * (p * q)
<1>1. (p + q) * (x * y) = (p * x) * y + (q * y) * x
  OBVIOUS
<1>2. (x + y) * (p * q) = (p * x) * q + (q * y) * p
  OBVIOUS
<1>3. \A k, l \in Nat, m \in Nat \ {0} : k > l => m * k > m * l
  OBVIOUS
<1>4. p * x \in Nat \ {0} /\ q * y \in Nat \ {0}
  OBVIOUS
<1>5. (p * x) * y > (p * x) * q /\ (q * y) * x > (q * y) * p
  BY <1>3, <1>4
<1>6. (p * x) * y \in Nat /\ (p * x) * q \in Nat /\ (q * y) * x \in Nat /\ (q * y) * p \in Nat
  OBVIOUS
<1> QED BY <1>1, <1>2, <1>5, <1>6
\* The ranking fused of the two: a row that is better in both comes first.
LEMMA FuseNumbers ==
  ASSUME RetrievalAssumption, near \in Seq(Memories), NEW STATE S, S \in SUBSET Range(near), IsFiniteSet(S)
  PROVE  /\ Numbers(S, Fuse(S))
         /\ \A a, b \in S : Words[a] >= Words[b] /\ Distance(a) < Distance(b)
                              => Fuse(S)[a] < Fuse(S)[b]
<1> DEFINE r == [a \in S |-> RRFK + ByDistance(S)[a]]
           q == [a \in S |-> RRFK + KeywordOrder(S)[a]]
           score(a, b) == (r[a] + q[a]) * (r[b] * q[b])
           before(a, b) == \/ score(a, b) > score(b, a)
                           \/ score(a, b) = score(b, a) /\ Distance(a) <= Distance(b)
           R == {p \in S \X S : before(p[1], p[2])}
<1>1. \A a, b \in S : <<a, b>> \in R <=> before(a, b)
  OBVIOUS
<1>2. /\ \A a \in S : Distance(a) \in Nat
      /\ \A a, b \in S : Distance(a) = Distance(b) => a = b
  BY DistancesDiffer
<1>3. \A a \in S : r[a] \in Nat \ {0} /\ q[a] \in Nat \ {0}
  <2>1. ASSUME NEW a \in S
        PROVE  ByDistance(S)[a] \in Nat \ {0} /\ KeywordOrder(S)[a] \in Nat \ {0}
    <3>1. Numbers(S, ByDistance(S)) /\ Numbers(S, KeywordOrder(S))
      BY ByDistanceNumbers, KeywordNumbers
    <3>2. \A rn : Numbers(S, rn) => rn[a] \in Nat \ {0}
      BY DEF Numbers
    <3> QED BY <3>1, <3>2
  <2> QED BY <2>1 DEF RetrievalAssumption
<1>4. \A a \in S : {b \in S : <<b, a>> \in R} = {b \in S : before(b, a)}
  BY <1>1
<1>5. Fuse(S) = [a \in S |-> Cardinality({b \in S : <<b, a>> \in R})]
  <2>1. Fuse(S) = [a \in S |-> Cardinality({b \in S : before(b, a)})]
    <3>1. ASSUME NEW a \in S, NEW b \in S
          PROVE  score(b, a) = ((RRFK + ByDistance(S)[b]) + (RRFK + KeywordOrder(S)[b]))
                                * ((RRFK + ByDistance(S)[a]) * (RRFK + KeywordOrder(S)[a]))
      OBVIOUS
    <3> QED BY <3>1 DEF Fuse
  <2> QED BY <1>4, <2>1
<1> DEFINE sum == [a \in S |-> r[a] + q[a]]
           product == [a \in S |-> r[a] * q[a]]
<1>6. \A a \in S : sum[a] \in Nat /\ product[a] \in Nat \ {0}
  BY <1>3
<1>7. \A a, b \in S : score(a, b) = sum[a] * product[b] /\ score(a, b) \in Nat
  BY <1>3
<1>8. ASSUME NEW a \in S, NEW b \in S, NEW c \in S, before(a, b), before(b, c)
      PROVE  before(a, c)
  <2>1. /\ score(a, b) >= score(b, a) /\ score(b, c) >= score(c, b) => score(a, c) >= score(c, a)
        /\ score(a, b) > score(b, a) /\ score(b, c) >= score(c, b) => score(a, c) > score(c, a)
        /\ score(a, b) >= score(b, a) /\ score(b, c) > score(c, b) => score(a, c) > score(c, a)
    <3>1. /\ score(a, b) = sum[a] * product[b] /\ score(b, a) = sum[b] * product[a]
          /\ score(b, c) = sum[b] * product[c] /\ score(c, b) = sum[c] * product[b]
          /\ score(a, c) = sum[a] * product[c] /\ score(c, a) = sum[c] * product[a]
      BY <1>7
    <3>2. /\ sum[a] \in Nat /\ sum[b] \in Nat /\ sum[c] \in Nat
          /\ product[a] \in Nat \ {0} /\ product[b] \in Nat \ {0} /\ product[c] \in Nat \ {0}
      BY <1>6
    <3> HIDE DEF sum, product, score
    <3>3. /\ sum[a] * product[b] >= sum[b] * product[a] /\ sum[b] * product[c] >= sum[c] * product[b]
             => sum[a] * product[c] >= sum[c] * product[a]
          /\ sum[a] * product[b] > sum[b] * product[a] /\ sum[b] * product[c] >= sum[c] * product[b]
             => sum[a] * product[c] > sum[c] * product[a]
          /\ sum[a] * product[b] >= sum[b] * product[a] /\ sum[b] * product[c] > sum[c] * product[b]
             => sum[a] * product[c] > sum[c] * product[a]
      BY <3>2, FractionsOrdered, Zenon
    <3> QED BY <3>1, <3>3
  <2>2. /\ score(a, b) \in Nat /\ score(b, a) \in Nat /\ score(b, c) \in Nat
        /\ score(c, b) \in Nat /\ score(a, c) \in Nat /\ score(c, a) \in Nat
    BY <1>7
  <2> HIDE DEF score
  <2> QED BY <1>2, <1>8, <2>1, <2>2
<1>9. Orders(R, S)
  <2> HIDE DEF R, score
  <2>1. \A a \in S : before(a, a)
    BY <1>2, <1>7
  <2>2. \A a, b \in S : before(a, b) \/ before(b, a)
    BY <1>2, <1>7
  <2>3. \A a, b \in S : before(a, b) /\ before(b, a) => a = b
    BY <1>2, <1>7
  <2> HIDE DEF before
  <2> QED BY <1>1, <1>8, <2>1, <2>2, <2>3 DEF Orders
<1>10. /\ Numbers(S, Fuse(S))
       /\ \A a, b \in S : <<a, b>> \in R <=> Fuse(S)[a] <= Fuse(S)[b]
  <2> HIDE DEF R
  <2> QED BY <1>5, <1>9, CountingNumbers
<1>11. ASSUME NEW a \in S, NEW b \in S, Words[a] >= Words[b], Distance(a) < Distance(b)
       PROVE  Fuse(S)[a] < Fuse(S)[b]
  <2>1. r[a] < r[b]
    <3>1. ByDistance(S)[a] < ByDistance(S)[b]
      <4>1. ByDistance(S)[a] \in Nat /\ ByDistance(S)[b] \in Nat
        BY ByDistanceNumbers DEF Numbers
      <4>2. ~(Distance(b) <= Distance(a))
        BY <1>2, <1>11
      <4>3. ~(ByDistance(S)[b] <= ByDistance(S)[a])
        BY <4>2, ByDistanceNumbers
      <4> QED BY <4>1, <4>3
    <3>2. ByDistance(S)[a] \in Nat /\ ByDistance(S)[b] \in Nat
      BY ByDistanceNumbers DEF Numbers
    <3> QED BY <3>1, <3>2 DEF RetrievalAssumption
  <2>2. q[a] < q[b]
    <3>1. KeywordOrder(S)[a] < KeywordOrder(S)[b]
      BY <1>11, KeywordNumbers
    <3>2. KeywordOrder(S)[a] \in Nat /\ KeywordOrder(S)[b] \in Nat
      BY KeywordNumbers DEF Numbers
    <3> QED BY <3>1, <3>2 DEF RetrievalAssumption
  <2>3. score(a, b) > score(b, a)
    <3> HIDE DEF r, q
    <3> QED BY <1>3, <2>1, <2>2, ScoresDominate
  <2>4. ~before(b, a)
    <3>1. score(a, b) \in Nat /\ score(b, a) \in Nat
      BY <1>7
    <3> HIDE DEF score
    <3> QED BY <2>3, <3>1
  <2>5. <<b, a>> \notin R
    BY <1>1, <2>4
  <2>6. Fuse(S)[a] \in Nat /\ Fuse(S)[b] \in Nat
    BY <1>10 DEF Numbers
  <2>7. ~(Fuse(S)[b] <= Fuse(S)[a])
    <3> HIDE DEF R
    <3> QED BY <1>10, <2>5
  <2> QED BY <2>6, <2>7
<1> QED BY <1>10, <1>11

\* The rows of a search nobody disturbs.
Nearest(type) == First(LiveIndexed(type), ByDistance(LiveIndexed(type)), TopK)

\* What is indexed are rows, a finite number of them.
LEMMA IndexTypes ==
  ASSUME RetrievalTypeOK
  PROVE  /\ near \in Seq(Memories) /\ Range(near) \subseteq Memories
         /\ \A S \in SUBSET Memories : IsFiniteSet(S)
         /\ \A type : LiveIndexed(type) \in SUBSET Range(near)
         /\ \A type : Nearest(type) \in SUBSET LiveIndexed(type)
<1>1. near \in Seq(Memories)
  BY RetrievalAssumption DEF RetrievalTypeOK
<1>2. Range(near) \subseteq Memories
  BY <1>1, ElementOfSeq DEF Range
<1>3. \A S \in SUBSET Memories : IsFiniteSet(S)
  BY RetrievalAssumption, FS_Subset
<1> QED BY <1>1, <1>2, <1>3 DEF LiveIndexed, Nearest, First

\* A part of a ranking that leaves out only what is further away keeps the
\* numbers.
LEMMA NumbersKept ==
  ASSUME NEW STATE S, NEW STATE T, T \in SUBSET S,
         \A a \in T : \A b \in S : Distance(b) <= Distance(a) => b \in T
  PROVE  \A a \in T : ByDistance(T)[a] = ByDistance(S)[a]
<1>1. ASSUME NEW a \in T
      PROVE  {b \in T : Distance(b) <= Distance(a)} = {b \in S : Distance(b) <= Distance(a)}
  OBVIOUS
<1> QED BY <1>1 DEF ByDistance

\* The nearest rows, listed, are a slice of the rows by distance.
LEMMA NearestListed ==
  ASSUME RetrievalTypeOK, NEW type
  PROVE  Numbered(Nearest(type), ByDistance(Nearest(type))) = Take(Searchable(type), TopK)
<1> DEFINE S == LiveIndexed(type)
           T == Nearest(type)
<1>1. /\ near \in Seq(Memories)
      /\ S \in SUBSET Range(near) /\ IsFiniteSet(S)
      /\ T \in SUBSET S /\ T \in SUBSET Range(near) /\ IsFiniteSet(T)
  BY IndexTypes, FS_Subset
<1>2. T = First(S, ByDistance(S), TopK)
  BY DEF Nearest
<1>3. TopK \in Nat
  BY RetrievalAssumption
<1> HIDE DEF S, T
<1>4. /\ Numbers(S, ByDistance(S)) /\ Numbers(T, ByDistance(T))
      /\ \A a, b \in S : Distance(a) <= Distance(b) <=> ByDistance(S)[a] <= ByDistance(S)[b]
  BY <1>1, ByDistanceNumbers
<1>5. ASSUME NEW a \in T, NEW b \in S, Distance(b) <= Distance(a) PROVE b \in T
  <2>1. a \in S /\ ByDistance(S)[a] <= TopK
    BY <1>2 DEF First
  <2>2. ByDistance(S)[b] <= ByDistance(S)[a]
    BY <1>4, <1>5, <2>1
  <2>3. ByDistance(S)[a] \in Nat /\ ByDistance(S)[b] \in Nat
    BY <1>4, <2>1 DEF Numbers
  <2>4. ByDistance(S)[b] <= TopK
    BY <1>3, <2>1, <2>2, <2>3
  <2> QED BY <1>2, <2>4 DEF First
<1>6. \A a \in T : ByDistance(T)[a] = ByDistance(S)[a]
  BY <1>1, <1>5, NumbersKept
<1>7. Numbered(T, ByDistance(T)) = Take(Numbered(S, ByDistance(S)), TopK)
  BY <1>2, <1>3, <1>4, <1>6, FirstIsTake
<1> QED BY <1>7 DEF Searchable, S, T

\* A window OverFetch times as wide reaches the top_k nearest rows, however the
\* chunks of a row are placed.
LEMMA WindowReaches ==
  ASSUME RetrievalTypeOK, WindowWide, NEW type,
         NEW STATE E, E = {i \in DOMAIN near : near[i] \in LiveIndexed(type)},
         NEW a \in LiveIndexed(type), ByDistance(LiveIndexed(type))[a] <= TopK
  PROVE  InOrder(E)[Distance(a)] <= OverFetch * TopK
<1> DEFINE L == LiveIndexed(type)
           p == Distance(a)
           upTo == {i \in E : i <= p}
           nearer == {b \in L : Distance(b) <= p}
           number(i) == Cardinality({j \in EntriesOf(near[i]) : j <= i})
<1>1. /\ near \in Seq(Memories) /\ DOMAIN near = 1..Len(near) /\ Len(near) \in Nat
      /\ L \in SUBSET Range(near) /\ IsFiniteSet(L)
  BY IndexTypes, LenProperties, FS_Subset
<1>2. /\ IsFiniteSet(DOMAIN near) /\ DOMAIN near \subseteq Nat
  BY <1>1, FS_Interval
<1>3. IsFiniteSet(upTo) /\ IsFiniteSet(nearer)
  <2>1. upTo \in SUBSET DOMAIN near /\ nearer \in SUBSET L
    OBVIOUS
  <2> QED BY <1>1, <1>2, <2>1, FS_Subset
<1>4. p \in E /\ InOrder(E)[p] = Cardinality(upTo)
  <2>1. p \in E
    BY <1>1, DistanceFacts
  <2> QED BY <2>1 DEF InOrder
<1>5. Cardinality(nearer) <= TopK
  BY DEF ByDistance
<1>6. ASSUME NEW i \in upTo PROVE near[i] \in nearer
  <2>1. near[i] \in L /\ i \in DOMAIN near /\ i <= p
    OBVIOUS
  <2>2. Distance(near[i]) <= i /\ Distance(near[i]) \in DOMAIN near /\ p \in DOMAIN near
    BY <1>1, <1>4, <2>1, DistanceFacts
  <2>3. Distance(near[i]) <= p
    BY <1>2, <2>1, <2>2
  <2> QED BY <2>1, <2>3
<1>7. ASSUME NEW b \in L
      PROVE  /\ Numbers(EntriesOf(b), InOrder(EntriesOf(b)))
             /\ Cardinality(EntriesOf(b)) \in Nat /\ Cardinality(EntriesOf(b)) <= OverFetch
  <2>1. EntriesOf(b) \in SUBSET DOMAIN near
    BY DEF EntriesOf
  <2>2. EntriesOf(b) \in SUBSET Nat /\ IsFiniteSet(EntriesOf(b))
    BY <1>2, <2>1, FS_Subset
  <2>3. Numbers(EntriesOf(b), InOrder(EntriesOf(b)))
    BY <2>2, InOrderNumbers
  <2> QED BY <1>1, <2>2, <2>3, FS_CardinalityType DEF WindowWide
<1>8. ASSUME NEW i \in upTo
      PROVE  /\ i \in EntriesOf(near[i]) /\ number(i) = InOrder(EntriesOf(near[i]))[i]
             /\ number(i) \in 1..OverFetch
  <2>1. near[i] \in L /\ i \in EntriesOf(near[i])
    BY DEF EntriesOf
  <2>2. number(i) = InOrder(EntriesOf(near[i]))[i]
    BY <2>1 DEF InOrder
  <2>3. InOrder(EntriesOf(near[i]))[i] \in 1..Cardinality(EntriesOf(near[i]))
    BY <1>7, <2>1 DEF Numbers
  <2>4. OverFetch \in Nat
    BY RetrievalAssumption
  <2> QED BY <1>7, <2>1, <2>2, <2>3, <2>4
<1> DEFINE f == [i \in upTo |-> <<near[i], number(i)>>]
<1>9. f \in Injection(upTo, nearer \X (1..OverFetch))
  <2>1. f \in [upTo -> nearer \X (1..OverFetch)]
    BY <1>6, <1>8
  <2>2. ASSUME NEW i \in upTo, NEW j \in upTo, f[i] = f[j] PROVE i = j
    <3>1. near[i] = near[j] /\ number(i) = number(j)
      <4> HIDE DEF upTo, number
      <4> QED BY <2>2
    <3>2. /\ i \in EntriesOf(near[i]) /\ j \in EntriesOf(near[i])
          /\ InOrder(EntriesOf(near[i]))[i] = InOrder(EntriesOf(near[i]))[j]
      BY <1>8, <3>1
    <3>3. near[i] \in L
      OBVIOUS
    <3> QED BY <1>7, <3>2, <3>3 DEF Numbers
  <2> HIDE DEF f
  <2> QED BY <2>1, <2>2 DEF Injection, IsInjective
<1>10. /\ IsFiniteSet(nearer \X (1..OverFetch))
       /\ Cardinality(nearer \X (1..OverFetch)) = Cardinality(nearer) * OverFetch
  <2>1. IsFiniteSet(1..OverFetch) /\ Cardinality(1..OverFetch) = OverFetch
    BY RetrievalAssumption, FS_Interval
  <2> HIDE DEF nearer
  <2> QED BY <1>3, <2>1, FS_Product
<1>11. Cardinality(upTo) <= Cardinality(nearer) * OverFetch
  <2> HIDE DEF upTo, nearer, f
  <2> QED BY <1>9, <1>10, FS_Injection
<1>12. Cardinality(nearer) * OverFetch <= OverFetch * TopK
  <2>1. Cardinality(nearer) \in Nat /\ TopK \in Nat /\ OverFetch \in Nat
    BY <1>3, FS_CardinalityType, RetrievalAssumption
  <2>2. \A k, l, m \in Nat : k <= l => k * m <= m * l
    OBVIOUS
  <2> HIDE DEF nearer
  <2> QED BY <1>5, <2>1, <2>2
<1>13. /\ Cardinality(upTo) \in Nat /\ Cardinality(nearer) * OverFetch \in Nat
       /\ OverFetch * TopK \in Nat
  <2>1. Cardinality(nearer) \in Nat /\ TopK \in Nat /\ OverFetch \in Nat
    BY <1>3, FS_CardinalityType, RetrievalAssumption
  <2> HIDE DEF nearer, upTo
  <2> QED BY <1>3, <2>1, FS_CardinalityType
<1> QED BY <1>4, <1>11, <1>12, <1>13

\* Ranking chunks in a wide window finds the nearest rows.
LEMMA ChunksSuffice ==
  ASSUME RetrievalTypeOK, WindowWide, call # "hybrid"
  PROVE  RankedByChunks = Nearest(Head(types))
<1> DEFINE type == Head(types)
           L == LiveIndexed(type)
           E == ChunkEntries
           window == First(E, InOrder(E), OverFetch * TopK)
           rows == {near[i] : i \in window}
<1>1. /\ near \in Seq(Memories) /\ DOMAIN near = 1..Len(near) /\ Len(near) \in Nat
      /\ L \in SUBSET Range(near) /\ IsFiniteSet(L)
  BY IndexTypes, LenProperties, FS_Subset
<1>2. IsFiniteSet(DOMAIN near) /\ DOMAIN near \subseteq Nat
  BY <1>1, FS_Interval
<1>3. E = {i \in DOMAIN near : near[i] \in L}
  <2>1. ASSUME NEW i \in DOMAIN near
        PROVE  near[i] \in Range(near) /\ (status[near[i]] = "live" <=> status[near[i]] # "absent")
    BY DEF WindowWide, Range
  <2> QED BY <2>1 DEF ChunkEntries, LiveIndexed
<1>4. /\ E \in SUBSET Nat /\ E \in SUBSET DOMAIN near /\ IsFiniteSet(E)
  BY <1>2, <1>3, FS_Subset
<1> HIDE DEF E, type
<1>5. \A i, j \in E : i <= j <=> InOrder(E)[i] <= InOrder(E)[j]
  BY <1>4, InOrderNumbers
<1>6. \A i \in E : InOrder(E)[i] \in Nat
  BY <1>4, InOrderNumbers DEF Numbers
<1>7. OverFetch * TopK \in Nat
  BY RetrievalAssumption
<1>8. ASSUME NEW a \in L
      PROVE  Distance(a) \in E /\ (a \in rows <=> Distance(a) \in window)
  <2>1. /\ Distance(a) \in DOMAIN near /\ near[Distance(a)] = a
        /\ \A j \in DOMAIN near : near[j] = a => Distance(a) <= j
    BY <1>1, DistanceFacts
  <2>2. Distance(a) \in E
    BY <1>3, <2>1
  <2>3. ASSUME NEW i \in window, near[i] = a PROVE Distance(a) \in window
    <3>1. i \in E /\ InOrder(E)[i] <= OverFetch * TopK
      BY DEF First
    <3>2. Distance(a) <= i
      BY <1>4, <2>1, <2>3, <3>1
    <3>3. InOrder(E)[Distance(a)] <= InOrder(E)[i]
      BY <1>5, <2>2, <3>1, <3>2
    <3>4. InOrder(E)[Distance(a)] <= OverFetch * TopK
      BY <1>6, <1>7, <2>2, <3>1, <3>3
    <3> QED BY <2>2, <3>4 DEF First
  <2> QED BY <2>1, <2>2, <2>3
<1>9. rows \in SUBSET L
  BY <1>3 DEF First
<1>10. ASSUME NEW a \in rows, NEW b \in L, Distance(b) <= Distance(a) PROVE b \in rows
  <2>1. Distance(a) \in window /\ Distance(a) \in E /\ Distance(b) \in E
    BY <1>8, <1>9
  <2>2. InOrder(E)[Distance(b)] <= InOrder(E)[Distance(a)]
    BY <1>5, <1>10, <2>1
  <2>3. InOrder(E)[Distance(a)] <= OverFetch * TopK
    BY <2>1 DEF First
  <2>4. InOrder(E)[Distance(b)] <= OverFetch * TopK
    BY <1>6, <1>7, <2>1, <2>2, <2>3
  <2> QED BY <1>8, <2>1, <2>4 DEF First
<1>11. ASSUME NEW a \in L, ByDistance(L)[a] <= TopK PROVE a \in rows
  <2>1. InOrder(E)[Distance(a)] <= OverFetch * TopK
    BY <1>3, <1>11, WindowReaches
  <2> QED BY <1>8, <2>1 DEF First
<1> HIDE DEF rows, L
<1>12. \A a \in rows : ByDistance(rows)[a] = ByDistance(L)[a]
  BY <1>9, <1>10, NumbersKept
<1>13. First(rows, ByDistance(rows), TopK) = First(L, ByDistance(L), TopK)
  BY <1>9, <1>11, <1>12 DEF First
<1> QED BY <1>13 DEF RankedByChunks, Nearest, rows, L, E, type

\* A list in which nothing comes twice.
NoRepeats(s) == \A i, j \in DOMAIN s : s[i] = s[j] => i = j

\* A list without repetitions is as long as it has elements.
LEMMA NoRepeatsLength ==
  ASSUME NEW S, NEW s \in Seq(S)
  PROVE  /\ IsFiniteSet(Range(s)) /\ Cardinality(Range(s)) \in Nat
         /\ NoRepeats(s) => Cardinality(Range(s)) = Len(s)
<1>1. DOMAIN s = 1..Len(s) /\ Len(s) \in Nat /\ s \in [1..Len(s) -> S]
  BY LenProperties
<1>2. IsFiniteSet(1..Len(s)) /\ Cardinality(1..Len(s)) = Len(s)
  <2> DEFINE m == Len(s)
  <2>1. m \in Nat
    BY <1>1
  <2> HIDE DEF m
  <2>2. IsFiniteSet(1..m) /\ Cardinality(1..m) = m
    BY <2>1, FS_Interval
  <2> QED BY <2>2 DEF m
<1>3. s \in Surjection(1..Len(s), Range(s))
  BY <1>1 DEF Surjection, Range
<1>4. NoRepeats(s) => s \in Injection(1..Len(s), Range(s))
  BY <1>1, <1>3 DEF NoRepeats, Injection, IsInjective, Surjection
<1> QED BY <1>2, <1>3, <1>4, FS_Surjection, FS_CardinalityType

\* How many elements are numbered up to n.
LEMMA FirstSize ==
  ASSUME NEW S, NEW rs, Numbers(S, rs), NEW n \in Nat
  PROVE  /\ IsFiniteSet(First(S, rs, n))
         /\ Cardinality(First(S, rs, n)) = IF n < Cardinality(S) THEN n ELSE Cardinality(S)
<1> DEFINE T == First(S, rs, n)
           m == IF n < Cardinality(S) THEN n ELSE Cardinality(S)
           f == [a \in T |-> rs[a]]
<1>1. T \in SUBSET S /\ IsFiniteSet(T)
  BY FS_Subset DEF First, Numbers
<1>2. m \in Nat /\ IsFiniteSet(1..m) /\ Cardinality(1..m) = m
  <2>1. m \in Nat
    BY DEF Numbers
  <2> HIDE DEF m
  <2> QED BY <2>1, FS_Interval
<1>3. \A a \in T : rs[a] \in 1..m
  BY DEF First, Numbers
<1>4. \A k \in 1..m : \E a \in T : rs[a] = k
  <2> SUFFICES ASSUME NEW k \in 1..m PROVE \E a \in T : rs[a] = k
    OBVIOUS
  <2>1. k \in 1..Cardinality(S) /\ k <= n
    BY DEF Numbers
  <2> QED BY <2>1 DEF First, Numbers
<1>5. \A a, b \in T : rs[a] = rs[b] => a = b
  BY <1>1 DEF Numbers
<1> HIDE DEF T, m
<1>6. f \in Surjection(T, 1..m) /\ f \in Injection(T, 1..m)
  BY <1>3, <1>4, <1>5 DEF Surjection, Injection, IsInjective
<1>7. Cardinality(1..m) = Cardinality(T)
  BY <1>1, <1>6, FS_Surjection
<1> QED BY <1>1, <1>2, <1>7 DEF T, m

\* Two slices, put together and cut again.
LEMMA TakeConcat ==
  ASSUME NEW S, NEW s \in Seq(S), NEW t \in Seq(S), NEW n \in Nat
  PROVE  Take(Take(s, n) \o Take(t, n), n) = Take(s \o t, n)
<1> DEFINE p == Take(s, n)
           q == Take(t, n)
           u == p \o q
           v == s \o t
<1>1. /\ p \in Seq(S) /\ Len(p) = IF n < Len(s) THEN n ELSE Len(s)
      /\ \A i \in 1..Len(p) : p[i] = s[i]
      /\ q \in Seq(S) /\ Len(q) = IF n < Len(t) THEN n ELSE Len(t)
      /\ \A i \in 1..Len(q) : q[i] = t[i]
  BY TakeFacts
<1>2. Len(s) \in Nat /\ Len(t) \in Nat /\ Len(p) \in Nat /\ Len(q) \in Nat
  BY <1>1, LenProperties
<1> HIDE DEF p, q
<1>3. /\ u \in Seq(S) /\ Len(u) = Len(p) + Len(q)
      /\ \A i \in 1..Len(u) : u[i] = IF i <= Len(p) THEN p[i] ELSE q[i - Len(p)]
  <2>1. p \in Seq(S) /\ q \in Seq(S)
    BY <1>1
  <2> QED BY <2>1, ConcatProperties
<1>4. /\ v \in Seq(S) /\ Len(v) = Len(s) + Len(t)
      /\ \A i \in 1..Len(v) : v[i] = IF i <= Len(s) THEN s[i] ELSE t[i - Len(s)]
  BY ConcatProperties
<1> HIDE DEF u, v
<1>5. /\ Take(u, n) \in Seq(S) /\ Len(Take(u, n)) = IF n < Len(u) THEN n ELSE Len(u)
      /\ \A i \in 1..Len(Take(u, n)) : Take(u, n)[i] = u[i]
  BY <1>3, TakeFacts
<1>6. /\ Take(v, n) \in Seq(S) /\ Len(Take(v, n)) = IF n < Len(v) THEN n ELSE Len(v)
      /\ \A i \in 1..Len(Take(v, n)) : Take(v, n)[i] = v[i]
  BY <1>4, TakeFacts
<1>7. Len(Take(u, n)) = Len(Take(v, n)) /\ Len(Take(v, n)) <= n
      /\ Len(Take(v, n)) <= Len(u) /\ Len(Take(v, n)) <= Len(v) /\ Len(Take(v, n)) \in Nat
  <2>1. /\ Len(u) \in Nat /\ Len(v) \in Nat
        /\ (IF n < Len(u) THEN n ELSE Len(u)) = (IF n < Len(v) THEN n ELSE Len(v))
    <3>1. /\ Len(p) = IF n < Len(s) THEN n ELSE Len(s)
          /\ Len(q) = IF n < Len(t) THEN n ELSE Len(t)
          /\ Len(u) = Len(p) + Len(q) /\ Len(v) = Len(s) + Len(t)
      BY <1>1, <1>3, <1>4
    <3>2. CASE n < Len(s)
      BY <1>2, <3>1, <3>2
    <3>3. CASE ~(n < Len(s)) /\ n < Len(t)
      BY <1>2, <3>1, <3>3
    <3>4. CASE ~(n < Len(s)) /\ ~(n < Len(t))
      BY <1>2, <3>1, <3>4
    <3> QED BY <3>2, <3>3, <3>4
  <2> QED BY <1>5, <1>6, <2>1
<1>8. ASSUME NEW i \in 1..Len(Take(v, n)) PROVE u[i] = v[i]
  <2>1. i \in 1..Len(u) /\ i \in 1..Len(v) /\ i <= n /\ i \in Nat /\ 1 <= i
    BY <1>2, <1>3, <1>4, <1>7
  <2>2. CASE i <= Len(s)
    <3>1. i <= Len(p) /\ i \in 1..Len(p)
      BY <1>1, <1>2, <2>1, <2>2
    <3> QED BY <1>1, <1>3, <1>4, <2>1, <2>2, <3>1
  <2>3. CASE ~(i <= Len(s))
    <3>1. Len(p) = Len(s)
      BY <1>1, <1>2, <2>1, <2>3
    <3>2. i - Len(s) \in 1..Len(q)
      BY <1>2, <1>3, <2>1, <2>3, <3>1
    <3>3. u[i] = q[i - Len(s)] /\ v[i] = t[i - Len(s)]
      BY <1>3, <1>4, <2>1, <2>3, <3>1
    <3> QED BY <1>1, <3>2, <3>3
  <2> QED BY <2>2, <2>3
<1>9. \A i \in 1..Len(Take(u, n)) : Take(u, n)[i] = Take(v, n)[i]
  BY <1>5, <1>6, <1>7, <1>8
<1> QED BY <1>5, <1>6, <1>7, <1>9, SeqEqual DEF p, q, u, v

\* The numbers up to n, in their order.
LEMMA InOrderInterval ==
  ASSUME NEW n \in Nat
  PROVE  Numbered(1..n, InOrder(1..n)) = [k \in 1..n |-> k]
<1>1. IsFiniteSet(1..n) /\ Cardinality(1..n) = n /\ 1..n \in SUBSET Nat
  BY FS_Interval
<1>2. ASSUME NEW k \in 1..n PROVE InOrder(1..n)[k] = k
  <2>1. {j \in 1..n : j <= k} = 1..k
    OBVIOUS
  <2>2. Cardinality(1..k) = k
    BY FS_Interval
  <2> QED BY <2>1, <2>2 DEF InOrder
<1>3. ASSUME NEW k \in 1..n PROVE (CHOOSE a \in 1..n : InOrder(1..n)[a] = k) = k
  BY <1>2
<1> QED BY <1>1, <1>3 DEF Numbered

\* What the filters after a search leave.
LEMMA FilterFacts ==
  ASSUME RetrievalAssumption, NEW STATE all, all \in Seq(Memories)
  PROVE  /\ Filter(all) \in Seq(Memories)
         /\ \A i \in DOMAIN Filter(all) : ThreadOf[Filter(all)[i]] = thread
         /\ (\A i \in DOMAIN all : ThreadOf[all[i]] = thread) => Filter(all) = Take(all, TopK)
<1> DEFINE n == Len(all)
           kept == {i \in DOMAIN all : ThreadOf[all[i]] = thread}
           place == Numbered(kept, InOrder(kept))
           left == [k \in DOMAIN place |-> all[place[k]]]
<1>1. n \in Nat /\ DOMAIN all = 1..n /\ \A i \in 1..n : all[i] \in Memories
  BY LenProperties, ElementOfSeq
<1>2. IsFiniteSet(1..n) /\ 1..n \in SUBSET Nat
  BY <1>1, FS_Interval
<1>3. kept \in SUBSET 1..n /\ kept \in SUBSET Nat /\ IsFiniteSet(kept)
  BY <1>1, <1>2, FS_Subset
<1>4. /\ Cardinality(kept) \in Nat /\ DOMAIN place = 1..Cardinality(kept)
      /\ \A k \in 1..Cardinality(kept) : place[k] \in kept
  <2>1. Numbers(kept, InOrder(kept))
    BY <1>3, InOrderNumbers
  <2> HIDE DEF kept
  <2> QED BY <2>1, NumberedList DEF Numbers
<1>5. /\ left \in Seq(Memories) /\ Len(left) = Cardinality(kept)
      /\ \A k \in 1..Cardinality(kept) : ThreadOf[left[k]] = thread
  <2>1. \A k \in 1..Cardinality(kept) : all[place[k]] \in Memories /\ ThreadOf[all[place[k]]] = thread
    BY <1>1, <1>3, <1>4
  <2>2. left = [k \in 1..Cardinality(kept) |-> all[place[k]]]
    BY <1>4
  <2> HIDE DEF left, place, kept
  <2>3. left \in [1..Cardinality(kept) -> Memories]
    BY <2>1, <2>2
  <2>4. left \in Seq(Memories) /\ Len(left) = Cardinality(kept)
    BY <1>4, <2>3
  <2> QED BY <2>1, <2>2, <2>4
<1>6. TopK \in Nat
  BY RetrievalAssumption
<1>7. /\ Filter(all) = Take(left, TopK)
  BY DEF Filter
<1>8. (\A i \in DOMAIN all : ThreadOf[all[i]] = thread) => left = all
  <2> SUFFICES ASSUME \A i \in DOMAIN all : ThreadOf[all[i]] = thread PROVE left = all
    OBVIOUS
  <2>1. kept = 1..n
    BY <1>1
  <2>2. place = [k \in 1..n |-> k]
    BY <1>1, <2>1, InOrderInterval
  <2>3. left = [k \in 1..n |-> all[k]]
    BY <2>2
  <2>4. all = [k \in 1..n |-> all[k]]
    BY <1>1
  <2> QED BY <2>3, <2>4
<1> HIDE DEF left
<1>9. /\ Take(left, TopK) \in Seq(Memories)
      /\ Len(Take(left, TopK)) = IF TopK < Len(left) THEN TopK ELSE Len(left)
      /\ \A i \in 1..Len(Take(left, TopK)) : Take(left, TopK)[i] = left[i]
  BY <1>5, <1>6, TakeFacts
<1>10. \A i \in DOMAIN Take(left, TopK) : ThreadOf[Take(left, TopK)[i]] = thread
  <2>1. DOMAIN Take(left, TopK) = 1..Len(Take(left, TopK)) /\ Len(left) \in Nat
    BY <1>5, <1>9, LenProperties
  <2>2. \A i \in 1..Len(Take(left, TopK)) : i \in 1..Cardinality(kept)
    BY <1>4, <1>5, <1>6, <1>9
  <2> QED BY <1>5, <1>9, <2>1, <2>2
<1> QED BY <1>7, <1>8, <1>9, <1>10

\* Where a call stands: what it has ranked is indexed and no row yet to come,
\* only the fan-out goes through two tables, and a section that waits for its
\* backfill is too short.
ReaderOK ==
    /\ ranked \subseteq Range(near)
    /\ \A a \in ranked : status[a] # "absent"
    /\ pc = "idle" => results = <<>>
    /\ pc \in {"rank", "fetch"} =>
         \/ types = <<"facts">> /\ (call = "fanout" \/ results = <<>>)
         \/ types = <<"working", "facts">> /\ call = "fanout" /\ results = <<>>
    /\ pc = "backfill" => call = "card" /\ Len(results) < Minimum /\ NoRepeats(results)

\* Between its two statements an undisturbed search holds the nearest rows.
RankingOK ==
    pc = "fetch" /\ call # "hybrid" /\ quiet /\ (chunked => WindowWide) =>
       ranked = Nearest(Head(types))

\* Between its two tables an undisturbed fan-out holds the first one's rows.
HalfwayOK ==
    pc \in {"rank", "fetch"} /\ call = "fanout" /\ types = <<"facts">> /\ quiet /\ ~chunked =>
       results = Take(Searchable("working"), TopK)

\* The inductive invariant: the answers are right because what a call holds on
\* the way to them is.
RetrievalInv ==
    /\ RetrievalTypeOK /\ ReaderOK /\ RankingOK /\ HalfwayOK
    /\ NearestFound /\ FusionRespectsBoth /\ ThreadExact

\* The lists of tables.
LEMMA TypesFacts ==
  /\ Tail(<<"working", "facts">>) = <<"facts">> /\ Tail(<<"facts">>) = <<>>
  /\ Head(<<"working", "facts">>) = "working" /\ Head(<<"facts">>) = "facts"
  /\ <<"facts">> # <<>> /\ <<"working", "facts">> # <<>> /\ <<"working", "facts">> # <<"facts">>
OBVIOUS

\* A reader's step changes nothing that its ranking depends on.
LEMMA RetrievalFrame ==
  ASSUME UNCHANGED <<near, chunked, status, thread>>
  PROVE  /\ \A type : /\ LiveIndexed(type)' = LiveIndexed(type)
                      /\ Nearest(type)' = Nearest(type)
                      /\ Searchable(type)' = Searchable(type)
         /\ \A a : Distance(a)' = Distance(a)
         /\ WindowWide' <=> WindowWide
         /\ Range(near)' = Range(near)
<1>1. \A type : LiveIndexed(type)' = LiveIndexed(type)
  BY DEF LiveIndexed, Admitted
<1>2. \A a : Distance(a)' = Distance(a)
  BY DEF Distance
<1>3. \A type : Nearest(type)' = Nearest(type)
  BY <1>1, <1>2 DEF Nearest, ByDistance
<1>4. \A type : Searchable(type)' = Searchable(type)
  BY <1>1, <1>2 DEF Searchable, ByDistance
<1>5. WindowWide' <=> WindowWide
  BY DEF WindowWide, EntriesOf
<1> QED BY <1>1, <1>2, <1>3, <1>4, <1>5

\* A call begins.
LEMMA StartStep ==
  ASSUME RetrievalInv, NEW c \in Calls, NEW t \in Threads \cup {NoThread}, Start(c, t)
  PROVE  RetrievalInv'
<1> USE DEF RetrievalInv, Start, indexVars
<1>1. RetrievalTypeOK'
  BY DEF RetrievalTypeOK
<1>2. ReaderOK'
  BY DEF ReaderOK
<1>3. c = "fanout" => types' # <<"facts">>
  BY TypesFacts
<1> QED BY <1>1, <1>2, <1>3 DEF RankingOK, HalfwayOK, NearestFound, FusionRespectsBoth, ThreadExact

\* The ids are ranked.
LEMMA RankStep == ASSUME RetrievalInv, Rank PROVE RetrievalInv'
<1> USE DEF RetrievalInv, Rank, indexVars
<1>1. /\ near \in Seq(Memories) /\ Range(near) \subseteq Memories
      /\ \A type : LiveIndexed(type) \in SUBSET Range(near)
  BY IndexTypes
<1>2. ranked' \subseteq Range(near)
  <2>1. RankedRows \subseteq Range(near)
    BY <1>1 DEF RankedRows, First
  <2>2. RankedByChunks \subseteq Range(near)
    <3>1. \A i \in ChunkEntries : near[i] \in Range(near)
      BY DEF ChunkEntries, Range
    <3> QED BY <3>1 DEF RankedByChunks, First
  <2> QED BY <2>1, <2>2
<1>3. RetrievalTypeOK'
  BY <1>1, <1>2 DEF RetrievalTypeOK
<1>4. ReaderOK'
  <2>1. \A a \in RankedRows : status[a] # "absent"
    BY DEF RankedRows, First, LiveIndexed
  <2>2. \A a \in RankedByChunks : status[a] # "absent"
    <3>1. \A i \in ChunkEntries : status[near[i]] # "absent"
      BY DEF ChunkEntries
    <3> QED BY <3>1 DEF RankedByChunks, First
  <2>3. \A a \in ranked' : status[a] # "absent"
    BY <2>1, <2>2
  <2> QED BY <1>2, <2>3 DEF ReaderOK
<1>5. RankingOK'
  <2> SUFFICES ASSUME call # "hybrid", chunked => WindowWide PROVE ranked' = Nearest(Head(types))
    BY RetrievalFrame DEF RankingOK
  <2>1. CASE chunked
    BY <2>1, ChunksSuffice
  <2>2. CASE ~chunked
    BY <2>2 DEF RankedRows, FetchK, Nearest
  <2> QED BY <2>1, <2>2
<1>6. HalfwayOK'
  BY RetrievalFrame DEF HalfwayOK
<1> QED BY <1>3, <1>4, <1>5, <1>6 DEF NearestFound, FusionRespectsBoth, ThreadExact

\* What the last statement of a search returns.
LEMMA FetchedFacts ==
  ASSUME RetrievalTypeOK, ReaderOK, RankingOK, pc = "fetch"
  PROVE  /\ Fetched \in Seq(Memories)
         /\ call # "hybrid" => NoRepeats(Fetched)
         /\ call # "hybrid" /\ quiet /\ (chunked => WindowWide)
              => Fetched = Take(Searchable(Head(types)), TopK)
         /\ call = "hybrid" => \A i \in DOMAIN Fetched : \A b \in ranked :
              /\ status[b] = "live" /\ Words[b] >= Words[Fetched[i]]
              /\ Distance(b) < Distance(Fetched[i])
              => \E j \in 1..(i-1) : Fetched[j] = b
<1> DEFINE kept == {a \in ranked :
                      status[a] \in {"live"} \cup (IF chunked THEN {} ELSE {"superseded"})}
<1>1. /\ near \in Seq(Memories) /\ Range(near) \subseteq Memories
      /\ kept \in SUBSET Range(near) /\ kept \in SUBSET Memories /\ IsFiniteSet(kept)
  BY IndexTypes DEF ReaderOK
<1>2. Fetched = IF call = "hybrid" THEN Take(Numbered(kept, Fuse(kept)), TopK)
                ELSE Numbered(kept, ByDistance(kept))
  BY DEF Fetched
<1>3. call # "hybrid" /\ quiet /\ (chunked => WindowWide) => kept = Nearest(Head(types))
  <2> SUFFICES ASSUME call # "hybrid", quiet, chunked => WindowWide
               PROVE  kept = Nearest(Head(types))
    OBVIOUS
  <2>1. ranked = Nearest(Head(types))
    BY DEF RankingOK
  <2>2. \A a \in ranked : status[a] = "live"
    BY <2>1, IndexTypes DEF LiveIndexed
  <2> QED BY <2>1, <2>2
<1>4. \A b \in ranked : status[b] = "live" => b \in kept
  OBVIOUS
<1> HIDE DEF kept
<1>5. TopK \in Nat
  BY RetrievalAssumption
<1>6. CASE call # "hybrid"
  <2> DEFINE l == Numbered(kept, ByDistance(kept))
  <2>1. Numbers(kept, ByDistance(kept))
    BY <1>1, ByDistanceNumbers
  <2>2. /\ l \in Seq(kept) /\ DOMAIN l = 1..Cardinality(kept)
        /\ \A k \in 1..Cardinality(kept) : ByDistance(kept)[l[k]] = k
    BY <2>1, NumberedList
  <2>3. l \in Seq(Memories)
    <3> HIDE DEF l
    <3> QED BY <1>1, <2>2, SeqMonotonic
  <2>4. NoRepeats(l)
    <3> HIDE DEF l
    <3> QED BY <2>2 DEF NoRepeats
  <2>5. quiet /\ (chunked => WindowWide) => l = Take(Searchable(Head(types)), TopK)
    BY <1>3, <1>6, NearestListed
  <2> HIDE DEF l
  <2> QED BY <1>2, <1>6, <2>3, <2>4, <2>5 DEF l
<1>7. CASE call = "hybrid"
  <2> DEFINE l == Numbered(kept, Fuse(kept))
             t == Take(l, TopK)
  <2>1. /\ Numbers(kept, Fuse(kept))
        /\ \A a, b \in kept : Words[a] >= Words[b] /\ Distance(a) < Distance(b)
                                => Fuse(kept)[a] < Fuse(kept)[b]
    BY <1>1, RetrievalAssumption, FuseNumbers
  <2>2. /\ l \in Seq(kept) /\ Len(l) = Cardinality(kept)
        /\ \A k \in 1..Cardinality(kept) : l[k] \in kept /\ Fuse(kept)[l[k]] = k
        /\ \A a \in kept : Fuse(kept)[a] \in 1..Cardinality(kept) /\ l[Fuse(kept)[a]] = a
    BY <2>1, NumberedList
  <2> HIDE DEF l
  <2>3. l \in Seq(Memories) /\ Len(l) \in Nat
    BY <1>1, <2>2, SeqMonotonic, LenProperties
  <2>4. /\ t \in Seq(Memories) /\ Len(t) = IF TopK < Len(l) THEN TopK ELSE Len(l)
        /\ \A i \in 1..Len(t) : t[i] = l[i]
    BY <1>5, <2>3, TakeFacts
  <2> HIDE DEF t
  <2>5. DOMAIN t = 1..Len(t) /\ Len(t) \in Nat /\ Len(t) <= Cardinality(kept)
    BY <1>5, <2>2, <2>3, <2>4
  <2>6. ASSUME NEW i \in DOMAIN t, NEW b \in ranked, status[b] = "live",
               Words[b] >= Words[t[i]], Distance(b) < Distance(t[i])
        PROVE  \E j \in 1..(i-1) : t[j] = b
    <3> DEFINE j == Fuse(kept)[b]
    <3>1. i \in 1..Len(t) /\ i \in 1..Cardinality(kept) /\ t[i] = l[i]
      BY <2>2, <2>3, <2>4, <2>5
    <3>2. b \in kept /\ l[i] \in kept /\ Fuse(kept)[l[i]] = i
      BY <1>4, <2>2, <2>6, <3>1
    <3>3. j < i /\ j \in 1..Cardinality(kept) /\ l[j] = b
      BY <2>1, <2>2, <2>6, <3>1, <3>2
    <3> HIDE DEF j
    <3>4. j \in 1..(i-1) /\ j \in 1..Len(t)
      BY <2>2, <2>3, <2>5, <3>1, <3>3
    <3> QED BY <2>4, <3>3, <3>4
  <2>7. Fetched = t
    BY <1>2, <1>7 DEF t, l
  <2> QED BY <1>7, <2>4, <2>6, <2>7
<1> QED BY <1>6, <1>7

\* The ranked rows are read, and the call is over with this table.
LEMMA FetchStep == ASSUME RetrievalInv, Fetch PROVE RetrievalInv'
<1> USE DEF RetrievalInv, indexVars
<1> DEFINE all == results \o Fetched
<1>1. /\ near \in Seq(Memories) /\ Fetched \in Seq(Memories) /\ results \in Seq(Memories)
      /\ all \in Seq(Memories)
  <2>1. near \in Seq(Memories) /\ Fetched \in Seq(Memories) /\ results \in Seq(Memories)
    BY IndexTypes, FetchedFacts DEF Fetch, RetrievalTypeOK
  <2> QED BY <2>1, ConcatProperties
<1>2. results = <<>> => all = Fetched
  BY <1>1, ConcatEmptySeq
<1>3. /\ pc = "fetch" /\ types' = Tail(types)
      /\ UNCHANGED <<near, chunked, status, call, thread, ranked, quiet>>
      /\ types' # <<>> => pc' = "rank" /\ results' = all
      /\ types' = <<>> /\ call = "card" /\ Len(all) < Minimum => pc' = "backfill" /\ results' = all
      /\ types' = <<>> /\ ~(call = "card" /\ Len(all) < Minimum) =>
            pc' = "done" /\ results' = IF call = "fanout" THEN Filter(all) ELSE all
  BY DEF Fetch
<1>4. \/ types = <<"facts">> /\ types' = <<>> /\ Head(types) = "facts" /\ (call = "fanout" \/ results = <<>>)
      \/ /\ types = <<"working", "facts">> /\ types' = <<"facts">> /\ Head(types) = "working"
         /\ types' # <<>> /\ call = "fanout" /\ results = <<>>
  BY <1>3, TypesFacts DEF ReaderOK
<1>5. /\ Filter(all) \in Seq(Memories)
      /\ \A i \in DOMAIN Filter(all) : ThreadOf[Filter(all)[i]] = thread
      /\ (\A i \in DOMAIN all : ThreadOf[all[i]] = thread) => Filter(all) = Take(all, TopK)
  <2> HIDE DEF all
  <2> QED BY <1>1, RetrievalAssumption, FilterFacts
<1>6. /\ call # "hybrid" => NoRepeats(Fetched)
      /\ call # "hybrid" /\ quiet /\ (chunked => WindowWide)
            => Fetched = Take(Searchable(Head(types)), TopK)
      /\ call = "hybrid" => \A i \in DOMAIN Fetched : \A b \in ranked :
            /\ status[b] = "live" /\ Words[b] >= Words[Fetched[i]]
            /\ Distance(b) < Distance(Fetched[i])
            => \E j \in 1..(i-1) : Fetched[j] = b
  BY <1>3, FetchedFacts
<1> HIDE DEF all
<1>7. /\ \A type : Searchable(type)' = Searchable(type)
      /\ \A a : Distance(a)' = Distance(a)
      /\ WindowWide' <=> WindowWide /\ Range(near)' = Range(near)
  BY <1>3, RetrievalFrame
<1>8. RetrievalTypeOK'
  <2>1. results' \in Seq(Memories) /\ pc' \in {"rank", "backfill", "done"}
    BY <1>1, <1>3, <1>5
  <2>2. types' \in {<<>>, <<"facts">>}
    BY <1>4
  <2> QED BY <1>3, <2>1, <2>2 DEF RetrievalTypeOK
<1>9. ReaderOK'
  <2>1. ranked' \subseteq Range(near)'
    BY <1>3, <1>7 DEF ReaderOK
  <2>2. pc' = "rank" => types' = <<"facts">> /\ call' = "fanout"
    BY <1>3, <1>4
  <2>3. pc' = "backfill" => call' = "card" /\ Len(results') < Minimum /\ NoRepeats(results')
    BY <1>2, <1>3, <1>4, <1>6
  <2>4. pc' \in {"rank", "backfill", "done"}
    BY <1>3
  <2>5. NoRepeats(results)' <=> NoRepeats(results')
    BY DEF NoRepeats
  <2>6. \A a \in ranked' : status'[a] # "absent"
    BY <1>3 DEF ReaderOK
  <2> QED BY <2>1, <2>2, <2>3, <2>4, <2>5, <2>6 DEF ReaderOK
<1>10. RankingOK'
  BY <1>3 DEF RankingOK
<1>11. HalfwayOK'
  <2> SUFFICES ASSUME pc' = "rank", quiet, ~chunked
               PROVE  results' = Take(Searchable("working"), TopK)
    BY <1>3, <1>7 DEF HalfwayOK
  <2> QED BY <1>2, <1>3, <1>4, <1>6
<1>12. NearestFound'
  <2> SUFFICES ASSUME pc' = "done", call = "search", quiet, chunked => WindowWide
               PROVE  results' = Take(Searchable("facts"), TopK)
    BY <1>3, <1>7 DEF NearestFound
  <2> QED BY <1>2, <1>3, <1>4, <1>6
<1>13. FusionRespectsBoth'
  <2> SUFFICES ASSUME pc' = "done", call = "hybrid"
               PROVE  \A i \in DOMAIN results' : \A b \in ranked :
                        /\ status[b] = "live" /\ Words[b] >= Words[results'[i]]
                        /\ Distance(b) < Distance(results'[i])
                        => \E j \in 1..(i-1) : results'[j] = b
    <3>1. \A i : Distance(results[i])' = Distance(results'[i])
      BY <1>3 DEF Distance
    <3> QED BY <1>3, <1>7, <3>1 DEF FusionRespectsBoth
  <2>1. results' = Fetched
    BY <1>2, <1>3, <1>4
  <2> QED BY <1>6, <2>1
<1>14. ThreadExact'
  <2> SUFFICES ASSUME pc' = "done", call = "fanout"
               PROVE  /\ \A i \in DOMAIN results' : ThreadOf[results'[i]] = thread
                      /\ quiet /\ ~chunked /\ thread # NoThread =>
                           results' = Take(Searchable("working") \o Searchable("facts"), TopK)
    BY <1>3, <1>7 DEF ThreadExact
  <2>1. results' = Filter(all) /\ types = <<"facts">> /\ Head(types) = "facts"
    BY <1>3, <1>4
  <2>2. ASSUME quiet, ~chunked, thread # NoThread
        PROVE  Filter(all) = Take(Searchable("working") \o Searchable("facts"), TopK)
    <3> DEFINE s(type) == Searchable(type)
    <3>1. results = Take(s("working"), TopK) /\ Fetched = Take(s("facts"), TopK)
      BY <1>3, <1>6, <2>1, <2>2 DEF HalfwayOK
    <3>2. ASSUME NEW type
          PROVE  /\ s(type) \in Seq(Memories) /\ Len(s(type)) \in Nat
                 /\ \A i \in 1..Len(s(type)) : ThreadOf[s(type)[i]] = thread
      <4>1. /\ LiveIndexed(type) \in SUBSET Range(near) /\ LiveIndexed(type) \in SUBSET Memories
            /\ IsFiniteSet(LiveIndexed(type))
        BY IndexTypes
      <4>2. Numbers(LiveIndexed(type), ByDistance(LiveIndexed(type)))
        BY <1>1, <4>1, ByDistanceNumbers
      <4>3. /\ s(type) \in Seq(LiveIndexed(type)) /\ Len(s(type)) = Cardinality(LiveIndexed(type))
            /\ \A k \in 1..Cardinality(LiveIndexed(type)) : s(type)[k] \in LiveIndexed(type)
        BY <4>2, NumberedList DEF Searchable
      <4>4. \A a \in LiveIndexed(type) : ThreadOf[a] = thread
        BY <2>2 DEF LiveIndexed, Admitted
      <4> HIDE DEF s
      <4> QED BY <4>1, <4>3, <4>4, SeqMonotonic, LenProperties
    <3> HIDE DEF s
    <3>3. TopK \in Nat
      BY RetrievalAssumption
    <3>4. Take(all, TopK) = Take(s("working") \o s("facts"), TopK)
      BY <3>1, <3>2, <3>3, TakeConcat DEF all
    <3>5. ASSUME NEW type, NEW i \in 1..Len(Take(s(type), TopK))
          PROVE  ThreadOf[Take(s(type), TopK)[i]] = thread
      <4>1. i \in 1..Len(s(type)) /\ Take(s(type), TopK)[i] = s(type)[i]
        BY <3>2, <3>3, TakeFacts
      <4> QED BY <3>2, <4>1
    <3>6. \A i \in DOMAIN all : ThreadOf[all[i]] = thread
      <4>1. /\ Len(results) \in Nat /\ Len(Fetched) \in Nat /\ DOMAIN all = 1..(Len(results) + Len(Fetched))
            /\ \A i \in 1..(Len(results) + Len(Fetched)) :
                 all[i] = IF i <= Len(results) THEN results[i] ELSE Fetched[i - Len(results)]
        BY <1>1, ConcatProperties, LenProperties DEF all
      <4> SUFFICES ASSUME NEW i \in 1..(Len(results) + Len(Fetched)) PROVE ThreadOf[all[i]] = thread
        BY <4>1
      <4>2. CASE i <= Len(results)
        <5>1. i \in 1..Len(results) /\ all[i] = results[i]
          BY <4>1, <4>2
        <5> QED BY <3>1, <3>5, <5>1
      <4>3. CASE ~(i <= Len(results))
        <5>1. i - Len(results) \in 1..Len(Fetched) /\ all[i] = Fetched[i - Len(results)]
          BY <4>1, <4>3
        <5> QED BY <3>1, <3>5, <5>1
      <4> QED BY <4>2, <4>3
    <3>7. Filter(all) = Take(all, TopK)
      BY <1>5, <3>6
    <3> QED BY <3>4, <3>7 DEF s
  <2> QED BY <1>5, <2>1, <2>2
<1> QED BY <1>8, <1>9, <1>10, <1>11, <1>12, <1>13, <1>14

\* The end of a call, and the steps of writers: no reader is answered.
LEMMA NotDone ==
  ASSUME pc' # "done" PROVE NearestFound' /\ FusionRespectsBoth' /\ ThreadExact'
BY DEF NearestFound, FusionRespectsBoth, ThreadExact

\* A search that raises.
LEMMA SearchFailsStep == ASSUME RetrievalInv, SearchFails PROVE RetrievalInv'
<1> USE DEF RetrievalInv, indexVars
<1>1. /\ UNCHANGED <<near, chunked, status>> /\ types' = <<>> /\ ranked' = {} /\ results' = <<>>
      /\ \/ pc' = "backfill" /\ call' = "card" /\ Minimum > 0 /\ UNCHANGED <<thread, quiet>>
         \/ pc' = "done" /\ call' = "card" /\ UNCHANGED <<thread, quiet>>
         \/ pc' = "idle" /\ call' = "search" /\ thread' = NoThread /\ quiet' = TRUE
  BY DEF SearchFails, End
<1>2. RetrievalTypeOK'
  <2>1. /\ call' \in Calls /\ thread' \in Threads \cup {NoThread} /\ quiet' \in BOOLEAN
        /\ pc' \in {"idle", "rank", "fetch", "backfill", "done"}
    BY <1>1 DEF RetrievalTypeOK, Calls
  <2>2. results' \in Seq(Memories) /\ types' \in {<<>>, <<"facts">>, <<"working", "facts">>}
    BY <1>1, EmptySeq
  <2> QED BY <1>1, <2>1, <2>2 DEF RetrievalTypeOK
<1>3. ReaderOK'
  BY <1>1 DEF ReaderOK, NoRepeats
<1> QED BY <1>1, <1>2, <1>3 DEF RankingOK, HalfwayOK, NearestFound, FusionRespectsBoth, ThreadExact

\* What the backfill adds to the results of the search.
LEMMA BackfillFacts ==
  ASSUME RetrievalTypeOK, ReaderOK, Backfill
  PROVE  /\ results' \in Seq(Memories) /\ NoRepeats(results')
         /\ \/ Len(results') >= Minimum
            \/ Len(results') >= ListLimit
            \/ Len(results') >= Cardinality(Recent)
<1> DEFINE needed == Minimum - Len(results)
           listed == ListAll(needed + Len(results))
           fresh == listed \ Range(results)
           s == Numbered(fresh, ByAge(fresh))
           t == Take(s, needed)
           limit == IF Minimum < ListLimit THEN Minimum ELSE ListLimit
           size == Cardinality(Recent)
<1>1. /\ results \in Seq(Memories) /\ Len(results) \in Nat /\ Len(results) < Minimum
      /\ NoRepeats(results) /\ results' = results \o t
  BY LenProperties DEF Backfill, RetrievalTypeOK, ReaderOK
<1>2. /\ Minimum \in Nat /\ ListLimit \in Nat /\ limit \in Nat /\ needed \in Nat
      /\ needed + Len(results) = Minimum
  BY <1>1, RetrievalAssumption
<1>3. Recent \in SUBSET Memories /\ Memories \subseteq Nat /\ IsFiniteSet(Recent)
  BY IndexTypes, RetrievalAssumption DEF Recent
<1>4. Numbers(Recent, ByAge(Recent)) /\ size \in Nat
  BY <1>3, ByAgeNumbers, FS_CardinalityType
<1>5. listed = First(Recent, ByAge(Recent), limit)
  BY <1>2 DEF ListAll
<1> HIDE DEF needed, listed, limit, size
<1>6. /\ IsFiniteSet(listed) /\ listed \in SUBSET Recent
      /\ Cardinality(listed) = IF limit < size THEN limit ELSE size
  <2>1. /\ IsFiniteSet(First(Recent, ByAge(Recent), limit))
        /\ Cardinality(First(Recent, ByAge(Recent), limit)) = IF limit < size THEN limit ELSE size
    BY <1>2, <1>4, FirstSize DEF size
  <2>2. First(Recent, ByAge(Recent), limit) \in SUBSET Recent
    BY DEF First
  <2> QED BY <1>5, <2>1, <2>2
<1>7. /\ IsFiniteSet(fresh) /\ fresh \in SUBSET Memories
      /\ Cardinality(fresh) \in Nat /\ Cardinality(listed) \in Nat
      /\ Cardinality(fresh) >= Cardinality(listed) - Len(results)
  <2>1. /\ IsFiniteSet(Range(results)) /\ Cardinality(Range(results)) = Len(results)
    BY <1>1, NoRepeatsLength
  <2>2. /\ IsFiniteSet(listed \ Range(results))
        /\ Cardinality(listed \ Range(results)) = Cardinality(listed) - Cardinality(listed \cap Range(results))
    BY <1>6, FS_Difference
  <2>3. Cardinality(listed \cap Range(results)) <= Cardinality(Range(results))
    BY <2>1, FS_Subset
  <2>4. /\ Cardinality(listed) \in Nat /\ Cardinality(listed \cap Range(results)) \in Nat
        /\ Cardinality(fresh) \in Nat
    BY <1>6, <2>1, <2>2, FS_Subset, FS_CardinalityType
  <2>5. fresh \in SUBSET Memories
    BY <1>3, <1>6
  <2> QED BY <1>1, <2>1, <2>2, <2>3, <2>4, <2>5
<1>8. fresh \cap Range(results) = {}
  OBVIOUS
<1> HIDE DEF fresh
<1>9. Numbers(fresh, ByAge(fresh))
  BY <1>3, <1>7, ByAgeNumbers
<1>10. /\ s \in Seq(fresh) /\ Len(s) = Cardinality(fresh)
       /\ \A k \in 1..Cardinality(fresh) : s[k] \in fresh /\ ByAge(fresh)[s[k]] = k
  BY <1>9, NumberedList
<1> HIDE DEF s
<1>11. /\ t \in Seq(fresh) /\ Len(t) = IF needed < Cardinality(fresh) THEN needed ELSE Cardinality(fresh)
       /\ \A i \in 1..Len(t) : t[i] = s[i]
  BY <1>2, <1>10, TakeFacts
<1> HIDE DEF t
<1>12. Len(t) \in Nat /\ Len(t) <= Cardinality(fresh)
  BY <1>2, <1>7, <1>11
<1>13. t \in Seq(Memories)
  BY <1>7, <1>11, SeqMonotonic
<1>14. /\ results' \in Seq(Memories) /\ Len(results') = Len(results) + Len(t)
       /\ \A i \in 1..(Len(results) + Len(t)) :
            results'[i] = IF i <= Len(results) THEN results[i] ELSE t[i - Len(results)]
  BY <1>1, <1>13, ConcatProperties
<1>15. NoRepeats(results')
  <2>1. DOMAIN results' = 1..(Len(results) + Len(t))
    BY <1>14, LenProperties
  <2>2. \A i, j \in 1..Len(results) : results[i] = results[j] => i = j
    BY <1>1, LenProperties DEF NoRepeats
  <2>3. \A i, j \in 1..Len(t) : t[i] = t[j] => i = j
    BY <1>7, <1>10, <1>11, <1>12
  <2>4. \A i \in 1..Len(results) : results[i] \in Range(results)
    BY <1>1, LenProperties DEF Range
  <2>5. \A i \in 1..Len(t) : t[i] \in fresh
    BY <1>7, <1>10, <1>11, <1>12
  <2> SUFFICES ASSUME NEW i \in 1..(Len(results) + Len(t)), NEW j \in 1..(Len(results) + Len(t)),
                      results'[i] = results'[j]
               PROVE  i = j
    BY <2>1 DEF NoRepeats
  <2>6. ASSUME NEW k \in 1..(Len(results) + Len(t))
        PROVE  /\ k <= Len(results) => k \in 1..Len(results) /\ results'[k] = results[k]
               /\ ~(k <= Len(results)) => /\ k - Len(results) \in 1..Len(t)
                                          /\ results'[k] = t[k - Len(results)]
    BY <1>1, <1>12, <1>14
  <2>7. CASE i <= Len(results) /\ j <= Len(results)
    BY <2>2, <2>6, <2>7
  <2>8. CASE ~(i <= Len(results)) /\ ~(j <= Len(results))
    <3>1. i - Len(results) = j - Len(results)
      BY <2>3, <2>6, <2>8
    <3> QED BY <1>1, <1>12, <3>1
  <2>9. CASE i <= Len(results) /\ ~(j <= Len(results))
    BY <1>8, <2>4, <2>5, <2>6, <2>9
  <2>10. CASE ~(i <= Len(results)) /\ j <= Len(results)
    BY <1>8, <2>4, <2>5, <2>6, <2>10
  <2> QED BY <2>7, <2>8, <2>9, <2>10
<1>16. \/ Len(results') >= Minimum
       \/ Len(results') >= ListLimit
       \/ Len(results') >= size
  <2>1. Len(results') = Len(results) + Len(t)
    BY <1>14
  <2>2. CASE needed < Cardinality(fresh)
    <3>1. Len(t) = needed
      BY <1>11, <2>2
    <3> QED BY <1>1, <1>2, <2>1, <3>1
  <2>3. CASE ~(needed < Cardinality(fresh))
    <3>1. Len(t) = Cardinality(fresh)
      BY <1>11, <2>3
    <3>2. Len(results') >= Cardinality(listed)
      BY <1>1, <1>7, <2>1, <3>1
    <3>3. Cardinality(listed) = limit \/ Cardinality(listed) = size
      BY <1>6
    <3>4. limit = Minimum \/ limit = ListLimit
      BY DEF limit
    <3> QED BY <3>2, <3>3, <3>4
  <2> QED BY <2>2, <2>3
<1> QED BY <1>14, <1>15, <1>16 DEF size

\* A section is filled from the newest rows.
LEMMA BackfillStep == ASSUME RetrievalInv, Backfill PROVE RetrievalInv'
<1> USE DEF RetrievalInv, indexVars
<1>1. results' \in Seq(Memories)
  BY BackfillFacts
<1>2. /\ pc = "backfill" /\ pc' = "done" /\ call = "card"
      /\ UNCHANGED <<near, chunked, status, call, thread, types, ranked, quiet>>
  BY DEF Backfill, ReaderOK
<1>3. RetrievalTypeOK'
  BY <1>1, <1>2 DEF RetrievalTypeOK
<1>4. ReaderOK'
  BY <1>2 DEF ReaderOK
<1> QED BY <1>2, <1>3, <1>4 DEF RankingOK, HalfwayOK, NearestFound, FusionRespectsBoth, ThreadExact

\* The caller has its answer.
LEMMA AnswerStep == ASSUME RetrievalInv, Answer PROVE RetrievalInv'
<1> USE DEF RetrievalInv, indexVars, Answer, End
<1>1. RetrievalTypeOK'
  BY DEF RetrievalTypeOK, Calls
<1>2. ReaderOK'
  BY DEF ReaderOK
<1> QED BY <1>1, <1>2, NotDone DEF RankingOK, HalfwayOK

\* A writer changes a row under the call.
LEMMA WriteStep ==
  ASSUME RetrievalInv, NEW a \in Memories, NEW to \in {"live", "superseded", "deleted"}, Write(a, to)
  PROVE  RetrievalInv'
<1> USE DEF RetrievalInv, indexVars
<1>1. /\ UNCHANGED <<near, chunked, pc, call, thread, types, ranked, results>>
      /\ quiet' => pc = "idle"
      /\ quiet' \in BOOLEAN
      /\ status' \in [Memories -> {"absent", "live", "superseded", "deleted"}]
  BY DEF Write, RetrievalTypeOK
<1>2. RetrievalTypeOK'
  BY <1>1 DEF RetrievalTypeOK
<1>3. /\ ranked \subseteq Memories
      /\ \A b \in ranked : /\ status[b] # "absent" => status'[b] # "absent"
                           /\ status'[b] = "live" => status[b] \in {"live", "absent"}
  BY DEF Write, RetrievalTypeOK
<1>4. ReaderOK'
  BY <1>1, <1>3 DEF ReaderOK, NoRepeats
<1>5. \A i : Distance(i)' = Distance(i) /\ Distance(results[i])' = Distance(results[i])
  BY <1>1 DEF Distance
<1>6. FusionRespectsBoth'
  <2>1. \A b \in ranked : status'[b] = "live" => status[b] = "live"
    BY <1>3 DEF ReaderOK
  <2> QED BY <1>1, <1>5, <2>1 DEF FusionRespectsBoth
<1> QED BY <1>1, <1>2, <1>4, <1>6 DEF RankingOK, HalfwayOK, NearestFound, ThreadExact

\* The invariant holds at first ...
LEMMA RetrievalInvInit == RetrievalInit => RetrievalInv
<1> SUFFICES ASSUME RetrievalInit PROVE RetrievalInv
  OBVIOUS
<1>1. RetrievalTypeOK
  <2>1. status \in [Memories -> {"absent", "live", "superseded", "deleted"}]
    BY DEF RetrievalInit
  <2>2. results \in Seq(Memories) /\ types \in {<<>>, <<"facts">>, <<"working", "facts">>}
    BY EmptySeq DEF RetrievalInit
  <2> QED BY <2>1, <2>2 DEF RetrievalInit, RetrievalTypeOK, Calls
<1> QED BY <1>1 DEF RetrievalInit, RetrievalInv, ReaderOK, RankingOK, HalfwayOK, NearestFound,
                    FusionRespectsBoth, ThreadExact

\* ... is kept by every step ...
LEMMA RetrievalInvStep == RetrievalInv /\ [RetrievalNext]_retrievalVars => RetrievalInv'
<1> SUFFICES ASSUME RetrievalInv, [RetrievalNext]_retrievalVars PROVE RetrievalInv'
  OBVIOUS
<1>1. CASE UNCHANGED retrievalVars
  <2>1. UNCHANGED <<near, chunked, status, pc, call, thread, types, ranked, results, quiet>>
    BY <1>1 DEF retrievalVars, indexVars
  <2>2. RetrievalTypeOK' /\ ReaderOK'
    BY <2>1 DEF RetrievalInv, RetrievalTypeOK, ReaderOK, NoRepeats
  <2>3. RankingOK' /\ HalfwayOK' /\ NearestFound' /\ ThreadExact'
    BY <2>1, RetrievalFrame DEF RetrievalInv, RankingOK, HalfwayOK, NearestFound, ThreadExact
  <2>4. FusionRespectsBoth'
    <3>1. \A i : Distance(results[i])' = Distance(results[i])
      BY <2>1 DEF Distance
    <3> QED BY <2>1, <3>1, RetrievalFrame DEF RetrievalInv, FusionRespectsBoth
  <2> QED BY <2>2, <2>3, <2>4 DEF RetrievalInv
<1>2. ASSUME NEW c \in Calls, NEW t \in Threads \cup {NoThread}, Start(c, t) PROVE RetrievalInv'
  BY <1>2, StartStep
<1>3. ASSUME NEW a \in Memories, NEW to \in {"live", "superseded", "deleted"}, Write(a, to)
      PROVE  RetrievalInv'
  BY <1>3, WriteStep
<1> QED BY <1>1, <1>2, <1>3, RankStep, FetchStep, SearchFailsStep, BackfillStep, AnswerStep
        DEF RetrievalNext

\* ... and so always holds.
LEMMA RetrievalInvariance == RetrievalSpec => []RetrievalInv
BY RetrievalInvInit, RetrievalInvStep, PTL DEF RetrievalSpec

\* NearestFound: the top_k nearest live rows are found, by chunks too when the window of
\* chunks is wide enough.
THEOREM SearchFindsNearest == RetrievalSpec => []NearestFound
<1>1. RetrievalInv => NearestFound
  BY DEF RetrievalInv
<1> QED BY <1>1, RetrievalInvariance, PTL

\* FusionRespectsBoth: a row that both rankings of search_hybrid() put before
\* another, and that is still live, is not left out or listed after it.
THEOREM FusionIsFair == RetrievalSpec => []FusionRespectsBoth
<1>1. RetrievalInv => FusionRespectsBoth
  BY DEF RetrievalInv
<1> QED BY <1>1, RetrievalInvariance, PTL

\* ThreadExact: the fan-out of a thread's search returns only rows of the thread,
\* and with the row vectors exactly the first top_k of both tables.
THEOREM ThreadsAreExact == RetrievalSpec => []ThreadExact
<1>1. RetrievalInv => ThreadExact
  BY DEF RetrievalInv
<1> QED BY <1>1, RetrievalInvariance, PTL

\* The type invariant of the reader.
THEOREM RetrievalTypeCorrect == RetrievalSpec => []RetrievalTypeOK
<1>1. RetrievalInv => RetrievalTypeOK
  BY DEF RetrievalInv
<1> QED BY <1>1, RetrievalInvariance, PTL

\* A step that completes a section of the card.
LEMMA SectionStep ==
  ASSUME RetrievalInv, RetrievalNext, pc # "done", pc' = "done", call = "card"
  PROVE  /\ Cardinality(Range(results')) = Len(results')
         /\ \/ Len(results') >= Minimum
            \/ Len(results') >= ListLimit
            \/ Len(results') >= Cardinality(Recent)
<1> SUFFICES /\ results' \in Seq(Memories) /\ NoRepeats(results')
             /\ \/ Len(results') >= Minimum
                \/ Len(results') >= ListLimit
                \/ Len(results') >= Cardinality(Recent)
  BY NoRepeatsLength
<1>1. CASE Backfill
  BY <1>1, BackfillFacts DEF RetrievalInv
<1>2. CASE SearchFails
  <2>1. results' = <<>> /\ ~(Minimum > 0)
    BY <1>2 DEF SearchFails
  <2>2. Len(results') = 0 /\ results' \in Seq(Memories) /\ NoRepeats(results')
    BY <2>1 DEF NoRepeats
  <2> QED BY <2>1, <2>2, RetrievalAssumption
<1>3. CASE Fetch
  <2> DEFINE all == results \o Fetched
  <2>1. types' = <<>> /\ ~(Len(all) < Minimum) /\ results' = all /\ pc = "fetch"
    BY <1>3 DEF Fetch
  <2>2. results = <<>>
    <3>1. types' = Tail(types)
      BY <1>3 DEF Fetch
    <3> QED BY <2>1, <3>1, TypesFacts DEF RetrievalInv, ReaderOK
  <2>3. Fetched \in Seq(Memories) /\ NoRepeats(Fetched)
    BY <2>1, FetchedFacts DEF RetrievalInv
  <2>4. all = Fetched
    BY <2>2, <2>3, ConcatEmptySeq
  <2>5. Len(Fetched) \in Nat /\ Minimum \in Nat
    BY <2>3, LenProperties, RetrievalAssumption
  <2> HIDE DEF all
  <2> QED BY <2>1, <2>3, <2>4, <2>5
<1>4. ~Rank /\ ~Answer
  BY DEF Rank, Answer, End
<1>5. ASSUME NEW c \in Calls, NEW t \in Threads \cup {NoThread} PROVE ~Start(c, t)
  BY DEF Start
<1>6. ASSUME NEW a \in Memories, NEW to \in {"live", "superseded", "deleted"} PROVE ~Write(a, to)
  BY DEF Write
<1> QED BY <1>1, <1>2, <1>3, <1>4, <1>5, <1>6 DEF RetrievalNext

\* CardHasMinimum: a section of the context card has the rows it must have, unless
\* there are none left or list_all() returns no more, and none twice.
THEOREM SectionsAreFilled == RetrievalSpec => CardHasMinimum
<1>1. RetrievalInv /\ [RetrievalNext]_retrievalVars =>
        [pc # "done" /\ pc' = "done" /\ call = "card" =>
          /\ Cardinality(Range(results')) = Len(results')
          /\ \/ Len(results') >= Minimum
             \/ Len(results') >= ListLimit
             \/ Len(results') >= Cardinality(Recent)]_retrievalVars
  <2> SUFFICES ASSUME RetrievalInv, RetrievalNext, pc # "done", pc' = "done", call = "card"
               PROVE  /\ Cardinality(Range(results')) = Len(results')
                      /\ \/ Len(results') >= Minimum
                         \/ Len(results') >= ListLimit
                         \/ Len(results') >= Cardinality(Recent)
    OBVIOUS
  <2> QED BY SectionStep
<1> QED BY <1>1, RetrievalInvariance, PTL DEF RetrievalSpec, CardHasMinimum

-----------------------------------------------------------------------------
\* Quotients, rounded down.
LEMMA DivFacts ==
  ASSUME NEW a \in Nat, NEW d \in Nat \ {0}
  PROVE  /\ a \div d \in Nat
         /\ (a \div d) * d <= a /\ a < (a \div d) * d + d
OBVIOUS

\* The windows cover the text, in the words of ChunksCoverText.
Covers(n, size, overlap, out) ==
    LET last == Len(out) IN
    /\ out[1].from = 0 /\ out[last].to = n
    /\ \A i \in 1..last : out[i].to - out[i].from <= size
    /\ \A i \in 1..(last - 1) : /\ out[i].to - out[i+1].from = overlap
                                /\ out[i].to < out[i+1].to

\* The windows that _split_chunks() cuts.
LEMMA SplitFacts ==
  ASSUME NEW n \in Nat, NEW size \in Nat \ {0}, NEW overlap \in Nat, overlap < size,
         NEW out, out = SplitChunks(n, size, overlap)
  PROVE  Covers(n, size, overlap, out)
<1> DEFINE step == size - overlap
           q == (n - size + step - 1) \div step
           count == IF n <= size THEN 1 ELSE 1 + q
           start(i) == (i - 1) * step
<1>1. step \in Nat \ {0} /\ step + overlap = size
  OBVIOUS
<1> HIDE DEF step
<1>2. n > size => /\ q \in Nat \ {0} /\ q * step >= n - size
                  /\ (q - 1) * step < n - size
  <2> SUFFICES ASSUME n > size
               PROVE  q \in Nat \ {0} /\ q * step >= n - size /\ (q - 1) * step < n - size
    OBVIOUS
  <2> DEFINE a == n - size + step - 1
  <2>1. a \in Nat /\ a = n - size + step - 1
    BY <1>1
  <2>2. q = a \div step
    OBVIOUS
  <2> HIDE DEF a, q
  <2>3. q \in Nat /\ q * step <= a /\ a < q * step + step
    BY <1>1, <2>1, <2>2, DivFacts
  <2>4. q * step \in Nat /\ (q - 1) * step = q * step - step
    BY <1>1, <2>3
  <2>5. q * step >= n - size /\ (q - 1) * step < n - size
    BY <1>1, <2>1, <2>3, <2>4
  <2>6. q # 0
    BY <1>1, <2>5
  <2> QED BY <2>3, <2>5, <2>6
<1> HIDE DEF q
<1>3. count \in Nat \ {0}
  BY <1>2
<1>4. ASSUME NEW i \in 1..count
      PROVE  /\ start(i) \in Nat /\ start(i + 1) = start(i) + step
             /\ i = count => start(i) + size >= n /\ start(i) <= n
             /\ i < count => start(i) + size < n
  <2>1. i - 1 \in Nat /\ start(i) \in Nat
    BY <1>1, <1>3
  <2>2. start(i + 1) = start(i) + step
    BY <1>1, <1>3
  <2>3. CASE n <= size
    <3>1. i = 1 /\ start(i) = 0 /\ count = 1
      BY <1>1, <2>3
    <3> QED BY <2>1, <2>2, <2>3, <3>1
  <2>4. CASE n > size
    <3>1. count = 1 + q /\ q \in Nat \ {0}
      BY <1>2, <2>4
    <3>2. i = count => start(i) = q * step
      BY <1>1, <3>1
    <3>3. i = count => start(i) + size >= n /\ start(i) <= n
      <4>1. (q - 1) * step = q * step - step /\ q * step \in Nat
        BY <1>1, <3>1
      <4>2. q * step >= n - size /\ q * step - step < n - size
        BY <1>2, <2>4, <4>1
      <4>3. q * step + size >= n /\ q * step <= n
        BY <1>1, <4>1, <4>2
      <4> QED BY <3>2, <4>3
    <3>4. i < count => start(i) + size < n
      <4> SUFFICES ASSUME i < count PROVE start(i) + size < n
        OBVIOUS
      <4>1. i - 1 <= q - 1 /\ q - 1 \in Nat
        BY <2>1, <3>1
      <4>2. \A k, l, m \in Nat : k <= l => k * m <= l * m
        OBVIOUS
      <4>3. (i - 1) * step <= (q - 1) * step /\ (q - 1) * step \in Nat
        BY <1>1, <2>1, <4>1, <4>2
      <4> HIDE DEF count
      <4> QED BY <1>2, <2>1, <2>4, <4>3
    <3> QED BY <2>1, <2>2, <3>3, <3>4
  <2> QED BY <2>3, <2>4
<1>5. out = [i \in 1..count |-> [from |-> start(i), to |-> IF start(i) + size < n THEN start(i) + size ELSE n]]
  BY DEF SplitChunks, step, q
<1> HIDE DEF count, start
<1>6. \A i \in 1..count : /\ out[i].from = start(i)
                          /\ out[i].to = IF start(i) + size < n THEN start(i) + size ELSE n
  BY <1>5
<1>7. Len(out) = count /\ out \in Seq([from : Nat, to : Nat])
  <2>1. \A i \in 1..count : [from |-> start(i), to |-> IF start(i) + size < n THEN start(i) + size ELSE n]
                              \in [from : Nat, to : Nat]
    BY <1>4
  <2>2. out \in [1..count -> [from : Nat, to : Nat]]
    BY <1>5, <2>1
  <2> DEFINE W == [from : Nat, to : Nat]
  <2> HIDE DEF W
  <2>3. out \in [1..count -> W]
    BY <2>2 DEF W
  <2>4. Len(out) = count /\ out \in Seq(W)
    BY <1>3, <2>3
  <2> QED BY <2>4 DEF W
<1>8. out[1].from = 0
  BY <1>1, <1>3, <1>6 DEF start
<1>9. ASSUME NEW i \in 1..count
      PROVE  out[i].to - out[i].from <= size /\ (i = count => out[i].to = n)
  <2>1. /\ start(i) \in Nat /\ out[i].from = start(i)
        /\ i = count => ~(start(i) + size < n)
    BY <1>4, <1>6
  <2>2. CASE start(i) + size < n
    <3>1. out[i].to = start(i) + size
      BY <1>6, <2>2
    <3> QED BY <2>1, <2>2, <3>1
  <2>3. CASE ~(start(i) + size < n)
    <3>1. out[i].to = n
      BY <1>6, <2>3
    <3> QED BY <2>1, <2>3, <3>1
  <2> QED BY <2>2, <2>3
<1>10. ASSUME NEW i \in 1..(count - 1)
       PROVE  out[i].to - out[i+1].from = overlap /\ out[i].to < out[i+1].to
  <2>1. i \in 1..count /\ i + 1 \in 1..count /\ i < count
    BY <1>3
  <2>2. start(i) + size < n /\ start(i) \in Nat /\ start(i + 1) = start(i) + step
    BY <1>4, <2>1
  <2>3. out[i].to = start(i) + size /\ out[i+1].from = start(i) + step
    BY <1>6, <2>1, <2>2
  <2>4. out[i+1].to = n \/ out[i+1].to = start(i) + step + size
    BY <1>6, <2>1, <2>2
  <2> QED BY <1>1, <2>2, <2>3, <2>4
<1>11. 1 \in 1..count /\ count \in 1..count
  BY <1>3
<1> QED BY <1>7, <1>8, <1>9, <1>10, <1>11 DEF Covers

\* The recursion that begins with z and goes on by st has a solution over 0..n.
Solvable(T, z, st) ==
    \A n \in Nat : \E f \in [0..n -> T] : f[0] = z /\ \A i \in 1..n : f[i] = st[<<f[i - 1], i>>]

\* Every such recursion has one.
LEMMA RecursionExists ==
  ASSUME NEW T, NEW z \in T, NEW st \in [T \X Nat -> T]
  PROVE  Solvable(T, z, st)
<1> DEFINE solves(f, n) == f \in [0..n -> T] /\ f[0] = z /\ \A i \in 1..n : f[i] = st[<<f[i - 1], i>>]
           U == {n \in Nat : ~ \E f : solves(f, n)}
<1> SUFFICES ASSUME U # {} PROVE FALSE
  BY DEF Solvable
<1>1. PICK n \in U : \A m \in U : n <= m
  BY LeastElement
<1>2. n \in Nat /\ ~ \E f : solves(f, n)
  BY <1>1
<1>3. CASE n = 0
  <2>1. solves([i \in 0..0 |-> z], 0)
    OBVIOUS
  <2> QED BY <1>2, <1>3, <2>1
<1>4. CASE n # 0
  <2>1. n - 1 \in Nat /\ n - 1 \notin U
    <3>1. n - 1 \in Nat /\ ~(n <= n - 1)
      BY <1>2, <1>4
    <3> HIDE DEF U
    <3> QED BY <1>1, <3>1
  <2>2. PICK g : solves(g, n - 1)
    BY <2>1
  <2> DEFINE h == [i \in 0..n |-> IF i = n THEN st[<<g[n - 1], n>>] ELSE g[i]]
  <2>3. \A i \in 0..n : i # n => i \in 0..(n - 1)
    BY <1>2
  <2>4. st[<<g[n - 1], n>>] \in T /\ \A i \in 0..(n - 1) : g[i] \in T
    BY <1>2, <2>1, <2>2
  <2>5. h \in [0..n -> T]
    BY <2>3, <2>4
  <2>6. h[0] = z
    BY <1>2, <1>4, <2>2
  <2>7. ASSUME NEW i \in 1..n PROVE h[i] = st[<<h[i - 1], i>>]
    <3>1. i - 1 \in 0..n /\ i - 1 # n /\ i \in 0..n
      BY <1>2
    <3>2. CASE i = n
      BY <3>1, <3>2
    <3>3. CASE i # n
      <4>1. i \in 1..(n - 1)
        BY <1>2, <3>3
      <4> QED BY <2>2, <3>1, <3>3, <4>1
    <3> QED BY <3>2, <3>3
  <2>8. solves(h, n)
    BY <2>5, <2>6, <2>7
  <2> QED BY <1>2, <2>8
<1> QED BY <1>3, <1>4

\* Total() is the sum it looks like.
LEMMA TotalFacts ==
  ASSUME NEW lines \in Seq(Nat)
  PROVE  /\ \A i \in 0..Len(lines) : Total(lines, i) \in Nat
         /\ Total(lines, 0) = 0
         /\ \A i \in 1..Len(lines) : Total(lines, i) = Total(lines, i - 1) + lines[i]
<1> DEFINE n == Len(lines)
           st == [p \in Nat \X Nat |-> IF p[2] \in 1..n THEN p[1] + lines[p[2]] ELSE 0]
           F(g) == [i \in 0..n |-> IF i = 0 THEN 0 ELSE g[i - 1] + lines[i]]
           sum == CHOOSE g : g = F(g)
<1>1. n \in Nat /\ \A i \in 1..n : lines[i] \in Nat
  BY LenProperties, ElementOfSeq
<1>2. st \in [Nat \X Nat -> Nat] /\ \A k \in Nat, i \in 1..n : st[<<k, i>>] = k + lines[i]
  <2> HIDE DEF n
  <2>1. \A p \in Nat \X Nat : (IF p[2] \in 1..n THEN p[1] + lines[p[2]] ELSE 0) \in Nat
    BY <1>1
  <2>2. st \in [Nat \X Nat -> Nat]
    BY <2>1
  <2>3. ASSUME NEW k \in Nat, NEW i \in 1..n PROVE st[<<k, i>>] = k + lines[i]
    <3>1. <<k, i>> \in Nat \X Nat /\ <<k, i>>[1] = k /\ <<k, i>>[2] = i
      BY <1>1
    <3> QED BY <3>1
  <2> QED BY <2>2, <2>3
<1>3. \A i : Total(lines, i) = sum[i]
  BY DEF Total
<1> HIDE DEF st, n
<1>4. PICK g \in [0..n -> Nat] : g[0] = 0 /\ \A i \in 1..n : g[i] = st[<<g[i - 1], i>>]
  <2>1. 0 \in Nat /\ st \in [Nat \X Nat -> Nat] /\ n \in Nat
    BY <1>1, <1>2
  <2>2. Solvable(Nat, 0, st)
    BY <2>1, RecursionExists
  <2> QED BY <2>1, <2>2 DEF Solvable
<1>5. \A i \in 1..n : i - 1 \in 0..n /\ i \in 0..n /\ i # 0
  BY <1>1
<1>6. \A i \in 1..n : g[i] = g[i - 1] + lines[i]
  BY <1>1, <1>2, <1>4, <1>5
<1>7. g = F(g)
  <2>1. ASSUME NEW i \in 0..n PROVE g[i] = IF i = 0 THEN 0 ELSE g[i - 1] + lines[i]
    <3>1. i # 0 => i \in 1..n
      BY <1>1
    <3> QED BY <1>4, <1>6, <3>1
  <2> QED BY <1>4, <2>1
<1>8. sum = F(sum)
  <2> HIDE DEF F
  <2> QED BY <1>7
<1> HIDE DEF sum
<1>9. 0 \in 0..n
  BY <1>1
<1>10. sum[0] = 0 /\ \A i \in 1..n : sum[i] = sum[i - 1] + lines[i]
  <2>1. sum[0] = 0
    BY <1>8, <1>9
  <2>2. ASSUME NEW i \in 1..n PROVE sum[i] = sum[i - 1] + lines[i]
    <3>1. F(sum)[i] = sum[i - 1] + lines[i]
      BY <1>5
    <3> HIDE DEF F
    <3> QED BY <1>8, <3>1
  <2> QED BY <2>1, <2>2
<1>11. \A i \in 0..n : sum[i] \in Nat
  <2> DEFINE U == {i \in 0..n : sum[i] \notin Nat}
  <2> SUFFICES ASSUME U # {} PROVE FALSE
    OBVIOUS
  <2>1. PICK i \in U : \A m \in U : i <= m
    <3>1. U \in SUBSET Nat
      BY <1>1
    <3> QED BY <3>1, LeastElement
  <2>2. i \in 1..n
    BY <1>1, <1>10, <2>1
  <2>3. i - 1 \in 0..n /\ i - 1 \notin U
    BY <1>5, <2>1, <2>2
  <2>4. sum[i - 1] \in Nat /\ lines[i] \in Nat /\ sum[i] = sum[i - 1] + lines[i]
    BY <1>1, <1>10, <2>2, <2>3
  <2>5. sum[i] \in Nat
    BY <2>4
  <2> QED BY <2>1, <2>5
<1> QED BY <1>3, <1>10, <1>11 DEF n

\* The loop of get_summary() stops before the first line that goes over the budget.
LEMMA IncludedFacts ==
  ASSUME NEW lines \in Seq(Nat), NEW budget \in Nat, NEW c, c = Included(lines, budget)
  PROVE  /\ c \in 0..Len(lines)
         /\ Total(lines, c) <= budget
         /\ c < Len(lines) => Total(lines, c + 1) > budget
<1> DEFINE n == Len(lines)
           T == [count : Nat, tokens : Nat, full : BOOLEAN]
           zero == [count |-> 0, tokens |-> 0, full |-> FALSE]
           turn(u, l) == IF u.full \/ u.tokens + l > budget
                         THEN [u EXCEPT !.full = TRUE]
                         ELSE [u EXCEPT !.count = @ + 1, !.tokens = @ + l]
           st == [p \in T \X Nat |-> IF p[2] \in 1..n THEN turn(p[1], lines[p[2]]) ELSE zero]
           F(g) == [i \in 0..n |-> IF i = 0 THEN zero
                                   ELSE IF g[i-1].full \/ g[i-1].tokens + lines[i] > budget
                                   THEN [g[i-1] EXCEPT !.full = TRUE]
                                   ELSE [g[i-1] EXCEPT !.count = @ + 1, !.tokens = @ + lines[i]]]
           used == CHOOSE g : g = F(g)
<1>1. n \in Nat /\ \A i \in 1..n : lines[i] \in Nat
  BY LenProperties, ElementOfSeq
<1>2. \A u \in T, l \in Nat : turn(u, l) \in T
  <2> SUFFICES ASSUME NEW u \in T, NEW l \in Nat PROVE turn(u, l) \in T
    OBVIOUS
  <2>1. [u EXCEPT !.full = TRUE] \in T
    OBVIOUS
  <2>2. u.count + 1 \in Nat /\ u.tokens + l \in Nat
    OBVIOUS
  <2>3. [u EXCEPT !.count = @ + 1, !.tokens = @ + l] \in T
    BY <2>2
  <2> QED BY <2>1, <2>3
<1>3. zero \in T
  OBVIOUS
<1>4. c = used[n].count
  BY DEF Included
<1>5. \A g : \A i \in 0..n : F(g)[i] = IF i = 0 THEN zero ELSE turn(g[i - 1], lines[i])
  OBVIOUS
<1>6. \A g : F(g) = [i \in 0..n |-> IF i = 0 THEN zero ELSE turn(g[i - 1], lines[i])]
  OBVIOUS
<1> HIDE DEF F
<1>7. \A u \in T, l \in Nat :
         /\ turn(u, l).full = (u.full \/ u.tokens + l > budget)
         /\ turn(u, l).count = IF turn(u, l).full THEN u.count ELSE u.count + 1
         /\ turn(u, l).tokens = IF turn(u, l).full THEN u.tokens ELSE u.tokens + l
  OBVIOUS
<1>8. zero.count = 0 /\ zero.tokens = 0 /\ zero.full = FALSE
  OBVIOUS
<1>9. \A u \in T : u.count \in Nat /\ u.tokens \in Nat /\ u.full \in BOOLEAN
  OBVIOUS
<1> HIDE DEF turn, zero, T
<1>10. st \in [T \X Nat -> T] /\ \A u \in T, i \in 1..n : st[<<u, i>>] = turn(u, lines[i])
  <2> HIDE DEF n
  <2>1. \A p \in T \X Nat : p[1] \in T /\ p[2] \in 1..n => turn(p[1], lines[p[2]]) \in T
    BY <1>1, <1>2
  <2>2. st \in [T \X Nat -> T]
    BY <1>3, <2>1
  <2>3. ASSUME NEW u \in T, NEW i \in 1..n PROVE st[<<u, i>>] = turn(u, lines[i])
    <3>1. i \in Nat /\ <<u, i>> \in T \X Nat /\ <<u, i>>[1] = u /\ <<u, i>>[2] = i
      BY <1>1
    <3> QED BY <3>1
  <2> QED BY <2>2, <2>3
<1> HIDE DEF st, n
<1>11. PICK g \in [0..n -> T] : g[0] = zero /\ \A i \in 1..n : g[i] = st[<<g[i - 1], i>>]
  <2>1. Solvable(T, zero, st)
    BY <1>3, <1>10, RecursionExists
  <2> QED BY <1>1, <2>1 DEF Solvable
<1>12. \A i \in 1..n : i - 1 \in 0..n /\ i \in 0..n /\ i # 0
  BY <1>1
<1>13. \A i \in 1..n : g[i] = turn(g[i - 1], lines[i])
  <2> SUFFICES ASSUME NEW i \in 1..n PROVE g[i] = turn(g[i - 1], lines[i])
    OBVIOUS
  <2>1. g[i - 1] \in T
    BY <1>11, <1>12
  <2> QED BY <1>10, <1>11, <2>1
<1>14. g = F(g)
  <2>1. ASSUME NEW i \in 0..n PROVE g[i] = IF i = 0 THEN zero ELSE turn(g[i - 1], lines[i])
    <3>1. i # 0 => i \in 1..n
      BY <1>1
    <3> QED BY <1>11, <1>13, <3>1
  <2> QED BY <1>6, <1>11, <2>1
<1>15. used = F(used)
  BY <1>14
<1> HIDE DEF used
<1>16. 0 \in 0..n
  BY <1>1
<1>17. used[0] = zero /\ \A i \in 1..n : used[i] = turn(used[i - 1], lines[i])
  BY <1>5, <1>12, <1>15, <1>16
<1> DEFINE Good(i) == /\ used[i] \in T
                      /\ used[i].count <= i
                      /\ used[i].tokens = Total(lines, used[i].count)
                      /\ used[i].tokens <= budget
                      /\ ~used[i].full => used[i].count = i
                      /\ used[i].full => /\ used[i].count < i
                                         /\ used[i].tokens + lines[used[i].count + 1] > budget
           U == {i \in 0..n : ~Good(i)}
<1>18. /\ \A i \in 0..n : Total(lines, i) \in Nat
       /\ Total(lines, 0) = 0
       /\ \A i \in 1..n : Total(lines, i) = Total(lines, i - 1) + lines[i]
  BY TotalFacts DEF n
<1>19. Good(0)
  BY <1>3, <1>8, <1>17, <1>18
<1>20. ASSUME NEW i \in 1..n, Good(i - 1) PROVE Good(i)
  <2> DEFINE u == used[i - 1]
             v == used[i]
  <2>1. u \in T /\ v = turn(u, lines[i]) /\ lines[i] \in Nat /\ i - 1 \in Nat
    <3>1. u \in T
      BY <1>20
    <3>2. v = turn(u, lines[i])
      BY <1>17
    <3>3. lines[i] \in Nat /\ i - 1 \in Nat
      BY <1>1
    <3> QED BY <3>1, <3>2, <3>3
  <2>2. v \in T
    BY <1>2, <2>1
  <2>3. /\ v.full = (u.full \/ u.tokens + lines[i] > budget)
        /\ v.count = IF v.full THEN u.count ELSE u.count + 1
        /\ v.tokens = IF v.full THEN u.tokens ELSE u.tokens + lines[i]
    BY <1>7, <2>1
  <2>4. /\ u.count \in Nat /\ u.tokens \in Nat /\ u.full \in BOOLEAN
    BY <1>9, <2>1
  <2>5. /\ u.count <= i - 1 /\ u.tokens = Total(lines, u.count) /\ u.tokens <= budget
        /\ ~u.full => u.count = i - 1
        /\ u.full => u.count < i - 1 /\ u.tokens + lines[u.count + 1] > budget
    BY <1>20
  <2> HIDE DEF u, v
  <2>6. CASE u.full
    <3>1. v.full /\ v.count = u.count /\ v.tokens = u.tokens
      BY <2>3, <2>6
    <3>2. v.count < i
      BY <2>4, <2>5, <2>6, <3>1
    <3> QED BY <2>2, <2>4, <2>5, <2>6, <3>1, <3>2 DEF v
  <2>7. CASE ~u.full /\ u.tokens + lines[i] > budget
    <3>1. v.full /\ v.count = u.count /\ v.tokens = u.tokens
      BY <2>3, <2>7
    <3>2. u.count = i - 1 /\ u.count + 1 = i /\ v.count < i
      BY <2>1, <2>5, <2>7, <3>1
    <3> QED BY <2>2, <2>4, <2>5, <2>7, <3>1, <3>2 DEF v
  <2>8. CASE ~u.full /\ ~(u.tokens + lines[i] > budget)
    <3>1. ~v.full /\ v.count = u.count + 1 /\ v.tokens = u.tokens + lines[i]
      BY <2>3, <2>8
    <3>2. u.count = i - 1 /\ v.count = i
      BY <2>1, <2>5, <2>8, <3>1
    <3>3. v.tokens = Total(lines, v.count)
      BY <1>18, <2>5, <3>1, <3>2
    <3>4. v.tokens <= budget
      BY <2>1, <2>4, <2>8, <3>1
    <3> QED BY <2>1, <2>2, <3>1, <3>2, <3>3, <3>4 DEF v
  <2> QED BY <2>6, <2>7, <2>8
<1>21. U = {}
  <2> SUFFICES ASSUME U # {} PROVE FALSE
    OBVIOUS
  <2>1. PICK i \in U : \A m \in U : i <= m
    <3>1. U \in SUBSET Nat
      BY <1>1
    <3> QED BY <3>1, LeastElement
  <2>2. i \in 0..n /\ ~Good(i)
    BY <2>1
  <2> HIDE DEF Good
  <2>3. i \in 1..n
    BY <1>1, <1>19, <2>2
  <2>4. i - 1 \in 0..n /\ i - 1 \notin U
    <3>1. i - 1 \in 0..n /\ ~(i <= i - 1)
      BY <1>12, <2>3
    <3> HIDE DEF U
    <3> QED BY <2>1, <3>1
  <2> QED BY <1>20, <2>2, <2>3, <2>4
<1>22. Good(n)
  <2>1. n \in 0..n
    BY <1>1
  <2> HIDE DEF Good
  <2> QED BY <1>21, <2>1
<1>23. used[n].count \in Nat /\ used[n].full \in BOOLEAN
  BY <1>9, <1>22
<1>24. c \in 0..n /\ Total(lines, c) <= budget
  BY <1>1, <1>4, <1>22, <1>23
<1>25. ASSUME c < n PROVE Total(lines, c + 1) > budget
  <2>1. used[n].full
    BY <1>1, <1>4, <1>22, <1>24, <1>25
  <2>2. Total(lines, c) + lines[c + 1] > budget
    BY <1>4, <1>22, <2>1
  <2>3. c + 1 \in 1..n /\ (c + 1) - 1 = c
    BY <1>1, <1>24, <1>25
  <2>4. Total(lines, c + 1) = Total(lines, c) + lines[c + 1]
    <3>1. Total(lines, c + 1) = Total(lines, (c + 1) - 1) + lines[c + 1]
      BY <1>18, <2>3
    <3> QED BY <2>3, <3>1
  <2> QED BY <2>2, <2>4
<1> QED BY <1>24, <1>25 DEF n

\* The tokens of a thread when what comes before message `first` counts for nothing.
CountedFrom(tokens, first) == [i \in 1..Len(tokens) |-> IF i < first THEN 0 ELSE tokens[i]]

\* The lines are messages that follow each other in the thread.
PageOf(lines, tokens, skipped) ==
    /\ skipped + Len(lines) <= Len(tokens)
    /\ \A i \in 1..Len(lines) : lines[i] = tokens[skipped + i]

\* The lines that get_summary() takes out of a thread add up to what the thread
\* itself adds up to when the messages before the page count for nothing.
LEMMA PageTotal ==
  ASSUME NEW tokens \in Seq(Nat), NEW skipped \in Nat, NEW lines \in Seq(Nat),
         PageOf(lines, tokens, skipped)
  PROVE  \A k \in 0..Len(lines) :
            Total(CountedFrom(tokens, skipped + 1), skipped + k) = Total(lines, k)
<1> DEFINE n == Len(tokens)
           m == Len(lines)
           rest == CountedFrom(tokens, skipped + 1)
<1>1. n \in Nat /\ \A i \in 1..n : tokens[i] \in Nat
  BY LenProperties, ElementOfSeq
<1> HIDE DEF n
<1>2. rest = [i \in 1..n |-> IF i < skipped + 1 THEN 0 ELSE tokens[i]]
  BY DEF n, CountedFrom
<1> HIDE DEF rest
<1>3. rest \in [1..n -> Nat]
  BY <1>1, <1>2
<1>4. rest \in Seq(Nat) /\ Len(rest) = n
  BY <1>1, <1>3
<1>5. /\ \A i \in 0..n : Total(rest, i) \in Nat
      /\ Total(rest, 0) = 0
      /\ \A i \in 1..n : Total(rest, i) = Total(rest, i - 1) + rest[i]
  BY <1>4, TotalFacts
<1>6. /\ Total(lines, 0) = 0
      /\ \A i \in 1..m : Total(lines, i) = Total(lines, i - 1) + lines[i]
  BY TotalFacts DEF m
<1>7. m \in Nat /\ skipped + m <= n /\ \A i \in 1..m : lines[i] = tokens[skipped + i]
  BY LenProperties DEF n, PageOf
<1> HIDE DEF m
<1>8. ASSUME NEW j \in 0..skipped PROVE Total(rest, j) = 0
  <2> DEFINE U == {i \in 0..skipped : Total(rest, i) # 0}
  <2> SUFFICES ASSUME U # {} PROVE FALSE
    OBVIOUS
  <2>1. PICK i \in U : \A l \in U : i <= l
    <3>1. U \in SUBSET Nat
      OBVIOUS
    <3> QED BY <3>1, LeastElement
  <2>2. i \in 1..skipped /\ Total(rest, i) # 0
    BY <1>5, <2>1
  <2>3. i - 1 \in 0..skipped /\ i - 1 \notin U
    <3>1. i - 1 \in 0..skipped /\ ~(i <= i - 1)
      BY <2>2
    <3> HIDE DEF U
    <3> QED BY <2>1, <3>1
  <2>4. Total(rest, i - 1) = 0
    BY <2>3
  <2>5. i \in 1..n /\ i < skipped + 1
    BY <1>1, <1>7, <2>2
  <2>6. rest[i] = 0
    BY <1>2, <2>5
  <2>7. Total(rest, i) = Total(rest, i - 1) + rest[i]
    BY <1>5, <2>5
  <2> QED BY <2>2, <2>4, <2>6, <2>7
<1> DEFINE U == {i \in 0..m : Total(rest, skipped + i) # Total(lines, i)}
<1> SUFFICES ASSUME U # {} PROVE FALSE
  BY DEF rest, m
<1>9. PICK i \in U : \A l \in U : i <= l
  <2>1. U \in SUBSET Nat
    BY <1>7
  <2> QED BY <2>1, LeastElement
<1>10. i \in 0..m /\ Total(rest, skipped + i) # Total(lines, i)
  BY <1>9
<1>11. i # 0
  <2>1. skipped \in 0..skipped /\ skipped + 0 = skipped
    OBVIOUS
  <2>2. Total(rest, skipped) = 0
    BY <1>8, <2>1
  <2> QED BY <1>6, <1>10, <2>1, <2>2
<1>12. i - 1 \in 0..m /\ i - 1 \notin U
  <2>1. i - 1 \in 0..m /\ ~(i <= i - 1)
    BY <1>7, <1>10, <1>11
  <2> HIDE DEF U
  <2> QED BY <1>9, <2>1
<1>13. Total(rest, skipped + (i - 1)) = Total(lines, i - 1)
  BY <1>12
<1>14. /\ i \in 1..m /\ skipped + i \in 1..n /\ (skipped + i) - 1 = skipped + (i - 1)
       /\ ~(skipped + i < skipped + 1)
  BY <1>1, <1>7, <1>10, <1>11
<1>15. rest[skipped + i] = lines[i]
  BY <1>2, <1>7, <1>14
<1>16. Total(rest, skipped + i) = Total(rest, (skipped + i) - 1) + rest[skipped + i]
  BY <1>5, <1>14
<1>17. Total(rest, skipped + i) = Total(lines, i - 1) + lines[i]
  BY <1>13, <1>14, <1>15, <1>16
<1>18. Total(lines, i) = Total(lines, i - 1) + lines[i]
  BY <1>6, <1>14
<1> QED BY <1>10, <1>17, <1>18

\* The summary is the longest that fits, in the words of SummaryLongestFit.
Fits(tokens, e, budget, out) ==
    LET n == Len(tokens)
        rest == CountedFrom(tokens, out.first)
        end == out.first + out.message_count - 1
        wanted == IF e < n THEN n - e ELSE 0
    IN /\ out.message_count > 0 => end <= wanted
       /\ budget # NoBudget /\ out.message_count > 0 => Total(rest, end) <= budget
       /\ out.truncated => Total(rest, end + 1) > budget
       /\ ~out.truncated /\ n <= PageLimit => out.message_count = wanted

\* What get_summary() returns for a thread of the given messages.
LEMMA SummaryFacts ==
  ASSUME NEW tokens \in Seq(Nat), NEW e \in Nat, NEW budget \in Nat \cup {NoBudget},
         NEW out, out = Summary(tokens, e, budget)
  PROVE  Fits(tokens, e, budget, out)
<1> DEFINE n == Len(tokens)
           skipped == IF n > PageLimit THEN n - PageLimit ELSE 0
           page == SubSeq(tokens, skipped + 1, n)
           lines == IF e < Len(page) THEN SubSeq(page, 1, Len(page) - e) ELSE <<>>
           count == IF budget = NoBudget THEN Len(lines) ELSE Included(lines, budget)
           rest == CountedFrom(tokens, skipped + 1)
           m == IF e < n - skipped THEN n - skipped - e ELSE 0
           wanted == IF e < n THEN n - e ELSE 0
<1>1. out = [first |-> skipped + 1, message_count |-> count, truncated |-> count < Len(lines)]
  BY DEF Summary
<1>2. n \in Nat /\ PageLimit \in Nat \ {0} /\ NoBudget \notin Nat
  BY LenProperties, TextsAssumption
<1>3. skipped \in Nat /\ skipped <= n /\ n - skipped \in Nat
  BY <1>2
<1>4. /\ page \in Seq(Nat) /\ Len(page) = n - skipped
      /\ \A i \in 1..(n - skipped) : page[i] = tokens[skipped + i]
  <2>1. 1 <= skipped + 1 /\ skipped + 1 \in Nat /\ n \in Nat
    BY <1>2, <1>3
  <2> HIDE DEF skipped
  <2>2. page \in Seq(Nat)
    BY <1>3, <2>1
  <2>3. Len(page) = n - skipped
    BY <1>3, <2>1
  <2>4. ASSUME NEW i \in 1..(n - skipped) PROVE page[i] = tokens[skipped + i]
    <3> HIDE DEF n
    <3>1. i \in 1..(n - (skipped + 1) + 1) /\ (skipped + 1) + i - 1 = skipped + i
      BY <1>3, <2>1
    <3>2. page[i] = tokens[(skipped + 1) + i - 1]
      BY <2>1, <3>1
    <3> QED BY <3>1, <3>2
  <2> QED BY <2>2, <2>3, <2>4
<1>5. m \in Nat /\ skipped + m <= n /\ m <= n - skipped
  <2> HIDE DEF n, skipped
  <2>1. n - skipped - e \in Int
    BY <1>2, <1>3
  <2> QED BY <1>2, <1>3, <2>1
<1> HIDE DEF skipped, page
<1>6. lines \in Seq(Nat) /\ Len(lines) = m /\ \A i \in 1..m : lines[i] = tokens[skipped + i]
  <2>1. CASE e < Len(page)
    <3>1. lines = SubSeq(page, 1, Len(page) - e) /\ m = Len(page) - e
      BY <1>4, <2>1
    <3>2. m \in Nat /\ m <= Len(page)
      BY <1>4, <1>5
    <3>3. lines = SubSeq(page, 1, m)
      BY <3>1
    <3> HIDE DEF lines, m
    <3>4. lines \in Seq(Nat) /\ Len(lines) = m /\ \A i \in 1..m : lines[i] = page[i]
      BY <1>4, <3>2, <3>3
    <3>5. \A i \in 1..m : lines[i] = tokens[skipped + i]
      <4>1. \A i \in 1..m : i \in 1..(n - skipped)
        BY <1>3, <1>5
      <4> QED BY <1>4, <3>4, <4>1
    <3> QED BY <3>4, <3>5
  <2>2. CASE ~(e < Len(page))
    <3>1. lines = <<>> /\ m = 0
      BY <1>4, <2>2
    <3> HIDE DEF lines, m
    <3> QED BY <3>1
  <2> QED BY <2>1, <2>2
<1>7. n <= PageLimit => skipped = 0
  BY <1>2 DEF skipped
<1> HIDE DEF lines, rest, n
<1>8. \A k \in 0..m : Total(rest, skipped + k) = Total(lines, k)
  <2> HIDE DEF m
  <2>1. PageOf(lines, tokens, skipped)
    BY <1>5, <1>6 DEF n, PageOf
  <2>2. \A k \in 0..Len(lines) :
           Total(CountedFrom(tokens, skipped + 1), skipped + k) = Total(lines, k)
    BY <1>3, <1>6, <2>1, PageTotal
  <2> QED BY <1>6, <2>2 DEF rest
<1>9. /\ count \in 0..m
      /\ budget # NoBudget => Total(lines, count) <= budget
      /\ count < m => budget # NoBudget /\ Total(lines, count + 1) > budget
  <2>1. CASE budget = NoBudget
    BY <1>5, <1>6, <2>1
  <2>2. CASE budget # NoBudget
    <3>1. budget \in Nat /\ count = Included(lines, budget)
      BY <2>2
    <3>2. /\ count \in 0..Len(lines)
          /\ Total(lines, count) <= budget
          /\ count < Len(lines) => Total(lines, count + 1) > budget
      BY <1>6, <3>1, IncludedFacts
    <3> QED BY <1>6, <2>2, <3>2
  <2> QED BY <2>1, <2>2
<1> HIDE DEF count
<1>10. out.first = skipped + 1 /\ out.message_count = count /\ out.truncated = (count < m)
  BY <1>1, <1>6
<1>11. out.first + out.message_count - 1 = skipped + count
  BY <1>3, <1>9, <1>10
<1>12. CountedFrom(tokens, out.first) = rest
  BY <1>10 DEF rest
<1>13. count > 0 => skipped + count <= wanted
  BY <1>2, <1>3, <1>5, <1>9
<1>14. budget # NoBudget => Total(rest, skipped + count) <= budget
  BY <1>8, <1>9
<1>15. count < m => Total(rest, skipped + count + 1) > budget
  <2> SUFFICES ASSUME count < m PROVE Total(rest, skipped + count + 1) > budget
    OBVIOUS
  <2>1. count + 1 \in 0..m /\ skipped + (count + 1) = skipped + count + 1
    BY <1>3, <1>5, <1>9
  <2>2. Total(rest, skipped + (count + 1)) = Total(lines, count + 1)
    BY <1>8, <2>1
  <2> QED BY <1>9, <2>1, <2>2
<1>16. ~(count < m) /\ n <= PageLimit => count = wanted
  BY <1>2, <1>5, <1>7, <1>9
<1> HIDE DEF m, wanted
<1>17. wanted = IF e < Len(tokens) THEN Len(tokens) - e ELSE 0
  BY DEF wanted, n
<1> HIDE DEF rest
<1> QED BY <1>10, <1>11, <1>12, <1>13, <1>14, <1>15, <1>16, <1>17 DEF Fits, n

\* What the inputs are.
LEMMA InputTypes ==
  /\ \A i \in SplitInputs : i.kind = "split" /\ i.length \in Nat /\ i.size \in Nat \ {0} /\ i.overlap \in Nat
  /\ \A i \in SummaryInputs : /\ i.kind = "summary" /\ i.tokens \in Seq(Nat)
                              /\ i.except_last \in Nat /\ i.budget \in Nat \cup {NoBudget}
<1>1. MaxLength \in Nat /\ MaxTokens \in Nat /\ MaxMessages \in Nat
  BY TextsAssumption
<1>2. ASSUME NEW i \in SplitInputs
      PROVE  i.kind = "split" /\ i.length \in Nat /\ i.size \in Nat \ {0} /\ i.overlap \in Nat
  BY <1>1 DEF SplitInputs
<1>3. ASSUME NEW i \in SummaryInputs
      PROVE  /\ i.kind = "summary" /\ i.tokens \in Seq(Nat)
             /\ i.except_last \in Nat /\ i.budget \in Nat \cup {NoBudget}
  <2>1. PICK t \in UNION {[1..k -> 0..MaxTokens] : k \in 0..MaxMessages}, e \in 0..(MaxMessages + 1),
             b \in {NoBudget} \cup 0..(MaxTokens * MaxMessages) :
           i = [kind |-> "summary", tokens |-> t, except_last |-> e, budget |-> b]
    BY DEF SummaryInputs
  <2>2. PICK k \in 0..MaxMessages : t \in [1..k -> 0..MaxTokens]
    BY <2>1
  <2>3. t \in Seq(Nat)
    <3>1. t \in [1..k -> Nat] /\ k \in Nat
      BY <1>1, <2>2
    <3> QED BY <3>1
  <2>4. e \in Nat
    BY <1>1, <2>1
  <2>5. MaxTokens * MaxMessages \in Nat
    BY <1>1
  <2>6. b \in Nat \cup {NoBudget}
    BY <2>5, <2>1
  <2> QED BY <2>1, <2>3, <2>4, <2>6
<1> QED BY <1>2, <1>3

\* The inductive invariant: the input is one of the allowed, the answer right.
TextsInv ==
    /\ input \in {i \in SplitInputs : i.overlap < i.size} \cup SummaryInputs
    /\ ChunksCoverText
    /\ SummaryLongestFit

\* It holds before the answer and after it.
LEMMA TextsInvariance == TextsSpec => []TextsInv
<1>1. TextsInit => TextsInv
  BY DEF TextsInit, TextsInv, ChunksCoverText, SummaryLongestFit
<1>2. TextsInv /\ [Compute]_textVars => TextsInv'
  <2> SUFFICES ASSUME TextsInv, [Compute]_textVars PROVE TextsInv'
    OBVIOUS
  <2>1. CASE UNCHANGED textVars
    <3>1. input' = input /\ output' = output
      BY <2>1 DEF textVars
    <3> QED BY <3>1 DEF TextsInv, ChunksCoverText, SummaryLongestFit
  <2>2. CASE Compute
    <3>1. input' = input
      BY <2>2 DEF Compute
    <3>2. CASE input \in SplitInputs /\ input.overlap < input.size
      <4>1. /\ input.kind = "split" /\ input.length \in Nat
            /\ input.size \in Nat \ {0} /\ input.overlap \in Nat
        BY <3>2, InputTypes
      <4>2. output' = SplitChunks(input.length, input.size, input.overlap)
        BY <2>2, <4>1 DEF Compute
      <4>3. Covers(input.length, input.size, input.overlap, output')
        BY <3>2, <4>1, <4>2, SplitFacts
      <4>4. ChunksCoverText'
        BY <3>1, <4>3 DEF ChunksCoverText, Covers
      <4>5. SummaryLongestFit'
        BY <3>1, <4>1 DEF SummaryLongestFit
      <4> QED BY <3>1, <4>4, <4>5 DEF TextsInv
    <3>3. CASE input \in SummaryInputs
      <4>1. /\ input.kind = "summary" /\ input.tokens \in Seq(Nat)
            /\ input.except_last \in Nat /\ input.budget \in Nat \cup {NoBudget}
        BY <3>3, InputTypes
      <4>2. output' = Summary(input.tokens, input.except_last, input.budget)
        BY <2>2, <4>1 DEF Compute
      <4>3. SummaryLongestFit'
        <5>1. Fits(input.tokens, input.except_last, input.budget, output')
          BY <4>1, <4>2, SummaryFacts
        <5> QED BY <3>1, <5>1 DEF SummaryLongestFit, Fits, CountedFrom
      <4>4. ChunksCoverText'
        BY <3>1, <4>1 DEF ChunksCoverText
      <4> QED BY <3>1, <4>3, <4>4 DEF TextsInv
    <3> QED BY <3>2, <3>3 DEF TextsInv
  <2> QED BY <2>1, <2>2
<1> QED BY <1>1, <1>2, PTL DEF TextsSpec

\* ChunksCoverText: the windows of _split_chunks() cover a text of any length.
THEOREM ChunksCover == TextsSpec => []ChunksCoverText
<1>1. TextsInv => ChunksCoverText
  BY DEF TextsInv
<1> QED BY <1>1, TextsInvariance, PTL

\* SummaryLongestFit: the transcript of get_summary() is the longest that fits.
THEOREM SummariesFit == TextsSpec => []SummaryLongestFit
<1>1. TextsInv => SummaryLongestFit
  BY DEF TextsInv
<1> QED BY <1>1, TextsInvariance, PTL
=============================================================================
