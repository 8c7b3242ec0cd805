------------------------- MODULE ExportImport_proofs -------------------------
(***************************************************************************)
(* What an export finds, and what an import leaves behind, for any number  *)
(* of rows, any page size, any writes in between and any number of runs.   *)
(***************************************************************************)
EXTENDS ExportImport, Integers, FiniteSetTheorems, SequenceTheorems, TLAPS

-----------------------------------------------------------------------------
\* Numbering a finite set by a key without ties gives every element a number of
\* its own, and every number up to the size of the set to an element.
LEMMA NumberingIsOnto ==
  ASSUME NEW S, IsFiniteSet(S), NEW key,
         \A i \in S : key[i] \in Int,
         \A i, j \in S : key[i] = key[j] => i = j,
         NEW rn, rn = [i \in S |-> Cardinality({j \in S : key[j] <= key[i]})]
  PROVE  /\ Cardinality(S) \in Nat
         /\ rn \in [S -> 1..Cardinality(S)]
         /\ \A i, j \in S : rn[i] = rn[j] => i = j
         /\ \A k \in 1..Cardinality(S) : \E i \in S : rn[i] = k
<1> DEFINE n == Cardinality(S)
<1> DEFINE UpTo(i) == {j \in S : key[j] <= key[i]}
<1>1. n \in Nat
  BY FS_CardinalityType
<1>2. ASSUME NEW i \in S
      PROVE  /\ IsFiniteSet(UpTo(i)) /\ Cardinality(UpTo(i)) \in 1..n
             /\ rn[i] = Cardinality(UpTo(i))
  <2>1. UpTo(i) \in SUBSET S /\ i \in UpTo(i)
    OBVIOUS
  <2>2. IsFiniteSet(UpTo(i)) /\ Cardinality(UpTo(i)) <= n
    BY <2>1, FS_Subset
  <2>3. Cardinality(UpTo(i)) \in Nat /\ Cardinality(UpTo(i)) # 0
    BY <2>1, <2>2, FS_CardinalityType, FS_EmptySet
  <2> QED
    BY <1>1, <2>2, <2>3
<1>3. rn \in [S -> 1..n]
  BY <1>2
<1>4. ASSUME NEW i \in S, NEW j \in S, key[i] < key[j]
      PROVE  rn[i] # rn[j]
  <2>1. UpTo(i) \in SUBSET UpTo(j) /\ j \in UpTo(j) /\ j \notin UpTo(i)
    BY <1>4
  <2>2. Cardinality(UpTo(i)) # Cardinality(UpTo(j))
    BY <1>2, <2>1, FS_Subset
  <2> QED
    BY <1>2, <2>2
<1>5. \A i, j \in S : rn[i] = rn[j] => i = j
  <2> SUFFICES ASSUME NEW i \in S, NEW j \in S, i # j
               PROVE  rn[i] # rn[j]
    OBVIOUS
  <2>1. key[i] < key[j] \/ key[j] < key[i]
    OBVIOUS
  <2> QED
    BY <1>4, <2>1
<1>6. rn \in Injection(S, 1..n)
  BY <1>3, <1>5 DEF Injection, IsInjective
<1>7. IsFiniteSet(1..n) /\ Cardinality(1..n) = n
  BY <1>1, FS_Interval
<1>8. rn \in Surjection(S, 1..n)
  BY <1>6, <1>7, FS_Injection
<1>9. \A k \in 1..n : \E i \in S : rn[i] = k
  BY <1>8 DEF Surjection
<1> QED
  BY <1>1, <1>3, <1>5, <1>9

\* The list of a numbered set has each of its elements at its number.
LEMMA NumberedList ==
  ASSUME NEW S, NEW rn, Cardinality(S) \in Nat,
         rn \in [S -> 1..Cardinality(S)],
         \A i, j \in S : rn[i] = rn[j] => i = j,
         \A k \in 1..Cardinality(S) : \E i \in S : rn[i] = k
  PROVE  /\ Numbered(S, rn) \in Seq(S)
         /\ Len(Numbered(S, rn)) = Cardinality(S)
         /\ \A i \in S : Numbered(S, rn)[rn[i]] = i
<1> DEFINE n == Cardinality(S)
           l == Numbered(S, rn)
<1>1. \A k \in 1..n : l[k] \in S /\ rn[l[k]] = k
  BY DEF Numbered
<1>2. l \in [1..n -> S]
  BY <1>1 DEF Numbered
<1>3. l \in Seq(S) /\ Len(l) = n
  BY <1>2
<1>4. ASSUME NEW i \in S PROVE l[rn[i]] = i
  BY <1>1
<1> QED
  BY <1>3, <1>4

\* What an order of the rows gives: a list of them, each at its number, and m of
\* them that are numbered up to m.
LEMMA OrderFacts ==
  ASSUME ExportAssumption, NEW rn, rn \in Orders
  PROVE  /\ IsFiniteSet(Rows) /\ Cardinality(Rows) \in Nat
         /\ rn \in [Rows -> 1..Cardinality(Rows)]
         /\ \A i, j \in Rows : Stamp[i] > Stamp[j] => rn[i] < rn[j]
         /\ Numbered(Rows, rn) \in Seq(Rows)
         /\ Len(Numbered(Rows, rn)) = Cardinality(Rows)
         /\ \A i \in Rows : Numbered(Rows, rn)[rn[i]] = i
         /\ \A m \in 0..Cardinality(Rows) : Cardinality({j \in Rows : rn[j] <= m}) = m
<1> DEFINE n == Cardinality(Rows)
           l == Numbered(Rows, rn)
<1>1. Rows \in SUBSET Ids /\ IsFiniteSet(Ids)
  BY DEF Rows, ExportAssumption
<1>2. IsFiniteSet(Rows) /\ n \in Nat
  BY <1>1, FS_Subset, FS_CardinalityType
<1>3. /\ rn \in [Rows -> 1..n] /\ \A i, j \in Rows : rn[i] = rn[j] => i = j
      /\ \A i, j \in Rows : Stamp[i] > Stamp[j] => rn[i] < rn[j]
  BY DEF Orders, Numberings
<1>4. \A k \in 1..n : \E i \in Rows : rn[i] = k
  <2>1. rn \in Injection(Rows, 1..n)
    BY <1>3 DEF Injection, IsInjective
  <2>2. IsFiniteSet(1..n) /\ Cardinality(1..n) = n
    BY <1>2, FS_Interval
  <2>3. rn \in Surjection(Rows, 1..n)
    BY <2>1, <2>2, FS_Injection
  <2> QED
    BY <2>3 DEF Surjection
<1>5. l \in Seq(Rows) /\ Len(l) = n /\ \A i \in Rows : l[rn[i]] = i
  BY <1>2, <1>3, <1>4, NumberedList
<1> HIDE DEF n, l
<1>6. ASSUME NEW m \in 0..n PROVE Cardinality({j \in Rows : rn[j] <= m}) = m
  <2> DEFINE S == {j \in Rows : rn[j] <= m}
             f == [k \in 1..m |-> l[k]]
  <2>1. \A k \in 1..m : l[k] \in Rows /\ rn[l[k]] = k
    <3> TAKE k \in 1..m
    <3>1. k \in 1..n
      BY <1>2
    <3>2. PICK i \in Rows : rn[i] = k
      BY <1>4, <3>1 DEF n
    <3> QED
      BY <1>5, <3>2
  <2>2. f \in [1..m -> S]
    BY <2>1
  <2>3. \A k, h \in 1..m : f[k] = f[h] => k = h
    BY <2>1
  <2>4. \A j \in S : rn[j] \in 1..m /\ f[rn[j]] = j
    BY <1>2, <1>3, <1>5 DEF n
  <2>5. f \in Bijection(1..m, S)
    BY <2>2, <2>3, <2>4 DEF Bijection, Injection, IsInjective, Surjection
  <2> QED
    BY <1>2, <2>5, FS_CountingElements DEF ExistsBijection
<1> QED
  BY <1>2, <1>3, <1>5, <1>6 DEF n, l

\* What list_all() returns for the chunks.
LEMMA ListedChunksFacts ==
  ASSUME ExportAssumption
  PROVE  ListedChunks \in Seq(Chunked)
<1> DEFINE rn == [i \in Chunked |-> Cardinality({j \in Chunked : Rank[j] <= Rank[i]})]
<1>1. Chunked \in SUBSET Ids /\ IsFiniteSet(Ids)
  BY DEF Chunked, ExportAssumption
<1>2. IsFiniteSet(Chunked)
  BY <1>1, FS_Subset
<1>3. \A i \in Chunked : Rank[i] \in Int
  BY <1>1 DEF ExportAssumption
<1>4. \A i, j \in Chunked : Rank[i] = Rank[j] => i = j
  BY <1>1 DEF ExportAssumption
<1>num. rn = [i \in Chunked |-> Cardinality({j \in Chunked : Rank[j] <= Rank[i]})]
  OBVIOUS
<1> HIDE DEF rn
<1>5. /\ Cardinality(Chunked) \in Nat
      /\ rn \in [Chunked -> 1..Cardinality(Chunked)]
      /\ \A i, j \in Chunked : rn[i] = rn[j] => i = j
      /\ \A k \in 1..Cardinality(Chunked) : \E i \in Chunked : rn[i] = k
  BY <1>2, <1>3, <1>4, <1>num, NumberingIsOnto
<1>6. Numbered(Chunked, rn) \in Seq(Chunked)
  BY <1>5, NumberedList
<1> QED
  BY <1>6 DEF ListedChunks, rn

\* A page is a part of its list.
LEMMA PageFacts ==
  ASSUME NEW T, NEW STATE records, records \in Seq(T), offset \in Nat, ExportAssumption
  PROVE  /\ Page(records) \in Seq(T)
         /\ Len(Page(records)) = IF offset + PageSize <= Len(records) THEN PageSize
                                 ELSE IF offset < Len(records) THEN Len(records) - offset ELSE 0
         /\ \A k \in 1..Len(Page(records)) :
                /\ offset + k \in 1..Len(records)
                /\ Page(records)[k] = records[offset + k]
<1> DEFINE last == Min({offset + PageSize, Len(records)})
<1>1. PageSize \in Nat \ {0} /\ Len(records) \in Nat
  BY DEF ExportAssumption
<1>2. last = IF offset + PageSize <= Len(records) THEN offset + PageSize ELSE Len(records)
  <2> DEFINE m == IF offset + PageSize <= Len(records) THEN offset + PageSize ELSE Len(records)
             S == {offset + PageSize, Len(records)}
  <2>1. m \in S /\ \A y \in S : m <= y
    BY <1>1
  <2>2. \A x \in S : (\A y \in S : x <= y) => x = m
    BY <1>1
  <2> QED
    BY <2>1, <2>2 DEF Min
<1> HIDE DEF last
<1>3. \A i \in (offset + 1)..last : records[i] \in T
  BY <1>1, <1>2
<1>4. offset + 1 \in Int /\ last \in Int
  BY <1>1, <1>2
<1> DEFINE p == SubSeq(records, offset + 1, last)
<1>5. /\ p \in Seq(T)
      /\ Len(p) = IF offset + 1 <= last THEN last - (offset + 1) + 1 ELSE 0
      /\ \A i \in 1..last - (offset + 1) + 1 : p[i] = records[offset + 1 + i - 1]
  BY <1>3, <1>4, SubSeqProperties
<1>6. Page(records) = p
  BY DEF Page, last
<1> HIDE DEF p
<1> QED
  BY <1>1, <1>2, <1>5, <1>6

-----------------------------------------------------------------------------
(* The export.  A row that must be found is one that was there when the     *)
(* export began, is not older than a row forgotten since, and is not of a   *)
(* created_at that the end of a page divided.                               *)
FoundIn(s, i) == \E r \in RowsOf(s) : r.id = i
Found(i) == FoundIn(stream, i)

Due(i) == /\ i \in present \ gone /\ Stamp[i] \notin split
          /\ \A j \in gone : Stamp[j] <= Stamp[i]

Newer(i) == {j \in Rows : Stamp[j] > Stamp[i]}

\* Such a row is on a page that was read, or the newer rows alone take up all
\* the pages that were read, whatever the order of the rows of its created_at.
PagesCover ==
    /\ pc = "begin" => present = {} /\ gone = {} /\ offset = 0
    /\ pc = "export_rows" =>
         \A i \in Ids : Due(i) =>
             /\ Exportable(i)
             /\ Found(i) \/ Cardinality(Newer(i)) >= offset
    /\ pc \notin {"begin", "export_rows"} => \A i \in Ids : Due(i) => Found(i)

(* The import.  Every row of the target is the copy of a record; in the     *)
(* first run, of one that was read already.                                 *)
Before(j) == j < position \/ (pc = "import_chunks" /\ j = position)

CopyOf(c, j) == /\ stream[j].type = "row" /\ c.content = stream[j].content
                /\ c.id \in {None, stream[j].id}

Started == pc \in {"import", "import_chunks"}

Sourced == \A k \in DOMAIN copies : \E j \in DOMAIN stream :
              CopyOf(copies[k], j) /\ (Started /\ runs = 1 => Before(j))

\* With deduplication contents are distinct, and none is missing of the records
\* that this run has read.
Deduplicated ==
    dedup => /\ \A k, l \in DOMAIN copies : copies[k].content = copies[l].content => k = l
             /\ Started \/ pc = "done" =>
                  \A j \in DOMAIN stream : stream[j].type = "row" /\ Before(j) =>
                     \E k \in DOMAIN copies : copies[k].content = stream[j].content

\* The run that an import stands in.
Runs ==
    /\ pc \in {"begin", "export_rows", "export_chunks", "exported"} =>
         runs = 0 /\ copies = <<>>
    /\ pc \notin {"begin", "export_rows", "export_chunks", "exported"} =>
         runs > 0 /\ to \in Targets
    /\ pc \in {"begin", "export_rows", "export_chunks", "exported", "interrupted"} =>
         position = 1
    /\ pc = "import_chunks" => position \in DOMAIN stream
    /\ pc = "done" => position = Len(stream) + 1
    /\ pc = "duplicate_key" => KeyTakenExplained

ChunksHaveRows == \A i \in Ids : chunks[i] # None => table[i] # NoRow

IInv == TypeOK /\ ChunksHaveRows /\ Runs /\ PagesCover /\ Sourced /\ Deduplicated

-----------------------------------------------------------------------------
LEMMA InvInit == Init => IInv
<1> SUFFICES ASSUME Init PROVE IInv
  OBVIOUS
<1>1. TypeOK
  <2>1. /\ stream \in Seq(Record) /\ copies \in Seq(Copy)
        /\ copyChunks \in Seq(Ids \cup {None}) /\ Len(stream) = 0
    BY DEF Init
  <2>2. /\ from \in Exported /\ table \in [Ids -> Row \cup {NoRow}]
        /\ chunks \in [Ids -> Contents \cup {None}]
    BY DEF Init
  <2>3. /\ to \in Targets \cup {None} /\ dedup \in BOOLEAN /\ chunking \in BOOLEAN
        /\ offset \in Nat /\ present \subseteq Ids /\ gone \subseteq Ids /\ split \subseteq Nat
    BY DEF Init
  <2>4. writes \in 0..MaxWrites /\ runs \in 0..MaxRuns /\ position \in 1..Len(stream) + 1
    BY <2>1, ExportAssumption DEF Init
  <2> QED
    BY <2>1, <2>2, <2>3, <2>4 DEF Init, TypeOK
<1>2. ChunksHaveRows /\ Runs /\ PagesCover
  BY DEF Init, ChunksHaveRows, Runs, PagesCover
<1>3. Sourced /\ Deduplicated
  BY DEF Init, Sourced, Deduplicated
<1> QED
  BY <1>1, <1>2, <1>3 DEF IInv

-----------------------------------------------------------------------------
\* What the writers of the source leave alone.
LEMMA WriteFrame ==
  ASSUME IInv, UNCHANGED <<exportVars, importVars>>
  PROVE  Runs' /\ Sourced' /\ Deduplicated'
<1>1. UNCHANGED <<pc, stream, position, runs, copies, dedup, to>>
  BY DEF exportVars, importVars
<1>2. Runs'
  BY <1>1 DEF IInv, Runs, KeyTakenExplained
<1>3. Sourced'
  BY <1>1 DEF IInv, Sourced, CopyOf, Before, Started
<1>4. Deduplicated'
  BY <1>1 DEF IInv, Deduplicated, Before, Started
<1> QED
  BY <1>2, <1>3, <1>4

\* Rows that come in, and rows forgotten that are older, take no number from a
\* row that is due.
LEMMA WriteCovers ==
  ASSUME IInv, UNCHANGED exportVars, gone \subseteq gone',
         pc = "begin" => gone' = gone,
         ExportAssumption,
         pc = "export_rows" =>
            \A i \in Ids : Exportable(i) => Exportable(i)' \/ i \in gone'
  PROVE  PagesCover'
<1> USE DEF IInv
<1>1. UNCHANGED <<from, pc, offset, stream, present, split>>
  BY DEF exportVars
<1>2. CASE pc = "begin"
  BY <1>1, <1>2 DEF PagesCover
<1>3. \A i \in Ids : Due(i)' => Due(i)
  BY <1>1 DEF Due
<1>4. \A i \in Ids : Found(i)' <=> Found(i)
  BY <1>1 DEF Found, FoundIn, RowsOf
<1>5. CASE pc = "export_rows"
  <2> SUFFICES ASSUME NEW i \in Ids, Due(i)'
               PROVE  /\ Exportable(i)'
                      /\ Found(i)' \/ Cardinality(Newer(i)') >= offset'
    BY <1>1, <1>5 DEF PagesCover
  <2>1. Exportable(i) /\ (Found(i) \/ Cardinality(Newer(i)) >= offset)
    BY <1>3, <1>5 DEF PagesCover
  <2>2. Exportable(i)'
    BY <1>5, <2>1 DEF Due
  <2>3. \A j \in Ids : Stamp[j] > Stamp[i] => j \notin gone'
    BY ExportAssumption DEF Due
  <2>4. Newer(i) \in SUBSET Newer(i)'
    BY <1>5, <2>3 DEF Newer, Rows
  <2>5. IsFiniteSet(Newer(i)')
    <3>1. Newer(i)' \in SUBSET Ids
      BY DEF Newer, Rows
    <3> QED
      BY <3>1, FS_Subset, ExportAssumption
  <2>6. Cardinality(Newer(i)) <= Cardinality(Newer(i)') /\ IsFiniteSet(Newer(i))
    BY <2>4, <2>5, FS_Subset
  <2>7. Cardinality(Newer(i)) \in Nat /\ Cardinality(Newer(i)') \in Nat
    BY <2>5, <2>6, FS_CardinalityType
  <2>8. Found(i)' \/ Cardinality(Newer(i)') >= offset'
    BY <1>1, <1>4, <2>1, <2>6, <2>7 DEF TypeOK
  <2> QED
    BY <2>2, <2>8
<1>6. CASE pc \notin {"begin", "export_rows"}
  BY <1>1, <1>3, <1>4, <1>6 DEF PagesCover
<1> QED
  BY <1>2, <1>5, <1>6

\* Every write that counts is within the bound.
LEMMA WritesBounded ==
  ASSUME TypeOK, Writing \/ UNCHANGED writes
  PROVE  writes' \in 0..MaxWrites
<1>1. writes \in 0..MaxWrites /\ MaxWrites \in Nat
  BY ExportAssumption DEF TypeOK
<1>2. CASE Writing
  <2>1. writes < MaxWrites /\ writes' = writes + 1
    BY <1>2 DEF Writing
  <2> QED
    BY <1>1, <2>1
<1>3. CASE UNCHANGED writes
  BY <1>1, <1>3
<1> QED
  BY <1>2, <1>3

\* The writers of the source.
LEMMA WriteStep == ASSUME IInv, Write PROVE IInv'
<1> USE DEF IInv
<1>1. ASSUME NEW i \in Ids, NEW x \in Contents, NEW s \in Exported, CreateRow(i, x, s)
      PROVE  IInv'
  <2> DEFINE row == [scope |-> s, content |-> x, deleted_at |-> FALSE]
  <2>1. /\ UNCHANGED <<exportVars, importVars, chunks, gone>>
        /\ Writing \/ UNCHANGED writes
        /\ table[i] = NoRow /\ table' = [table EXCEPT ![i] = row]
    BY <1>1 DEF CreateRow, Filling, Writing
  <2>2. row \in Row
    BY ExportAssumption DEF Row
  <2>3. \A j \in Ids : table'[j] = IF j = i THEN row ELSE table[j]
    BY <2>1 DEF TypeOK
  <2>4. TypeOK'
    <3> HIDE DEF row
    <3>0. table \in [Ids -> Row \cup {NoRow}] /\ table' = [table EXCEPT ![i] = row]
      BY <2>1 DEF TypeOK
    <3>1. table' \in [Ids -> Row \cup {NoRow}]
      BY <2>2, <3>0
    <3>2. writes' \in 0..MaxWrites
      BY <2>1, WritesBounded
    <3> QED
      BY <2>1, <3>1, <3>2 DEF TypeOK, exportVars, importVars
  <2>5. ChunksHaveRows'
    BY <2>1, <2>3 DEF ChunksHaveRows
  <2>6. \A j \in Ids : Exportable(j) => Exportable(j)'
    BY <2>1, <2>3 DEF Exportable, Live, exportVars
  <2> QED
    BY <2>1, <2>4, <2>5, <2>6, WriteFrame, WriteCovers, ExportAssumption
<1>2. ASSUME NEW i \in Ids, NEW x \in Contents, UpdateRow(i, x)
      PROVE  IInv'
  <2>1. /\ UNCHANGED <<exportVars, importVars, chunks, gone>>
        /\ Writing \/ UNCHANGED writes
        /\ Live(i) /\ table' = [table EXCEPT ![i].content = x]
    BY <1>2 DEF UpdateRow, Writing
  <2>2. \A j \in Ids : /\ j # i => table'[j] = table[j]
                       /\ table'[i] = [table[i] EXCEPT !.content = x]
    BY <2>1 DEF TypeOK
  <2>3. table[i] \in Row
    BY <2>1 DEF TypeOK, Live
  <2>4. /\ table'[i] \in Row /\ table'[i].scope = table[i].scope
        /\ table'[i].deleted_at = table[i].deleted_at
    BY <2>2, <2>3 DEF Row
  <2>5. TypeOK'
    <3>1. table' \in [Ids -> Row \cup {NoRow}]
      BY <2>1, <2>2, <2>4 DEF TypeOK
    <3>2. writes' \in 0..MaxWrites
      BY <2>1, WritesBounded
    <3> QED
      BY <2>1, <3>1, <3>2 DEF TypeOK, exportVars, importVars
  <2>real. NoRow \notin Row /\ table'[i] # NoRow
    BY <2>4, ExportAssumption
  <2>6. ChunksHaveRows'
    BY <2>1, <2>2, <2>real DEF ChunksHaveRows, Live
  <2>7. \A j \in Ids : Exportable(j) => Exportable(j)'
    BY <2>1, <2>2, <2>4, <2>real DEF Exportable, Live, exportVars
  <2> QED
    BY <2>1, <2>5, <2>6, <2>7, WriteFrame, WriteCovers, ExportAssumption
<1>3. ASSUME NEW i \in Ids, WriteChunk(i) PROVE IInv'
  <2>1. /\ UNCHANGED <<exportVars, importVars, table, gone>>
        /\ Writing \/ UNCHANGED writes
        /\ table[i] # NoRow /\ table[i].content \in Long
        /\ chunks' = [chunks EXCEPT ![i] = table[i].content]
    BY <1>3 DEF WriteChunk, Filling, Writing
  <2>2. TypeOK'
    <3>1. writes' \in 0..MaxWrites
      BY <2>1, WritesBounded
    <3>2. chunks' \in [Ids -> Contents \cup {None}]
      BY <2>1, ExportAssumption DEF TypeOK
    <3> QED
      BY <2>1, <3>1, <3>2 DEF TypeOK, exportVars, importVars
  <2>3. ChunksHaveRows'
    BY <2>1 DEF ChunksHaveRows, TypeOK
  <2>4. \A j \in Ids : Exportable(j) => Exportable(j)'
    BY <2>1 DEF Exportable, Live, exportVars
  <2> QED
    BY <2>1, <2>2, <2>3, <2>4, WriteFrame, WriteCovers, ExportAssumption
<1>4. ASSUME NEW i \in Ids, ForgetRow(i) PROVE IInv'
  <2>1. /\ UNCHANGED <<exportVars, importVars, chunks>>
        /\ Writing \/ UNCHANGED writes
        /\ Live(i) /\ table' = [table EXCEPT ![i].deleted_at = TRUE]
        /\ gone' = IF Exporting THEN gone \cup {i} ELSE gone
    BY <1>4 DEF ForgetRow, Writing
  <2>2. \A j \in Ids : /\ j # i => table'[j] = table[j]
                       /\ table'[i] = [table[i] EXCEPT !.deleted_at = TRUE]
    BY <2>1 DEF TypeOK
  <2>3. table[i] \in Row
    BY <2>1 DEF TypeOK, Live
  <2>4. table'[i] \in Row
    BY <2>2, <2>3 DEF Row
  <2>5. TypeOK'
    <3>1. table' \in [Ids -> Row \cup {NoRow}]
      BY <2>1, <2>2, <2>4 DEF TypeOK
    <3>2. writes' \in 0..MaxWrites
      BY <2>1, WritesBounded
    <3> QED
      BY <2>1, <3>1, <3>2 DEF TypeOK, exportVars, importVars
  <2>6. ChunksHaveRows'
    <3>1. table'[i] # NoRow
      BY <2>4, ExportAssumption
    <3> QED
      BY <2>1, <2>2, <3>1 DEF ChunksHaveRows, Live
  <2>7. pc = "export_rows" => \A j \in Ids : Exportable(j) => Exportable(j)' \/ j \in gone'
    BY <2>1, <2>2 DEF Exportable, Live, exportVars, Exporting
  <2>8. gone \subseteq gone' /\ (pc = "begin" => gone' = gone)
    BY <2>1 DEF Exporting
  <2> QED
    BY <2>1, <2>5, <2>6, <2>7, <2>8, WriteFrame, WriteCovers, ExportAssumption
<1> QED
  BY <1>1, <1>2, <1>3, <1>4 DEF Write

-----------------------------------------------------------------------------
\* Whatever the export reads, no copy depends on it: there is none yet.
LEMMA NoCopies ==
  ASSUME IInv, pc \in {"begin", "export_rows", "export_chunks"}, UNCHANGED importVars,
         pc' \in {"begin", "export_rows", "export_chunks", "exported"}
  PROVE  Runs' /\ Sourced' /\ Deduplicated'
<1>1. copies = <<>> /\ copies' = <<>> /\ runs' = 0 /\ position' = 1
  BY DEF IInv, Runs, importVars
<1>2. Runs'
  BY <1>1 DEF Runs
<1>3. Sourced' /\ Deduplicated'
  BY <1>1 DEF Sourced, Deduplicated, Started
<1> QED
  BY <1>2, <1>3

LEMMA StartExportStep == ASSUME IInv, StartExport PROVE IInv'
<1> USE DEF IInv
<1>1. /\ pc = "begin" /\ pc' = "export_rows" /\ present' = {i \in Ids : Exportable(i)}
      /\ UNCHANGED <<table, chunks, from, offset, stream, split, writes, gone>>
      /\ UNCHANGED importVars
  BY DEF StartExport, sourceVars
<1>2. TypeOK'
  BY <1>1 DEF TypeOK, importVars
<1>3. ChunksHaveRows'
  BY <1>1 DEF ChunksHaveRows
<1>4. PagesCover'
  <2>1. offset' = 0
    BY <1>1 DEF PagesCover
  <2> SUFFICES ASSUME NEW i \in Ids, Due(i)'
               PROVE  Exportable(i)' /\ Cardinality(Newer(i)') >= offset'
    BY <1>1, <2>1 DEF PagesCover
  <2>2. Exportable(i)'
    BY <1>1 DEF Due, Exportable, Live
  <2>3. Newer(i)' \in SUBSET Ids
    BY DEF Newer, Rows
  <2>4. Cardinality(Newer(i)') \in Nat
    BY <2>3, FS_Subset, FS_CardinalityType, ExportAssumption
  <2> QED
    BY <2>1, <2>2, <2>4
<1> QED
  BY <1>1, <1>2, <1>3, <1>4, NoCopies

\* A page appends records to the stream, and changes nothing else but the place
\* the export has come to.
LEMMA ExportPageStep ==
  ASSUME IInv, NEW STATE records, records \in Seq(Record), NEW next \in {"export_chunks", "exported"},
         pc \in {"export_rows", "export_chunks"}, ExportPage(records, next),
         split' \in SUBSET Nat
  PROVE  /\ TypeOK' /\ ChunksHaveRows' /\ Runs' /\ Sourced' /\ Deduplicated'
         /\ \A i : Found(i) => Found(i)'
         /\ \A k \in DOMAIN Page(records) : records[offset + k].type = "row"
                                               => FoundIn(stream', records[offset + k].id)
<1> USE DEF IInv
<1> DEFINE page == Page(records)
<1>1. /\ stream' = stream \o page
      /\ pc' \in {pc, next} /\ offset' \in {0, offset + PageSize}
      /\ UNCHANGED <<table, chunks, from, present, writes, gone>>
      /\ UNCHANGED importVars
  BY DEF ExportPage, sourceVars
<1>2. /\ page \in Seq(Record)
      /\ \A k \in 1..Len(page) : page[k] = records[offset + k]
  BY PageFacts, ExportAssumption DEF TypeOK
<1>3. stream \in Seq(Record)
  BY DEF TypeOK
<1> HIDE DEF page
<1>4. /\ stream' \in Seq(Record) /\ Len(stream') = Len(stream) + Len(page)
      /\ \A n \in 1..Len(stream) + Len(page) :
             stream'[n] = IF n <= Len(stream) THEN stream[n] ELSE page[n - Len(stream)]
  BY <1>1, <1>2, <1>3, ConcatProperties
<1>5. Len(stream) \in Nat /\ Len(page) \in Nat
  BY <1>2, <1>3
<1>6. TypeOK'
  <2>1. position' = position /\ position \in 1..Len(stream) + 1
    BY <1>1 DEF TypeOK, importVars
  <2>2. position' \in 1..Len(stream') + 1
    BY <1>4, <1>5, <2>1
  <2>3. offset' \in Nat
    BY <1>1, ExportAssumption DEF TypeOK
  <2> QED
    BY <1>1, <1>4, <2>2, <2>3 DEF TypeOK, importVars
<1>7. ChunksHaveRows'
  BY <1>1 DEF ChunksHaveRows
<1>8. Runs' /\ Sourced' /\ Deduplicated'
  BY <1>1, NoCopies
<1>9. ASSUME NEW i, Found(i) PROVE Found(i)'
  <2>1. PICK n \in DOMAIN stream : stream[n].type = "row" /\ stream[n].id = i
    BY <1>9 DEF Found, FoundIn, RowsOf
  <2>2. n \in DOMAIN stream' /\ stream'[n] = stream[n]
    BY <1>3, <1>4, <1>5
  <2> QED
    BY <2>1, <2>2 DEF Found, FoundIn, RowsOf
<1>10. ASSUME NEW k \in DOMAIN page, records[offset + k].type = "row"
       PROVE  FoundIn(stream', records[offset + k].id)
  <2>1. k \in 1..Len(page)
    BY <1>2
  <2>2. /\ Len(stream) + k \in DOMAIN stream'
        /\ stream'[Len(stream) + k] = page[k]
    BY <1>4, <1>5, <2>1
  <2>3. stream'[Len(stream) + k] = records[offset + k]
    BY <1>2, <2>1, <2>2
  <2> QED
    BY <1>10, <2>2, <2>3 DEF Found, FoundIn, RowsOf
<1> QED
  BY <1>6, <1>7, <1>8, <1>9, <1>10 DEF page

\* A row before whose created_at the pages that were read end, in one order of
\* the rows: it is on this page, or, as its created_at is not divided, this page
\* ends before its created_at as well.
LEMMA PageOrNewer ==
  ASSUME ExportAssumption, NEW rn, rn \in Orders, NEW i, i \in Rows, offset \in Nat,
         Cardinality(Newer(i)) >= offset
  PROVE  /\ rn[i] > offset
         /\ rn[i] > offset + PageSize /\ Stamp[i] \notin Divided(rn)
               => Cardinality(Newer(i)) >= offset + PageSize
<1> DEFINE UpTo(m) == {j \in Rows : rn[j] <= m}
<1>1. /\ IsFiniteSet(Rows) /\ Cardinality(Rows) \in Nat
      /\ rn \in [Rows -> 1..Cardinality(Rows)]
      /\ \A j, k \in Rows : Stamp[j] > Stamp[k] => rn[j] < rn[k]
      /\ \A m \in 0..Cardinality(Rows) : Cardinality(UpTo(m)) = m
  BY OrderFacts
<1>2. rn[i] \in 1..Cardinality(Rows) /\ PageSize \in Nat /\ rn[i] - 1 \in 0..Cardinality(Rows)
  BY <1>1, ExportAssumption
<1>3. /\ \A j \in Rows : rn[j] \in Nat /\ Stamp[j] \in Nat
      /\ IsFiniteSet(Newer(i)) /\ Cardinality(Newer(i)) \in Nat
  <2>1. Newer(i) \in SUBSET Rows /\ Rows \subseteq Ids
    BY DEF Newer, Rows
  <2> QED
    BY <1>1, <2>1, FS_Subset, FS_CardinalityType, ExportAssumption
<1>4. rn[i] > offset
  <2>1. Newer(i) \in SUBSET UpTo(rn[i] - 1)
    BY <1>1, <1>2, <1>3 DEF Newer
  <2>2. IsFiniteSet(UpTo(rn[i] - 1))
    BY <1>1, FS_Subset
  <2>3. Cardinality(Newer(i)) <= Cardinality(UpTo(rn[i] - 1))
    BY <2>1, <2>2, FS_Subset
  <2>4. Cardinality(UpTo(rn[i] - 1)) = rn[i] - 1
    BY <1>1, <1>2
  <2> QED
    BY <1>2, <1>3, <2>3, <2>4
<1>5. ASSUME rn[i] > offset + PageSize, Stamp[i] \notin Divided(rn)
      PROVE  Cardinality(Newer(i)) >= offset + PageSize
  <2> DEFINE end == offset + PageSize
  <2>1. end \in 0..Cardinality(Rows) /\ end < rn[i]
    <3>1. Cardinality(Rows) \in Nat /\ rn[i] \in Nat /\ rn[i] <= Cardinality(Rows)
      BY <1>1, <1>2
    <3> QED
      BY <1>2, <1>5, <3>1
  <2>2. ASSUME NEW j \in Rows, rn[j] <= end PROVE Stamp[j] > Stamp[i]
    <3>1. Stamp[j] # Stamp[i]
      BY <1>5, <2>1, <2>2 DEF Divided
    <3>2. ~(Stamp[i] > Stamp[j])
      BY <1>1, <1>2, <1>3, <2>1, <2>2
    <3> QED
      BY <1>3, <3>1, <3>2
  <2>3. UpTo(end) \in SUBSET Newer(i)
    BY <2>2 DEF Newer
  <2>4. Cardinality(UpTo(end)) <= Cardinality(Newer(i))
    BY <1>3, <2>3, FS_Subset
  <2>5. Cardinality(UpTo(end)) = end
    BY <1>1, <2>1
  <2> QED
    BY <2>4, <2>5
<1> QED
  BY <1>4, <1>5

\* A page of rows: the row that is due is on it, or this page too is taken up by
\* newer rows.
LEMMA ExportRowsStep == ASSUME IInv, ExportRows PROVE IInv'
<1> USE DEF IInv
<1> USE ExportAssumption
<1>0. pc = "export_rows"
  BY DEF ExportRows
<1>1. PICK rn \in Orders : /\ ExportPage(RowRecords(rn), "export_chunks")
                           /\ split' = split \cup Divided(rn)
  BY DEF ExportRows
<1> DEFINE records == RowRecords(rn)
           l == Numbered(Rows, rn)
<1>2. /\ l \in Seq(Rows) /\ Len(l) = Cardinality(Rows)
      /\ rn \in [Rows -> 1..Cardinality(Rows)] /\ Cardinality(Rows) \in Nat
      /\ \A i \in Rows : l[rn[i]] = i
  BY OrderFacts
<1>3. \A i \in Rows : RowRecord(i) \in Record
  BY DEF Rows, RowRecord, Exportable, Live, Record, Row, TypeOK
<1>4. records \in Seq(Record) /\ Len(records) = Cardinality(Rows)
  <2>1. \A k \in 1..Cardinality(Rows) : RowRecord(l[k]) \in Record
    BY <1>2, <1>3
  <2>2. records = [k \in 1..Cardinality(Rows) |-> RowRecord(l[k])]
    BY DEF RowRecords
  <2> HIDE DEF records, l
  <2>3. records \in [1..Cardinality(Rows) -> Record]
    BY <2>1, <2>2
  <2>4. Cardinality(Rows) \in Nat
    BY <1>2
  <2> QED
    BY <2>3, <2>4, SMT
<1>named. \A i \in Rows : /\ rn[i] \in 1..Cardinality(Rows)
                          /\ records[rn[i]].type = "row" /\ records[rn[i]].id = i
  BY <1>2 DEF RowRecords, RowRecord
<1>split. split' \in SUBSET Nat
  <2>1. Divided(rn) \subseteq Nat
    BY DEF Divided, Rows
  <2> QED
    BY <1>1, <2>1 DEF TypeOK
<1>page. ExportPage(records, "export_chunks")
  BY <1>1
<1> HIDE DEF records
<1>5. /\ TypeOK' /\ ChunksHaveRows' /\ Runs' /\ Sourced' /\ Deduplicated'
      /\ \A i : Found(i) => Found(i)'
      /\ \A k \in DOMAIN Page(records) : records[offset + k].type = "row"
                                               => FoundIn(stream', records[offset + k].id)
  BY <1>0, <1>4, <1>page, <1>split, ExportPageStep
<1>6. /\ Len(Page(records)) = IF offset + PageSize <= Cardinality(Rows) THEN PageSize
                              ELSE IF offset < Cardinality(Rows)
                                   THEN Cardinality(Rows) - offset ELSE 0
      /\ Page(records) \in Seq(Record)
  <2>1. offset \in Nat
    BY DEF TypeOK
  <2>2. /\ Page(records) \in Seq(Record)
        /\ Len(Page(records)) = IF offset + PageSize <= Len(records) THEN PageSize
                                ELSE IF offset < Len(records)
                                     THEN Len(records) - offset ELSE 0
    BY <1>4, <2>1, PageFacts
  <2> QED
    BY <1>4, <2>2
<1>7. /\ IF Len(Page(records)) < PageSize
         THEN pc' = "export_chunks" /\ offset' = 0
         ELSE offset' = offset + PageSize /\ pc' = pc
      /\ UNCHANGED <<table, from, present, gone>>
  BY <1>page DEF ExportPage, sourceVars
<1>8. ASSUME NEW i \in Ids, Due(i)'
      PROVE  /\ Exportable(i)'
             /\ \/ Found(i)'
                \/ Cardinality(Newer(i)') >= offset' /\ pc' = "export_rows"
  <2>1. Due(i) /\ Stamp[i] \notin Divided(rn)
    BY <1>1, <1>7, <1>8 DEF Due
  <2>2. Exportable(i) /\ (Found(i) \/ Cardinality(Newer(i)) >= offset)
    BY <1>0, <2>1 DEF PagesCover
  <2>3. i \in Rows /\ Rows' = Rows /\ Exportable(i)'
    BY <1>7, <2>2 DEF Rows, Exportable, Live
  <2>4. Newer(i)' = Newer(i)
    BY <2>3 DEF Newer
  <2>types. offset \in Nat /\ PageSize \in Nat \ {0}
    BY DEF TypeOK
  <2>5. CASE Found(i)
    BY <1>5, <2>3, <2>5
  <2>6. CASE Cardinality(Newer(i)) >= offset /\ rn[i] <= offset + PageSize
    <3>1. rn[i] > offset
      BY <2>3, <2>6, <2>types, PageOrNewer
    <3> DEFINE k == rn[i] - offset
    <3>2. k \in 1..Len(Page(records)) /\ offset + k = rn[i]
      <4>1. rn[i] \in Nat /\ rn[i] <= Cardinality(Rows) /\ Cardinality(Rows) \in Nat
        BY <1>2, <2>3
      <4>2. Len(Page(records)) = PageSize \/ Len(Page(records)) = Cardinality(Rows) - offset
        BY <1>6, <2>types, <3>1, <4>1
      <4>3. rn[i] <= offset + PageSize
        BY <2>6
      <4>4. k \in 1..PageSize /\ k <= Cardinality(Rows) - offset /\ offset + k = rn[i]
        BY <2>types, <3>1, <4>1, <4>3
      <4> QED
        BY <4>2, <4>4
    <3>3. k \in DOMAIN Page(records)
      BY <1>6, <3>2
    <3> QED
      BY <1>5, <1>named, <2>3, <3>2, <3>3 DEF Found
  <2>7. CASE Cardinality(Newer(i)) >= offset /\ rn[i] > offset + PageSize
    <3>1. Cardinality(Newer(i)) >= offset + PageSize
      BY <2>1, <2>3, <2>7, <2>types, PageOrNewer
    <3>2. Len(Page(records)) = PageSize
      <4>1. rn[i] <= Cardinality(Rows)
        BY <1>2, <2>3
      <4>2. offset + PageSize <= Cardinality(Rows)
        BY <1>2, <2>3, <2>7, <2>types, <4>1
      <4> QED
        BY <1>6, <4>2
    <3>3. offset' = offset + PageSize /\ pc' = pc
      BY <1>7, <2>types, <3>2
    <3> QED
      BY <1>0, <2>3, <2>4, <3>1, <3>3
  <2> QED
    BY <1>2, <1>named, <2>2, <2>3, <2>5, <2>6, <2>7, <2>types
<1>9. PagesCover'
  <2>1. pc' \in {"export_rows", "export_chunks"}
    BY <1>0, <1>7
  <2> QED
    BY <1>8, <2>1 DEF PagesCover
<1> QED
  BY <1>5, <1>9

LEMMA ExportChunksStep == ASSUME IInv, ExportChunks PROVE IInv'
<1> USE DEF IInv
<1>1. pc = "export_chunks" /\ ExportPage(ChunkRecords, "exported")
  BY DEF ExportChunks
<1>2. \A i \in Chunked : ChunkRecord(i) \in Record
  BY DEF Chunked, ChunkRecord, ChunksHaveRows, Record, Row, TypeOK
<1>3. ChunkRecords \in Seq(Record)
  BY <1>2, ListedChunksFacts, ExportAssumption DEF ChunkRecords
<1>split. split' = split /\ split' \in SUBSET Nat
  BY DEF ExportChunks, TypeOK
<1>4. /\ TypeOK' /\ ChunksHaveRows' /\ Runs' /\ Sourced' /\ Deduplicated'
      /\ \A i : Found(i) => Found(i)'
  BY <1>1, <1>3, <1>split, ExportPageStep
<1>5. pc' \in {"export_chunks", "exported"} /\ UNCHANGED <<present, gone, split>>
  BY <1>1, <1>split DEF ExportPage
<1>6. PagesCover'
  BY <1>1, <1>4, <1>5 DEF PagesCover, Due
<1> QED
  BY <1>4, <1>6

-----------------------------------------------------------------------------
AfterExport == {"exported", "import", "import_chunks", "interrupted", "done",
              "scope_mismatch", "duplicate_key", "chunking_disabled"}

\* The import leaves the source and the stream as they are.
LEMMA ImportFrame ==
  ASSUME IInv, pc \in AfterExport, pc' \in AfterExport,
         UNCHANGED <<sourceVars, from, offset, stream, present, split, writes, gone>>
  PROVE  ChunksHaveRows' /\ PagesCover'
<1> USE DEF IInv
<1>1. ChunksHaveRows'
  BY DEF ChunksHaveRows, sourceVars
<1>2. PagesCover'
  BY DEF PagesCover, Due, Found, AfterExport
<1> QED
  BY <1>1, <1>2

\* A step that inserts no row, and reads over no row whose content is missing.
LEMMA NoInsert ==
  ASSUME IInv, UNCHANGED <<stream, copies, runs, dedup>>, Started,
         \A j \in DOMAIN stream : Before(j) => Before(j)',
         Started' \/ pc' = "done" =>
            \A j \in DOMAIN stream : stream[j].type = "row" /\ Before(j)' /\ dedup =>
               Before(j) \/ \E k \in DOMAIN copies : copies[k].content = stream[j].content
  PROVE  Sourced' /\ Deduplicated'
<1> USE DEF IInv
<1>1. Sourced'
  <2> SUFFICES ASSUME NEW k \in DOMAIN copies
               PROVE  \E j \in DOMAIN stream : CopyOf(copies[k], j)
                         /\ (Started' /\ runs = 1 => Before(j)')
    BY DEF Sourced, CopyOf
  <2>1. PICK j \in DOMAIN stream : CopyOf(copies[k], j) /\ (runs = 1 => Before(j))
    BY DEF Sourced
  <2> QED
    BY <2>1
<1>2. Deduplicated'
  BY DEF Deduplicated
<1> QED
  BY <1>1, <1>2

\* A step that leaves the loop over the records, without having come to its end.
LEMMA Leave ==
  ASSUME IInv, UNCHANGED <<stream, copies, runs, dedup>>,
         pc' \in {"interrupted", "scope_mismatch", "duplicate_key", "chunking_disabled"}
  PROVE  Sourced' /\ Deduplicated'
<1> USE DEF IInv
<1>1. ~Started' /\ pc' # "done"
  BY DEF Started
<1>2. Sourced'
  BY <1>1 DEF Sourced, CopyOf
<1>3. Deduplicated'
  BY <1>1 DEF Deduplicated
<1> QED
  BY <1>2, <1>3

LEMMA StartImportStep == ASSUME IInv, StartImport PROVE IInv'
<1> USE DEF IInv
<1>1. /\ pc \in {"exported", "interrupted"} /\ pc' = "import"
      /\ runs < MaxRuns /\ runs' = runs + 1
      /\ IF runs = 0 THEN to' \in Targets /\ dedup' \in BOOLEAN /\ chunking' \in BOOLEAN
                     ELSE UNCHANGED <<to, dedup, chunking>>
      /\ UNCHANGED <<sourceVars, from, offset, stream, present, split, writes, gone>>
      /\ UNCHANGED <<position, copies, copyChunks>>
  BY DEF StartImport
<1>2. runs \in Nat /\ position = 1 /\ (runs = 0 => copies = <<>>) /\ (runs # 0 => to \in Targets)
  BY <1>1 DEF Runs, TypeOK
<1>3. TypeOK'
  BY <1>1, <1>2, ExportAssumption DEF TypeOK, sourceVars
<1>4. ChunksHaveRows' /\ PagesCover'
  BY <1>1, ImportFrame DEF AfterExport
<1>5. Runs'
  BY <1>1, <1>2 DEF Runs
<1>6. Sourced'
  BY <1>1, <1>2 DEF Sourced, CopyOf
<1>7. Deduplicated'
  <2>1. \A j \in DOMAIN stream : ~Before(j)'
    BY <1>1, <1>2 DEF Before, TypeOK
  <2>2. dedup' => \A k, l \in DOMAIN copies' :
                       copies'[k].content = copies'[l].content => k = l
    <3>1. CASE runs = 0
      BY <1>1, <1>2, <3>1
    <3>2. CASE runs # 0
      BY <1>1, <3>2 DEF Deduplicated
    <3> QED
      BY <3>1, <3>2
  <2> QED
    BY <1>1, <2>1, <2>2 DEF Deduplicated
<1> QED
  BY <1>3, <1>4, <1>5, <1>6, <1>7

LEMMA ReadingFacts ==
  ASSUME IInv, pc \in {"import", "import_chunks"}, position <= Len(stream)
  PROVE  /\ position \in DOMAIN stream /\ Current \in Record /\ to \in MemoryScope
         /\ position \in Nat /\ position + 1 \in 1..Len(stream) + 1
         /\ runs > 0 /\ to \in Targets
<1> USE DEF IInv
<1>1. position \in Nat \ {0} /\ Len(stream) \in Nat /\ DOMAIN stream = 1..Len(stream)
  BY DEF TypeOK
<1>2. position \in DOMAIN stream
  BY <1>1
<1> QED
  BY <1>1, <1>2, ExportAssumption DEF Runs, TypeOK, Current

LEMMA ImportMismatchStep == ASSUME IInv, ImportMismatch PROVE IInv'
<1> USE DEF IInv
<1>1. /\ pc = "import" /\ pc' = "scope_mismatch"
      /\ UNCHANGED <<sourceVars, from, offset, stream, present, split, writes, gone>>
      /\ UNCHANGED <<to, dedup, chunking, runs, position, copies, copyChunks>>
  BY DEF ImportMismatch, Importing, ExportUnread
<1>2. TypeOK'
  BY <1>1 DEF TypeOK, sourceVars
<1>3. Runs'
  BY <1>1 DEF Runs
<1> QED
  BY <1>1, <1>2, <1>3, ImportFrame, Leave DEF AfterExport

LEMMA ImportDuplicateStep == ASSUME IInv, ImportDuplicate PROVE IInv'
<1> USE DEF IInv
<1>1. /\ pc = "import" /\ pc' = pc /\ position <= Len(stream) /\ position' = position + 1
      /\ Duplicate(Current)
      /\ UNCHANGED <<sourceVars, from, offset, stream, present, split, writes, gone>>
      /\ UNCHANGED <<to, dedup, chunking, runs, copies, copyChunks>>
  BY DEF ImportDuplicate, Importing, ExportUnread
<1>2. position \in Nat /\ position + 1 \in 1..Len(stream) + 1
  BY <1>1, ReadingFacts
<1>3. TypeOK'
  BY <1>1, <1>2 DEF TypeOK, sourceVars
<1>4. Runs'
  BY <1>1 DEF Runs
<1>5. Sourced' /\ Deduplicated'
  <2>1. \A j \in DOMAIN stream : Before(j) => Before(j)'
    BY <1>1, <1>2 DEF Before, TypeOK
  <2>2. \A j \in DOMAIN stream : Before(j)' => Before(j) \/ j = position
    BY <1>1, <1>2 DEF Before, TypeOK
  <2>3. \E k \in DOMAIN copies : copies[k].content = stream[position].content
    BY <1>1 DEF Duplicate, Current
  <2> QED
    BY <1>1, <2>1, <2>2, <2>3, NoInsert DEF Started
<1> QED
  BY <1>1, <1>3, <1>4, <1>5, ImportFrame DEF AfterExport

\* The row that has the key is the copy of another record: in the first run of
\* one that was read before, in a later one of one with another content.
LEMMA ImportKeyTakenStep == ASSUME IInv, ImportKeyTaken PROVE IInv'
<1> USE DEF IInv
<1>1. /\ pc = "import" /\ pc' = "duplicate_key" /\ position <= Len(stream)
      /\ Current.type = "row" /\ ~Duplicate(Current) /\ KeyTaken(Current)
      /\ UNCHANGED <<sourceVars, from, offset, stream, present, split, writes, gone>>
      /\ UNCHANGED <<to, dedup, chunking, runs, position, copies, copyChunks>>
  BY DEF ImportKeyTaken, Importing, ExportUnread
<1>2. TypeOK'
  BY <1>1 DEF TypeOK, sourceVars
<1>3. KeyTakenExplained'
  <2>1. position \in DOMAIN stream /\ runs > 0 /\ runs \in Nat /\ position \in Nat
    BY <1>1, ReadingFacts DEF TypeOK
  <2>2. PICK k \in DOMAIN copies : copies[k].id = IdFor(Current) /\ IdFor(Current) # None
    BY <1>1 DEF KeyTaken
  <2>3. PICK j \in DOMAIN stream : CopyOf(copies[k], j) /\ (runs = 1 => Before(j))
    BY <1>1 DEF Sourced, Started
  <2>4. stream[j].type = "row" /\ stream[j].id = stream[position].id
    BY <2>2, <2>3 DEF CopyOf, IdFor, Current
  <2>5. CASE runs > 1 /\ ~dedup
    BY <1>1, <2>5 DEF KeyTakenExplained
  <2>6. CASE runs = 1
    <3>1. j # position
      BY <1>1, <2>1, <2>3, <2>6 DEF Before
    <3> QED
      BY <1>1, <2>1, <2>4, <3>1 DEF KeyTakenExplained, Current
  <2>7. CASE dedup
    <3>1. j # position
      BY <1>1, <2>3, <2>7 DEF Duplicate, CopyOf, Current
    <3> QED
      BY <1>1, <2>1, <2>4, <3>1 DEF KeyTakenExplained, Current
  <2> QED
    BY <2>1, <2>5, <2>6, <2>7
<1>4. Runs'
  BY <1>1, <1>3 DEF Runs
<1> QED
  BY <1>1, <1>2, <1>4, ImportFrame, Leave DEF AfterExport

LEMMA ImportRowStep == ASSUME IInv, ImportRow PROVE IInv'
<1> USE DEF IInv
<1> DEFINE new == [id |-> IdFor(Current), content |-> Current.content, scope |-> to]
<1>1. /\ pc = "import" /\ position <= Len(stream)
      /\ Current.type = "row" /\ ~Duplicate(Current)
      /\ copies' = Append(copies, new)
      /\ \/ pc' = "import_chunks" /\ position' = position
         \/ pc' = "import" /\ position' = position + 1
      /\ UNCHANGED <<sourceVars, from, offset, stream, present, split, writes, gone>>
      /\ UNCHANGED <<to, dedup, chunking, runs, copyChunks>>
  BY DEF ImportRow, Importing, ExportUnread
<1>2. /\ position \in DOMAIN stream /\ Current \in Record /\ to \in MemoryScope
      /\ position \in Nat /\ position + 1 \in 1..Len(stream) + 1
      /\ runs > 0 /\ to \in Targets
  BY <1>1, ReadingFacts
<1>3. new \in Copy
  BY <1>2 DEF Copy, Record, IdFor
<1>4. /\ new.content = stream[position].content
      /\ new.id \in {None, stream[position].id}
  BY DEF Current, IdFor
<1> HIDE DEF new
<1>5. /\ copies \in Seq(Copy) /\ copies' \in Seq(Copy) /\ Len(copies') = Len(copies) + 1
      /\ \A k \in 1..Len(copies) : copies'[k] = copies[k]
      /\ copies'[Len(copies) + 1] = new
  BY <1>1, <1>3, AppendProperties DEF TypeOK
<1>6. /\ DOMAIN copies = 1..Len(copies) /\ Len(copies) \in Nat
      /\ DOMAIN copies' = DOMAIN copies \cup {Len(copies) + 1}
  BY <1>5
<1>7. TypeOK'
  BY <1>1, <1>2, <1>5 DEF TypeOK, sourceVars
<1>8. ChunksHaveRows' /\ PagesCover'
  BY <1>1, ImportFrame DEF AfterExport
<1>9. Runs'
  BY <1>1, <1>2 DEF Runs
<1>10. \A j \in DOMAIN stream : Before(j)' <=> Before(j) \/ j = position
  BY <1>1, <1>2 DEF Before, TypeOK
<1>11. Sourced'
  <2> SUFFICES ASSUME NEW k \in DOMAIN copies'
               PROVE  \E j \in DOMAIN stream : CopyOf(copies'[k], j)
                         /\ (runs = 1 => Before(j)')
    BY <1>1 DEF Sourced, CopyOf
  <2>1. CASE k \in DOMAIN copies
    <3>1. copies'[k] = copies[k]
      BY <1>5, <1>6, <2>1
    <3>2. PICK j \in DOMAIN stream : CopyOf(copies[k], j) /\ (runs = 1 => Before(j))
      BY <1>1, <2>1 DEF Sourced, Started
    <3> QED
      BY <1>10, <3>1, <3>2
  <2>2. CASE k = Len(copies) + 1
    BY <1>1, <1>2, <1>4, <1>5, <1>10, <2>2 DEF CopyOf, Current
  <2> QED
    BY <1>6, <2>1, <2>2
<1>12. Deduplicated'
  <2> SUFFICES ASSUME dedup
               PROVE  /\ \A k, l \in DOMAIN copies' : copies'[k].content = copies'[l].content => k = l
                      /\ \A j \in DOMAIN stream : stream[j].type = "row" /\ Before(j)' =>
                            \E k \in DOMAIN copies' : copies'[k].content = stream[j].content
    BY <1>1 DEF Deduplicated
  <2>1. \A k \in DOMAIN copies : copies[k].content # new.content
    BY <1>1, <1>4 DEF Duplicate, Current
  <2>2. \A k \in DOMAIN copies : copies'[k] = copies[k] /\ k # Len(copies) + 1
    BY <1>5, <1>6
  <2>3. \A k, l \in DOMAIN copies' : copies'[k].content = copies'[l].content => k = l
    BY <1>5, <1>6, <2>1, <2>2 DEF Deduplicated
  <2>4. ASSUME NEW j \in DOMAIN stream, stream[j].type = "row", Before(j)'
        PROVE  \E k \in DOMAIN copies' : copies'[k].content = stream[j].content
    <3>1. CASE Before(j)
      <4>1. PICK k \in DOMAIN copies : copies[k].content = stream[j].content
        BY <1>1, <2>4, <3>1 DEF Deduplicated, Started
      <4> QED
        BY <1>6, <2>2, <4>1
    <3>2. CASE j = position
      BY <1>4, <1>5, <1>6, <3>2
    <3> QED
      BY <1>10, <2>4, <3>1, <3>2
  <2> QED
    BY <2>3, <2>4
<1> QED
  BY <1>7, <1>8, <1>9, <1>11, <1>12

LEMMA ImportedRowChunksStep == ASSUME IInv, ImportedRowChunks PROVE IInv'
<1> USE DEF IInv
<1>1. /\ pc = "import_chunks" /\ pc' = "import" /\ position' = position + 1
      /\ copyChunks' = Append(copyChunks, IdFor(Current))
      /\ UNCHANGED <<sourceVars, from, offset, stream, present, split, writes, gone>>
      /\ UNCHANGED <<to, dedup, chunking, runs, copies>>
  BY DEF ImportedRowChunks, ExportUnread
<1>2. position <= Len(stream)
  BY <1>1 DEF Runs, TypeOK
<1>3. /\ position \in Nat /\ position + 1 \in 1..Len(stream) + 1 /\ Current \in Record
  BY <1>1, <1>2, ReadingFacts
<1>4. TypeOK'
  <2>1. IdFor(Current) \in Ids \cup {None}
    BY <1>3 DEF IdFor, Record
  <2>2. copyChunks' \in Seq(Ids \cup {None})
    BY <1>1, <2>1, AppendProperties DEF TypeOK
  <2> QED
    BY <1>1, <1>3, <2>2 DEF TypeOK, sourceVars
<1>5. Runs'
  BY <1>1 DEF Runs
<1>6. \A j \in DOMAIN stream : Before(j)' <=> Before(j)
  BY <1>1, <1>3 DEF Before, TypeOK
<1> QED
  BY <1>1, <1>4, <1>5, <1>6, ImportFrame, NoInsert DEF AfterExport, Started

LEMMA ImportChunkStep == ASSUME IInv, ImportChunk PROVE IInv'
<1> USE DEF IInv
<1>1. /\ pc = "import" /\ position <= Len(stream) /\ Current.type = "chunk"
      /\ UNCHANGED <<sourceVars, from, offset, stream, present, split, writes, gone>>
      /\ UNCHANGED <<to, dedup, chunking, runs, copies>>
  BY DEF ImportChunk, Importing, ExportUnread
<1>2. /\ position \in Nat /\ position + 1 \in 1..Len(stream) + 1 /\ Current \in Record
  BY <1>1, ReadingFacts
<1>3. ChunksHaveRows' /\ PagesCover'
  <2>1. pc' \in {"import", "chunking_disabled"}
    BY <1>1 DEF ImportChunk
  <2> QED
    BY <1>1, <2>1, ImportFrame DEF AfterExport
<1>4. CASE chunking
  <2>1. /\ copyChunks' = Append(copyChunks, Current.id)
        /\ position' = position + 1 /\ pc' = pc
    BY <1>4 DEF ImportChunk
  <2>2. TypeOK'
    <3>1. copyChunks' \in Seq(Ids \cup {None})
      BY <1>2, <2>1, AppendProperties DEF TypeOK, Record
    <3> QED
      BY <1>1, <1>2, <2>1, <3>1 DEF TypeOK, sourceVars
  <2>3. Runs'
    BY <1>1, <2>1 DEF Runs
  <2>4. \A j \in DOMAIN stream : /\ Before(j) => Before(j)'
                                 /\ Before(j)' => Before(j) \/ j = position
    BY <1>1, <1>2, <2>1 DEF Before, TypeOK
  <2>5. stream[position].type # "row"
    BY <1>1 DEF Current
  <2>6. Sourced' /\ Deduplicated'
    BY <1>1, <2>1, <2>4, <2>5, NoInsert DEF Started
  <2> QED
    BY <1>3, <2>2, <2>3, <2>6
<1>5. CASE ~chunking
  <2>1. UNCHANGED <<position, copyChunks>> /\ pc' = "chunking_disabled"
    BY <1>5 DEF ImportChunk
  <2>2. TypeOK'
    BY <1>1, <2>1 DEF TypeOK, sourceVars
  <2>3. Runs'
    BY <1>1, <2>1 DEF Runs
  <2> QED
    BY <1>1, <1>3, <2>1, <2>2, <2>3, Leave
<1> QED
  BY <1>4, <1>5

LEMMA ImportDoneStep == ASSUME IInv, ImportDone PROVE IInv'
<1> USE DEF IInv
<1>1. /\ pc = "import" /\ pc' = "done" /\ position > Len(stream)
      /\ UNCHANGED <<sourceVars, from, offset, stream, present, split, writes, gone>>
      /\ UNCHANGED <<to, dedup, chunking, runs, position, copies, copyChunks>>
  BY DEF ImportDone, ExportUnread
<1>2. TypeOK'
  BY <1>1 DEF TypeOK, sourceVars
<1>3. position = Len(stream) + 1
  BY <1>1 DEF TypeOK
<1>4. Runs'
  BY <1>1, <1>3 DEF Runs
<1>5. \A j \in DOMAIN stream : Before(j)' <=> Before(j)
  BY <1>1 DEF Before
<1> QED
  BY <1>1, <1>2, <1>4, <1>5, ImportFrame, NoInsert DEF AfterExport, Started

LEMMA InterruptStep == ASSUME IInv, Interrupt PROVE IInv'
<1> USE DEF IInv
<1>1. /\ pc \in {"import", "import_chunks"} /\ pc' = "interrupted" /\ position' = 1
      /\ UNCHANGED <<sourceVars, from, offset, stream, present, split, writes, gone>>
      /\ UNCHANGED <<to, dedup, chunking, runs, copies, copyChunks>>
  BY DEF Interrupt, ExportUnread
<1>2. TypeOK'
  BY <1>1 DEF TypeOK, sourceVars
<1>3. Runs'
  BY <1>1 DEF Runs
<1> QED
  BY <1>1, <1>2, <1>3, ImportFrame, Leave DEF AfterExport

LEMMA InvStep == IInv /\ [Next]_vars => IInv'
<1> SUFFICES ASSUME IInv, [Next]_vars PROVE IInv'
  OBVIOUS
<1>1. CASE Write
  BY <1>1, WriteStep
<1>2. CASE StartExport
  BY <1>2, StartExportStep
<1>3. CASE ExportRows \/ ExportChunks
  BY <1>3, ExportRowsStep, ExportChunksStep
<1>4. CASE Import
  BY <1>4, StartImportStep, ImportMismatchStep, ImportDuplicateStep, ImportKeyTakenStep,
     ImportRowStep, ImportedRowChunksStep, ImportChunkStep, ImportDoneStep, InterruptStep
     DEF Import
<1>5. CASE UNCHANGED vars
  <2> USE <1>5 DEF IInv, vars, sourceVars, exportVars, importVars
  <2>1. TypeOK' /\ ChunksHaveRows' /\ Runs'
    BY DEF TypeOK, ChunksHaveRows, Runs, KeyTakenExplained
  <2>2. PagesCover'
    BY DEF PagesCover, Due, Found, Newer, Exportable, Live, Rows
  <2>3. Sourced' /\ Deduplicated'
    BY DEF Sourced, Deduplicated, CopyOf, Before, Started
  <2> QED
    BY <2>1, <2>2, <2>3
<1> QED
  BY <1>1, <1>2, <1>3, <1>4, <1>5 DEF Next

LEMMA Invariance == Spec => []IInv
BY InvInit, InvStep, PTL DEF Spec

-----------------------------------------------------------------------------
\* ExportImport.tla: however rows are created and updated while export_scope()
\* pages with its offset, and however each page orders the rows of one
\* created_at, it misses no row that was there all the time, unless a newer one
\* was forgotten meanwhile or a page ended among the rows of its created_at.
THEOREM ExportIsComplete == Spec => []ExportComplete
<1>1. IInv => ExportComplete
  <2> SUFFICES ASSUME IInv, pc \notin {"begin", "export_rows"}, NEW i \in present \ gone,
                      Stamp[i] \notin split, \A j \in gone : Stamp[j] <= Stamp[i]
               PROVE  \E r \in RowsOf(stream) : r.id = i
    BY DEF ExportComplete
  <2>1. i \in Ids /\ Due(i)
    BY DEF IInv, TypeOK, Due
  <2> QED
    BY <2>1 DEF IInv, PagesCover, Found, FoundIn
<1> QED
  BY <1>1, Invariance, PTL

\* ExportImport.tla: import_scope() with deduplication, interrupted and repeated
\* at will, ends with every content that was exported, once.
THEOREM ImportsConverge == Spec => []ImportConverges
<1>1. IInv => ImportConverges
  <2> SUFFICES ASSUME IInv, pc = "done", dedup
               PROVE  /\ {copies[k].content : k \in DOMAIN copies}
                            = {r.content : r \in RowsOf(stream)}
                      /\ \A k, l \in DOMAIN copies :
                            copies[k].content = copies[l].content => k = l
    BY DEF ImportConverges
  <2>1. \A k \in DOMAIN copies : \E r \in RowsOf(stream) : copies[k].content = r.content
    BY DEF IInv, Sourced, CopyOf, RowsOf
  <2>2. \A j \in DOMAIN stream : Before(j)
    BY DEF IInv, Runs, Before, TypeOK
  <2>3. \A r \in RowsOf(stream) : \E k \in DOMAIN copies : copies[k].content = r.content
    BY <2>2 DEF IInv, Deduplicated, RowsOf
  <2>4. \A k, l \in DOMAIN copies : copies[k].content = copies[l].content => k = l
    BY DEF IInv, Deduplicated
  <2> QED
    BY <2>1, <2>3, <2>4
<1> QED
  BY <1>1, Invariance, PTL

\* ExportImport.tla: the INSERT of import_scope() meets a primary key only because
\* the export has a row twice, or in a second run without deduplication.
THEOREM KeysAreExplained == Spec => []KeyTakenExplained
<1>1. IInv => KeyTakenExplained
  BY DEF IInv, Runs, KeyTakenExplained
<1> QED
  BY <1>1, Invariance, PTL

\* ExportImport.tla: every variable has its type; the records of a stream are rows
\* and chunks of rows.
THEOREM TypeCorrect == Spec => []TypeOK
<1>1. IInv => TypeOK
  BY DEF IInv
<1> QED
  BY <1>1, Invariance, PTL
=============================================================================
