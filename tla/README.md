# TLA+ models of the agent memory SDK

A verification project for `agent_memory_sdk`, the Python library that keeps an
agent's memory (conversation turns, facts, procedures, profiles, episodes) in Db2
tables: TLA+ modules translated from the source, TLC configurations that check
them on small instances, and theorems that TLAPS proves for every value of the
constants. `PROJECT.json` lists, for every definition, the lines it models; for
every run, its properties, and for every property a plausible mistake in the code
that breaks it; and the hazards of this code, with the properties that cover them.

Paths below are relative to `src/agent_memory_sdk/` unless they start with
`scripts/`.

## 1. The system and its parts

A `MemoryStore` is a facade over five repositories, one table each, and a sixth
table of text chunks. All share one `ConnectionPool`. Nothing runs in the
background: every state change is made by a caller's thread, by a thread of
`asyncio.to_thread` under the async wrappers, by another process that uses the
same database, or by a maintenance script. There is no transaction across calls:
**every repository call takes a connection, runs one or two statements, commits
and gives the connection back**, and everything above is a sequence of such
transactions. This sets the grain of the models: one `with pool.get_connection()`
block is one action, and other actors run between any two.

| component | state it keeps | operations | why it is hard | module |
|---|---|---|---|---|
| scoping (`models.MemoryScope`, `_scope_predicates`) | – | match a row | a `None` column is no predicate: "no tenant" means "every tenant" | `Scope` |
| repositories (`repositories/*.py`) | a table: scope, content, hash, version, `deleted_at`, `superseded_*`, `consolidated_at` | create (with deduplication), create_many, get_by_id, update, forget, supersede, purge_expired, erase_all, claim | create in two transactions; an optimistic lock; marks that must be final | `MemoryTable` |
| connection pool (`db/connection.py`) | a queue of handles, a closed flag | get_connection, close | timeouts, lost handles, close during use | `ConnectionPool` |
| reconciliation (`store.reconcile`) | `superseded_by` | list, decide, supersede | decisions applied to a stale list | `Reconcile` |
| consolidation (`store._run_consolidator`, `scripts/consolidate_pending.py`) | `consolidated_at` | fetch, claim, derive, write | overlapping workers, a failure between claim and write | `Consolidation` |
| write pipeline (`store.remember`) | the throttle's counters, the tables | guard, resolver, write, consolidate | decisions about rows read earlier; user code that raises | `WritePipeline` |
| chunks (`repositories/chunks.py`, `_write_chunks`, `_search_via_chunks`) | `memory_chunks`, which points at parent rows | delete_by_source, insert, search | written after the parent, without a foreign key | `ChunkedMemory` |
| erasure (`store.erase_all`, `delete_user`, `delete_agent`) | all six tables | six deletes | races with writers | `Erasure` |
| export / import (`store.export_scope`, `import_scope`) | a JSONL stream | paged reads, re-creation | OFFSET paging under writes, interrupted imports | `ExportImport` |
| sessions (`store.add_messages`, `thread.py`, `adapters/openai_agents.py`, `adapters/agent_framework.py`, the history of `adapters/langchain.py`) | rows of working memory | add, pop, clear, delete | a list, then one transaction per row of it | `Session` over `Listing`, composed in `Adapters` |
| keys and identities (the store of `adapters/langchain.py`, `store.add_user`, `store.add_agent`) | rows of entity_profiles | mset, mdelete, upsert | find, then update or create: two calls where one is meant | `KeyValue` over `Listing`, composed in `Adapters` |
| migrator (`db/migrate.py`) | `schema_migrations`, the catalog | run, status, validate | a statement fails half way; two runners; a catalog read in three parts | `Migrator` |
| search, rank fusion, context card (`repositories/base.py`, `store.search`, `store.get_context_card`) | – | search, fan-out, backfill | rank, window and minimum arithmetic between the commits of writers | `Retrieval` |
| chunk windows, summaries (`_split_chunks`, `store.get_summary`) | – | – | off-by-one, budget | `Texts` |

`tests/`, `benchmarks/`, examples and CI are not part of the running system; the MCP
server maps arguments to calls of the store; `types.py` declares
protocols that users implement, and the models let an implementation answer
anything, or raise.

## 2. The modules

**`Scope`** – the scope record and `ScopePredicates`, the WHERE fragment of every
statement. A `None` in the caller's scope compares nothing, so a scope reaches the
rows of every narrower one. Extended by `MemoryTable`, `WritePipeline`, `Erasure`
and `ExportImport`.

**`RowStore`** – the abstract specification of a repository: a map from ids to
values without versions, hashes or calls of several transactions. A client sees and
changes only what its scope reaches; it replaces the content of a row only if the
row is, value for value, the one it has seen (compare and set); marks are final; an
id never comes back. `MemoryTable` implements it (`ImplementsRowStore`), by the
mapping `Rows`, `View`: the id, scope, content and marks of the rows in the table
and of the records held. `create()` maps to one step, its INSERT; its SELECT
without a hit, its failure and the claim of a row for consolidation to none.

**`MemoryTable`** – one repository table and its clients. `repository` is the
triple of class attributes (`_DEDUP_ON_WRITE`, supersession, `consolidated_at`) that
tells the tables apart; it is chosen in `Init`. An id is used once: that callers of
`create()`, which keeps the id of the object it is given (`base.py:893-895`), do not give
one again after its row was purged is an assumption, which a restoring `import_scope()` of
an id that was purged breaks (the row starts at version 1 again). `held[c]` is the model object the last
call returned: `Update(c, x)` writes it back under the optimistic lock
(`version = ?`). `create()` is two actions, the deduplication SELECT
(`CreateHit`/`CreateMiss`) and the INSERT, between which other clients run; `seen`
is history, the row versions at the time of the SELECT. A content stands for all
that `update()` writes; `Hash` gives the contents `_content_hash` does not tell
apart. Expiry is left out: an expired row is one the reads skip.

**`ConnectionPool`** – `get_connection()` cut where another thread can run: the check
of `_closed`, the wait in `Queue.get(timeout)`, the body of the `with`. `WrapFails`
is the exception of the wrapper, built outside the `try` (line 245); `close()`
drains handle by handle.

**`Reconcile`** – passes over the facts of one scope: `ListCandidates` is one
transaction, `Decide` the user's Reconciler, `Apply`/`SkipDecision` the turns of the
loop with guards (a) and (b) and the UPDATE. Decisions are arbitrary pairs of ids,
made-up ones included; under `NewerWins` the newer fact wins. `taken` is history: the
facts that others have forgotten or superseded since the pass listed.

**`Consolidation`** – inline consolidation by `remember()` and runs of
`consolidate_pending.py`: `FetchPending` (no ORDER BY), `Claim` (`consolidated_at IS
NULL` in the WHERE clause), `Skip`, `PersistDerived` (one create() per derived
record), `WorkerFails` (nothing in `_process_record` catches an exception). These are the
functions of the script under a caller that hands them a pool; its own `main()` stops
before the first of them (section 5).

**`WritePipeline`** – `remember()` from end to end in every thread: `Guard`,
`Resolve*`, `ReadTarget`, `UpdateTarget`, `Create*`, then `_should_consolidate()` in
three steps (`ReadCounter`, `StoreCounter`, `Fires`), because its dict is shared
by threads without a lock, and the records that the consolidator derives, one `create()`
each and past no guard (`Derive*`, `RunConsolidator`). A row carries the `origin` that its
INSERT has written. `Restart` ends the process anywhere.
The resolver may name any id, so what `search()` showed it does not matter.

**`ChunkedMemory`** – a table with `memory_chunks`: writers commit the row, then
delete and insert its chunks one transaction at a time; a search ranks chunks,
fetches distances, and then parents, or falls back to the embeddings of the rows.
Versions stand for contents, which `MemoryTable_proofs!VersionsIdentifyRows` justifies.

**`Erasure`** – the six DELETEs of `erase_all()` in the order of the code, against
clients in the middle of a `remember()`, an `update()` or a worker's
consolidation. Every row carries the `remember()` it goes back to.

**`ExportImport`** – `export_scope()` as a generator that pages with an offset
through `list_all()`, then through the chunks, while writers run; `import_scope()`
record by record (`Stamp` is `created_at`, which the rows of one `create_many()` share:
the order of a page is any that agrees with it, `Orders`, and `split` is history, the
stamps among whose rows a page has ended): consistency of the scopes, deduplication, primary keys, chunks, an
interruption anywhere and a second run. Restoring keeps the ids, migrating to
another agent draws new ones.

**`Listing`, `Session`, `KeyValue`, `Adapters`** – the callers that list a table,
newest first with a limit, and then write in transactions of their own. `Listing`
is the table: a row is named by its `created_at`, which `create()` takes before its
SELECT and stores with its INSERT, so that rows are committed in another order than
they are listed (calls that stamp apart have stamps apart: one `add_messages()` is one
`create()` per message, and nobody here calls `create_many()`); `stale` is what the optimistic lock of `update()` finds out.
`Session` has the conversations (`Add`, `Clear`/`ForgetNext`, `Pop`/`RemoveMessage`),
`KeyValue` the keys and identities (`Mset`, `AddUser`, `AddAgent`, `Update`,
`UpdateFails`, `Mdelete`); its histories `missed` and `basis` are the rows of a key which an
`mset()` could not have listed. The store of LangChain is modelled on entity_profiles,
which it shares with the identities; by default its table is facts (`langchain.py:390`),
where it has the same calls and no identities beside it. `Adapters` extends both: `dedups` chooses the table, and
with it the clients.

**`Migrator`** – runs of `migrate()`, `validate()` and `status()` in several processes,
statement by statement. A statement stands for the object it creates. `open` is what
a runner has executed and not committed; `autocommit` says whether there is such a
thing: the comment of the module and the behaviour of the database differ, so both
are modelled.

**`Retrieval`** – a reader whose statements run between the commits of writers:
`Rank` and `Fetch` are the two statements of a search, by rows or by chunks, pure
or hybrid; `MemoryStore.search()` repeats them for each table and then filters;
`Backfill` completes a section of the context card. The index is a sequence,
nearest first, so that no distance is computed. What a statement selects is a set,
and what it sorts by gives every row of the set its number (`ByDistance`,
`KeywordOrder`, `Fuse`, `ByAge`): FETCH FIRST n keeps the numbers up to n (`First`),
and a list has the rows in their numbers' order (`Numbered`).

**`Texts`** – `_split_chunks()` and the budget loop of `get_summary()` as operators
from an input to an answer; `MCRetrieval` runs them on inputs of their own.

In every module the definitions that follow a comment "a variant" are the mutated
forms of their neighbours; no specification uses them.

## 3. The runs

| run | module, cfg | what it checks | distinct states |
|---|---|---|---|
| `table` | `MCMemoryTable`, `MCTable.cfg` | `TypeOK`, `VersionIdentifiesRow`, `NoLostUpdate`, `DuplicateOnlyIfRaced`, `ImplementsRowStore` | 2.3 M |
| `pool` | `MCConnectionPool`, `MCPool.cfg` | `NoSharing`, `EveryHandleAccounted`, `WaitEnds` | 480 |
| `reconcile` | `MCReconcile`, `MCReconcile.cfg` | `LosersKeepAWinner`, `ReportedDecisionsHold`, `ChainsEndInSurvivor` | 119 k |
| `consolidation` | `MCConsolidation`, `MCConsolidation.cfg` | `ProcessedByOneWorker`, `ClaimedMeansConsolidated`, `BatchIsWorkedOff` | 59 k |
| `write` | `MCWritePipeline`, `MCWrite.cfg` | `NothingLost`, `RejectedNeverStored`, `CadencePerScope` | 2.1 M |
| `chunks` | `MCChunkedMemory`, `MCChunks.cfg` | `ResultsWereLive`, `LongRowsStayFindable`, `SteadyRowsFound` | 2.5 M |
| `erasure` | `MCErasure`, `MCErasure.cfg` | `EarlierRowsGone`, `OthersKeepTheirRows` | 2.3 M |
| `export` | `MCExportImport`, `MCExport.cfg` | `ExportComplete`, `ImportConverges`, `KeyTakenExplained` | 846 k |
| `migrate` | `MCMigrator`, `MCMigrate.cfg` | `SchemaMatchesVersions`, `AppliedOnceInOrder`, `ValidMeansComplete`, `UpToDateOrStuck` | 20 k |
| `adapters` | `MCAdapters`, `MCAdapters.cfg` | `ClearEmptiesPage`, `PoppedOnce`, `OneRowPerKey`, `OwnersApart`, `LastCallDecides` | 2.4 M |
| `retrieval` | `MCRetrieval`, `MCRetrieval.cfg` | `NearestFound`, `FusionRespectsBoth`, `ThreadExact`, `CardHasMinimum`, `ChunksCoverText`, `SummaryLongestFit` | 3.5 M |
| `erasure_tenant` | `MCErasure`, `MCErasureTenant.cfg` | a documented promise which the code breaks (section 5) | – |

The runs leave out what a theorem states and another property of the run covers:
`ScopeIsolation` and `MarksAreFinal` of `MemoryTable` (both follow for the values from
`ImplementsRowStore`), `NeverClosedInUse` of `ConnectionPool`, `OthersUntouched` of
`WritePipeline`. Of the type invariants only that of `MemoryTable` is among the
properties of a run; all modules with theorems have theirs proved (`TypeCorrect`,
`PoolTypeCorrect`, `ConsolidationTypeCorrect`, `RetrievalTypeCorrect`). `Texts` has no
state beyond an input and its answer.

**Bounds.**
- `table`: two clients, one of which reaches the rows of the other but not the
  reverse; two ids, so that a create() meets another's row or not; two contents
  with different hashes; versions up to 3, which lets one client read, a second
  change the row twice, and the first write back. `repository` is the facts table
  (deduplication, supersession) or working memory (neither, but consolidation).
- `pool`: three threads for two handles, so that one has to wait.
- `reconcile`: two passes, three facts, two decisions each: a chain of
  supersessions, an opposite decision and a second pass over the loser all fit.
- `consolidation`: two rows and workers, batches of one or two, two derived
  records per row: overlapping batches, a row that FETCH FIRST leaves out, a
  failure between two derived records.
- `write`: three calls of one thread and one of the other with
  `consolidate_every_n` up to 2: a full cadence and the start of the next while another
  scope counts, and a consolidator that derives a content the guard has rejected.
- `chunks`: two writers on two rows with two chunks each and two versions: every
  interleaving of two deletes and four inserts on one row.
- `erasure`: two contents, two clients and one erasure, every scope of one agent
  with and without a user; the tenant dimension is what `erasure_tenant` has.
- `export`: pages of two records over three rows and writes in between, which is
  what moves a row across a page boundary and back; two of the rows have one
  `created_at`, which a page divides if the third row is there and holds entirely if it is
  not; two runs of the import.

- `migrate`: two runners; three files, of which the second creates a table and its
  index and the third alters it, with a statement that can be executed again before
  two that cannot; two breaks, so that a retry may break as well. A database that is
  empty, migrated up to any file, or prepared by a DBA in part.
- `adapters`: two clients, one thread (or user) and no one, three rows for a page of
  two, so that a row falls off the page; one key and two values; batches of two.
- `retrieval`: four rows in two tables and two threads, two of the facts with as many
  words in common with the query, in any order of their
  vectors, or with five chunks of three rows; `top_k` 2, an over-fetch of 2 (4 in the
  code) so that one row with three chunks crowds the others out. Texts up to eight
  characters with every chunk size and overlap; four messages of up to two tokens
  and a page of three.

`MaxBreaks`, `MaxRows`, `MaxBatch`, `MaxLength`, `MaxTokens`, `MaxMessages`, `MaxVersion`, `MaxDecisions`, `MaxCalls`, `MaxUpdates`, `MaxWrites`, `MaxRuns` and
`MaxEveryN` are the bounds in the guards; the code has none of them, except that
`every_n` is a constructor argument. Symmetry is used over ids, writers, clients and
contents only in runs without liveness, and all properties of those runs (the
refinement included) treat the members of a symmetric set alike. Two runs identify
states by a VIEW that leaves out variables which no property and no action looks at any
more: `export`, from the first run of the import on, the source and the history of the
export (`ExportComplete` has its last value then); `adapters`, what the histories say of
forgotten rows, which stay forgotten. `migrate` checks
for deadlock: no runner may wait for a lock that nobody releases. Elsewhere
`CHECK_DEADLOCK` is off: clients may stop calling, and the bounded models end.

**Fairness.** Three properties are liveness. `WaitEnds` assumes weak fairness of a
thread's leaving the wait (`Queue.get` has a timeout), of the end of the `with` body
and of `close()`: each is a thread that goes on running. `BatchIsWorkedOff` assumes weak
fairness of the loop of a worker that has fetched a batch (`ProcessBatch`), a process that
goes on running; that runs are started again is not assumed, nor anything of the users, of
inline consolidation or of failures: a row whose worker fails, and what that worker had not
reached, are excepted. `UpToDateOrStuck` assumes that
a process that has begun `run()` goes on (weak fairness of its steps) and that every
process, whenever its last call has ended, calls `run()` again some day (strong
fairness of `Start(r, "run")`, because it may also call something else): that is the
"Re-running migrate() will retry" of `db/migrate.py`. Breaks are not fair, and finitely
many. Everything else is safety.

## 4. What is proved

The theorems are in the `*_proofs` modules and hold for any number of clients,
rows, scopes, threads, passes and workers, and any bounds.

| module | theorems | inductive invariant |
|---|---|---|
| `MemoryTable_proofs` | `Refinement`, `TypeCorrect`, `VersionsIdentifyRows`, `ScopesAreIsolated`, `NoLostUpdates`, `MarksAreFinalThm`, `DuplicatesAreRaced` | `IInv`, `SelectInv` |
| `Database_proofs` (pool) | `NoSharingThm`, `NeverClosedInUseThm`, `EveryHandleAccountedThm`, `PoolTypeCorrect` | `PoolInv` |
| `Database_proofs` (migrator) | `Matches`, `InOrder`, `ValidIsComplete`, `TypeCorrect` | `IInv`, `ReadInv` |
| `Maintenance_proofs` (consolidation) | `OneWorkerProcesses`, `ClaimsAreHonoured`, `ConsolidationTypeCorrect` | `ConsolidationInv` |
| `Maintenance_proofs` (reconciliation) | `WinnersAreAccountedFor`, `ReportsAreSound`, `ChainsLeadToNewer`, `ChainsEnd`, `TypeCorrect` | `IInv` |
| `WritePipeline_proofs` | `NoCandidateIsLost`, `RejectedStaysOut`, `OthersAreUntouched`, `CadenceIsPerScope`, `TypeCorrect` | `IInv`, `CadenceInv`, `TallyInv` |
| `Search_proofs` (chunks) | `ResultsAreLive`, `LongRowsAreFindable`, `SteadyRowsAreFound`, `TypeCorrect` | `IInv` |
| `Search_proofs` (retrieval) | `SearchFindsNearest`, `FusionIsFair`, `ThreadsAreExact`, `SectionsAreFilled`, `RetrievalTypeCorrect` | `RetrievalInv` |
| `Search_proofs` (texts) | `ChunksCover`, `SummariesFit` | `TextsInv` |
| `Erasure_proofs` | `EarlierRowsAreGone`, `OthersKeepTheirs`, `TypeCorrect` | `IInv` |
| `Adapters_proofs` | `ClearEmpties`, `MessagePoppedOnce`, `KeyHasOneRow`, `RowsStayApart`, `ReadYourWrites`, `TypeCorrect` | `IInv` |
| `ExportImport_proofs` | `ExportIsComplete`, `ImportsConverge`, `KeysAreExplained`, `TypeCorrect` | `IInv` |

`Database_proofs` is about the two modules of `db/`, `Maintenance_proofs` about the two
that keep a store tidy, `Search_proofs` about the three that find and present what is
stored; each extends all of its modules, which is why the definitions of
`ConnectionPool`, `Consolidation`, `Retrieval` and `Texts` carry a prefix (`PoolSpec`,
`ConsolidationSpec`, `RetrievalSpec`, `TextsSpec`).

- *MemoryTable.* "A record with the row's version equals the row" is preserved by
  a step only if no record is ahead of its row (`HeldNotAhead`: otherwise a row
  could grow into the version of a record it differs from) and a purged id is
  not reused (`UsedIds`: a new row starts at version 1 again). Every writer but the
  claim moves the version up, and the claim changes nothing a version covers; the
  lemma `GrowStep` says this once for all of them. The optimistic lock and the
  finality of marks follow step by step. For deduplication, `SelectInv` adds
  that what a waiting create() saw is never ahead of the table.
- *MemoryTable implements RowStore* (`Spec => ImplementsRowStore`): every transaction
  of a repository is a step of the abstract store, or invisible in it. The step that
  needs the invariant is `update()` (`ReplaceStep`): its WHERE clause compares
  versions, the store compares values, and `VersionIdentifiesRow` is what makes the
  one imply the other. The inserts need `UsedIds` (a new id names no row), the others
  only the types.
- *ConnectionPool.* What returns to the queue is what the thread owned
  (`OwnsWhileUsing`), and what `close()` has closed is not in the queue any more.
- *Migrator.* The recorded versions have no gap, so the files a runner has read as
  pending are an upper part of the directory, and whoever records the first of
  them first makes the primary key refuse it to the others (`RecordStep`). The
  statements that a runner has executed of its file are in `objects` or in its
  `open` ones (`Applying`), which is what the commit of the version adds. For
  `validate()`, `ReadInv` follows its three reads of the catalog: of the tables it has
  found, what it does not report is there, whatever runners commit in between; and a
  table it missed in the first read stays on its list to the end.
- *Consolidation.* Whatever a worker has begun is marked, and by one worker only;
  the types need that the row being worked on has records left to write.
- *Reconcile.* A candidate is a live fact, or others have taken it since
  (`CandidatesAccountedFor`), or the pass has itself reported it as a loser; winners
  were candidates (`WinnersWereCandidates`). Whatever takes a fact from a pass is a step of
  others, which `taken` records, or an UPDATE of its own, which it reports. That UPDATE
  writes only on facts without a winner, hence on none that a pass has reported.
  Under `NewerWins`, `superseded_by` leads to ever newer facts
  (`ChainsLeadToNewer`), so the walk along it, of which `EndsWithin` counts the steps,
  ends: among the facts from which it did not there would be a newest
  (`LeastElement`), and its winner is newer still (`ChainsEnd`).
- *WritePipeline.* The position of a call determines what is known of its
  candidate: past the write it is in `committed`, and a rejected procedure is
  never past the guard in any thread's hands. A row agrees with some write of its kind,
  content and origin (`RowsCommitted`, `RejectedIsHeld`), which is how what the consolidator
  has derived stays apart from what `remember()` has written. All that steps have to show is in `ThreadStep`. For the
  cadence, `CadenceInv` says that the additions of a thread that is alone on its key are
  the rounds that fired, times `every_n`, and the counter's value: it stores exactly
  one more than it read, so the count meets `every_n` and does not step over it. Two
  threads of one key do step over it. `TallyInv` bounds the numbers for the types.
- *ChunkedMemory.* Of the writers of one row, whoever deletes last is the one whose
  chunks stay (`HasUpTo`: a writer that nobody deleted after has all the chunks it has
  inserted so far). A steady row is quiet from the moment a search began until it
  ends, which carries it through the statements of the search.
- *Retrieval.* That counting what is before a row numbers a finite set from 1 without
  gaps is one lemma (`CountingNumbers`); it needs only that the order is total and
  without ties, which `ByDistanceNumbers`, `KeywordNumbers`, `FuseNumbers` and
  `ByAgeNumbers` show of the four orders. For the fused one this is where the arithmetic
  is: scores are fractions, compared by cross multiplication
  (`FractionsOrdered`), and better ranks in both lists make the greater one
  (`ScoresDominate`). That chunks find the nearest rows is a counting argument
  (`WindowReaches`): up to the nearest chunk of the k-th row there are at most
  `OverFetch` chunks of each of k rows. The properties speak of
  finished calls only and are not inductive: `RankingOK` and `HalfwayOK` say what an
  undisturbed call holds between two statements and between two tables, and `ReaderOK`
  where it stands: that no ranked row is still to be created is why a row which is live at
  the end was live when the rows were fetched, so that `FusionRespectsBoth` holds under
  any writes. `CardHasMinimum` is about one step: the listing is as long as the
  minimum, at most as many rows of it are results as there are results, and no other
  row comes twice (`BackfillFacts`); what writers did before the listing does not matter.
- *Texts.* The windows are arithmetic with quotients rounded down (`SplitFacts`). A
  recursive function is a CHOOSE until it is shown to exist (`RecursionExists`: a least
  length without a solution would not be the least); then the budget loop
  has, after each line, the sum of the lines it took, and has stopped only because the
  next one did not fit (`IncludedFacts`). `PageTotal` carries the sums from the page over
  to the thread.
- *Erasure.* What an erasure has found and deleted is never written again: what a
  client has still to write is neither in the database nor among the rows an erasure has
  found (`Fresh`), because every set of chunks is a version of its own and facts are
  derived by one claim. That others keep their rows rests on scopes being
  transitive (`ScopeTransitive`): an erasure that reached a chunk or a fact, which may
  carry a broader scope than its row, would reach the row as well.
- *Adapters.* A client since whose list nobody has committed (`quiet`) knows the
  table: the row it found is still there and the newest, and a row it stamps is newer
  than all committed ones. Drafts have distinct stamps (`StampsDiffer`), a forgotten row
  stays forgotten (`TakenGone`), and a clear in progress has, of the rows it saw, some
  left to do and the others dead (`Clearing`). What a call that looks for a key
  has not found, and is live, it has `missed` (`Missing`): a row that was there when it
  listed is on the page, older than the page, or was committed after, and the INSERT turns
  what was missed into the `basis` of the new row. For `ReadYourWrites` the row which
  `FindByKey` names afterwards (`FindAfter`) is compared with the one written: the newest of
  its key on the page before the call is the newest after it (`Undisturbed`).
- *ExportImport.* A row that is due is on a page that was read, or its number in
  `ORDER BY created_at DESC` is past the offset (`PagesCover`): rows that come in only
  push it back, and rows forgotten that are older do not move it. The pages may order the
  rows of one `created_at` differently, so what the invariant counts is the rows that are
  newer than the one due (`Newer`), which are before it in any order; if no page has ended
  among the rows of its stamp, these are all on one page (`PageOrNewer`). That numbering a finite
  list reaches every row exactly once is the lemma `NumberingIsOnto`. Every
  row of the target is the copy of a record (`Sourced`), in a first run of one already
  read, which is why a taken key means a record exported twice.

Assumptions: the named `ASSUME`s of the modules, which the runs evaluate. They type
the constants and keep the sentinels (`None`, `NoRow`, ...) out of the data. Those of
substance: `Facts` is a finite set of numbers, the order of creation
(`Reconcile`); tables have finitely many rows, numbered likewise (`ExportImport`,
`Retrieval`), with distinct UUIDs (`ExportImport`); `top_k`, the over-fetch factor and
the cap of `list_all()` are not 0 (`Retrieval`: the cuts of `top_k` to 200 and of the
over-fetch to 800 are not modelled apart, since the second follows from the first);
the columns and indexes that `validate()` requires are of tables it requires (`ManifestAssumption`, true of `db/migrate.py:95-190`).

Only model-checked: the three liveness properties `WaitEnds`, `BatchIsWorkedOff`
and `UpToDateOrStuck`, because fairness is about ENABLED, which is out of the prover's
reach. Every safety property that a run checks is stated by a theorem; `RetrievalInv` was
first checked as an invariant of the `retrieval` run, like the other inductive invariants
of theirs. Induction theorems that take a predicate as a parameter
cannot be used with the provers at hand; `LeastElement` shows the way around for sets of
numbers, and everything above that goes by induction (numbered lists, running sums,
chains of supersessions) goes by it.

## 5. Where the code and its documentation differ

One promise is refuted by a run: `erasure_tenant`. `delete_user()` without a tenant
erases the user's rows in every tenant; `store.py:1946-1947` says `None` means "match rows
with no tenant".

Other differences met while modelling, for which the models contain the behaviour but
no run states the promise:
- reconciliation: winners are checked against the list read before the first decision,
  so two opposite decisions supersede both facts; `types.py:273` says of the winner
  "This row is left untouched" (`LosersKeepAWinner` says when it is);
- chunk search: the embeddings of rows are searched only when no chunk is hit at all,
  and chunk ranking has no distance limit, so one long row hides every short one,
  contrary to the comment at `repositories/base.py:1931`;
- export: `create_many()` of facts gives all its rows one `created_at`
  (`repositories/facts.py:222`, `241`) and `list_all()` orders by nothing else
  (`repositories/base.py:1151`, `1161`), so pages that end among them may repeat one row
  and miss another without any writer;
- export: the chunks of forgotten and superseded rows are exported, and imported;
  `store.py:1003` says such rows are excluded;
- pool: an exception of the wrapper loses the handle (`connection.py:245`); a handle
  returned after `close()` stays open;
- write pipeline: the integrity guard sees only what is given to `remember()`. The
  procedures that a consolidator derives (`store.py:715`) or that the extractor of
  `add_messages()` returns (`store.py:1815`) are stored without it; the origin
  INGEST_RESOLVER that a merge puts on the record (`store.py:615`) is not among the columns
  `update()` writes (`repositories/base.py:1311-1321`), so the row keeps the one it had;
- write pipeline: the throttle's key has no tenant (`store.py:676`), and two threads
  of one scope lose counts; a dedup hit counts as an addition, so one row may be
  handed to the consolidator twice (`store.py:537`); the quarantine flag is on the
  returned record only if a row was inserted, not on a dedup hit or an UPDATE;
- consolidation: inline consolidation leaves `consolidated_at` NULL
  (`store.py:684`), and the worker consolidates the row again;
- consolidation: `consolidate_pending.py` cannot run at this commit: `_build_pool()`
  (`scripts/consolidate_pending.py:123-133`) passes `database=`, `hostname=` and others to
  `ConnectionPool`, which takes none of them (`db/connection.py:182-187`), so that every run
  ends with a TypeError before it fetches;
- chunks: a long content replaced by a short one leaves its old chunks
  (`repositories/base.py:1353`); of two writers' chunks the older version may stay;
- erasure: chunks rewritten, and facts derived, in a broader scope than the user's
  survive `delete_user()`;
- migrator: with auto-committed DDL, which its own comment assumes, a file that broke
  half way cannot be retried (`Stuck` in `UpToDateOrStuck`), although `migrate.py:18-24`
  says a re-run will; the manifest of `validate()`, "derived from all migrations"
  (`migrate.py:82`), lacks the column that 0008_provenance.sql adds, so that
  REQUIRE_EXISTING accepts a database on which create() fails; the INSERT of the version
  is outside the `try`, so that the loser of a race sees the driver's exception;
- sessions: without an id a session reads and clears every thread of its agent;
  `get_items(limit=0)` returns everything; clear leaves what is past the newest 1000
  rows; messages are listed by a time taken before they are committed, and two
  overlapping `pop_item()` may return one message;
- keys: `mset()` of a value that another row has is not stored under
  its own key, which stays unset (`langchain.py:424-429` says a new record is created); `mdelete()` removes the newest of
  several rows of a key, and the older value comes back; two overlapping `mset()` leave
  two rows; `add_agent()` looks without a user and may overwrite the profile of one;
- search: asked for rows without a thread, `MemoryStore.search()` filters after the cut
  to `top_k` and may return fewer than there are (`ThreadExact` claims the full number
  for a thread only); a search without chunks does not look at `superseded_at` again
  when it fetches; the `truncated` of `get_summary()` ignores the page limit;
- import: without deduplication an interrupted import cannot be repeated under the
  same agent, and repeats rows under another one; with chunking a restored row gets
  its chunks twice, and a migrated one keeps chunks that point at the old ids.

## 6. What is not modelled, and the plan

Not modelled by intent: SQL and the `ibm_db` driver (a statement is atomic and
isolated, which is what the code relies on; a rollback does not fail, although
`db/connection.py:251-252` would ignore it), embeddings and distances (a row has a
usable vector or not, and an index has an order), expiry by clock, formatting,
logging, the conversion of messages between the frameworks, and the argument mapping
of the MCP server and the async wrappers, which hand each call to one of the
operations modelled. The SQL of the eight migrations is represented by its shape:
which objects a file creates, in which order, and which statements can be repeated.

Rows with equal `created_at` are modelled where they change what is promised, in
`ExportImport`; `Listing` and `ByAge` of `Retrieval` order rows without ties. That FETCH FIRST
without an order leaves a pending row out run after run while new ones arrive cannot be seen
in `Consolidation`, which creates each of its rows once, and nothing promises the contrary.
The store of LangChain on facts, its default table, is not a model of its own.

Not yet modelled: the translation of a metadata filter to SQL and to Python
(`repositories/base.py`), and the extraction at the end of `add_messages()`, a user's
function followed by one `create()` per result.

Next: the metadata filter, as two translations that must agree.
