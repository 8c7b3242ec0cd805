------------------------------ MODULE Migrator ------------------------------
(***************************************************************************)
(* Migrator.run(), validate() and status() of several processes on one     *)
(* database.  A file is the sequence of its statements; the position of a  *)
(* file in Files is its version.  _apply_file() executes the statements of *)
(* a file on one connection and inserts the version last, with the only    *)
(* commit.  Whether the statements before it are durable at once (the      *)
(* module's doc: "DDL is auto-committed") or only with that commit is up   *)
(* to the driver: `autocommit` is either, for good.                        *)
(*                                                                         *)
(* A statement stands for the one object it creates or alters.  Rerunnable *)
(* ones (CREATE TABLE IF NOT EXISTS, SET DATA TYPE) succeed when it is     *)
(* there already, all others fail then.                                    *)
(***************************************************************************)
EXTENDS Naturals, Sequences, FiniteSets

CONSTANTS Runners,
          Statements, Rerunnable,
          Tracking,     \* the statement that creates schema_migrations
          Files,        \* the migrations directory, in lexicographic order
          Kind,         \* per statement: "table", "column" or "index"
          TableOf,      \* per statement: the one that creates its table
          Manifest,     \* what _REQUIRED_TABLES, _COLUMNS and _INDEXES name
          Prepared,     \* the sets of objects a DBA may have created
          MaxBreaks     \* bound on exceptions and crashes

Versions == DOMAIN Files
StatementsOf(f) == {Files[f][i] : i \in DOMAIN Files[f]}

ASSUME MigratorAssumption ==
    /\ Files \in Seq(Seq(Statements))
    /\ Rerunnable \subseteq Statements /\ Manifest \subseteq Statements
    /\ Tracking \in Rerunnable
    /\ Kind \in [Statements -> {"table", "column", "index"}]
    /\ TableOf \in [Statements -> Statements]
    /\ Prepared \subseteq SUBSET Statements
    /\ MaxBreaks \in Nat

VARIABLES
    autocommit,
    provisioned,  \* the objects a DBA had created before the first run
    objects,      \* the committed ones, named by their statements
    recorded,     \* the rows of schema_migrations
    call, pc,     \* per runner: its call and the next step, or how it ended
    pending,      \* per runner: the files run() has still to apply
    next,         \* per runner: the next statement of the first of them
    open,         \* per runner: the objects of its uncommitted statements
    newly,        \* per runner: the versions its run() has applied
    present,      \* per runner: the tables validate() found
    missing,      \* per runner: what validate() did not find
    breaks

constVars == <<autocommit, provisioned>>
dbVars == <<objects, recorded>>
runVars == <<pending, next, open, newly>>
checkVars == <<present, missing>>
vars == <<constVars, dbVars, call, pc, runVars, checkVars, breaks>>

Calls == {"run", "status", "validate"}
Ended == {"idle", "returned", "valid", "ended"}

Goto(r, label) == pc' = [pc EXCEPT ![r] = label]

\* A database that nobody or a DBA has prepared, or one migrated up to a file.
Init == /\ autocommit \in BOOLEAN
        /\ \/ recorded = {} /\ provisioned \in Prepared
           \/ provisioned = {} /\ \E n \in Versions : recorded = 1..n
        /\ objects = provisioned \cup UNION {StatementsOf(f) : f \in recorded}
        /\ call = [r \in Runners |-> "none"]
        /\ pc = [r \in Runners |-> "idle"]
        /\ pending = [r \in Runners |-> {}]
        /\ next = [r \in Runners |-> 1]
        /\ open = [r \in Runners |-> {}]
        /\ newly = [r \in Runners |-> {}]
        /\ present = [r \in Runners |-> {}]
        /\ missing = [r \in Runners |-> {}]
        /\ breaks = 0

-----------------------------------------------------------------------------
\* run() and status() begin with _bootstrap(); run() under REQUIRE_EXISTING
\* is validate().
Start(r, c) ==
    /\ pc[r] \in Ended
    /\ call' = [call EXCEPT ![r] = c]
    /\ Goto(r, IF c = "validate" THEN "tables" ELSE "probe")
    /\ newly' = [newly EXCEPT ![r] = {}]
    /\ UNCHANGED <<dbVars, pending, next, open, checkVars, breaks>>

\* _bootstrap(): the probe fails when there is no tracking table, or for any
\* other reason ...
Probe(r) ==
    /\ pc[r] = "probe"
    /\ \/ Tracking \in objects /\ Goto(r, "versions") /\ UNCHANGED breaks
       \/ Tracking \notin objects /\ Goto(r, "create") /\ UNCHANGED breaks
       \/ breaks < MaxBreaks /\ Goto(r, "create") /\ breaks' = breaks + 1
    /\ UNCHANGED <<dbVars, call, runVars, checkVars>>

\* ... and CREATE TABLE IF NOT EXISTS follows, with a commit.
CreateTracking(r) ==
    /\ pc[r] = "create"
    /\ objects' = objects \cup {Tracking}
    /\ Goto(r, "versions")
    /\ UNCHANGED <<recorded, call, runVars, checkVars, breaks>>

\* The call ends.
End(r, how) == Goto(r, how) /\ call' = [call EXCEPT ![r] = "none"]

\* The loop of run(): go on to the files left.
Continue(r, left) ==
    /\ pending' = [pending EXCEPT ![r] = left]
    /\ next' = [next EXCEPT ![r] = 1]
    /\ IF left = {} THEN End(r, "returned")
                    ELSE Goto(r, "execute") /\ UNCHANGED call

\* _applied_versions() and _pending_files(); status() answers from them.
ReadVersions(r) ==
    /\ pc[r] = "versions"
    /\ IF call[r] = "status"
       THEN End(r, "ended") /\ UNCHANGED <<pending, next>>
       ELSE Continue(r, Versions \ recorded)
    /\ UNCHANGED <<dbVars, open, newly, checkVars, breaks>>

\* The file that r applies, and the statement of it that is next.
File(r) == CHOOSE f \in pending[r] : \A g \in pending[r] : f <= g
Applies(r) == pc[r] = "execute" /\ next[r] <= Len(Files[File(r)])
NextOf(r) == Files[File(r)][next[r]]

\* Another runner's uncommitted statement on the object has to end first.
Unlocked(r, s) == \A q \in Runners \ {r} : s \notin open[q]

\* A variant that runs CREATE TABLE IF NOT EXISTS without its IF NOT EXISTS.
SucceedsOnce(s) == s \notin objects

Succeeds(s) == s \notin objects \/ s \in Rerunnable

\* _apply_file(): the next statement ...
Execute(r) ==
    /\ Applies(r) /\ Unlocked(r, NextOf(r)) /\ Succeeds(NextOf(r))
    /\ IF autocommit
       THEN objects' = objects \cup {NextOf(r)} /\ UNCHANGED open
       ELSE /\ open' = [open EXCEPT ![r] = @ \cup ({NextOf(r)} \ objects)]
            /\ UNCHANGED objects
    /\ next' = [next EXCEPT ![r] = @ + 1]
    /\ UNCHANGED <<recorded, call, pc, pending, newly, checkVars, breaks>>

\* The call ends with an exception; get_connection() rolls back.  (It ignores a
\* rollback that fails, which the driver is assumed not to do.)
Raise(r) ==
    /\ End(r, "ended")
    /\ open' = [open EXCEPT ![r] = {}]
    /\ newly' = [newly EXCEPT ![r] = {}]
    /\ pending' = [pending EXCEPT ![r] = {}] /\ next' = [next EXCEPT ![r] = 1]
    /\ present' = [present EXCEPT ![r] = {}]
    /\ missing' = [missing EXCEPT ![r] = {}]
    /\ UNCHANGED dbVars

\* ... which raises MigrationError when its object is there already.
ObjectExists(r) ==
    /\ Applies(r) /\ Unlocked(r, NextOf(r)) /\ ~Succeeds(NextOf(r))
    /\ Raise(r) /\ UNCHANGED breaks

\* A variant: the version is inserted, and committed, before the last
\* statement is executed.
RecordEarly(r) ==
    /\ pc[r] = "execute" /\ next[r] >= Len(Files[File(r)])
    /\ IF File(r) \in recorded
       THEN Raise(r)
       ELSE /\ recorded' = recorded \cup {File(r)}
            /\ objects' = objects \cup open[r]
            /\ open' = [open EXCEPT ![r] = {}]
            /\ newly' = [newly EXCEPT ![r] = @ \cup {File(r)}]
            /\ Continue(r, pending[r] \ {File(r)})
            /\ UNCHANGED checkVars
    /\ UNCHANGED breaks

\* A variant without the primary key on schema_migrations.version.
RecordAgain(r) ==
    /\ pc[r] = "execute" /\ next[r] > Len(Files[File(r)])
    /\ recorded' = recorded \cup {File(r)}
    /\ objects' = objects \cup open[r]
    /\ open' = [open EXCEPT ![r] = {}]
    /\ newly' = [newly EXCEPT ![r] = @ \cup {File(r)}]
    /\ Continue(r, pending[r] \ {File(r)})
    /\ UNCHANGED <<checkVars, breaks>>

\* The INSERT of the version, whose primary key may be taken, and the commit.
Record(r) ==
    /\ pc[r] = "execute" /\ next[r] > Len(Files[File(r)])
    /\ IF File(r) \in recorded
       THEN Raise(r)
       ELSE /\ recorded' = recorded \cup {File(r)}
            /\ objects' = objects \cup open[r]
            /\ open' = [open EXCEPT ![r] = {}]
            /\ newly' = [newly EXCEPT ![r] = @ \cup {File(r)}]
            /\ Continue(r, pending[r] \ {File(r)})
            /\ UNCHANGED checkVars
    /\ UNCHANGED breaks

\* A driver error, or the process stops.  (status() would answer that all is
\* pending.)
Break(r) ==
    /\ pc[r] \notin Ended /\ breaks < MaxBreaks
    /\ breaks' = breaks + 1
    /\ Raise(r)

-----------------------------------------------------------------------------
Required(kind) == {s \in Manifest : Kind[s] = kind}

\* The tables _REQUIRED_COLUMNS and _REQUIRED_INDEXES have as keys are required.
ASSUME ManifestAssumption ==
    \A s \in Manifest : Kind[s] # "table" => TableOf[s] \in Required("table")

\* A variant that forgets the tables it did not find.
ReadTablesFound(r) ==
    /\ pc[r] = "tables"
    /\ present' = [present EXCEPT ![r] = Required("table") \cap objects]
    /\ Goto(r, "columns")
    /\ UNCHANGED <<dbVars, call, runVars, missing, breaks>>

\* validate(): SYSCAT.TABLES ...
ReadTables(r) ==
    /\ pc[r] = "tables"
    /\ present' = [present EXCEPT ![r] = Required("table") \cap objects]
    /\ missing' = [missing EXCEPT ![r] = Required("table") \ objects]
    /\ Goto(r, "columns")
    /\ UNCHANGED <<dbVars, call, runVars, breaks>>

\* What is required of the tables found, and is not there.
Absent(r, kind) == {s \in Required(kind) \ objects : TableOf[s] \in present[r]}

\* ... then SYSCAT.COLUMNS ...
ReadColumns(r) ==
    /\ pc[r] = "columns"
    /\ missing' = [missing EXCEPT ![r] = @ \cup Absent(r, "column")]
    /\ Goto(r, "indexes")
    /\ UNCHANGED <<dbVars, call, runVars, present, breaks>>

\* ... and SYSCAT.INDEXES; anything missing raises SchemaPolicyError.
ReadIndexes(r) ==
    /\ pc[r] = "indexes"
    /\ End(r, IF missing[r] \cup Absent(r, "index") = {} THEN "valid" ELSE "ended")
    /\ present' = [present EXCEPT ![r] = {}]
    /\ missing' = [missing EXCEPT ![r] = {}]
    /\ UNCHANGED <<dbVars, runVars, breaks>>

-----------------------------------------------------------------------------
RunnerStep(r) == \/ Probe(r) \/ CreateTracking(r) \/ ReadVersions(r)
                 \/ Execute(r) \/ ObjectExists(r) \/ Record(r)
                 \/ ReadTables(r) \/ ReadColumns(r) \/ ReadIndexes(r)

Next == /\ UNCHANGED constVars
        /\ \E r \in Runners :
              \/ \E c \in Calls : Start(r, c)
              \/ RunnerStep(r)
              \/ Break(r)

\* A call that has begun goes on, and somebody runs the migrator again.
Fairness == /\ \A r \in Runners : WF_vars(UNCHANGED constVars /\ RunnerStep(r))
            /\ \A r \in Runners : SF_vars(UNCHANGED constVars /\ Start(r, "run"))

Spec == Init /\ [][Next]_vars
FairSpec == Spec /\ Fairness
-----------------------------------------------------------------------------
\* Every variable has its type.
TypeOK ==
    /\ autocommit \in BOOLEAN /\ provisioned \subseteq Statements
    /\ objects \subseteq Statements /\ recorded \subseteq Versions
    /\ call \in [Runners -> Calls \cup {"none"}]
    /\ pc \in [Runners -> Ended \cup {"probe", "create", "versions", "execute",
                                      "tables", "columns", "indexes"}]
    /\ pending \in [Runners -> SUBSET Versions]
    /\ next \in [Runners -> Nat \ {0}]
    /\ \A r \in Runners : pc[r] = "execute" =>
          pending[r] # {} /\ next[r] <= Len(Files[File(r)]) + 1
    /\ open \in [Runners -> SUBSET Statements]
    /\ newly \in [Runners -> SUBSET Versions]
    /\ present \in [Runners -> SUBSET Manifest]
    /\ missing \in [Runners -> SUBSET Manifest]
    /\ breaks \in 0..MaxBreaks

\* Two runners that read the same versions do not both apply a file, none is
\* applied before its predecessors, and a run() that returns leaves none
\* pending, although it worked from the versions it had read at the beginning.
AppliedOnceInOrder ==
    /\ \A f \in recorded : \A g \in Versions : g < f => g \in recorded
    /\ \A r, q \in Runners : r # q => newly[r] \cap newly[q] = {}
    /\ \A r \in Runners : pc[r] = "returned" => recorded = Versions

\* Objects of a file that is not recorded, which the migrator itself created.
Leftovers == objects \ (provisioned \cup {Tracking}
                         \cup UNION {StatementsOf(f) : f \in recorded})

\* "Record the version only after all statements succeed": whatever breaks
\* and whoever else migrates, a recorded version has all its objects, and a
\* file that breaks half way leaves objects behind only if the driver commits
\* every statement: the connection is rolled back before it is used again.
SchemaMatchesVersions ==
    /\ \A f \in recorded : StatementsOf(f) \subseteq objects
    /\ Leftovers # {} => autocommit

\* validate() passes only on a database that has everything it requires, even
\* if a runner creates tables, columns and indexes between its three reads.
ValidMeansComplete == \A r \in Runners : pc[r] = "valid" => Manifest \subseteq objects

\* A statement that cannot be executed again has been, in a file to be retried.
Stuck == \E f \in Versions \ recorded :
            \E s \in StatementsOf(f) \cap objects : s \notin Rerunnable

\* "Re-running migrate() will retry the whole file": run again and again, the
\* migrator brings the database up to date, except when a file was left half
\* applied (or a DBA had created what it creates), which no retry repairs.
UpToDateOrStuck == <>(recorded = Versions) \/ <>[]Stuck
=============================================================================
