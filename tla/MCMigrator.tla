----------------------------- MODULE MCMigrator -----------------------------
(* Three files: the tracking table; a table and its index; a column of the  *)
(* table, an index on it, and a statement that can be executed again.       *)
EXTENDS Migrator
CONSTANTS r1, r2, tracking, table, index, column, index2, widen

MCStatements == {tracking, table, index, column, index2, widen}
MCRerunnable == {tracking, widen}
MCFiles == <<<<tracking>>, <<table, index>>, <<widen, column, index2>>>>
MCKind == [s \in MCStatements |-> CASE s \in {tracking, table} -> "table"
                                    [] s \in {column, widen} -> "column"
                                    [] OTHER -> "index"]
MCTableOf == [s \in MCStatements |-> IF s = tracking THEN tracking ELSE table]
MCPrepared == {{}, {tracking, table, column}, MCStatements \ {widen}}
MCManifest == {tracking, table, index, column, index2}
=============================================================================
