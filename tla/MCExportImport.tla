--------------------------- MODULE MCExportImport ---------------------------
(* An agent's scope and a user's within it are exported; the user's is      *)
(* imported, under the same agent or another one.  Rows 1 and 2 have the    *)
(* created_at of one create_many(): a page of two rows divides them when the*)
(* newer row 3 is there, and holds both when it is not.                     *)
EXTENDS ExportImport
CONSTANTS a, b, u1

Scope(g, u) == [tenant_id |-> None, agent_id |-> g, user_id |-> u, thread_id |-> None]
AgentAndUser == {Scope(a, None), Scope(a, u1)}
RestoreAndMigrate == {Scope(a, u1), Scope(b, u1)}
UuidOrder == <<2, 3, 1>>
OneBatchAndANewerRow == <<1, 1, 2>>

\* From the first run of the import on, nothing reads or changes the source and
\* the history of the export any more, and ExportComplete, which speaks of them
\* and of the stream only, keeps the value it had when the export was done.
Relevant == IF runs = 0 THEN vars ELSE <<stream, pc, importVars>>
=============================================================================
