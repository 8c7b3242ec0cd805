-------------------------- MODULE MCConnectionPool --------------------------
(* Callers that outnumber the handles.                                      *)
EXTENDS ConnectionPool
=============================================================================
