---------------------------- MODULE MCReconcile ----------------------------
(* Facts are numbered in the order of their creation; the made-up id 0 is   *)
(* never created.                                                           *)
EXTENDS Reconcile
=============================================================================
