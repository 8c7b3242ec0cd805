-------------------------- MODULE MCConsolidation --------------------------
(* Two rows and two workers: enough for batches that overlap, for a batch    *)
(* that leaves a row out, and for a run that ends between its two rows.      *)
EXTENDS Consolidation
=============================================================================
