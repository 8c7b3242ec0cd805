--------------------------- MODULE Consolidation ---------------------------
(***************************************************************************)
(* The two ways a working or episodic row is consolidated: inline, by the  *)
(* thread that runs remember(), and out of band, by concurrent runs of     *)
(* scripts/consolidate_pending.py that fetch a batch, claim its rows one   *)
(* by one with consolidated_at, and persist what the consolidator derives, *)
(* each derived record in a transaction of its own.  A worker run ends at  *)
(* the first exception: nothing in _process_record catches it.  The script *)
(* is modelled from its functions as a caller that hands them a pool runs  *)
(* them: main() itself does not get there at this commit, because          *)
(* _build_pool() passes ConnectionPool arguments it does not take.         *)
(***************************************************************************)
EXTENDS Naturals, FiniteSets

CONSTANTS Raws,         \* ids of the raw rows
          Workers,      \* runs of the script
          NoRaw,
          BatchSizes,   \* the values --batch-size is given
          PerRow,       \* records the consolidator derives from one row
          InlineOn,     \* the store was built with a consolidator
          WorkersFail   \* can the consolidator, or a create(), raise?

ASSUME ConsolidationAssumption ==
    /\ NoRaw \notin Raws /\ IsFiniteSet(Raws)
    /\ BatchSizes \subseteq Nat \ {0} /\ PerRow \in Nat \ {0}
    /\ InlineOn \in BOOLEAN /\ WorkersFail \in BOOLEAN

VARIABLES
    row,            \* none, live, forgotten or purged
    consolidated_at,    \* the rows whose column is set
    inline,         \* the row remember() is consolidating, or NoRaw
    inlined,        \* the rows consolidated inline
    fetched,        \* per worker: the rows of its batch it has not come to
    current,        \* per worker: the row it has claimed, or NoRaw
    persisted,      \* derived records written per row and worker
    abandoned,      \* history: the rows a failing worker had claimed,
    unreached       \* and those of its batch it had not come to

consolidationVars ==
    <<row, consolidated_at, inline, inlined, fetched, current, persisted, abandoned,
      unreached>>

ConsolidationInit ==
    /\ row = [r \in Raws |-> "none"]
    /\ consolidated_at = {}
    /\ inline = NoRaw /\ inlined = {}
    /\ fetched = [w \in Workers |-> {}]
    /\ current = [w \in Workers |-> NoRaw]
    /\ persisted = [r \in Raws |-> [w \in Workers |-> 0]]
    /\ abandoned = {} /\ unreached = {}

-----------------------------------------------------------------------------
\* remember(): the row is committed before the consolidator runs.
Remember(r) ==
    /\ row[r] = "none" /\ inline = NoRaw
    /\ row' = [row EXCEPT ![r] = "live"]
    /\ inline' = IF InlineOn THEN r ELSE NoRaw
    /\ UNCHANGED <<consolidated_at, inlined, fetched, current, persisted, abandoned, unreached>>

\* _run_consolidator(): what is derived is written; consolidated_at is not.
InlineConsolidate ==
    /\ inline # NoRaw
    /\ inlined' = inlined \cup {inline}
    /\ inline' = NoRaw
    /\ UNCHANGED <<row, consolidated_at, fetched, current, persisted, abandoned, unreached>>

\* An exception is logged and nothing is derived.
InlineRaises ==
    /\ inline # NoRaw
    /\ inline' = NoRaw
    /\ UNCHANGED <<row, consolidated_at, inlined, fetched, current, persisted, abandoned, unreached>>

Forget(r) ==
    /\ row[r] = "live"
    /\ row' = [row EXCEPT ![r] = "forgotten"]
    /\ UNCHANGED <<consolidated_at, inline, inlined, fetched, current, persisted, abandoned, unreached>>

Purge ==
    /\ \E r \in Raws : row[r] = "forgotten"
    /\ row' = [r \in Raws |-> IF row[r] = "forgotten" THEN "purged" ELSE row[r]]
    /\ UNCHANGED <<consolidated_at, inline, inlined, fetched, current, persisted, abandoned, unreached>>

-----------------------------------------------------------------------------
\* Rows the worker's SELECT would return.
Pending == {r \in Raws : row[r] = "live" /\ r \notin consolidated_at}

\* _fetch_pending(): FETCH FIRST batch_size ROWS ONLY, in no order.
FetchPending(w) ==
    /\ fetched[w] = {} /\ current[w] = NoRaw
    /\ \E S \in SUBSET Pending, batch_size \in BatchSizes :
          /\ S # {}
          /\ \/ S = Pending /\ Cardinality(S) <= batch_size
             \/ Cardinality(S) = batch_size
          /\ fetched' = [fetched EXCEPT ![w] = S]
    /\ UNCHANGED <<row, consolidated_at, inline, inlined, current, persisted, abandoned, unreached>>

\* A variant of the claim without `consolidated_at IS NULL`.
ClaimableAgain(r) == row[r] \in {"live", "forgotten"}

\* The WHERE clause of _claim_consolidated(): a row forgotten since it was
\* fetched still matches.
Claimable(r) == row[r] \in {"live", "forgotten"} /\ r \notin consolidated_at

Claim(w, r) ==
    /\ current[w] = NoRaw /\ r \in fetched[w] /\ Claimable(r)
    /\ consolidated_at' = consolidated_at \cup {r}
    /\ current' = [current EXCEPT ![w] = r]
    /\ fetched' = [fetched EXCEPT ![w] = @ \ {r}]
    /\ UNCHANGED <<row, inline, inlined, persisted, abandoned, unreached>>

\* A variant of the skip that leaves the loop: a `return` for a `continue`.
SkipEnds(w, r) ==
    /\ current[w] = NoRaw /\ r \in fetched[w] /\ ~Claimable(r)
    /\ fetched' = [fetched EXCEPT ![w] = {}]
    /\ UNCHANGED <<row, consolidated_at, inline, inlined, current, persisted, abandoned, unreached>>

\* rowcount 0: another worker has it, or it was purged.
Skip(w, r) ==
    /\ current[w] = NoRaw /\ r \in fetched[w] /\ ~Claimable(r)
    /\ fetched' = [fetched EXCEPT ![w] = @ \ {r}]
    /\ UNCHANGED <<row, consolidated_at, inline, inlined, current, persisted, abandoned, unreached>>

\* A variant in which the loop over the derived records stops after the first.
PersistFirst(w) ==
    /\ current[w] # NoRaw
    /\ persisted' = [persisted EXCEPT ![current[w]][w] = @ + 1]
    /\ current' = [current EXCEPT ![w] = NoRaw]
    /\ UNCHANGED <<row, consolidated_at, inline, inlined, fetched, abandoned, unreached>>

\* One create() of the loop over the derived records; the last one ends the row.
PersistDerived(w) ==
    /\ current[w] # NoRaw
    /\ persisted' = [persisted EXCEPT ![current[w]][w] = @ + 1]
    /\ current' = [current EXCEPT ![w] =
                      IF persisted[@][w] + 1 = PerRow THEN NoRaw ELSE @]
    /\ UNCHANGED <<row, consolidated_at, inline, inlined, fetched, abandoned, unreached>>

\* An exception, or the end of the process, between the claim and the last
\* create(): the run is over, its claim stays.
WorkerFails(w) ==
    /\ WorkersFail /\ current[w] # NoRaw
    /\ abandoned' = abandoned \cup {current[w]}
    /\ current' = [current EXCEPT ![w] = NoRaw]
    /\ unreached' = unreached \cup fetched[w]
    /\ fetched' = [fetched EXCEPT ![w] = {}]
    /\ UNCHANGED <<row, consolidated_at, inline, inlined, persisted>>

\* The loop over a batch.
ProcessBatch(w) == (\E r \in Raws : Claim(w, r) \/ Skip(w, r)) \/ PersistDerived(w)

ConsolidationNext ==
    \/ \E r \in Raws : Remember(r) \/ Forget(r)
    \/ InlineConsolidate \/ InlineRaises \/ Purge
    \/ \E w \in Workers : FetchPending(w) \/ ProcessBatch(w) \/ WorkerFails(w)

ConsolidationSpec == ConsolidationInit /\ [][ConsolidationNext]_consolidationVars

\* A run that has fetched its batch goes on to the end of it, or fails.  Nothing
\* starts another run.
ConsolidationFairSpec ==
    ConsolidationSpec /\ \A w \in Workers : WF_consolidationVars(ProcessBatch(w))

-----------------------------------------------------------------------------
\* Every variable has its type.
ConsolidationTypeOK ==
    /\ row \in [Raws -> {"none", "live", "forgotten", "purged"}]
    /\ consolidated_at \subseteq Raws /\ inline \in Raws \cup {NoRaw}
    /\ inlined \subseteq Raws /\ abandoned \subseteq Raws /\ unreached \subseteq Raws
    /\ fetched \in [Workers -> SUBSET Raws]
    /\ current \in [Workers -> Raws \cup {NoRaw}]
    /\ persisted \in [Raws -> [Workers -> 0..PerRow]]

\* "This prevents double-processing under concurrent workers": of all the
\* workers that fetched a row, at most one ever writes records derived from it.
ProcessedByOneWorker ==
    \A r \in Raws : \A v, w \in Workers :
        persisted[r][v] > 0 /\ persisted[r][w] > 0 => v = w

\* The claim is not a way to lose a row: a claimed row is being worked on, or
\* has all of its derived records, unless the worker failed on it.
ClaimedMeansConsolidated ==
    \A r \in consolidated_at \ abandoned :
        \E w \in Workers : current[w] = r \/ persisted[r][w] = PerRow

\* A run leaves nothing of its batch behind: a row it has fetched ends with all
\* its derived records, its own or those of a run that claimed the row first,
\* or is purged, unless a run fails on it or before it.
BatchIsWorkedOff ==
    \A r \in Raws, w \in Workers :
        r \in fetched[w] ~>
            \/ row[r] = "purged" \/ r \in abandoned \cup unreached
            \/ \E v \in Workers : persisted[r][v] = PerRow
=============================================================================
