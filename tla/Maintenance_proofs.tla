------------------------- MODULE Maintenance_proofs -------------------------
(***************************************************************************)
(* The two passes that go over stored memories afterwards.                 *)
(*                                                                         *)
(* The claim protocol of consolidate_pending.py, for any number of workers *)
(* and rows.  ProcessedByOneWorker is not inductive alone: it needs that   *)
(* every row a worker has worked on, or works on, is marked, and that the  *)
(* mark is taken by one worker only.                                       *)
(*                                                                         *)
(* What reconcile() leaves in the table and what it reports, for any       *)
(* number of passes, facts and decisions.  The inductive invariant adds to *)
(* the properties that every candidate of a pass is live, taken by another,*)
(* or a loser the pass reports, and that winners were candidates.          *)
(***************************************************************************)
EXTENDS Consolidation, Reconcile, FiniteSetTheorems, WellFoundedInduction, TLAPS

\* Worker w has claimed row r, now or in the past, with something to show.
WorkedOn(r, w) == current[w] = r \/ persisted[r][w] > 0

WorkedOnIsMarked ==
    \A r \in Raws, w \in Workers : WorkedOn(r, w) => r \in consolidated_at

OneWorkerPerRow ==
    \A r \in Raws : \A v, w \in Workers : WorkedOn(r, v) /\ WorkedOn(r, w) => v = w

Unfinished ==
    \A w \in Workers : current[w] # NoRaw => persisted[current[w]][w] < PerRow

ConsolidationInv ==
    /\ ConsolidationTypeOK /\ WorkedOnIsMarked /\ OneWorkerPerRow /\ Unfinished
    /\ ClaimedMeansConsolidated

\* The invariant holds before the first row is written.
LEMMA ConsolidationInvInit == ConsolidationInit => ConsolidationInv
<1>. SUFFICES ASSUME ConsolidationInit PROVE ConsolidationInv
  OBVIOUS
<1>1. \A r \in Raws, w \in Workers : ~WorkedOn(r, w)
  BY ConsolidationAssumption DEF ConsolidationInit, WorkedOn
<1>2. ConsolidationTypeOK
  BY ConsolidationAssumption DEF ConsolidationInit, ConsolidationTypeOK
<1>. QED BY <1>1, <1>2 DEF ConsolidationInit, ConsolidationInv, WorkedOnIsMarked, OneWorkerPerRow, Unfinished,
                           ClaimedMeansConsolidated

\* Steps of other callers, and those of a worker before and without a claim.
LEMMA UnclaimedStep ==
    ASSUME ConsolidationInv, ConsolidationTypeOK', UNCHANGED <<consolidated_at, current, persisted, abandoned>>
    PROVE  ConsolidationInv'
BY DEF ConsolidationInv, WorkedOn, WorkedOnIsMarked, OneWorkerPerRow, Unfinished,
       ClaimedMeansConsolidated

\* Every step keeps the types.
LEMMA TypeStep == ConsolidationTypeOK /\ Unfinished /\ [ConsolidationNext]_consolidationVars => ConsolidationTypeOK'
<1>. SUFFICES ASSUME ConsolidationTypeOK, Unfinished, [ConsolidationNext]_consolidationVars PROVE ConsolidationTypeOK'
  OBVIOUS
<1>. USE ConsolidationAssumption DEF ConsolidationTypeOK
<1>1. CASE UNCHANGED consolidationVars
  BY <1>1 DEF consolidationVars
<1>2. ASSUME NEW r \in Raws, Remember(r) \/ Forget(r) PROVE ConsolidationTypeOK'
  BY <1>2 DEF Remember, Forget
<1>3. CASE InlineConsolidate \/ InlineRaises \/ Purge
  BY <1>3 DEF InlineConsolidate, InlineRaises, Purge
<1>4. ASSUME NEW w \in Workers, FetchPending(w) PROVE ConsolidationTypeOK'
  BY <1>4 DEF FetchPending, Pending
<1>5. ASSUME NEW w \in Workers, NEW r \in Raws, Claim(w, r) \/ Skip(w, r) PROVE ConsolidationTypeOK'
  <2>1. fetched' = [fetched EXCEPT ![w] = fetched[w] \ {r}] /\ row' = row
    BY <1>5 DEF Claim, Skip
  <2>2. fetched' \in [Workers -> SUBSET Raws]
    BY <2>1
  <2>3. CASE Claim(w, r)
    BY <2>1, <2>2, <2>3 DEF Claim
  <2>4. CASE Skip(w, r)
    BY <2>1, <2>2, <2>4 DEF Skip
  <2>. QED BY <1>5, <2>3, <2>4
<1>6. ASSUME NEW w \in Workers, WorkerFails(w) PROVE ConsolidationTypeOK'
  BY <1>6 DEF WorkerFails
<1>7. ASSUME NEW w \in Workers, PersistDerived(w) PROVE ConsolidationTypeOK'
  <2>. DEFINE r == current[w]
              next == [persisted[r] EXCEPT ![w] = @ + 1]
  <2>1. r \in Raws /\ persisted[r][w] \in Nat /\ persisted[r][w] < PerRow
    BY <1>7 DEF PersistDerived, Unfinished
  <2>2. next \in [Workers -> 0..PerRow]
    BY <2>1
  <2>3. persisted' = [persisted EXCEPT ![r] = next]
    BY <1>7 DEF PersistDerived
  <2>. HIDE DEF next
  <2>4. persisted' \in [Raws -> [Workers -> 0..PerRow]]
    BY <2>1, <2>2, <2>3
  <2>. QED BY <1>7, <2>4 DEF PersistDerived
<1>. QED BY <1>1, <1>2, <1>3, <1>4, <1>5, <1>6, <1>7 DEF ConsolidationNext, ProcessBatch

\* The claim: nobody has worked on an unmarked row, and it is marked now.
LEMMA ClaimStep ==
    ASSUME ConsolidationInv, ConsolidationTypeOK', NEW w \in Workers, NEW r \in Raws, Claim(w, r)
    PROVE  ConsolidationInv'
<1>1. /\ consolidated_at' = consolidated_at \cup {r} /\ r \notin consolidated_at
      /\ current' = [current EXCEPT ![w] = r]
      /\ current'[w] = r /\ \A v \in Workers \ {w} : current'[v] = current[v]
      /\ UNCHANGED <<persisted, abandoned>> /\ current[w] = NoRaw
  BY DEF Claim, Claimable, ConsolidationInv, ConsolidationTypeOK
<1>2. \A v \in Workers : ~WorkedOn(r, v)
  BY <1>1 DEF ConsolidationInv, WorkedOnIsMarked
<1>3. \A q \in Raws, v \in Workers : WorkedOn(q, v)' <=> WorkedOn(q, v) \/ (q = r /\ v = w)
  BY <1>1, ConsolidationAssumption DEF WorkedOn
<1>4. WorkedOnIsMarked' /\ OneWorkerPerRow'
  BY <1>1, <1>2, <1>3 DEF ConsolidationInv, WorkedOnIsMarked, OneWorkerPerRow
<1>5. Unfinished'
  <2>1. persisted[r][w] \in Nat /\ ~(persisted[r][w] > 0) /\ PerRow \in Nat /\ PerRow # 0
    BY <1>2, ConsolidationAssumption DEF WorkedOn, ConsolidationInv, ConsolidationTypeOK
  <2>2. persisted[r][w] < PerRow
    BY <2>1
  <2>. QED BY <1>1, <2>2 DEF ConsolidationInv, Unfinished
<1>6. ClaimedMeansConsolidated'
  <2>. SUFFICES ASSUME NEW q \in consolidated_at \ abandoned
                PROVE  \E v \in Workers : current'[v] = q \/ persisted'[q][v] = PerRow
    BY <1>1 DEF ClaimedMeansConsolidated
  <2>1. PICK v \in Workers : current[v] = q \/ persisted[q][v] = PerRow
    BY DEF ConsolidationInv, ClaimedMeansConsolidated
  <2>2. q \in Raws /\ q # NoRaw
    BY ConsolidationAssumption DEF ConsolidationInv, ConsolidationTypeOK
  <2>. QED BY <1>1, <2>1, <2>2
<1>. QED BY <1>4, <1>5, <1>6 DEF ConsolidationInv

\* A derived record is written by the worker that has the row.
LEMMA PersistStep ==
    ASSUME ConsolidationInv, ConsolidationTypeOK', NEW w \in Workers, PersistDerived(w)
    PROVE  ConsolidationInv'
<1>. DEFINE r == current[w]
<1>1. /\ r \in Raws /\ r # NoRaw /\ persisted[r][w] \in Nat /\ persisted[r][w] < PerRow
      /\ PerRow \in Nat
  BY ConsolidationAssumption DEF PersistDerived, ConsolidationInv, ConsolidationTypeOK, Unfinished
<1>2. /\ persisted'[r][w] = persisted[r][w] + 1
      /\ \A q \in Raws, v \in Workers :
            q # r \/ v # w => persisted'[q][v] = persisted[q][v]
  BY <1>1 DEF PersistDerived, ConsolidationInv, ConsolidationTypeOK
<1>3. /\ current'[w] = IF persisted'[r][w] = PerRow THEN NoRaw ELSE r
      /\ \A v \in Workers \ {w} : current'[v] = current[v]
      /\ UNCHANGED <<consolidated_at, abandoned>>
  BY <1>1, <1>2 DEF PersistDerived, ConsolidationInv, ConsolidationTypeOK
<1>4. WorkedOn(r, w)
  BY DEF WorkedOn
<1>. HIDE DEF r
<1>5. \A q \in Raws, v \in Workers : WorkedOn(q, v)' => WorkedOn(q, v)
  BY <1>1, <1>2, <1>3, <1>4, ConsolidationAssumption DEF WorkedOn
<1>6. WorkedOnIsMarked' /\ OneWorkerPerRow'
  BY <1>3, <1>5 DEF ConsolidationInv, WorkedOnIsMarked, OneWorkerPerRow
<1>7. Unfinished'
  <2>. SUFFICES ASSUME NEW v \in Workers, current'[v] # NoRaw
                PROVE  persisted'[current'[v]][v] < PerRow
    BY DEF Unfinished
  <2>1. CASE v = w
    BY <1>1, <1>2, <1>3, <2>1
  <2>2. CASE v # w
    BY <1>2, <1>3, <2>2 DEF ConsolidationInv, Unfinished, ConsolidationTypeOK
  <2>. QED BY <2>1, <2>2
<1>8. ClaimedMeansConsolidated'
  <2>. SUFFICES ASSUME NEW q \in consolidated_at \ abandoned
                PROVE  \E v \in Workers : current'[v] = q \/ persisted'[q][v] = PerRow
    BY <1>3 DEF ClaimedMeansConsolidated
  <2>1. PICK v \in Workers : current[v] = q \/ persisted[q][v] = PerRow
    BY DEF ConsolidationInv, ClaimedMeansConsolidated
  <2>2. q \in Raws
    BY DEF ConsolidationInv, ConsolidationTypeOK
  <2>3. CASE v = w /\ current[v] = q
    BY <1>1, <1>3, <2>3 DEF r
  <2>4. CASE v # w /\ current[v] = q
    BY <1>3, <2>4
  <2>5. CASE persisted[q][v] = PerRow
    BY <1>1, <1>2, <2>2, <2>5
  <2>. QED BY <2>1, <2>3, <2>4, <2>5
<1>. QED BY <1>6, <1>7, <1>8 DEF ConsolidationInv

\* A failing worker leaves its row marked, and counted as abandoned.
LEMMA FailStep ==
    ASSUME ConsolidationInv, ConsolidationTypeOK', NEW w \in Workers, WorkerFails(w)
    PROVE  ConsolidationInv'
<1>1. /\ abandoned' = abandoned \cup {current[w]}
      /\ current'[w] = NoRaw /\ \A v \in Workers \ {w} : current'[v] = current[v]
      /\ UNCHANGED <<consolidated_at, persisted>>
  BY DEF WorkerFails, ConsolidationInv, ConsolidationTypeOK
<1>2. \A q \in Raws, v \in Workers : WorkedOn(q, v)' => WorkedOn(q, v)
  BY <1>1, ConsolidationAssumption DEF WorkedOn
<1>3. WorkedOnIsMarked' /\ OneWorkerPerRow' /\ Unfinished'
  BY <1>1, <1>2 DEF ConsolidationInv, WorkedOnIsMarked, OneWorkerPerRow, Unfinished
<1>4. ClaimedMeansConsolidated'
  BY <1>1 DEF ConsolidationInv, ClaimedMeansConsolidated
<1>. QED BY <1>3, <1>4 DEF ConsolidationInv

\* Every step keeps the invariant.
LEMMA ConsolidationInvStep == ConsolidationInv /\ [ConsolidationNext]_consolidationVars => ConsolidationInv'
<1>. SUFFICES ASSUME ConsolidationInv, [ConsolidationNext]_consolidationVars PROVE ConsolidationInv'
  OBVIOUS
<1>. ConsolidationTypeOK'
  BY TypeStep DEF ConsolidationInv
<1>1. ASSUME NEW r \in Raws, Remember(r) \/ Forget(r) PROVE ConsolidationInv'
  BY <1>1, UnclaimedStep DEF Remember, Forget
<1>2. CASE InlineConsolidate \/ InlineRaises \/ Purge \/ UNCHANGED consolidationVars
  BY <1>2, UnclaimedStep DEF InlineConsolidate, InlineRaises, Purge, consolidationVars
<1>3. ASSUME NEW w \in Workers, FetchPending(w) PROVE ConsolidationInv'
  BY <1>3, UnclaimedStep DEF FetchPending
<1>4. ASSUME NEW w \in Workers, ProcessBatch(w) PROVE ConsolidationInv'
  <2>1. ASSUME NEW r \in Raws, Skip(w, r) PROVE ConsolidationInv'
    BY <2>1, UnclaimedStep DEF Skip
  <2>. QED BY <1>4, <2>1, ClaimStep, PersistStep DEF ProcessBatch
<1>. QED BY <1>1, <1>2, <1>3, <1>4, FailStep DEF ConsolidationNext

\* Of any number of workers that fetched a row, at most one ever writes records
\* derived from it.
THEOREM OneWorkerProcesses == ConsolidationSpec => []ProcessedByOneWorker
<1>1. ConsolidationInv => ProcessedByOneWorker
  BY DEF ConsolidationInv, OneWorkerPerRow, WorkedOn, ProcessedByOneWorker
<1>. QED BY <1>1, ConsolidationInvInit, ConsolidationInvStep, PTL DEF ConsolidationSpec

\* A marked row has all its derived records, or a worker that writes them, or
\* was abandoned by a worker that failed: skipping it loses nothing.
THEOREM ClaimsAreHonoured == ConsolidationSpec => []ClaimedMeansConsolidated
<1>1. ConsolidationInv => ClaimedMeansConsolidated
  BY DEF ConsolidationInv
<1>. QED BY <1>1, ConsolidationInvInit, ConsolidationInvStep, PTL DEF ConsolidationSpec

\* Every variable has its type: no worker writes more records of a row than
\* the consolidator derived.
THEOREM ConsolidationTypeCorrect == ConsolidationSpec => []ConsolidationTypeOK
<1>1. ConsolidationInv => ConsolidationTypeOK
  BY DEF ConsolidationInv
<1>. QED BY <1>1, ConsolidationInvInit, ConsolidationInvStep, PTL DEF ConsolidationSpec

-----------------------------------------------------------------------------
\* reconcile().
Losers(p) == {d.loser_id : d \in applied[p]}

\* A candidate is live until somebody takes it, or the pass itself does.
CandidatesAccountedFor ==
    \A p \in Passes : batch[p] \subseteq LiveFacts \cup taken[p] \cup Losers(p)

\* Guards (a) and (b), of every decision a pass has reported.
WinnersWereCandidates ==
    \A p \in Passes : \A d \in applied[p] :
        d.winner_id \in batch[p] /\ d.winner_id # d.loser_id /\ d.loser_id \in Facts

WinnersAreFacts ==
    \A f \in Facts : superseded_by[f] # None => superseded_by[f] \in Facts

IInv == /\ TypeOK /\ CandidatesAccountedFor /\ WinnersWereCandidates
        /\ WinnersAreFacts /\ ReportedDecisionsHold

\* The invariant holds before anything has happened.
THEOREM InitInv == Init => IInv
  BY ReconcileAssumption
     DEF Init, IInv, TypeOK, CandidatesAccountedFor, WinnersWereCandidates,
         WinnersAreFacts, ReportedDecisionsHold

\* A step that writes neither superseded_by nor applied, and puts every fact
\* it takes into `taken`.
LEMMA QuietStep ==
  ASSUME IInv, TypeOK', superseded_by' = superseded_by, batch' = batch,
         applied' = applied,
         \A p \in Passes : LiveFacts \cup taken[p] \subseteq (LiveFacts \cup taken[p])'
  PROVE  IInv'
<1>1. CandidatesAccountedFor'
  <2> SUFFICES ASSUME NEW p \in Passes, NEW f \in batch[p]
               PROVE  f \in (LiveFacts \cup taken[p] \cup Losers(p))'
    BY DEF CandidatesAccountedFor
  <2>1. Losers(p)' = Losers(p)
    BY DEF Losers
  <2> QED BY <2>1 DEF IInv, CandidatesAccountedFor
<1> QED BY <1>1 DEF IInv, WinnersWereCandidates, WinnersAreFacts, ReportedDecisionsHold

\* A listing starts the accounts of its pass anew.
LEMMA ListStep ==
  ASSUME IInv, NEW p \in Passes, ListCandidates(p)
  PROVE  IInv'
<1>1. PICK S \in SUBSET LiveFacts : batch' = [batch EXCEPT ![p] = S]
  BY DEF ListCandidates
<1>2. /\ applied' = [applied EXCEPT ![p] = {}] /\ taken' = [taken EXCEPT ![p] = {}]
      /\ UNCHANGED <<exists, deleted, superseded_by, left>>
  BY DEF ListCandidates
<1>3. S \subseteq Facts
  BY DEF LiveFacts, IInv, TypeOK
<1>4. TypeOK'
  BY <1>1, <1>2, <1>3 DEF IInv, TypeOK, ListCandidates
<1>5. LiveFacts' = LiveFacts
  BY <1>2 DEF LiveFacts
<1>6. /\ batch'[p] = S /\ applied'[p] = {}
      /\ \A q \in Passes \ {p} : /\ batch'[q] = batch[q] /\ applied'[q] = applied[q]
                                 /\ taken'[q] = taken[q]
  BY <1>1, <1>2 DEF IInv, TypeOK
<1>7. CandidatesAccountedFor'
  <2> SUFFICES ASSUME NEW q \in Passes
               PROVE  batch'[q] \subseteq (LiveFacts \cup taken[q] \cup Losers(q))'
    BY DEF CandidatesAccountedFor
  <2>1. CASE q = p
    BY <1>5, <1>6, <2>1
  <2>2. CASE q # p
    <3>1. Losers(q)' = Losers(q)
      BY <1>6, <2>2 DEF Losers
    <3> QED BY <1>5, <1>6, <2>2, <3>1 DEF IInv, CandidatesAccountedFor
  <2> QED BY <2>1, <2>2
<1>8. \A q \in Passes : applied'[q] \subseteq applied[q]
  BY <1>6
<1>9. WinnersWereCandidates' /\ ReportedDecisionsHold'
  BY <1>2, <1>6, <1>8 DEF IInv, WinnersWereCandidates, ReportedDecisionsHold
<1> QED BY <1>2, <1>4, <1>7, <1>9 DEF IInv, WinnersAreFacts

\* supersede() writes on a fact that carried no winner, hence on none that a
\* pass has reported; every other pass has lost that fact to somebody else.
LEMMA ApplyStep ==
  ASSUME IInv, NEW p \in Passes, NEW d \in Decisions, Apply(p, d)
  PROVE  IInv'
<1> USE ReconcileAssumption
<1>1. /\ d \in Decision /\ d.winner_id \in batch[p] /\ d.winner_id # d.loser_id
      /\ d.loser_id \in exists /\ superseded_by[d.loser_id] = None
  BY DEF Apply, Accepts, Qualifies, Decisions
<1>2. d.loser_id \in Facts /\ d.winner_id \in Facts
  BY <1>1 DEF IInv, TypeOK
<1>3. /\ superseded_by' = [superseded_by EXCEPT ![d.loser_id] = d.winner_id]
      /\ applied' = [applied EXCEPT ![p] = @ \cup {d}]
      /\ taken' = [q \in Passes |-> IF q = p THEN taken[q] ELSE taken[q] \cup {d.loser_id}]
      /\ UNCHANGED <<exists, deleted, pc, batch>>
  BY DEF Apply
<1>4. TypeOK'
  <2>1. left' \in [Passes -> 0..MaxDecisions]
    BY DEF IInv, TypeOK, Apply
  <2>2. applied' \in [Passes -> SUBSET Decision]
    BY <1>1, <1>3 DEF IInv, TypeOK
  <2>3. taken' \in [Passes -> SUBSET Facts]
    BY <1>2, <1>3 DEF IInv, TypeOK
  <2> QED BY <1>2, <1>3, <2>1, <2>2, <2>3 DEF IInv, TypeOK
<1>5. \A q \in Passes : \A e \in applied[q] :
         /\ e.loser_id \in Facts /\ e.loser_id # d.loser_id
         /\ superseded_by'[e.loser_id] = e.winner_id
  <2> SUFFICES ASSUME NEW q \in Passes, NEW e \in applied[q]
               PROVE  /\ e.loser_id \in Facts /\ e.loser_id # d.loser_id
                      /\ superseded_by'[e.loser_id] = e.winner_id
    OBVIOUS
  <2>1. e \in Decision /\ e.loser_id \in Facts
    BY DEF IInv, TypeOK, WinnersWereCandidates
  <2>2. superseded_by[e.loser_id] = e.winner_id /\ e.winner_id # None
    BY <2>1 DEF IInv, ReportedDecisionsHold, Decision
  <2> QED BY <1>1, <1>2, <1>3, <2>1, <2>2 DEF IInv, TypeOK
<1>6. \A q \in Passes : applied'[q] = applied[q] \cup (IF q = p THEN {d} ELSE {})
  BY <1>3 DEF IInv, TypeOK
<1>7. CandidatesAccountedFor'
  <2>1. LiveFacts \subseteq LiveFacts' \cup {d.loser_id}
    BY <1>2, <1>3 DEF LiveFacts, IInv, TypeOK
  <2> SUFFICES ASSUME NEW q \in Passes
               PROVE  batch[q] \subseteq (LiveFacts \cup taken[q] \cup Losers(q))'
    BY <1>3 DEF CandidatesAccountedFor
  <2>2. Losers(q) \subseteq Losers(q)' /\ taken[q] \subseteq taken'[q]
    BY <1>3, <1>6 DEF Losers
  <2>3. d.loser_id \in (taken[q] \cup Losers(q))'
    BY <1>3, <1>6 DEF Losers
  <2> QED BY <2>1, <2>2, <2>3 DEF IInv, CandidatesAccountedFor
<1>8. WinnersWereCandidates'
  BY <1>1, <1>2, <1>3, <1>6 DEF IInv, WinnersWereCandidates
<1>9. WinnersAreFacts'
  BY <1>2, <1>3 DEF IInv, TypeOK, WinnersAreFacts
<1>10. ReportedDecisionsHold'
  <2>1. superseded_by'[d.loser_id] = d.winner_id
    BY <1>2, <1>3 DEF IInv, TypeOK
  <2> QED BY <1>5, <1>6, <2>1 DEF IInv, ReportedDecisionsHold
<1> QED BY <1>4, <1>7, <1>8, <1>9, <1>10 DEF IInv

\* Every step keeps the invariant.
THEOREM NextInv == IInv /\ [Next]_vars => IInv'
<1> USE ReconcileAssumption
<1> SUFFICES ASSUME IInv, [Next]_vars PROVE IInv'
  OBVIOUS
<1>1. ASSUME NEW f \in Facts, AddFact(f) PROVE IInv'
  <2>1. TypeOK'
    BY <1>1 DEF IInv, TypeOK, AddFact
  <2>2. LiveFacts \subseteq LiveFacts' /\ taken' = taken
    BY <1>1 DEF LiveFacts, AddFact
  <2> QED BY <1>1, <2>1, <2>2, QuietStep DEF AddFact
<1>2. ASSUME NEW f \in Facts, ForgetFact(f) PROVE IInv'
  <2>1. TypeOK'
    BY <1>2 DEF IInv, TypeOK, ForgetFact
  <2>2. \A p \in Passes : LiveFacts \cup taken[p] \subseteq (LiveFacts \cup taken[p])'
    BY <1>2 DEF LiveFacts, ForgetFact
  <2> QED BY <1>2, <2>1, <2>2, QuietStep DEF ForgetFact
<1>3. ASSUME NEW p \in Passes, Decide(p) \/ SkipDecision(p) \/ Return(p) PROVE IInv'
  <2>1. TypeOK'
    <3>1. CASE Decide(p)
      BY <3>1 DEF IInv, TypeOK, Decide
    <3>2. CASE SkipDecision(p)
      BY <3>2 DEF IInv, TypeOK, SkipDecision
    <3>3. CASE Return(p)
      BY <3>3 DEF IInv, TypeOK, Return
    <3> QED BY <1>3, <3>1, <3>2, <3>3
  <2>2. UNCHANGED <<exists, deleted, superseded_by, batch, applied, taken>>
    BY <1>3 DEF Decide, SkipDecision, Return
  <2> QED BY <2>1, <2>2, QuietStep DEF LiveFacts
<1>4. ASSUME UNCHANGED vars PROVE IInv'
  <2>1. TypeOK'
    BY <1>4 DEF vars, IInv, TypeOK
  <2> QED BY <1>4, <2>1, QuietStep DEF vars, LiveFacts
<1>5. ASSUME NEW p \in Passes, ListCandidates(p) PROVE IInv'
  BY <1>5, ListStep
<1>6. ASSUME NEW p \in Passes, NEW d \in Decisions, Apply(p, d) PROVE IInv'
  BY <1>6, ApplyStep
<1> QED BY <1>1, <1>2, <1>3, <1>4, <1>5, <1>6 DEF Next

\* IInv is an invariant of every behaviour.
THEOREM Invariance == Spec => []IInv
  BY InitInv, NextInv, PTL DEF Spec

\* The variables of a pass and of the table keep their types.
THEOREM TypeCorrect == Spec => []TypeOK
<1>1. IInv => TypeOK
  BY DEF IInv
<1> QED BY <1>1, Invariance, PTL

\* Whatever ids a Reconciler returns, and however stale its candidates are,
\* the winner of a reported decision is live unless others have taken it or
\* the pass reports that it lost to yet another fact.
THEOREM WinnersAreAccountedFor == Spec => []LosersKeepAWinner
<1>1. IInv => LosersKeepAWinner
  <2> SUFFICES ASSUME IInv, NEW p \in Passes, NEW d \in applied[p],
                      d.winner_id \notin LiveFacts \cup taken[p]
               PROVE  \E e \in applied[p] \ {d} : e.loser_id = d.winner_id
    BY DEF LosersKeepAWinner
  <2>1. d.winner_id \in Losers(p) /\ d.winner_id # d.loser_id
    BY DEF IInv, CandidatesAccountedFor, WinnersWereCandidates
  <2> QED BY <2>1 DEF Losers
<1> QED BY <1>1, Invariance, PTL

\* What a pass reports stays true, and no two passes report the same loser.
THEOREM ReportsAreSound == Spec => []ReportedDecisionsHold
<1>1. IInv => ReportedDecisionsHold
  BY DEF IInv
<1> QED BY <1>1, Invariance, PTL

-----------------------------------------------------------------------------
\* When the newer fact always wins, superseded_by leads to ever newer facts.
LeadsToNewer ==
    NewerWins => \A f \in Facts : superseded_by[f] # None => superseded_by[f] > f

\* No chain of supersessions closes: no set of contradictory facts vanishes
\* altogether, however passes that list, decide and apply are interleaved.
THEOREM ChainsLeadToNewer == Spec => []LeadsToNewer
<1>1. Init => LeadsToNewer
  BY DEF Init, LeadsToNewer
<1>2. IInv /\ LeadsToNewer /\ [Next]_vars => LeadsToNewer'
  <2> SUFFICES ASSUME IInv, LeadsToNewer, [Next]_vars, superseded_by' # superseded_by
               PROVE  LeadsToNewer'
    BY DEF LeadsToNewer
  <2>1. PICK p \in Passes, d \in Decisions : Apply(p, d)
    BY DEF Next, vars, AddFact, ForgetFact, ListCandidates, Decide, SkipDecision,
           Return
  <2>2. /\ d \in Decision /\ d.winner_id \in batch[p] /\ d.winner_id # d.loser_id
        /\ d.loser_id \in exists
        /\ superseded_by' = [superseded_by EXCEPT ![d.loser_id] = d.winner_id]
    BY <2>1, ReconcileAssumption DEF Apply, Accepts, Qualifies, Decisions
  <2>3. d.winner_id \in Facts /\ d.loser_id \in Facts
    BY <2>2 DEF IInv, TypeOK
  <2>4. NewerWins => d.winner_id >= d.loser_id
    BY <2>3, ReconcileAssumption DEF Decisions
  <2>5. d.winner_id >= d.loser_id => d.winner_id > d.loser_id
    <3>1. \A m, n \in Nat : m >= n /\ m # n => m > n
      OBVIOUS
    <3>2. d.winner_id \in Nat /\ d.loser_id \in Nat
      BY <2>3, ReconcileAssumption
    <3> QED BY <2>2, <3>1, <3>2
  <2>6. NewerWins => d.winner_id > d.loser_id
    BY <2>4, <2>5
  <2> QED BY <2>2, <2>3, <2>6, ReconcileAssumption DEF LeadsToNewer, IInv, TypeOK
<1> QED BY <1>1, <1>2, Invariance, PTL DEF Spec

-----------------------------------------------------------------------------
\* Induction, as it is used below: a set of numbers has a least one.
LEMMA LeastElement ==
  ASSUME NEW T \in SUBSET Nat, T # {}
  PROVE  \E n \in T : \A m \in T : n <= m
<1> DEFINE R == {ss \in Nat \X Nat : ss[1] < ss[2]}
<1>1. IsWellFoundedOn(R, Nat)
  BY NatLessThanWellFounded DEF OpToRel
<1>2. PICK n \in T : \A m \in T : <<m, n>> \notin R
  <2> HIDE DEF R
  <2> QED BY <1>1, WFMin
<1>3. \A m \in T : ~(m < n)
  BY <1>2
<1> QED BY <1>2, <1>3

\* The facts one hop before those of S.
Before(S) == {f \in Facts : superseded_by[f] \in S \cup {None}}

Roots == {f \in Facts : superseded_by[f] = None}

\* g lists the sets of facts that end within 0, 1, ..., n hops.
Lists(g, n) == /\ g \in [0..n -> SUBSET Facts] /\ g[0] = Roots
               /\ \A i \in 1..n : g[i] = Before(g[i - 1])

\* There is such a list of any length ...
LEMMA ListExists == \A n \in Nat : \E g : Lists(g, n)
<1> DEFINE T == {n \in Nat : ~ \E g : Lists(g, n)}
<1> SUFFICES ASSUME T # {} PROVE FALSE
  OBVIOUS
<1>1. PICK n \in T : \A m \in T : n <= m
  BY LeastElement
<1>2. n \in Nat /\ ~ \E g : Lists(g, n)
  BY <1>1
<1>3. CASE n = 0
  <2>1. Lists([i \in 0..0 |-> Roots], 0)
    BY DEF Lists, Roots
  <2> QED BY <1>2, <1>3, <2>1
<1>4. CASE n # 0
  <2>1. n - 1 \in Nat /\ n - 1 \notin T
    BY <1>1, <1>2, <1>4
  <2>2. PICK g : Lists(g, n - 1)
    BY <2>1
  <2> DEFINE h == [i \in 0..n |-> IF i = n THEN Before(g[n - 1]) ELSE g[i]]
  <2>3. \A i \in 0..n : i # n => i \in 0..(n - 1)
    BY <1>2
  <2>4. h \in [0..n -> SUBSET Facts]
    BY <2>2, <2>3 DEF Lists, Before
  <2>5. h[0] = Roots
    BY <1>2, <1>4, <2>2 DEF Lists
  <2>6. ASSUME NEW i \in 1..n PROVE h[i] = Before(h[i - 1])
    <3>1. i - 1 \in 0..n /\ i - 1 # n /\ i \in 0..n
      BY <1>2
    <3>2. CASE i = n
      BY <3>1, <3>2
    <3>3. CASE i # n
      <4>1. i \in 1..(n - 1)
        BY <1>2, <3>3
      <4> QED BY <2>2, <3>1, <3>3, <4>1 DEF Lists
    <3> QED BY <3>2, <3>3
  <2>7. Lists(h, n)
    BY <2>4, <2>5, <2>6 DEF Lists
  <2> QED BY <1>2, <2>7
<1> QED BY <1>3, <1>4

\* ... so that EndsWithin is the one as long as there are facts.
LEMMA EndsWithinDef ==
  LET N == Cardinality(Facts)
  IN  /\ N \in Nat /\ EndsWithin[0] = Roots
      /\ \A i \in 1..N : EndsWithin[i] = Before(EndsWithin[i - 1])
<1> DEFINE N == Cardinality(Facts)
           F(g) == [n \in 0..N |-> IF n = 0 THEN {f \in Facts : superseded_by[f] = None}
                        ELSE {f \in Facts : superseded_by[f] \in g[n - 1] \cup {None}}]
<1>1. N \in Nat
  BY ReconcileAssumption, FS_CardinalityType
<1> HIDE DEF N
<1>2. PICK g : Lists(g, N)
  BY <1>1, ListExists
<1>3. g = F(g)
  <2>1. g = [n \in 0..N |-> g[n]]
    BY <1>2 DEF Lists
  <2>2. ASSUME NEW n \in 0..N
        PROVE  g[n] = IF n = 0 THEN {f \in Facts : superseded_by[f] = None}
                      ELSE {f \in Facts : superseded_by[f] \in g[n - 1] \cup {None}}
    <3>1. n # 0 => n \in 1..N
      BY <1>1
    <3> QED BY <1>2, <3>1 DEF Lists, Roots, Before
  <2> QED BY <2>1, <2>2
<1>4. EndsWithin = F(EndsWithin)
  <2>1. EndsWithin = CHOOSE e : e = F(e)
    BY DEF EndsWithin, N
  <2> HIDE DEF F
  <2> QED BY <1>3, <2>1
<1>5. EndsWithin[0] = Roots
  BY <1>1, <1>4 DEF Roots
<1>6. ASSUME NEW i \in 1..N PROVE EndsWithin[i] = Before(EndsWithin[i - 1])
  <2>1. i \in 0..N /\ i # 0
    BY <1>1
  <2>2. F(EndsWithin)[i] = Before(EndsWithin[i - 1])
    BY <2>1 DEF Before
  <2> HIDE DEF F
  <2> QED BY <1>4, <2>2
<1> QED BY <1>1, <1>5, <1>6 DEF N

\* The facts that are newer than f: the hops left to a chain that leads to
\* newer facts only.
Newer(f) == {g \in Facts : g > f}

\* A fact with at most n newer ones is at most n hops from its survivor.
LEMMA EndsInTime ==
  ASSUME IInv, LeadsToNewer, NewerWins
  PROVE  \A n \in 0..Cardinality(Facts) : \A f \in Facts :
            Cardinality(Newer(f)) <= n => f \in EndsWithin[n]
<1> DEFINE N == Cardinality(Facts)
           Late(n) == \E f \in Facts : Cardinality(Newer(f)) <= n /\ f \notin EndsWithin[n]
           T == {n \in 0..N : Late(n)}
<1> SUFFICES ASSUME T # {} PROVE FALSE
  OBVIOUS
<1>1. /\ N \in Nat /\ EndsWithin[0] = Roots
      /\ \A i \in 1..N : EndsWithin[i] = Before(EndsWithin[i - 1])
  BY EndsWithinDef
<1> HIDE DEF N
<1>2. PICK n \in T : \A m \in T : n <= m
  <2>1. T \in SUBSET Nat
    BY <1>1
  <2> QED BY <2>1, LeastElement
<1>3. n \in 0..N /\ n \in Nat
  BY <1>1, <1>2
<1>4. PICK f \in Facts : Cardinality(Newer(f)) <= n /\ f \notin EndsWithin[n]
  BY <1>2
<1>5. \A g \in Facts : IsFiniteSet(Newer(g)) /\ Cardinality(Newer(g)) \in Nat
  BY ReconcileAssumption, FS_Subset, FS_CardinalityType DEF Newer
<1>6. superseded_by[f] # None
  <2>1. n # 0 => n \in 1..N
    BY <1>3
  <2> QED BY <1>1, <1>4, <2>1 DEF Roots, Before
<1> DEFINE g == superseded_by[f]
<1>7. g \in Facts /\ g > f
  BY <1>6 DEF IInv, WinnersAreFacts, LeadsToNewer
<1> HIDE DEF g
<1>8. Cardinality(Newer(g)) <= Cardinality(Newer(f)) - 1
  <2>1. g \in Newer(f) /\ g \notin Newer(g)
    BY <1>7, ReconcileAssumption DEF Newer
  <2>2. Newer(g) \subseteq Newer(f) \ {g}
    <3>1. \A i, j, k \in Nat : i > j /\ j > k => i > k /\ i # j
      OBVIOUS
    <3>2. f \in Nat /\ g \in Nat /\ Facts \subseteq Nat
      BY <1>7, ReconcileAssumption
    <3> QED BY <1>7, <3>1, <3>2 DEF Newer
  <2>3. /\ IsFiniteSet(Newer(f) \ {g})
        /\ Cardinality(Newer(f) \ {g}) = Cardinality(Newer(f)) - 1
    BY <1>5, <2>1, FS_RemoveElement
  <2> QED BY <2>2, <2>3, FS_Subset
<1>9. n \in 1..N /\ n - 1 \in 0..N /\ Cardinality(Newer(g)) <= n - 1
  BY <1>1, <1>3, <1>4, <1>5, <1>7, <1>8
<1>10. n - 1 \notin T
  BY <1>2, <1>3
<1>11. g \in EndsWithin[n - 1]
  BY <1>7, <1>9, <1>10
<1>12. f \in EndsWithin[n]
  BY <1>1, <1>9, <1>11 DEF Before, g
<1> QED BY <1>4, <1>12

\* When the newer fact always wins, superseded_by leads from every fact to one
\* that is not superseded, however passes are interleaved.
THEOREM ChainsEnd == Spec => [](NewerWins => ChainsEndInSurvivor)
<1>1. IInv /\ LeadsToNewer => (NewerWins => ChainsEndInSurvivor)
  <2> SUFFICES ASSUME IInv, LeadsToNewer, NewerWins, NEW f \in exists
               PROVE  f \in EndsWithin[Cardinality(Facts)]
    BY DEF ChainsEndInSurvivor
  <2>1. f \in Facts
    BY DEF IInv, TypeOK
  <2>2. Cardinality(Facts) \in Nat /\ Cardinality(Newer(f)) <= Cardinality(Facts)
    BY ReconcileAssumption, FS_Subset, FS_CardinalityType DEF Newer
  <2>3. Cardinality(Facts) \in 0..Cardinality(Facts)
    BY <2>2
  <2> QED BY <2>1, <2>2, <2>3, EndsInTime
<1> QED BY <1>1, Invariance, ChainsLeadToNewer, PTL
=============================================================================
