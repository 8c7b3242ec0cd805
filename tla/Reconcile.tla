----------------------------- MODULE Reconcile -----------------------------
(***************************************************************************)
(* MemoryStore.reconcile() over the facts of one scope.  A pass lists the  *)
(* live facts in one transaction, hands them to the Reconciler, and applies*)
(* its decisions one transaction at a time; other passes, and users who    *)
(* forget or add facts, run in between.  The Reconciler is user code: its  *)
(* answer is any sequence of decisions, over ids that may not exist.       *)
(* Facts of this model do not expire.                                      *)
(***************************************************************************)
EXTENDS Naturals, Sequences, FiniteSets

CONSTANTS Passes,
          Facts,        \* ids of facts, numbered in the order of creation
          Unknown,      \* an id the Reconciler made up
          None,
          NewerWins,    \* the Reconciler always lets the newer fact win
          MaxDecisions  \* bound on the decisions of one pass

ASSUME ReconcileAssumption ==
    /\ Facts \subseteq Nat /\ IsFiniteSet(Facts)
    /\ Unknown \notin Facts /\ None \notin Facts \cup {Unknown}
    /\ NewerWins \in BOOLEAN /\ MaxDecisions \in Nat

VARIABLES
    exists, deleted,    \* the facts ever inserted, and those forgotten: of
                        \* the latter, purged or not, no step reads more
    superseded_by,      \* per fact: the winner written on it, or None
    pc, batch,          \* per pass: its phase, and candidate_ids
    left,               \* per pass: how many decisions are left to apply
    applied,            \* per pass: the list reconcile() returns, as a set
    taken               \* per pass, history: the facts that others have
                        \* forgotten or superseded since it listed

vars == <<exists, deleted, superseded_by, pc, batch, left, applied, taken>>

Decision == [winner_id : Facts \cup {Unknown}, loser_id : Facts \cup {Unknown}]

\* What this Reconciler may decide.
Decisions == {d \in Decision :
                 NewerWins => \/ Unknown \in {d.winner_id, d.loser_id}
                              \/ d.winner_id >= d.loser_id}

LiveFacts == {f \in exists \ deleted : superseded_by[f] = None}

Init == /\ exists = {} /\ deleted = {}
        /\ superseded_by = [f \in Facts |-> None]
        /\ pc = [p \in Passes |-> "idle"]
        /\ batch = [p \in Passes |-> {}]
        /\ left = [p \in Passes |-> 0]
        /\ applied = [p \in Passes |-> {}]
        /\ taken = [p \in Passes |-> {}]

-----------------------------------------------------------------------------
\* Another caller writes the next fact, or forgets one.
AddFact(f) ==
    /\ f \notin exists /\ \A g \in Facts : g < f => g \in exists
    /\ exists' = exists \cup {f}
    /\ UNCHANGED <<deleted, superseded_by, pc, batch, left, applied, taken>>

ForgetFact(f) ==
    /\ f \in exists \ deleted
    /\ deleted' = deleted \cup {f}
    /\ taken' = [p \in Passes |-> taken[p] \cup {f}]
    /\ UNCHANGED <<exists, superseded_by, pc, batch, left, applied>>

\* list_all(): the most recent `limit` of the live facts.
ListCandidates(p) ==
    /\ pc[p] = "idle"
    /\ \E S \in SUBSET LiveFacts :
          /\ \A f \in S, g \in LiveFacts : g > f => g \in S
          /\ batch' = [batch EXCEPT ![p] = S]
    /\ pc' = [pc EXCEPT ![p] = "deciding"]
    /\ applied' = [applied EXCEPT ![p] = {}]
    /\ taken' = [taken EXCEPT ![p] = {}]
    /\ UNCHANGED <<exists, deleted, superseded_by, left>>

\* The Reconciler answers a list of so many decisions, chosen one by one in
\* Apply; an exception it raises is an empty list.
Decide(p) ==
    /\ pc[p] = "deciding"
    /\ \E n \in 0..MaxDecisions : left' = [left EXCEPT ![p] = n]
    /\ pc' = [pc EXCEPT ![p] = "applying"]
    /\ UNCHANGED <<exists, deleted, superseded_by, batch, applied, taken>>

\* Variants of the guards: without (a), without (b).
AcceptsSelf(p, d) == d.winner_id \in batch[p]
AcceptsUnknown(p, d) == d.winner_id # d.loser_id

\* Guards (a) and (b): no self-supersession, and the winner is a candidate.
\* The loser need not be one.
Accepts(p, d) == d.winner_id # d.loser_id /\ d.winner_id \in batch[p]

\* A variant of supersede() without `superseded_at IS NULL`.
QualifiesAgain(f) == f \in exists \ deleted

\* The WHERE clause of supersede().
Qualifies(f) == f \in exists \ deleted /\ superseded_by[f] = None

\* A turn of the loop whose UPDATE finds the loser.
Apply(p, d) ==
    /\ pc[p] = "applying" /\ left[p] > 0
    /\ Accepts(p, d) /\ Qualifies(d.loser_id)
    /\ superseded_by' = [superseded_by EXCEPT ![d.loser_id] = d.winner_id]
    /\ applied' = [applied EXCEPT ![p] = @ \cup {d}]
    /\ left' = [left EXCEPT ![p] = @ - 1]
    /\ taken' = [q \in Passes |-> IF q = p THEN taken[q] ELSE taken[q] \cup {d.loser_id}]
    /\ UNCHANGED <<exists, deleted, pc, batch>>

\* A turn that changes nothing: a guard refuses the decision, the UPDATE
\* misses the loser, or it raises, which may befall any decision.
SkipDecision(p) ==
    /\ pc[p] = "applying" /\ left[p] > 0
    /\ left' = [left EXCEPT ![p] = @ - 1]
    /\ UNCHANGED <<exists, deleted, superseded_by, pc, batch, applied, taken>>

\* reconcile() returns `applied`.
Return(p) ==
    /\ pc[p] = "applying" /\ left[p] = 0
    /\ pc' = [pc EXCEPT ![p] = "returned"]
    /\ UNCHANGED <<exists, deleted, superseded_by, batch, left, applied, taken>>

Next == \/ \E f \in Facts : AddFact(f) \/ ForgetFact(f)
        \/ \E p \in Passes : \/ ListCandidates(p) \/ Decide(p)
                             \/ \E d \in Decisions : Apply(p, d)
                             \/ SkipDecision(p) \/ Return(p)

Spec == Init /\ [][Next]_vars

-----------------------------------------------------------------------------
\* Every variable has its type.
TypeOK ==
    /\ exists \subseteq Facts /\ deleted \subseteq exists
    /\ superseded_by \in [Facts -> Facts \cup {Unknown, None}]
    /\ pc \in [Passes -> {"idle", "deciding", "applying", "returned"}]
    /\ batch \in [Passes -> SUBSET Facts]
    /\ left \in [Passes -> 0..MaxDecisions]
    /\ applied \in [Passes -> SUBSET Decision]
    /\ taken \in [Passes -> SUBSET Facts]

\* "This row is left untouched" (types.py, of a winner): the winner of a decision
\* that a pass reports is still a live fact, although candidate_ids is not read
\* again, unless others have forgotten or superseded it since the pass listed,
\* or the pass itself reports that it lost to another fact.
LosersKeepAWinner ==
    \A p \in Passes : \A d \in applied[p] :
        \/ d.winner_id \in LiveFacts \cup taken[p]
        \/ \E e \in applied[p] \ {d} : e.loser_id = d.winner_id

\* What a pass returns as applied is what the table says, also after other
\* passes have gone over the same facts: no supersession is written over, and
\* of two passes that decide on one loser a single one reports it.
ReportedDecisionsHold ==
    /\ \A p \in Passes : \A d \in applied[p] :
          superseded_by[d.loser_id] = d.winner_id
    /\ \A p, q \in Passes : p # q =>
          \A d \in applied[p], e \in applied[q] :
              d.loser_id # e.loser_id

\* The facts from which at most n hops lead to one that no pass has superseded.
EndsWithin[n \in 0..Cardinality(Facts)] ==
    IF n = 0 THEN {f \in Facts : superseded_by[f] = None}
    ELSE {f \in Facts : superseded_by[f] \in EndsWithin[n - 1] \cup {None}}

\* Following superseded_by from any fact leads, in at most as many hops as
\* there are facts, to one that no pass has superseded: contradictory facts
\* are never all superseded, when the newer one always wins.
ChainsEndInSurvivor == exists \subseteq EndsWithin[Cardinality(Facts)]
=============================================================================
