--------------------------- MODULE MCMemoryTable ---------------------------
(* A user of an agent and an operator whose scope names no user, so that   *)
(* the operator reaches the user's rows and the user none of the operator's.*)
EXTENDS MemoryTable, TLC
CONSTANTS a, t, u1, alice, operator, x1, x2, h1, h2

MCAgents == {a}
MCTenants == {t}
MCUsers == {u1}
MCThreads == {}

UserScope(u) == [tenant_id |-> t, agent_id |-> a, user_id |-> u,
                 thread_id |-> None]

MCScopeOf == [c \in {alice, operator} |->
                 IF c = alice THEN UserScope(u1) ELSE UserScope(None)]
MCHash == [x \in {x1, x2} |-> IF x = x1 THEN h1 ELSE h2]
\* semantic_facts and working_memory; the other tables lie between them.
Facts == [DEDUP_ON_WRITE |-> TRUE, HAS_SUPERSESSION |-> TRUE,
          HAS_CONSOLIDATED_AT |-> FALSE]
WorkingMemory == [DEDUP_ON_WRITE |-> FALSE, HAS_SUPERSESSION |-> FALSE,
                  HAS_CONSOLIDATED_AT |-> TRUE]
FactsOrWorkingMemory == {Facts, WorkingMemory}

IdSymmetry == Permutations(Ids)
=============================================================================
