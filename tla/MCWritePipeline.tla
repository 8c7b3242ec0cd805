-------------------------- MODULE MCWritePipeline --------------------------
(* A user of an agent and an operator whose scope names no user, so that    *)
(* the operator reaches the user's rows and the user none of the operator's.*)
EXTENDS WritePipeline, TLC
CONSTANTS a, u1, alice, operator

Scope(u) == [tenant_id |-> None, agent_id |-> a, user_id |-> u, thread_id |-> None]
EachItsScope == alice :> Scope(u1) @@ operator :> Scope(None)
FewCalls == alice :> 3 @@ operator :> 1
IdSymmetry == Permutations(Ids)
=============================================================================
