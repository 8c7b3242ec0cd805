------------------------------- MODULE Scope -------------------------------
(***************************************************************************)
(* MemoryScope, the value object every repository call carries, and the    *)
(* WHERE fragment the repositories build from it.  A call whose agent_id   *)
(* is missing raises before it touches the database, so the calls modelled *)
(* always carry one.                                                       *)
(***************************************************************************)
CONSTANTS Agents, Tenants, Users, Threads,
          None      \* Python's None / SQL's NULL in an optional scope column

ASSUME NoneIsNoValue == None \notin Tenants \cup Users \cup Threads

MemoryScope == [tenant_id : Tenants \cup {None}, agent_id : Agents,
                user_id : Users \cup {None}, thread_id : Threads \cup {None}]

\* agent_id is always compared; a None column of the caller's scope adds no
\* predicate, so a broader scope reaches every row of the narrower ones.
ScopePredicates(scope, row) ==
    /\ row.agent_id = scope.agent_id
    /\ scope.tenant_id \in {None, row.tenant_id}
    /\ scope.user_id   \in {None, row.user_id}
    /\ scope.thread_id \in {None, row.thread_id}
=============================================================================
