----------------------------- MODULE MCErasure -----------------------------
(* One agent and one thread-less population: what a user_id or a tenant_id  *)
(* does to a scope, a thread_id does too.                                   *)
EXTENDS Erasure, TLC

CONSTANTS a1

AnyScope == MemoryScope
UserScopes == {s \in MemoryScope : s.user_id # None}
NoTenant == {s \in UserScopes : s.tenant_id = None}
Symmetric == Permutations(Calls) \cup Permutations(Clients) \cup Permutations(Erasers)
=============================================================================
