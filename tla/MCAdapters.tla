----------------------------- MODULE MCAdapters -----------------------------
(* Two clients, a thread or user and no one, more rows than a page holds.   *)
EXTENDS Adapters, TLC
CONSTANTS c1, c2, u1, x1, x2, k1
Symmetry == Permutations({c1, c2}) \cup Permutations({x1, x2})

\* Forgotten rows stay forgotten: what the histories say of them no longer
\* matters to OneRowPerKey.
LiveBasis == [b \in {x \in DOMAIN basis : Live(x)} |-> {a \in basis[b] : Live(a)}]
LiveMissed == [c \in Clients |-> missed[c] \ {a \in DOMAIN rows : rows[a].deleted}]
Relevant == <<dedups, listingVars, sessionVars, LiveBasis, LiveMissed>>
=============================================================================
