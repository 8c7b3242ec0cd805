------------------------------ MODULE KeyValue ------------------------------
(***************************************************************************)
(* Db2MemoryStore (LangChain) on entity_profiles, and the identity         *)
(* profiles that MemoryStore keeps in the same table.  (By default the     *)
(* store's table is facts, which the profiles are not in.)  mset() and     *)
(* mdelete() take one key at a time, so a call here has one key.           *)
(***************************************************************************)
EXTENDS Listing

VARIABLES
    \* history
    missed,    \* per client: the rows of its key that its mset() could not
               \* have found, or found and failed to update
    basis      \* per row: what the mset() that inserted it had missed

keyValueVars == <<missed, basis>>

KeyValueInit == missed = [c \in Clients |-> {}] /\ basis = [a \in {} |-> {}]

RowsOfKey(s, k) == {a \in Visible(s) : rows[a].key = k}

\* A variant of _find_by_key() that returns the last match.
FindOldest(s, k) ==
    LET match == {a \in ListAll(s, PageLimit) : rows[a].key = k} IN
    IF match = {} THEN 0 ELSE Oldest(match)

\* A variant that looks at the newest row only.
FindInNewest(s, k) ==
    LET match == {a \in ListAll(s, 1) : rows[a].key = k} IN
    IF match = {} THEN 0 ELSE Newest(match)

\* _find_by_key(): the first match in the newest page, or none.
FindByKey(s, k) ==
    LET match == {a \in ListAll(s, PageLimit) : rows[a].key = k} IN
    IF match = {} THEN 0 ELSE Newest(match)

\* A record that has been found is updated, otherwise one is created.
Upsert(c, o, found) == /\ Begin(c, o, found, IF found = 0 THEN "create" ELSE "update")
                       /\ UNCHANGED basis

Mset(c, s, k, x) ==
    /\ Upsert(c, Op("mset", s, k, x), FindByKey(s, k))
    /\ missed' = [missed EXCEPT ![c] = RowsOfKey(s, k) \ ListAll(s, PageLimit)]

\* An identity profile is the newest row of the scope, whatever that is.
AddIdentity(c, s, x) ==
    /\ Upsert(c, Op("identity", s, NoKey, x),
              IF Visible(s) = {} THEN 0 ELSE Newest(Visible(s)))
    /\ UNCHANGED missed

AddUser(c, user_id, x) == AddIdentity(c, user_id, x)

\* add_agent() looks with no user, which reaches the rows of all of them.
AddAgent(c, x) == AddIdentity(c, NoOwner, x)

\* The call ends, and with it what it has missed.
Forgotten(c) == missed' = [missed EXCEPT ![c] = {}]

\* update(): the content is replaced; key, owner and created_at stay.
Update(c) ==
    /\ pc[c] = "update" /\ c \notin stale
    /\ Live(held[c]) /\ Reaches(op[c].scope, held[c])
    /\ rows' = [rows EXCEPT ![held[c]].content = op[c].content]
    /\ Committed(c, held[c])
    /\ End(c) /\ Forgotten(c)
    /\ UNCHANGED <<clock, basis>>

\* StaleWriteError, or any other exception of update(): mset() creates a new
\* row.  (The identity methods raise.)
UpdateFails(c) ==
    /\ pc[c] = "update" /\ op[c].kind = "mset"
    /\ pc' = [pc EXCEPT ![c] = "create"]
    /\ op' = [op EXCEPT ![c].kind = "fallback"]
    /\ held' = [held EXCEPT ![c] = 0] /\ stale' = stale \ {c}
    /\ missed' = [missed EXCEPT ![c] = RowsOfKey(op[c].scope, op[c].key)]
    /\ UNCHANGED <<rows, clock, draft, quiet, saw, basis>>

StampRow(c) == /\ Stamp(c)
               /\ IF pc'[c] = "idle" THEN Forgotten(c) ELSE UNCHANGED missed
               /\ UNCHANGED basis

\* A call that has listed the rows of its key, and may insert one.
Setting(c) == pc[c] \in {"update", "create", "insert"} /\ op[c].key # NoKey

\* The others of its key that have listed by now have not seen the row.
InsertRow(c) ==
    /\ Insert(c) /\ End(c)
    /\ basis' = [a \in DOMAIN basis \cup {draft[c]} |->
                   IF a = draft[c] THEN missed[c] ELSE basis[a]]
    /\ missed' = [d \in Clients |-> IF d = c THEN {}
                                    ELSE IF Setting(d) /\ op[d].key = op[c].key
                                    THEN missed[d] \cup {draft[c]}
                                    ELSE missed[d]]

\* mdelete(): the row is looked up, and forgotten if there is one.
Mdelete(c, s, k) ==
    /\ FindByKey(s, k) # 0
    /\ Begin(c, Op("mdelete", s, k, NoContent), FindByKey(s, k), "remove")
    /\ UNCHANGED keyValueVars

KeyValueCall(c) ==
    \/ \E s \in Scopes :
         \/ \E k \in Keys : (\E x \in Contents : Mset(c, s, k, x)) \/ Mdelete(c, s, k)
         \/ \E a \in Visible(s) : Delete(c, s, a) /\ UNCHANGED keyValueVars
    \/ \E x \in Contents : (\E u \in Owners : AddUser(c, u, x)) \/ AddAgent(c, x)
    \/ Update(c) \/ UpdateFails(c) \/ StampRow(c) \/ InsertRow(c)
    \/ (Remove(c) \/ Break(c)) /\ Forgotten(c) /\ UNCHANGED basis

-----------------------------------------------------------------------------
KeyValueTypeOK == /\ missed \in [Clients -> SUBSET Stamps]
                  /\ DOMAIN basis \subseteq DOMAIN rows

\* Two live rows of one owner have one key for one of three reasons: the mset()
\* that inserted the later of them had listed a page that the other was too old
\* for, had listed before the other was committed, or had failed to update.
\* Whichever was stamped first: the stamps are not the order of the commits.
OneRowPerKey ==
    \A a, b \in DOMAIN basis :
       /\ a # b /\ Live(a) /\ Live(b) /\ rows[a].owner = rows[b].owner
       /\ rows[a].key = rows[b].key /\ rows[a].key # NoKey
       => a \in basis[b] \/ b \in basis[a]
=============================================================================
