------------------------------ MODULE Adapters ------------------------------
(***************************************************************************)
(* The two kinds of clients of a listed table: conversations in            *)
(* working_memory, the only table without deduplication, and keys and      *)
(* identities in a table with it.                                          *)
(***************************************************************************)
EXTENDS Session, KeyValue

vars == <<dedups, listingVars, sessionVars, keyValueVars>>

Init == ListingInit /\ SessionInit /\ KeyValueInit

Next == /\ UNCHANGED dedups
        /\ \E c \in Clients :
              \/ ~dedups /\ SessionCall(c) /\ UNCHANGED keyValueVars
              \/ dedups /\ KeyValueCall(c) /\ UNCHANGED sessionVars

Spec == Init /\ [][Next]_vars
-----------------------------------------------------------------------------
\* Every variable has its type.
TypeOK == ListingTypeOK /\ SessionTypeOK /\ KeyValueTypeOK

\* A row of one thread or user changes only by a call whose scope is that
\* thread or user, or that has none: a session without an id clears them all,
\* and add_agent() may overwrite the profile of a user.
OwnersApart ==
    [][\A a \in DOMAIN rows : rows'[a] # rows[a] =>
          \E c \in Clients : /\ a \in todo[c] \cup {held[c]}
                             /\ op[c].scope \in {NoOwner, rows[a].owner}]_vars

\* What the next reader of the key finds once a call of c is over: the row that
\* mset() has updated or inserted; none, if a row of another key has the value;
\* after mdelete(), none or an older row.
Decides(c, s, k) ==
    /\ \A kind \in {"mset", "fallback"}, x \in Contents : op[c] = Op(kind, s, k, x) =>
          /\ Update(c) => FindByKey(s, k)' = held[c] /\ rows'[held[c]].content = x
          /\ InsertRow(c) => FindByKey(s, k)' = draft[c] /\ rows'[draft[c]].content = x
          /\ kind = "mset" /\ StampRow(c) /\ pc'[c] = "idle" => FindByKey(s, k)' = 0
    /\ op[c] = Op("mdelete", s, k, NoContent) /\ Remove(c)
       => FindByKey(s, k)' < held[c]

\* What the next reader of a key finds is what the last writer, if nobody else
\* writes meanwhile, has left: mget() finds the row that mset() has written, and
\* no other of the key; an mset() that create() answers with a row of the same
\* value, whatever its key, leaves its own key unset; and a key that mdelete()
\* has deleted comes back only with a row older than the deleted one.
LastCallDecides ==
    [][\A c \in quiet, s \in Scopes, k \in Keys : Decides(c, s, k)]_vars
=============================================================================
