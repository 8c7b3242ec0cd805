------------------------------ MODULE RowStore ------------------------------
(***************************************************************************)
(* What a repository promises its clients, with neither versions nor       *)
(* hashes nor calls of several transactions: rows appear under an id once, *)
(* a client sees and changes only what its scope reaches, it replaces the  *)
(* content of a row only if the row is, value for value, the one it has    *)
(* seen, marks are final, and what is removed never comes back.            *)
(* MemoryTable implements it.                                              *)
(***************************************************************************)
CONSTANTS Clients, Ids, Contents, Scopes, None,
          Reach           \* the pairs of a client and a scope it reaches

VARIABLES rows,    \* the rows there are, by their ids
          used,    \* the ids there have ever been
          view     \* per client: the row it has seen last, or nothing

vars == <<rows, used, view>>

Value == [scope : Scopes, content : Contents, deleted : BOOLEAN,
          superseded_by : Ids \cup {None}]
Seen(i, v) == {[id |-> i, value |-> v]}

Reaches(c, i) == i \in DOMAIN rows /\ <<c, rows[i].scope>> \in Reach
Live(i) == i \in DOMAIN rows /\ ~rows[i].deleted

Fresh(c, v) == /\ v \in Value /\ <<c, v.scope>> \in Reach
               /\ ~v.deleted /\ v.superseded_by = None

Init == rows = [i \in {} |-> {}] /\ used = {} /\ view = [c \in Clients |-> {}]

\* New rows under new ids, one of which the client may be shown.
Insert(c) ==
    \E S \in SUBSET (Ids \ used) :
       /\ DOMAIN rows' = DOMAIN rows \cup S
       /\ \A i \in DOMAIN rows : rows'[i] = rows[i]
       /\ \A i \in S : Fresh(c, rows'[i])
       /\ used' = used \cup S
       /\ \/ view' = view
          \/ \E i \in S : view' = [view EXCEPT ![c] = Seen(i, rows'[i])]

\* A live row in reach, or nothing.
Read(c) ==
    /\ \/ view' = [view EXCEPT ![c] = {}]
       \/ \E i \in Ids : /\ Live(i) /\ Reaches(c, i)
                         /\ view' = [view EXCEPT ![c] = Seen(i, rows[i])]
    /\ UNCHANGED <<rows, used>>

\* Compare and set.
Replace(c) ==
    \E s \in view[c], x \in Contents :
       LET new == [s.value EXCEPT !.content = x] IN
       /\ Live(s.id) /\ Reaches(c, s.id) /\ rows[s.id] = s.value
       /\ rows' = [rows EXCEPT ![s.id] = new]
       /\ view' = [view EXCEPT ![c] = Seen(s.id, new)]
       /\ UNCHANGED used

Forget(c) ==
    \E i \in Ids :
       /\ Live(i) /\ Reaches(c, i)
       /\ rows' = [rows EXCEPT ![i].deleted = TRUE]
       /\ UNCHANGED <<used, view>>

Supersede(c) ==
    \E i, w \in Ids :
       /\ Live(i) /\ Reaches(c, i) /\ rows[i].superseded_by = None
       /\ rows' = [rows EXCEPT ![i].superseded_by = w]
       /\ UNCHANGED <<used, view>>

Remove(c) ==
    \E S \in SUBSET Ids :
       /\ \A i \in S : Reaches(c, i)
       /\ rows' = [i \in DOMAIN rows \ S |-> rows[i]]
       /\ UNCHANGED <<used, view>>

Next == \E c \in Clients : \/ Insert(c) \/ Read(c) \/ Replace(c)
                           \/ Forget(c) \/ Supersede(c) \/ Remove(c)

Spec == Init /\ [][Next]_vars
=============================================================================
