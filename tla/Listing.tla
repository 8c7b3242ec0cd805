------------------------------- MODULE Listing -------------------------------
(***************************************************************************)
(* A repository table as the adapters and the identity methods use it:     *)
(* list_all() newest first with a limit, then create(), update() or        *)
(* forget() in a transaction of their own.  The modules Session and        *)
(* KeyValue are its clients.                                               *)
(*                                                                         *)
(* create() takes `now` before its first statement and stores it as        *)
(* created_at with the INSERT, after the embedding has been computed: a    *)
(* row is named by that stamp, and rows may be committed in another order. *)
(* `owner` is the scope column that tells the rows apart: the thread in    *)
(* working_memory, the user in entity_profiles.  The version of a row is   *)
(* modelled by what update() compares it for: `stale` says of which        *)
(* clients the row they read has been written since.                       *)
(***************************************************************************)
EXTENDS Naturals, FiniteSets

CONSTANTS Clients,
          Owners, NoOwner,   \* a column of the scope, and Python's None
          Keys, NoKey,       \* metadata["store_key"], when there is one
          Contents, NoContent,   \* a message's content is left out
          PageLimit,         \* 1000 in the code
          MaxRows            \* bound on the rows ever stamped

ASSUME ListingAssumption ==
    /\ NoOwner \notin Owners /\ NoKey \notin Keys /\ NoContent \notin Contents
    /\ PageLimit \in Nat \ {0} /\ MaxRows \in Nat

Scopes == Owners \cup {NoOwner}
Stamps == 1..MaxRows

VARIABLES
    dedups,     \* _DEDUP_ON_WRITE of the table: it never changes
    rows,       \* the committed rows by their stamps
    clock,      \* the stamps given so far
    pc, op,     \* per client: the next step and the call it belongs to
    held,       \* per client: the row that its call has read, or 0
    draft,      \* per client: the row that create() is about to insert, or 0
    stale,      \* the clients whose row has been written since they read it
    \* history
    quiet,      \* the clients since whose list nobody has committed
    saw         \* per client: the page its clear listed

listingVars == <<rows, clock, pc, op, held, draft, stale, quiet, saw>>

\* The call: its method, the scope it builds and its arguments.
Op(kind, scope, key, content) ==
    [kind |-> kind, scope |-> scope, key |-> key, content |-> content]

NoOp == Op("none", NoOwner, NoKey, NoContent)

ListingInit ==
    /\ dedups \in BOOLEAN
    /\ rows = [a \in {} |-> {}]
    /\ clock = 0
    /\ pc = [c \in Clients |-> "idle"]
    /\ op = [c \in Clients |-> NoOp]
    /\ held = [c \in Clients |-> 0]
    /\ draft = [c \in Clients |-> 0]
    /\ stale = {}
    /\ quiet = {}
    /\ saw = [c \in Clients |-> {}]

Live(a) == a \in DOMAIN rows /\ ~rows[a].deleted

\* A variant whose predicate leaves the column out.
ReachesAll(s, a) == s = s

Reaches(s, a) == s \in {NoOwner, rows[a].owner}

Visible(s) == {a \in DOMAIN rows : Live(a) /\ Reaches(s, a)}

\* list_all(): at most n rows, the newest ones.
ListAll(s, n) ==
    {a \in Visible(s) : Cardinality({b \in Visible(s) : b > a}) < n}

Newest(S) == CHOOSE a \in S : \A b \in S : b <= a
Oldest(S) == CHOOSE a \in S : \A b \in S : a <= b

-----------------------------------------------------------------------------
\* c begins the call o, which lists; `read` is the row it goes on with.
Begin(c, o, read, label) ==
    /\ pc[c] = "idle"
    /\ pc' = [pc EXCEPT ![c] = label]
    /\ op' = [op EXCEPT ![c] = o]
    /\ held' = [held EXCEPT ![c] = read]
    /\ quiet' = quiet \cup {c}
    /\ saw' = [saw EXCEPT ![c] = IF o.kind = "clear"
                                  THEN ListAll(o.scope, PageLimit) ELSE {}]
    /\ UNCHANGED <<rows, clock, draft, stale>>

\* The call of c ends.
End(c) ==
    /\ pc' = [pc EXCEPT ![c] = "idle"]
    /\ op' = [op EXCEPT ![c] = NoOp]
    /\ held' = [held EXCEPT ![c] = 0]
    /\ draft' = [draft EXCEPT ![c] = 0]
    /\ saw' = [saw EXCEPT ![c] = {}]

\* The commit of a change to row a: other lists and reads of it are outdated.
Committed(c, a) ==
    /\ quiet' = {}
    /\ stale' = (stale \ {c}) \cup {d \in Clients \ {c} : held[d] = a}

\* A step of c without a commit that ends its call.
Finished(c) == quiet' = quiet \ {c} /\ stale' = stale \ {c}

\* create(): the time is taken, then the content is looked up; a row that has
\* it is returned as it is.
Stamp(c) ==
    /\ pc[c] = "create" /\ clock < MaxRows
    /\ IF dedups /\ \E a \in Visible(op[c].scope) : rows[a].content = op[c].content
       THEN End(c) /\ Finished(c) /\ UNCHANGED clock
       ELSE /\ clock' = clock + 1
            /\ draft' = [draft EXCEPT ![c] = clock + 1]
            /\ pc' = [pc EXCEPT ![c] = "insert"]
            /\ UNCHANGED <<op, held, stale, quiet, saw>>
    /\ UNCHANGED rows

\* The INSERT of create().
Insert(c) ==
    /\ pc[c] = "insert"
    /\ rows' = [a \in DOMAIN rows \cup {draft[c]} |->
                  IF a # draft[c] THEN rows[a]
                  ELSE [owner |-> op[c].scope, key |-> op[c].key,
                        content |-> op[c].content, deleted |-> FALSE]]
    /\ Committed(c, draft[c])
    /\ UNCHANGED clock

\* forget(): FALSE, and no change, for a row that is not there any more.
Forget(c, a) ==
    IF Live(a) /\ Reaches(op[c].scope, a)
    THEN rows' = [rows EXCEPT ![a].deleted = TRUE] /\ Committed(c, a)
    ELSE Finished(c) /\ UNCHANGED rows

\* A call that forgets the row it has read, whatever forget() answers.
Remove(c) ==
    /\ pc[c] = "remove"
    /\ Forget(c, held[c])
    /\ End(c)
    /\ UNCHANGED clock

\* delete_message() and delete_memory() forget a row by its id.
Delete(c, s, a) == Begin(c, Op("delete", s, NoKey, NoContent), a, "remove")

\* An exception or the end of the process: what is committed stays.
Break(c) ==
    /\ pc[c] # "idle"
    /\ End(c) /\ Finished(c)
    /\ UNCHANGED <<rows, clock>>

-----------------------------------------------------------------------------
Row == [owner : Scopes, key : Keys \cup {NoKey}, content : Contents \cup {NoContent}, deleted : BOOLEAN]

ListingTypeOK ==
    /\ dedups \in BOOLEAN
    /\ clock \in 0..MaxRows
    /\ DOMAIN rows \subseteq 1..clock /\ \A a \in DOMAIN rows : rows[a] \in Row
    /\ DOMAIN pc = Clients /\ DOMAIN op = Clients
    /\ held \in [Clients -> 0..clock] /\ draft \in [Clients -> 0..clock]
    /\ \A c \in Clients : draft[c] # 0 <=> pc[c] = "insert"
    /\ stale \subseteq Clients /\ quiet \subseteq Clients
    /\ saw \in [Clients -> SUBSET Stamps]
=============================================================================
